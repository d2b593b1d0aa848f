------------------------------ MODULE SlotPool ------------------------------
(***************************************************************************)
(* Registry request admission: pkg/registryopts/concurrency.go.            *)
(*                                                                         *)
(* Every registry request the process sends passes through                 *)
(* concurrencyTransport.RoundTrip, which takes a slot of one of two pools. *)
(* The destination pool is bounded by --jobs (or by the environment); the  *)
(* source pool is only counted.  A request that finds no free slot queues  *)
(* on a channel and sleeps until a slot is granted to it or its context is *)
(* cancelled; the two can happen at once, and the request that gives up    *)
(* must hand back a slot it was granted in the meantime.                   *)
(*                                                                         *)
(* A request here is one attempt: retries take a slot of their own.  An    *)
(* upload may be fed by the response body of a source read, which is       *)
(* opened before the upload is sent and closed after it ended.             *)
(***************************************************************************)
EXTENDS Integers, Sequences, FiniteSets, FiniteSetTheorems, TLAPS

CONSTANTS
    Requests,   \* the request attempts of the process
    RoleOf,     \* the role of the transport each request is sent over
    MethodOf,   \* its HTTP method
    Feed,       \* the source read whose body an upload streams, or NoFeed
    NoFeed,
    Jobs,       \* the --jobs values the commands may pass
    EnvLimits   \* the values IMG_REGISTRY_MAX_CONCURRENT_REQUESTS may have

PoolID == {"destination", "source"}

\* Role.pool: the pool a request's slot is taken from.
Pool(r) ==
    IF \/ RoleOf[r] = "source"
       \/ RoleOf[r] = "auto" /\ MethodOf[r] \in {"GET", "HEAD"}
    THEN "source" ELSE "destination"

ASSUME RequestsAssumption ==
    /\ IsFiniteSet(Requests)
    /\ RoleOf \in [Requests -> {"destination", "source", "auto"}]
    /\ MethodOf \in [Requests -> {"GET", "HEAD", "POST", "PUT", "PATCH"}]

ASSUME FeedAssumption ==
    /\ NoFeed \notin Requests
    /\ Feed \in [Requests -> Requests \cup {NoFeed}]
    /\ \A u \in Requests : Feed[u] # NoFeed =>
          Pool(Feed[u]) = "source" /\ MethodOf[Feed[u]] = "GET" /\ Feed[u] # u

ASSUME LimitAssumption == Jobs \subseteq Int /\ EnvLimits \subseteq Nat

VARIABLES
    envLimit,   \* whether the environment fixed the destination limit
    limit,      \* slots per pool, 0 for unlimited
    held,       \* slots in use
    waiters,    \* the queue of requests waiting for a slot, oldest first
    peak,       \* the highest value of held so far
    total,      \* requests admitted so far
    blocked,    \* requests that had to queue so far
    released,   \* whether a request's release function has run (sync.Once)
    pc          \* where each request is

poolVars == <<limit, held, waiters, peak, total, blocked>>
vars == <<envLimit, poolVars, released, pc>>

\* "granted": a slot was sent on the request's channel but it has not woken up.
\* "body": the round trip returned a body whose Close will free the slot.
States == {"idle", "queued", "granted", "inflight", "body", "done", "failed"}
Ended == {"done", "failed"}

-----------------------------------------------------------------------------
(***************************************************************************)
(* The pool's critical sections.                                           *)
(***************************************************************************)

\* newConcurrencyTracker and newSlotPool: the source pool is never bounded.
Init ==
    /\ envLimit \in BOOLEAN
    /\ \E n \in IF envLimit THEN EnvLimits ELSE {0} :
          limit = [p \in PoolID |-> IF p = "destination" THEN n ELSE 0]
    /\ held = [p \in PoolID |-> 0]
    /\ waiters = [p \in PoolID |-> << >>]
    /\ peak = [p \in PoolID |-> 0]
    /\ total = [p \in PoolID |-> 0]
    /\ blocked = [p \in PoolID |-> 0]
    /\ released = [r \in Requests |-> FALSE]
    /\ pc = [r \in Requests |-> "idle"]

\* hasCapacityLocked
HasCapacity(p) == limit[p] = 0 \/ held[p] < limit[p]

\* How many waiters the loop of grantLocked admits when the pool has limit l,
\* h slots in use and n waiters.
GrantCount(l, h, n) ==
    IF l = 0 \/ h + n <= l THEN n
    ELSE IF h >= l THEN 0 ELSE l - h

\* admitLocked, n times in a row from h slots in use.
Admit(p, h, n) ==
    /\ held' = [held EXCEPT ![p] = h + n]
    /\ total' = [total EXCEPT ![p] = @ + n]
    /\ peak' = [peak EXCEPT ![p] = IF n > 0 /\ h + n > @ THEN h + n ELSE @]

\* Faulty variant of Grant: serves the newest waiters first.
GrantNewestFirst(p, l, h, w, status) ==
    LET n == GrantCount(l, h, Len(w)) IN
    /\ Admit(p, h, n)
    /\ waiters' = [waiters EXCEPT ![p] = SubSeq(w, 1, Len(w) - n)]
    /\ pc' = [r \in Requests |->
                 IF \E i \in Len(w) - n + 1 .. Len(w) : w[i] = r
                 THEN "granted" ELSE status[r]]

\* grantLocked with limit l, h slots in use and queue w: the oldest waiters get
\* the free slots.  status is the requests' progress apart from these grants.
Grant(p, l, h, w, status) ==
    LET n == GrantCount(l, h, Len(w)) IN
    /\ Admit(p, h, n)
    /\ waiters' = [waiters EXCEPT ![p] = SubSeq(w, n + 1, Len(w))]
    /\ pc' = [r \in Requests |->
                 IF \E i \in 1..n : w[i] = r THEN "granted" ELSE status[r]]

\* Faulty variant of ReleaseLocked: frees the slot and wakes nobody.
ReleaseWithoutGrant(p, status) ==
    /\ held' = [held EXCEPT ![p] = @ - 1]
    /\ pc' = status
    /\ UNCHANGED <<waiters, peak, total>>

\* releaseLocked
ReleaseLocked(p, status) == Grant(p, limit[p], held[p] - 1, waiters[p], status)

\* The function releaser returns: the first call releases, the others do nothing.
Release(r, status) ==
    IF released[r]
    THEN pc' = status /\ UNCHANGED <<held, waiters, peak, total, released>>
    ELSE /\ released' = [released EXCEPT ![r] = TRUE]
         /\ ReleaseLocked(Pool(r), status)

-----------------------------------------------------------------------------
(***************************************************************************)
(* The steps of the process.                                               *)
(***************************************************************************)

\* LimitConcurrencyToJobs, then setLimit of the destination pool.
LimitToJobs(jobs) ==
    /\ ~envLimit /\ jobs > 0
    /\ limit' = [limit EXCEPT !["destination"] = jobs]
    /\ Grant("destination", jobs, held["destination"], waiters["destination"], pc)
    /\ UNCHANGED <<envLimit, blocked, released>>

\* RoundTrip calls acquire, up to the select.  An upload is only sent once the
\* body that feeds it is open.
Acquire(r) ==
    LET p == Pool(r) IN
    /\ pc[r] = "idle"
    /\ Feed[r] # NoFeed => pc[Feed[r]] = "body"
    /\ IF HasCapacity(p)
       THEN /\ Admit(p, held[p], 1)
            /\ pc' = [pc EXCEPT ![r] = "inflight"]
            /\ UNCHANGED <<waiters, blocked>>
       ELSE /\ waiters' = [waiters EXCEPT ![p] = Append(@, r)]
            /\ blocked' = [blocked EXCEPT ![p] = @ + 1]
            /\ pc' = [pc EXCEPT ![r] = "queued"]
            /\ UNCHANGED <<held, total, peak>>
    /\ UNCHANGED <<envLimit, limit, released>>

\* acquire's select receives the slot.
Wake(r) ==
    /\ pc[r] = "granted"
    /\ pc' = [pc EXCEPT ![r] = "inflight"]
    /\ UNCHANGED <<envLimit, poolVars, released>>

\* Faulty variants of Cancel: one forgets a slot granted while giving up, the
\* other stays in the queue.
CancelLosesGrant(r) ==
    /\ pc[r] \in {"queued", "granted"}
    /\ waiters' = [waiters EXCEPT ![Pool(r)] = SelectSeq(@, LAMBDA q : q # r)]
    /\ pc' = [pc EXCEPT ![r] = "failed"]
    /\ UNCHANGED <<envLimit, limit, held, peak, total, blocked, released>>
\* append(waiters[:i], waiters[i+1:]...) of dequeueLocked.
Dequeue(w, i) == SubSeq(w, 1, i - 1) \o SubSeq(w, i + 1, Len(w))

\* acquire's select takes ctx.Done() instead, although a slot may already be in
\* the channel: dequeueLocked reports whether the request was still waiting.
Cancel(r) ==
    LET p == Pool(r)
        status == [pc EXCEPT ![r] = "failed"]
    IN
    /\ pc[r] \in {"queued", "granted"}
    /\ \/ \E i \in 1..Len(waiters[p]) :
             /\ waiters[p][i] = r
             /\ waiters' = [waiters EXCEPT ![p] = Dequeue(@, i)]
             /\ pc' = status
             /\ UNCHANGED <<held, peak, total>>
       \/ /\ \A i \in 1..Len(waiters[p]) : waiters[p][i] # r
          /\ ReleaseLocked(p, status)
    /\ UNCHANGED <<envLimit, limit, blocked, released>>

\* holdsSlotUntilBodyClose for a 200 or 206 response with a body.
HoldsSlotUntilBodyClose(r) == Pool(r) = "source" /\ MethodOf[r] = "GET"

\* The inner round trip ends with an error, with a response that is not a
\* streamed body, or with one whose body keeps the slot.
RoundTrip(r, outcome) ==
    /\ pc[r] = "inflight"
    /\ IF outcome = "ok" /\ HoldsSlotUntilBodyClose(r)
       THEN /\ pc' = [pc EXCEPT ![r] = "body"]
            /\ UNCHANGED <<held, waiters, peak, total, released>>
       ELSE Release(r, [pc EXCEPT ![r] = IF outcome = "error" THEN "failed" ELSE "done"])
    /\ UNCHANGED <<envLimit, limit, blocked>>

\* releaseOnClose.Close.  The body outlives the upload it feeds; a caller may
\* close it again.
CloseBody(r) ==
    /\ HoldsSlotUntilBodyClose(r) /\ pc[r] \in {"body", "done"}
    /\ \A u \in Requests : Feed[u] = r => pc[u] \in {"idle"} \cup Ended
    /\ Release(r, [pc EXCEPT ![r] = "done"])
    /\ UNCHANGED <<envLimit, limit, blocked>>

Next ==
    \/ \E jobs \in Jobs : LimitToJobs(jobs)
    \/ \E r \in Requests :
          \/ Acquire(r)
          \/ Wake(r)
          \/ Cancel(r)
          \/ \E outcome \in {"ok", "other", "error"} : RoundTrip(r, outcome)
          \/ CloseBody(r)

\* A request that has its slot makes progress: the runtime schedules the woken
\* goroutine, the transport's timeouts end every round trip and go-cr closes
\* what it opens.  Nothing forces a request to start or to be cancelled.
Fairness ==
    \A r \in Requests :
        /\ WF_vars(Wake(r))
        /\ WF_vars(\E outcome \in {"ok", "other", "error"} : RoundTrip(r, outcome))
        /\ WF_vars(CloseBody(r))

Spec == Init /\ [][Next]_vars /\ Fairness

-----------------------------------------------------------------------------
Holders(p) ==
    {r \in Requests : Pool(r) = p /\ pc[r] \in {"granted", "inflight", "body"}}
Queued(p) == {r \in Requests : Pool(r) = p /\ pc[r] = "queued"}

TypeOK ==
    /\ envLimit \in BOOLEAN
    /\ limit \in [PoolID -> Nat]
    /\ held \in [PoolID -> Nat]
    /\ waiters \in [PoolID -> Seq(Requests)]
    /\ peak \in [PoolID -> Nat]
    /\ total \in [PoolID -> Nat]
    /\ blocked \in [PoolID -> Nat]
    /\ released \in [Requests -> BOOLEAN]
    /\ pc \in [Requests -> States]

\* Every slot in use belongs to exactly one live request: no interleaving of a
\* grant, a cancellation and a release leaks a slot or frees one twice.
SlotAccounting == \A p \in PoolID : held[p] = Cardinality(Holders(p))

\* No lost wake-up: while somebody queues, every slot of the pool is in use
\* (grantLocked runs wherever a slot or the limit may have become available).
NoLostWakeup ==
    \A p \in PoolID : waiters[p] # << >> => limit[p] # 0 /\ held[p] >= limit[p]

\* "reads are never throttled": a source request never sleeps in acquire, which
\* is what keeps a streaming copy from blocking on its own upload.
SourceNeverQueued ==
    \A r \in Requests : Pool(r) = "source" => pc[r] # "queued"

Before(p, r) ==
    {waiters[p][i] : i \in {j \in DOMAIN waiters[p] :
        \A k \in DOMAIN waiters[p] : waiters[p][k] = r => j < k}}

\* Within the limit and oldest first (grantLocked): setLimit interrupts nobody,
\* but from then on the pool grows only within the limit in force, and a request
\* is admitted only when nobody who queued before it is left in the queue.
AdmissionIsOrderly ==
    [][\A p \in PoolID :
          /\ held'[p] > held[p] => limit'[p] = 0 \/ held'[p] <= limit'[p]
          /\ \A r \in Holders(p)' \ Holders(p) : Before(p, r) \cap Queued(p)' = {}]_vars

Settled == \A r \in Requests : pc[r] \in Ended \cup {"idle"}

\* "the limit cannot deadlock the push": whoever asks for a slot gets one or
\* gives up, and gives it back, although uploads wait for reads and reads
\* outlive uploads.  (A request asks once, so in the end nobody is on the way.)
RequestsEnd == <>[]Settled

-----------------------------------------------------------------------------
(***************************************************************************)
(* Proofs about SlotPool for every finite set of requests, every routing   *)
(* of requests to pools and every limit: the slot accounting is exact, no  *)
(* wake-up is lost, reads are never throttled and the requests that wait   *)
(* are admitted in the order of their arrival.                             *)
(***************************************************************************)

Holding == {"granted", "inflight", "body"}

\* Holders and Queued for an arbitrary progress function s, so that they can be
\* evaluated in the middle of a critical section.
HoldersIn(s, p) == {r \in Requests : Pool(r) = p /\ s[r] \in Holding}

\* The queue w of pool p lists every request that is queued under s, once.
QueueOK(w, s, p) ==
    /\ w \in Seq(Requests)
    /\ \A i, j \in 1..Len(w) : w[i] = w[j] => i = j
    /\ \A r \in Requests :
          (Pool(r) = p /\ s[r] = "queued") <=> \E i \in 1..Len(w) : w[i] = r

\* A release function has run exactly for the requests that gave their slot back.
OnceOK ==
    \A r \in Requests :
        /\ released[r] => pc[r] \in Ended
        /\ pc[r] = "done" => released[r]

IInv ==
    /\ TypeOK
    /\ \A p \in PoolID : held[p] = Cardinality(HoldersIn(pc, p))
    /\ \A p \in PoolID : QueueOK(waiters[p], pc, p)
    /\ NoLostWakeup
    /\ OnceOK
    /\ limit["source"] = 0

-----------------------------------------------------------------------------
(***************************************************************************)
(* Facts about the helpers.                                                *)
(***************************************************************************)

\* Every request belongs to one of the two pools.
LEMMA PoolType == \A r \in Requests : Pool(r) \in PoolID
BY DEF Pool, PoolID

\* The holders of a pool are finitely many.
LEMMA HoldersFinite ==
    ASSUME NEW s, NEW p
    PROVE  /\ IsFiniteSet(HoldersIn(s, p))
           /\ Cardinality(HoldersIn(s, p)) \in Nat
<1>1. HoldersIn(s, p) \subseteq Requests
  BY Zenon DEF HoldersIn
<1> QED
  BY Zenon, <1>1, FS_Subset, FS_CardinalityType, RequestsAssumption

\* The tail that is left after n grants.
LEMMA TailFacts ==
    ASSUME NEW w \in Seq(Requests), NEW n \in 0..Len(w)
    PROVE  /\ SubSeq(w, n + 1, Len(w)) \in Seq(Requests)
           /\ Len(SubSeq(w, n + 1, Len(w))) = Len(w) - n
           /\ \A i \in 1..(Len(w) - n) : SubSeq(w, n + 1, Len(w))[i] = w[n + i]
OBVIOUS

\* Removing the element at position n of a queue.
LEMMA DequeueFacts ==
    ASSUME NEW w \in Seq(Requests), NEW n \in 1..Len(w)
    PROVE  /\ Dequeue(w, n) \in Seq(Requests)
           /\ Len(Dequeue(w, n)) = Len(w) - 1
           /\ \A i \in 1..(Len(w) - 1) :
                 Dequeue(w, n)[i] = IF i < n THEN w[i] ELSE w[i + 1]
<1> DEFINE a == SubSeq(w, 1, n - 1)
           b == SubSeq(w, n + 1, Len(w))
<1>1. a \in Seq(Requests) /\ Len(a) = n - 1 /\ \A i \in 1..(n - 1) : a[i] = w[i]
  OBVIOUS
<1>2. /\ b \in Seq(Requests)
      /\ Len(b) = Len(w) - n
      /\ \A i \in 1..(Len(w) - n) : b[i] = w[n + i]
  OBVIOUS
<1>3. Dequeue(w, n) = a \o b
  BY Zenon DEF Dequeue
<1> HIDE DEF a, b
<1>4. /\ a \o b \in Seq(Requests)
      /\ Len(a \o b) = Len(w) - 1
  <2>1. a \in Seq(Requests) /\ b \in Seq(Requests)
    BY Zenon, <1>1, <1>2
  <2>2. a \o b \in Seq(Requests) /\ Len(a \o b) = Len(a) + Len(b)
    BY <2>1
  <2>3. Len(a) + Len(b) = Len(w) - 1
    <3>1. Len(a) = n - 1 /\ Len(b) = Len(w) - n
      BY Zenon, <1>1, <1>2
    <3>2. Len(w) \in Nat /\ n \in Int
      OBVIOUS
    <3> QED
      BY <3>1, <3>2
  <2> QED
    BY Zenon, <2>2, <2>3
<1>5. ASSUME NEW i \in 1..(Len(w) - 1)
      PROVE  (a \o b)[i] = IF i < n THEN w[i] ELSE w[i + 1]
  <2>1. CASE i < n
    BY <1>1, <1>2, <2>1
  <2>2. CASE ~(i < n)
    <3>1. (a \o b)[i] = b[i - Len(a)]
      BY SMTT(30), <1>1, <1>2, <2>2
    <3>2. i - Len(a) \in 1..(Len(w) - n) /\ n + (i - Len(a)) = i + 1
      BY <1>1, <2>2
    <3> QED
      BY ZenonT(40), <1>2, <2>2, <3>1, <3>2
  <2> QED
    BY Zenon, <2>1, <2>2
<1> QED
  BY ZenonT(40), <1>3, <1>4, <1>5

\* grantLocked never admits more than the queue holds or the limit allows, and
\* stops only when the queue is empty or the pool is full.
LEMMA GrantCountFacts ==
    ASSUME NEW l \in Nat, NEW h \in Nat, NEW k \in Nat
    PROVE  LET n == GrantCount(l, h, k) IN
           /\ n \in 0..k
           /\ n < k => l # 0 /\ h + n >= l
           /\ n > 0 => l = 0 \/ h + n <= l
BY DEF GrantCount

\* The first n entries of a queue are n different requests.
LEMMA PrefixCardinality ==
    ASSUME NEW w \in Seq(Requests),
           \A i, j \in 1..Len(w) : w[i] = w[j] => i = j,
           NEW n \in 0..Len(w)
    PROVE  /\ IsFiniteSet({w[i] : i \in 1..n})
           /\ Cardinality({w[i] : i \in 1..n}) = n
<1> DEFINE S == {w[i] : i \in 1..n}
           f == [i \in 1..n |-> w[i]]
<1>1. f \in Bijection(1..n, S)
  BY DEF Bijection, Injection, Surjection, IsInjective
<1>2. ExistsBijection(1..n, S)
  BY Zenon, <1>1 DEF ExistsBijection
<1> QED
  BY <1>2, FS_NatBijection, FS_CountingElements

\* The places of a queue from which the first n requests were taken.
LEMMA ShiftedPlaces ==
    ASSUME NEW a \in Nat, NEW n \in 0..a
    PROVE  /\ \A i \in 1..(a - n) : n + i \in 1..a /\ n + i \notin 1..n
           /\ \A i, j \in 1..(a - n) : n + i = n + j => i = j
           /\ 1..n \subseteq 1..a
  OBVIOUS

\* The pools after grantLocked on p, from what requests are at by status.
Granted(p, l, status) ==
    /\ pc' \in [Requests -> States]
    /\ held' \in [PoolID -> Nat]
    /\ peak' \in [PoolID -> Nat]
    /\ total' \in [PoolID -> Nat]
    /\ waiters' \in [PoolID -> Seq(Requests)]
    /\ held'[p] = Cardinality(HoldersIn(pc', p))
    /\ QueueOK(waiters'[p], pc', p)
    /\ waiters'[p] # << >> => l # 0 /\ held'[p] >= l
    /\ \A q \in PoolID \ {p} : held'[q] = held[q] /\ waiters'[q] = waiters[q]
    /\ \A r \in Requests : pc'[r] # status[r] =>
          Pool(r) = p /\ status[r] = "queued" /\ pc'[r] = "granted"

\* What grantLocked establishes, whatever critical section calls it: from exact
\* accounting and an exact queue under status, it re-establishes both, and no
\* waiter is left behind while a slot is free.
LEMMA GrantFacts ==
    ASSUME TypeOK, NEW p \in PoolID, NEW l \in Nat, NEW h \in Nat,
           NEW status \in [Requests -> States],
           h = Cardinality(HoldersIn(status, p)),
           QueueOK(waiters[p], status, p),
           Grant(p, l, h, waiters[p], status)
    PROVE  Granted(p, l, status)
<1> DEFINE w == waiters[p]
           n == GrantCount(l, h, Len(w))
           G == {w[i] : i \in 1..n}
<1>0. w \in Seq(Requests) /\ Len(w) \in Nat
  BY DEF TypeOK
<1>1. n \in 0..Len(w) /\ (n < Len(w) => l # 0 /\ h + n >= l)
  BY Zenon, <1>0, GrantCountFacts
<1>2. /\ held' = [held EXCEPT ![p] = h + n]
      /\ total' = [total EXCEPT ![p] = @ + n]
      /\ peak' = [peak EXCEPT ![p] = IF n > 0 /\ h + n > @ THEN h + n ELSE @]
      /\ waiters' = [waiters EXCEPT ![p] = SubSeq(w, n + 1, Len(w))]
      /\ pc' = [r \in Requests |->
                   IF \E i \in 1..n : w[i] = r THEN "granted" ELSE status[r]]
  BY Zenon DEF Grant, Admit
<1> HIDE DEF n
<1>3. /\ SubSeq(w, n + 1, Len(w)) \in Seq(Requests)
      /\ Len(SubSeq(w, n + 1, Len(w))) = Len(w) - n
      /\ \A i \in 1..(Len(w) - n) : SubSeq(w, n + 1, Len(w))[i] = w[n + i]
  BY Zenon, <1>0, <1>1, TailFacts
<1>4. /\ held' \in [PoolID -> Nat]
      /\ peak' \in [PoolID -> Nat]
      /\ total' \in [PoolID -> Nat]
      /\ held'[p] = h + n
  <2>1. n \in Nat /\ h + n \in Nat
    BY <1>0, <1>1
  <2>2. held' \in [PoolID -> Nat] /\ held'[p] = h + n
    BY Zenon, <1>2, <2>1 DEF TypeOK
  <2>3. peak' \in [PoolID -> Nat]
    BY Zenon, <1>2, <2>1 DEF TypeOK
  <2>4. total' \in [PoolID -> Nat]
    <3>1. total \in [PoolID -> Nat]
      BY Zenon DEF TypeOK
    <3>2. total[p] + n \in Nat
      BY <2>1, <3>1
    <3> QED
      BY Zenon, <1>2, <3>1, <3>2
  <2> QED
    BY Zenon, <2>2, <2>3, <2>4
<1>5. /\ waiters' \in [PoolID -> Seq(Requests)]
      /\ waiters'[p] = SubSeq(w, n + 1, Len(w))
  BY Zenon, <1>2, <1>3 DEF TypeOK
<1>6. pc' \in [Requests -> States]
  BY Zenon, <1>2 DEF States
<1>7. /\ \A i, j \in 1..Len(w) : w[i] = w[j] => i = j
      /\ \A r \in Requests :
            (Pool(r) = p /\ status[r] = "queued") <=> \E i \in 1..Len(w) : w[i] = r
  BY Zenon DEF QueueOK
<1>8. \A r \in G : r \in Requests /\ Pool(r) = p /\ status[r] = "queued"
  BY <1>0, <1>1, <1>7
<1>9. \A r \in Requests : pc'[r] = IF r \in G THEN "granted" ELSE status[r]
  BY Zenon, <1>2
<1>10. held'[p] = Cardinality(HoldersIn(pc', p))
  <2>1. HoldersIn(pc', p) = HoldersIn(status, p) \cup G
    BY Zenon, <1>8, <1>9 DEF HoldersIn, Holding
  <2>2. HoldersIn(status, p) \cap G = {}
    BY Zenon, <1>8 DEF HoldersIn, Holding
  <2>3. IsFiniteSet(G) /\ Cardinality(G) = n
    BY Zenon, <1>0, <1>1, <1>7, PrefixCardinality
  <2>4. IsFiniteSet(HoldersIn(status, p))
    BY Zenon, HoldersFinite
  <2>5. Cardinality(HoldersIn(status, p) \cup G)
          = Cardinality(HoldersIn(status, p)) + Cardinality(G)
              - Cardinality(HoldersIn(status, p) \cap G)
    BY Zenon, <2>3, <2>4, FS_Union
  <2>6. Cardinality(HoldersIn(status, p) \cap G) = 0
    BY Zenon, <2>2, FS_EmptySet
  <2> QED
    BY <1>1, <1>4, <2>1, <2>3, <2>5, <2>6
<1>11. QueueOK(waiters'[p], pc', p)
  <2> DEFINE v == SubSeq(w, n + 1, Len(w))
  <2>1. v \in Seq(Requests) /\ Len(v) = Len(w) - n
        /\ \A i \in 1..Len(v) : v[i] = w[n + i]
    BY Zenon, <1>3
  <2> HIDE DEF v
  <2>2. /\ \A i \in 1..(Len(w) - n) : n + i \in 1..Len(w) /\ n + i \notin 1..n
        /\ \A i, j \in 1..(Len(w) - n) : n + i = n + j => i = j
        /\ 1..n \subseteq 1..Len(w)
    BY Zenon, <1>0, <1>1, ShiftedPlaces
  <2>3. \A i, j \in 1..Len(v) : v[i] = v[j] => i = j
    <3> SUFFICES ASSUME NEW i \in 1..Len(v), NEW j \in 1..Len(v), v[i] = v[j]
                 PROVE  i = j
      OBVIOUS
    <3>1. n + i \in 1..Len(w) /\ n + j \in 1..Len(w)
      BY Zenon, <2>1, <2>2
    <3>2. w[n + i] = w[n + j]
      BY Zenon, <2>1
    <3>3. n + i = n + j
      BY Zenon, <1>7, <3>1, <3>2
    <3> QED
      BY Zenon, <2>1, <2>2, <3>3
  <2>4. ASSUME NEW r \in Requests
        PROVE  (Pool(r) = p /\ pc'[r] = "queued") <=> \E i \in 1..Len(v) : v[i] = r
    <3>1. CASE r \in G
      <4>1. pc'[r] = "granted"
        BY Zenon, <1>9, <3>1
      <4>2. PICK k \in 1..n : w[k] = r
        BY Zenon, <3>1
      <4>3. ASSUME NEW i \in 1..Len(v), v[i] = r
            PROVE  FALSE
        <5>1. n + i \in 1..Len(w) /\ k \in 1..Len(w) /\ n + i # k
          BY Zenon, <2>1, <2>2, <4>2
        <5>2. w[n + i] = w[k]
          BY Zenon, <2>1, <4>2, <4>3
        <5> QED
          BY Zenon, <1>7, <5>1, <5>2
      <4> QED
        BY Zenon, <4>1, <4>3
    <3>2. CASE r \notin G
      <4>1. pc'[r] = status[r]
        BY Zenon, <1>9, <3>2
      <4>2. (\E i \in 1..Len(w) : w[i] = r) <=> \E i \in 1..Len(v) : v[i] = r
        <5>1. ASSUME NEW i \in 1..Len(w), w[i] = r
              PROVE  \E k \in 1..Len(v) : v[k] = r
          <6>1. i \notin 1..n
            BY Zenon, <3>2, <5>1
          <6>2. i - n \in 1..Len(v) /\ n + (i - n) = i
            BY <1>0, <1>1, <2>1, <6>1
          <6> QED
            BY Zenon, <2>1, <5>1, <6>2
        <5>2. ASSUME NEW k \in 1..Len(v), v[k] = r
              PROVE  \E i \in 1..Len(w) : w[i] = r
          <6>1. n + k \in 1..Len(w)
            BY Zenon, <2>1, <2>2
          <6> QED
            BY Zenon, <2>1, <5>2, <6>1
        <5> QED
          BY Zenon, <5>1, <5>2
      <4> QED
        BY Zenon, <1>7, <4>1, <4>2
    <3> QED
      BY Zenon, <3>1, <3>2
  <2>5. waiters'[p] = v
    BY Zenon, <1>5 DEF v
  <2>6. QueueOK(v, pc', p)
    BY Zenon, <2>1, <2>3, <2>4 DEF QueueOK
  <2> QED
    BY Zenon, <2>5, <2>6
<1>12. waiters'[p] # << >> => l # 0 /\ held'[p] >= l
  <2>1. ASSUME waiters'[p] # << >>
        PROVE  n < Len(w)
    BY <1>0, <1>1, <1>3, <1>5, <2>1
  <2> QED
    BY Zenon, <1>1, <1>4, <2>1
<1>13. \A q \in PoolID \ {p} : held'[q] = held[q] /\ waiters'[q] = waiters[q]
  BY Zenon, <1>2 DEF TypeOK
<1>14. \A r \in Requests : pc'[r] # status[r] =>
          Pool(r) = p /\ status[r] = "queued" /\ pc'[r] = "granted"
  BY Zenon, <1>8, <1>9
<1> QED
  BY Zenon, <1>4, <1>5, <1>6, <1>10, <1>11, <1>12, <1>13, <1>14 DEF Granted

\* A queue stays exact under any step that neither queues nor unqueues.
LEMMA QueueOKSame ==
    ASSUME NEW w, NEW s, NEW t, NEW p, QueueOK(w, s, p),
           \A r \in Requests : Pool(r) = p => (s[r] = "queued" <=> t[r] = "queued")
    PROVE  QueueOK(w, t, p)
BY DEF QueueOK

\* The holders of a pool only depend on the progress of its own requests.
LEMMA HoldersSame ==
    ASSUME NEW s, NEW t, NEW p,
           \A r \in Requests : Pool(r) = p => (s[r] \in Holding <=> t[r] \in Holding)
    PROVE  HoldersIn(s, p) = HoldersIn(t, p)
BY DEF HoldersIn

\* One request of pool p stops holding its slot.
LEMMA HolderLeaves ==
    ASSUME NEW s \in [Requests -> States], NEW r \in Requests, NEW e \in Ended,
           s[r] \in Holding
    PROVE  /\ Cardinality(HoldersIn([s EXCEPT ![r] = e], Pool(r)))
                = Cardinality(HoldersIn(s, Pool(r))) - 1
           /\ Cardinality(HoldersIn(s, Pool(r))) - 1 \in Nat
<1> DEFINE H == HoldersIn(s, Pool(r))
           K == HoldersIn([s EXCEPT ![r] = e], Pool(r))
<1>1. K = H \ {r} /\ r \in H
  BY Zenon DEF HoldersIn, Holding, Ended
<1>2. IsFiniteSet(H) /\ IsFiniteSet(K) /\ Cardinality(H) \in Nat /\ Cardinality(K) \in Nat
  BY Zenon, HoldersFinite
<1>3. Cardinality(H \ {r}) = Cardinality(H) - 1
  BY Zenon, <1>1, <1>2, FS_RemoveElement
<1> QED
  BY Zenon, <1>1, <1>2, <1>3

\* The slot of a request that holds one goes back to the pool and is handed on:
\* the pool part of the invariant holds again.
LEMMA ReleaseLockedFacts ==
    ASSUME IInv, NEW r \in Requests, NEW e \in Ended, pc[r] \in Holding,
           ReleaseLocked(Pool(r), [pc EXCEPT ![r] = e]), UNCHANGED limit
    PROVE  /\ pc' \in [Requests -> States]
           /\ held' \in [PoolID -> Nat]
           /\ peak' \in [PoolID -> Nat]
           /\ total' \in [PoolID -> Nat]
           /\ waiters' \in [PoolID -> Seq(Requests)]
           /\ \A p \in PoolID : held'[p] = Cardinality(HoldersIn(pc', p))
           /\ \A p \in PoolID : QueueOK(waiters'[p], pc', p)
           /\ NoLostWakeup'
           /\ pc'[r] = e
           /\ \A s \in Requests \ {r} : 
                 pc'[s] = pc[s] \/ (pc'[s] = "granted" /\ pc[s] = "queued")
<1> DEFINE p == Pool(r)
           status == [pc EXCEPT ![r] = e]
<1>1. p \in PoolID /\ TypeOK /\ status \in [Requests -> States] /\ limit[p] \in Nat
  BY Zenon, PoolType DEF IInv, TypeOK, Ended, States
<1>2. /\ held[p] - 1 \in Nat
      /\ held[p] - 1 = Cardinality(HoldersIn(status, p))
  <2>1. held[p] = Cardinality(HoldersIn(pc, p)) /\ pc \in [Requests -> States]
    BY Zenon, <1>1 DEF IInv, TypeOK
  <2>2. /\ Cardinality(HoldersIn(status, p)) = Cardinality(HoldersIn(pc, p)) - 1
        /\ Cardinality(HoldersIn(pc, p)) - 1 \in Nat
    BY Zenon, <2>1, HolderLeaves
  <2> QED
    BY Zenon, <2>1, <2>2
<1>3. QueueOK(waiters[p], status, p)
  <2>1. \A s \in Requests : pc[s] = "queued" <=> status[s] = "queued"
    BY Zenon DEF IInv, TypeOK, Ended, Holding
  <2> QED
    BY Zenon, <1>1, <2>1, QueueOKSame DEF IInv
<1>4. Grant(p, limit[p], held[p] - 1, waiters[p], status)
  BY Zenon DEF ReleaseLocked
<1> HIDE DEF status
<1>5. /\ pc' \in [Requests -> States]
      /\ held' \in [PoolID -> Nat]
      /\ peak' \in [PoolID -> Nat]
      /\ total' \in [PoolID -> Nat]
      /\ waiters' \in [PoolID -> Seq(Requests)]
      /\ held'[p] = Cardinality(HoldersIn(pc', p))
      /\ QueueOK(waiters'[p], pc', p)
      /\ waiters'[p] # << >> => limit[p] # 0 /\ held'[p] >= limit[p]
      /\ \A q \in PoolID \ {p} : held'[q] = held[q] /\ waiters'[q] = waiters[q]
      /\ \A s \in Requests : pc'[s] # status[s] =>
            Pool(s) = p /\ status[s] = "queued" /\ pc'[s] = "granted"
  <2>1. Granted(p, limit[p], status)
    BY Zenon, <1>1, <1>2, <1>3, <1>4, GrantFacts
  <2> QED
    BY Zenon, <2>1 DEF Granted
<1>6. status[r] = e /\ \A s \in Requests \ {r} : status[s] = pc[s]
  BY Zenon DEF status, IInv, TypeOK
<1>7. pc'[r] = e
  BY Zenon, <1>5, <1>6 DEF Ended
<1>8. \A s \in Requests \ {r} : 
                 pc'[s] = pc[s] \/ (pc'[s] = "granted" /\ pc[s] = "queued")
  BY Zenon, <1>5, <1>6
<1>9. ASSUME NEW q \in PoolID, q # p
      PROVE  /\ held'[q] = Cardinality(HoldersIn(pc', q))
             /\ QueueOK(waiters'[q], pc', q)
  <2>1. \A s \in Requests : Pool(s) = q => pc'[s] = pc[s]
    BY Zenon, <1>5, <1>6, <1>9
  <2>2. HoldersIn(pc', q) = HoldersIn(pc, q)
    BY <2>1, HoldersSame
  <2>3. QueueOK(waiters[q], pc', q)
    BY Zenon, <2>1, QueueOKSame DEF IInv
  <2> QED
    BY Zenon, <1>5, <1>9, <2>2, <2>3 DEF IInv
<1>10. NoLostWakeup'
  <2> SUFFICES ASSUME NEW q \in PoolID, waiters'[q] # << >>
               PROVE  limit'[q] # 0 /\ held'[q] >= limit'[q]
    BY Zenon DEF NoLostWakeup
  <2>1. limit'[q] = limit[q]
    OBVIOUS
  <2>2. CASE q = p
    BY Zenon, <1>5, <2>1, <2>2
  <2>3. CASE q # p
    <3>1. held'[q] = held[q] /\ waiters'[q] = waiters[q]
      BY Zenon, <1>5, <2>3
    <3>2. limit[q] # 0 /\ held[q] >= limit[q]
      BY Zenon, <3>1 DEF IInv, NoLostWakeup
    <3> QED
      BY Zenon, <2>1, <3>1, <3>2
  <2> QED
    BY Zenon, <2>2, <2>3
<1> QED
  BY Zenon, <1>5, <1>7, <1>8, <1>9, <1>10

\* Release calls made while the request holds its slot, and those that come later.
LEMMA ReleaseFacts ==
    ASSUME IInv, NEW r \in Requests, NEW e \in Ended,
           pc[r] \in {"inflight", "body"} \/ (pc[r] = "done" /\ e = "done"),
           Release(r, [pc EXCEPT ![r] = e]),
           UNCHANGED <<envLimit, limit, blocked>>
    PROVE  IInv'
<1>1. CASE pc[r] = "done" /\ e = "done"
  <2>1. released[r]
    BY Zenon, <1>1 DEF IInv, OnceOK
  <2>2. pc' = pc /\ UNCHANGED <<held, waiters, peak, total, released>>
    BY ZenonT(40), <1>1, <2>1 DEF Release, IInv, TypeOK
  <2> QED
    <3>1. TypeOK' /\ NoLostWakeup' /\ OnceOK'
      BY Zenon, <2>2 DEF IInv, TypeOK, NoLostWakeup, OnceOK
    <3>2. \A p \in PoolID : held'[p] = Cardinality(HoldersIn(pc', p)) /\ QueueOK(waiters'[p], pc', p)
      BY Zenon, <2>2 DEF IInv
    <3> QED
      BY Zenon, <3>1, <3>2 DEF IInv
<1>2. CASE pc[r] \in {"inflight", "body"}
  <2>1. ~released[r]
    BY Zenon, <1>2 DEF IInv, OnceOK, Ended
  <2>2. /\ released' = [released EXCEPT ![r] = TRUE]
        /\ ReleaseLocked(Pool(r), [pc EXCEPT ![r] = e])
    BY Zenon, <2>1 DEF Release
  <2>3. pc[r] \in Holding
    BY Zenon, <1>2 DEF Holding
  <2>4. /\ pc' \in [Requests -> States]
        /\ held' \in [PoolID -> Nat]
        /\ peak' \in [PoolID -> Nat]
        /\ total' \in [PoolID -> Nat]
        /\ waiters' \in [PoolID -> Seq(Requests)]
        /\ \A p \in PoolID : held'[p] = Cardinality(HoldersIn(pc', p))
        /\ \A p \in PoolID : QueueOK(waiters'[p], pc', p)
        /\ NoLostWakeup'
        /\ pc'[r] = e
        /\ \A s \in Requests \ {r} :
              pc'[s] = pc[s] \/ (pc'[s] = "granted" /\ pc[s] = "queued")
    BY Zenon, <2>2, <2>3, ReleaseLockedFacts
  <2>5. TypeOK'
    BY Zenon, <2>2, <2>4 DEF IInv, TypeOK
  <2>6. OnceOK'
    BY Zenon, <2>2, <2>4 DEF IInv, TypeOK, OnceOK, Ended
  <2> QED
    BY Zenon, <2>4, <2>5, <2>6 DEF IInv
<1> QED
  BY Zenon, <1>1, <1>2

-----------------------------------------------------------------------------
(***************************************************************************)
(* The invariant.                                                          *)
(***************************************************************************)

LEMMA InitIInv == Init => IInv
<1> SUFFICES ASSUME Init
             PROVE  IInv
  OBVIOUS
<1>1. TypeOK
  BY LimitAssumption DEF Init, TypeOK, States, PoolID
<1>2. ASSUME NEW p \in PoolID
      PROVE  held[p] = Cardinality(HoldersIn(pc, p))
  <2>1. HoldersIn(pc, p) = {}
    BY Zenon DEF Init, HoldersIn, Holding
  <2> QED
    BY Zenon, <2>1, FS_EmptySet DEF Init
<1>3. ASSUME NEW p \in PoolID
      PROVE  QueueOK(waiters[p], pc, p)
  <2>1. waiters[p] = << >>
    BY Zenon DEF Init
  <2>2. \A r \in Requests : pc[r] # "queued"
    BY Zenon DEF Init
  <2> QED
    BY <2>1, <2>2 DEF QueueOK
<1>4. NoLostWakeup
  BY Zenon DEF Init, NoLostWakeup
<1>5. OnceOK
  BY Zenon DEF Init, OnceOK
<1>6. limit["source"] = 0
  BY Zenon DEF Init, PoolID
<1> QED
  BY Zenon, <1>1, <1>2, <1>3, <1>4, <1>5, <1>6 DEF IInv

\* setLimit keeps the invariant: requests in flight stay, waiters are admitted.
LEMMA LimitToJobsIInv ==
    ASSUME IInv, NEW jobs \in Jobs, LimitToJobs(jobs)
    PROVE  IInv'
<1> DEFINE d == "destination"
<1>1. d \in PoolID /\ TypeOK /\ jobs \in Nat /\ held[d] \in Nat
  BY LimitAssumption DEF LimitToJobs, PoolID, IInv, TypeOK
<1>2. /\ pc \in [Requests -> States]
      /\ held[d] = Cardinality(HoldersIn(pc, d))
      /\ QueueOK(waiters[d], pc, d)
      /\ Grant(d, jobs, held[d], waiters[d], pc)
      /\ limit' = [limit EXCEPT ![d] = jobs]
      /\ UNCHANGED <<envLimit, blocked, released>>
  BY Zenon, <1>1 DEF LimitToJobs, IInv, TypeOK
<1> HIDE DEF d
<1>3. /\ pc' \in [Requests -> States]
      /\ held' \in [PoolID -> Nat]
      /\ peak' \in [PoolID -> Nat]
      /\ total' \in [PoolID -> Nat]
      /\ waiters' \in [PoolID -> Seq(Requests)]
      /\ held'[d] = Cardinality(HoldersIn(pc', d))
      /\ QueueOK(waiters'[d], pc', d)
      /\ waiters'[d] # << >> => jobs # 0 /\ held'[d] >= jobs
      /\ \A q \in PoolID \ {d} : held'[q] = held[q] /\ waiters'[q] = waiters[q]
      /\ \A r \in Requests : pc'[r] # pc[r] =>
            Pool(r) = d /\ pc[r] = "queued" /\ pc'[r] = "granted"
  <2>1. Granted(d, jobs, pc)
    BY Zenon, <1>1, <1>2, GrantFacts
  <2> QED
    BY Zenon, <2>1 DEF Granted
<1>4. limit' \in [PoolID -> Nat] /\ limit'[d] = jobs /\ limit'["source"] = 0
  BY Zenon, <1>1, <1>2 DEF IInv, TypeOK, PoolID, d
<1>5. TypeOK'
  BY Zenon, <1>2, <1>3, <1>4 DEF IInv, TypeOK
<1>6. ASSUME NEW q \in PoolID, q # d
      PROVE  /\ held'[q] = Cardinality(HoldersIn(pc', q))
             /\ QueueOK(waiters'[q], pc', q)
             /\ waiters'[q] # << >> => limit'[q] # 0 /\ held'[q] >= limit'[q]
  <2>1. \A r \in Requests : Pool(r) = q => pc'[r] = pc[r]
    BY Zenon, <1>3, <1>6
  <2>2. HoldersIn(pc', q) = HoldersIn(pc, q)
    BY ZenonT(40), <2>1, HoldersSame
  <2>3. QueueOK(waiters[q], pc', q)
    BY Zenon, <2>1, QueueOKSame DEF IInv
  <2>4. limit'[q] = limit[q]
    BY Zenon, <1>1, <1>2, <1>6 DEF TypeOK
  <2>5. held'[q] = held[q] /\ waiters'[q] = waiters[q]
    BY Zenon, <1>3, <1>6
  <2> QED
    BY Zenon, <2>2, <2>3, <2>4, <2>5 DEF IInv, NoLostWakeup
<1>7. NoLostWakeup'
  BY Zenon, <1>3, <1>4, <1>6 DEF NoLostWakeup
<1>8. OnceOK'
  <2>1. OnceOK /\ released' = released
    BY Zenon, <1>2 DEF IInv
  <2>2. \A r \in Requests : pc'[r] = pc[r] \/ (pc[r] = "queued" /\ pc'[r] = "granted")
    BY Zenon, <1>3
  <2> QED
    BY Zenon, <2>1, <2>2 DEF OnceOK, Ended
<1> QED
  BY Zenon, <1>3, <1>4, <1>5, <1>6, <1>7, <1>8 DEF IInv

\* acquire keeps the invariant: it takes a slot only if one is free and queues
\* only if none is.
LEMMA AcquireIInv ==
    ASSUME IInv, NEW r \in Requests, Acquire(r)
    PROVE  IInv'
<1> DEFINE p == Pool(r)
           H == HoldersIn(pc, p)
<1>1. p \in PoolID /\ TypeOK /\ pc[r] = "idle" /\ ~released[r]
      /\ held[p] \in Nat /\ limit[p] \in Nat /\ waiters[p] \in Seq(Requests)
  BY Zenon, PoolType DEF IInv, TypeOK, Acquire, OnceOK, Ended
<1>2. UNCHANGED <<envLimit, limit, released>>
  BY Zenon DEF Acquire
<1>3. CASE HasCapacity(p)
  <2>1. /\ held' = [held EXCEPT ![p] = held[p] + 1]
        /\ total' = [total EXCEPT ![p] = @ + 1]
        /\ peak' = [peak EXCEPT ![p] = IF held[p] + 1 > @ THEN held[p] + 1 ELSE @]
        /\ pc' = [pc EXCEPT ![r] = "inflight"]
        /\ UNCHANGED <<waiters, blocked>>
    BY <1>3 DEF Acquire, Admit
  <2>2. TypeOK'
    BY <1>1, <1>2, <2>1 DEF TypeOK, States
  <2>3. waiters[p] = << >>
    BY <1>1, <1>3 DEF IInv, NoLostWakeup, HasCapacity
  <2>4. held'[p] = Cardinality(HoldersIn(pc', p))
    <3>1. HoldersIn(pc', p) = H \cup {r} /\ r \notin H
      BY Zenon, <1>1, <2>1 DEF HoldersIn, Holding, TypeOK
    <3>2. IsFiniteSet(H)
      BY Zenon, HoldersFinite
    <3>3. Cardinality(H \cup {r}) = Cardinality(H) + 1
      BY Zenon, <3>1, <3>2, FS_AddElement
    <3> QED
      BY Zenon, <1>1, <2>1, <3>1, <3>3 DEF IInv, TypeOK
  <2>5. \A q \in PoolID \ {p} : held'[q] = Cardinality(HoldersIn(pc', q))
    <3> SUFFICES ASSUME NEW q \in PoolID, q # p
                 PROVE  held'[q] = Cardinality(HoldersIn(pc', q))
      OBVIOUS
    <3>1. HoldersIn(pc', q) = HoldersIn(pc, q)
      BY Zenon, <1>1, <2>1 DEF HoldersIn, TypeOK
    <3> QED
      BY Zenon, <1>1, <2>1, <3>1 DEF IInv, TypeOK
  <2>6. \A q \in PoolID : QueueOK(waiters'[q], pc', q)
    <3>1. \A s \in Requests : pc[s] = "queued" <=> pc'[s] = "queued"
      BY Zenon, <1>1, <2>1 DEF TypeOK
    <3> QED
      BY Zenon, <2>1, <3>1, QueueOKSame DEF IInv
  <2>7. NoLostWakeup'
    BY Zenon, <1>1, <1>2, <2>1, <2>3 DEF IInv, TypeOK, NoLostWakeup
  <2>8. OnceOK'
    BY Zenon, <1>1, <1>2, <2>1 DEF IInv, TypeOK, OnceOK, Ended
  <2> QED
    BY Zenon, <1>2, <2>2, <2>4, <2>5, <2>6, <2>7, <2>8 DEF IInv
<1>4. CASE ~HasCapacity(p)
  <2>1. /\ waiters' = [waiters EXCEPT ![p] = Append(waiters[p], r)]
        /\ blocked' = [blocked EXCEPT ![p] = @ + 1]
        /\ pc' = [pc EXCEPT ![r] = "queued"]
        /\ UNCHANGED <<held, total, peak>>
    BY Zenon, <1>4 DEF Acquire
  <2>2. TypeOK'
    BY SMTT(30), <1>1, <1>2, <2>1 DEF TypeOK, States
  <2>3. \A q \in PoolID : held'[q] = Cardinality(HoldersIn(pc', q))
    <3>1. \A s \in Requests : pc[s] \in Holding <=> pc'[s] \in Holding
      BY Zenon, <1>1, <2>1 DEF TypeOK, Holding
    <3>2. \A q \in PoolID : HoldersIn(pc', q) = HoldersIn(pc, q)
      BY <3>1, HoldersSame
    <3> QED
      BY Zenon, <2>1, <3>2 DEF IInv
  <2>4. QueueOK(waiters'[p], pc', p)
    <3> DEFINE w == waiters[p]
               v == Append(waiters[p], r)
    <3>1. /\ v \in Seq(Requests) /\ Len(v) = Len(w) + 1 /\ Len(w) \in Nat
          /\ v[Len(w) + 1] = r
          /\ \A i \in 1..Len(w) : v[i] = w[i]
      BY <1>1
    <3>2. waiters'[p] = v
      BY Zenon, <1>1, <2>1 DEF TypeOK
    <3>3. \A i \in 1..Len(w) : w[i] # r
      BY Zenon, <1>1 DEF IInv, QueueOK
    <3>4. \A i, j \in 1..Len(w) : w[i] = w[j] => i = j
      BY Zenon, <1>1 DEF IInv, QueueOK
    <3>5. \A s \in Requests :
             (Pool(s) = p /\ pc[s] = "queued") <=> \E i \in 1..Len(w) : w[i] = s
      BY Zenon, <1>1 DEF IInv, QueueOK
    <3> HIDE DEF v, w
    <3>6. \A i, j \in 1..Len(v) : v[i] = v[j] => i = j
      BY <3>1, <3>3, <3>4
    <3>7. ASSUME NEW s \in Requests
          PROVE  (Pool(s) = p /\ pc'[s] = "queued") <=> \E i \in 1..Len(v) : v[i] = s
      <4>1. CASE s = r
        <5>1. pc'[s] = "queued" /\ Pool(s) = p
          BY Zenon, <1>1, <2>1, <4>1 DEF TypeOK
        <5>2. Len(w) + 1 \in 1..Len(v) /\ v[Len(w) + 1] = s
          BY <3>1, <4>1
        <5> QED
          BY Zenon, <5>1, <5>2
      <4>2. CASE s # r
        <5>1. pc'[s] = pc[s]
          BY Zenon, <1>1, <2>1, <4>2 DEF TypeOK
        <5>2. (\E i \in 1..Len(v) : v[i] = s) <=> \E i \in 1..Len(w) : w[i] = s
          BY <3>1, <4>2
        <5> QED
          BY Zenon, <3>5, <5>1, <5>2
      <4> QED
        BY Zenon, <4>1, <4>2
    <3> QED
      BY <3>1, <3>2, <3>6, <3>7 DEF QueueOK
  <2>5. \A q \in PoolID \ {p} : QueueOK(waiters'[q], pc', q)
    <3> SUFFICES ASSUME NEW q \in PoolID, q # p
                 PROVE  QueueOK(waiters'[q], pc', q)
      OBVIOUS
    <3>1. \A s \in Requests : Pool(s) = q => (pc[s] = "queued" <=> pc'[s] = "queued")
      BY Zenon, <1>1, <2>1 DEF TypeOK
    <3>2. waiters'[q] = waiters[q]
      BY Zenon, <1>1, <2>1 DEF TypeOK
    <3> QED
      BY Zenon, <3>1, <3>2, QueueOKSame DEF IInv
  <2>6. NoLostWakeup'
    <3>1. limit[p] # 0 /\ held[p] >= limit[p]
      BY <1>1, <1>4 DEF HasCapacity
    <3>2. \A q \in PoolID \ {p} : waiters'[q] = waiters[q]
      BY Zenon, <1>1, <2>1 DEF TypeOK
    <3> QED
      BY Zenon, <1>2, <2>1, <3>1, <3>2 DEF IInv, NoLostWakeup
  <2>7. OnceOK'
    BY Zenon, <1>1, <1>2, <2>1 DEF IInv, TypeOK, OnceOK, Ended
  <2> QED
    BY Zenon, <1>2, <2>2, <2>3, <2>4, <2>5, <2>6, <2>7 DEF IInv
<1> QED
  BY Zenon, <1>3, <1>4

\* Waking up moves a request that already holds its slot.
LEMMA WakeIInv ==
    ASSUME IInv, NEW r \in Requests, Wake(r)
    PROVE  IInv'
<1>1. /\ TypeOK /\ pc[r] = "granted" /\ ~released[r]
      /\ pc' = [pc EXCEPT ![r] = "inflight"]
      /\ UNCHANGED <<envLimit, limit, held, waiters, peak, total, blocked, released>>
  BY Zenon DEF Wake, poolVars, IInv, OnceOK, Ended
<1>2. TypeOK'
  BY Zenon, <1>1 DEF TypeOK, States
<1>3. \A s \in Requests : /\ pc[s] \in Holding <=> pc'[s] \in Holding
                          /\ pc[s] = "queued" <=> pc'[s] = "queued"
  BY Zenon, <1>1 DEF TypeOK, Holding
<1>4. \A q \in PoolID : held'[q] = Cardinality(HoldersIn(pc', q))
  <2>1. \A q \in PoolID : HoldersIn(pc', q) = HoldersIn(pc, q)
    BY <1>3, HoldersSame
  <2> QED
    BY Zenon, <1>1, <2>1 DEF IInv
<1>5. \A q \in PoolID : QueueOK(waiters'[q], pc', q)
  BY ZenonT(40), <1>1, <1>3, QueueOKSame DEF IInv
<1>6. NoLostWakeup'
  BY Zenon, <1>1 DEF IInv, NoLostWakeup
<1>7. OnceOK'
  BY Zenon, <1>1 DEF IInv, TypeOK, OnceOK, Ended
<1> QED
  BY Zenon, <1>1, <1>2, <1>4, <1>5, <1>6, <1>7 DEF IInv

\* Giving up keeps the invariant: a request that still waits leaves the queue, one
\* that was granted a slot in the meantime hands it on.
LEMMA CancelIInv ==
    ASSUME IInv, NEW r \in Requests, Cancel(r)
    PROVE  IInv'
<1> DEFINE p == Pool(r)
           w == waiters[p]
           status == [pc EXCEPT ![r] = "failed"]
<1>1. /\ p \in PoolID /\ TypeOK /\ w \in Seq(Requests) /\ Len(w) \in Nat
      /\ pc[r] \in {"queued", "granted"} /\ ~released[r]
      /\ UNCHANGED <<envLimit, limit, blocked, released>>
  <2>1. p \in PoolID /\ TypeOK
    BY Zenon, PoolType DEF IInv
  <2>2. w \in Seq(Requests) /\ Len(w) \in Nat
    BY <2>1 DEF TypeOK
  <2>3. /\ pc[r] \in {"queued", "granted"}
        /\ UNCHANGED <<envLimit, limit, blocked, released>>
    BY Zenon DEF Cancel
  <2>4. ~released[r]
    BY Zenon, <2>3 DEF IInv, OnceOK, Ended
  <2> QED
    BY Zenon, <2>1, <2>2, <2>3, <2>4
<1>2. /\ \A i, j \in 1..Len(w) : w[i] = w[j] => i = j
      /\ \A s \in Requests :
            (Pool(s) = p /\ pc[s] = "queued") <=> \E i \in 1..Len(w) : w[i] = s
  BY Zenon, <1>1 DEF IInv, QueueOK
<1>3. CASE \E i \in 1..Len(w) : w[i] = r
  <2>1. PICK i \in 1..Len(w) :
           /\ w[i] = r
           /\ waiters' = [waiters EXCEPT ![p] = Dequeue(w, i)]
           /\ pc' = status
           /\ UNCHANGED <<held, peak, total>>
    BY Zenon, <1>3 DEF Cancel
  <2> DEFINE v == Dequeue(w, i)
  <2>2. /\ v \in Seq(Requests)
        /\ Len(v) = Len(w) - 1
        /\ \A k \in 1..(Len(w) - 1) : v[k] = IF k < i THEN w[k] ELSE w[k + 1]
    BY Zenon, <1>1, DequeueFacts
  <2>3. pc[r] = "queued"
    BY Zenon, <1>2, <2>1
  <2> HIDE DEF v
  <2>4. waiters' \in [PoolID -> Seq(Requests)] /\ waiters'[p] = v
        /\ \A q \in PoolID \ {p} : waiters'[q] = waiters[q]
    BY Zenon, <1>1, <2>1, <2>2 DEF TypeOK, v
  <2>5. TypeOK'
    BY Zenon, <1>1, <2>1, <2>4 DEF TypeOK, States
  <2>6. \A q \in PoolID : held'[q] = Cardinality(HoldersIn(pc', q))
    <3>1. \A s \in Requests : pc[s] \in Holding <=> pc'[s] \in Holding
      BY Zenon, <1>1, <2>1, <2>3 DEF TypeOK, Holding
    <3>2. \A q \in PoolID : HoldersIn(pc', q) = HoldersIn(pc, q)
      BY SMTT(30), <3>1, HoldersSame
    <3> QED
      BY Zenon, <2>1, <3>2 DEF IInv
  <2>7. QueueOK(v, pc', p)
    <3> HIDE DEF w
    <3>1. \A k, j \in 1..Len(v) : v[k] = v[j] => k = j
      BY <1>1, <1>2, <2>2
    <3>2. ASSUME NEW s \in Requests
          PROVE  (Pool(s) = p /\ pc'[s] = "queued") <=> \E k \in 1..Len(v) : v[k] = s
      <4>1. CASE s = r
        <5>1. pc'[s] = "failed"
          BY Zenon, <1>1, <2>1, <4>1 DEF TypeOK
        <5>2. \A k \in 1..Len(v) : v[k] # r
          BY <1>1, <1>2, <2>1, <2>2
        <5> QED
          BY Zenon, <4>1, <5>1, <5>2
      <4>2. CASE s # r
        <5>1. pc'[s] = pc[s]
          BY Zenon, <1>1, <2>1, <4>2 DEF TypeOK
        <5>2. ASSUME NEW k \in 1..Len(v), v[k] = s
              PROVE  \E j \in 1..Len(w) : w[j] = s
          <6>1. k \in 1..Len(w) /\ k + 1 \in 1..Len(w)
            BY <1>1, <2>2
          <6> QED
            BY Zenon, <2>2, <5>2, <6>1
        <5>3. ASSUME NEW j \in 1..Len(w), w[j] = s
              PROVE  \E k \in 1..Len(v) : v[k] = s
          <6>1. CASE j < i
            <7>1. j \in 1..Len(v) /\ v[j] = w[j]
              BY <1>1, <2>2, <6>1
            <7> QED
              BY Zenon, <5>3, <7>1
          <6>2. CASE j > i
            <7>1. j - 1 \in 1..Len(v) /\ v[j - 1] = w[j]
              BY <1>1, <2>2, <6>2
            <7> QED
              BY Zenon, <5>3, <7>1
          <6>3. j # i
            BY Zenon, <2>1, <4>2, <5>3
          <6> QED
            BY <1>1, <6>1, <6>2, <6>3
        <5> QED
          BY Zenon, <1>2, <5>1, <5>2, <5>3
      <4> QED
        BY Zenon, <4>1, <4>2
    <3> QED
      BY Zenon, <2>2, <3>1, <3>2 DEF QueueOK
  <2>8. \A q \in PoolID \ {p} : QueueOK(waiters'[q], pc', q)
    <3> SUFFICES ASSUME NEW q \in PoolID, q # p
                 PROVE  QueueOK(waiters'[q], pc', q)
      OBVIOUS
    <3>1. \A s \in Requests : Pool(s) = q => (pc[s] = "queued" <=> pc'[s] = "queued")
      BY Zenon, <1>1, <2>1 DEF TypeOK
    <3> QED
      BY Zenon, <2>4, <3>1, QueueOKSame DEF IInv
  <2>9. NoLostWakeup'
    <3>1. w # << >>
      BY SMTT(30), <1>1
    <3>2. limit[p] # 0 /\ held[p] >= limit[p]
      BY Zenon, <1>1, <3>1 DEF IInv, NoLostWakeup
    <3> QED
      BY Zenon, <1>1, <2>1, <2>4, <3>2 DEF IInv, NoLostWakeup
  <2>10. OnceOK'
    BY Zenon, <1>1, <2>1 DEF IInv, TypeOK, OnceOK, Ended
  <2> QED
    BY Zenon, <1>1, <2>4, <2>5, <2>6, <2>7, <2>8, <2>9, <2>10 DEF IInv
<1>4. CASE \A i \in 1..Len(w) : w[i] # r
  <2>1. ReleaseLocked(p, status) /\ "failed" \in Ended
    BY Zenon, <1>4 DEF Cancel, Ended
  <2>2. pc[r] \in Holding
    BY Zenon, <1>1, <1>2, <1>4 DEF Holding
  <2>3. /\ pc' \in [Requests -> States]
        /\ held' \in [PoolID -> Nat]
        /\ peak' \in [PoolID -> Nat]
        /\ total' \in [PoolID -> Nat]
        /\ waiters' \in [PoolID -> Seq(Requests)]
        /\ \A q \in PoolID : held'[q] = Cardinality(HoldersIn(pc', q))
        /\ \A q \in PoolID : QueueOK(waiters'[q], pc', q)
        /\ NoLostWakeup'
        /\ pc'[r] = "failed"
        /\ \A s \in Requests \ {r} :
              pc'[s] = pc[s] \/ (pc'[s] = "granted" /\ pc[s] = "queued")
    BY Zenon, <1>1, <2>1, <2>2, ReleaseLockedFacts
  <2>4. TypeOK'
    BY Zenon, <1>1, <2>3 DEF TypeOK
  <2>5. OnceOK'
    BY Zenon, <1>1, <2>3 DEF IInv, OnceOK, Ended
  <2> QED
    BY Zenon, <1>1, <2>3, <2>4, <2>5 DEF IInv
<1> QED
  BY Zenon, <1>3, <1>4

\* The end of a round trip keeps the invariant.
LEMMA RoundTripIInv ==
    ASSUME IInv, NEW r \in Requests, NEW outcome \in {"ok", "other", "error"},
           RoundTrip(r, outcome)
    PROVE  IInv'
<1>1. TypeOK /\ pc[r] = "inflight" /\ ~released[r]
      /\ UNCHANGED <<envLimit, limit, blocked>>
  BY Zenon DEF IInv, RoundTrip, OnceOK, Ended
<1>2. CASE outcome = "ok" /\ HoldsSlotUntilBodyClose(r)
  <2>1. /\ pc' = [pc EXCEPT ![r] = "body"]
        /\ UNCHANGED <<held, waiters, peak, total, released>>
    BY Zenon, <1>2 DEF RoundTrip
  <2>2. TypeOK'
    BY Zenon, <1>1, <2>1 DEF TypeOK, States
  <2>3. \A s \in Requests : /\ pc[s] \in Holding <=> pc'[s] \in Holding
                            /\ pc[s] = "queued" <=> pc'[s] = "queued"
    BY Zenon, <1>1, <2>1 DEF TypeOK, Holding
  <2>4. \A q \in PoolID : held'[q] = Cardinality(HoldersIn(pc', q))
    <3>1. \A q \in PoolID : HoldersIn(pc', q) = HoldersIn(pc, q)
      BY <2>3, HoldersSame
    <3> QED
      BY Zenon, <2>1, <3>1 DEF IInv
  <2>5. \A q \in PoolID : QueueOK(waiters'[q], pc', q)
    BY Zenon, <2>1, <2>3, QueueOKSame DEF IInv
  <2>6. NoLostWakeup'
    BY Zenon, <1>1, <2>1 DEF IInv, NoLostWakeup
  <2>7. OnceOK'
    BY Zenon, <1>1, <2>1 DEF IInv, TypeOK, OnceOK, Ended
  <2> QED
    BY Zenon, <1>1, <2>1, <2>2, <2>4, <2>5, <2>6, <2>7 DEF IInv
<1>3. CASE ~(outcome = "ok" /\ HoldsSlotUntilBodyClose(r))
  <2> DEFINE e == IF outcome = "error" THEN "failed" ELSE "done"
  <2>1. Release(r, [pc EXCEPT ![r] = e])
    BY Zenon, <1>3 DEF RoundTrip
  <2>2. e \in Ended
    BY Zenon DEF Ended
  <2> HIDE DEF e
  <2> QED
    BY Zenon, <1>1, <2>1, <2>2, ReleaseFacts
<1> QED
  BY Zenon, <1>2, <1>3

\* Closing a body, for the first time or again, keeps the invariant.
LEMMA CloseBodyIInv ==
    ASSUME IInv, NEW r \in Requests, CloseBody(r)
    PROVE  IInv'
<1>1. /\ pc[r] \in {"inflight", "body"} \/ (pc[r] = "done" /\ "done" = "done")
      /\ "done" \in Ended
      /\ Release(r, [pc EXCEPT ![r] = "done"])
      /\ UNCHANGED <<envLimit, limit, blocked>>
  BY Zenon DEF CloseBody, Ended
<1> QED
  BY Zenon, <1>1, ReleaseFacts

\* Every step of the process keeps the invariant.
LEMMA NextIInv == IInv /\ [Next]_vars => IInv'
<1> SUFFICES ASSUME IInv, [Next]_vars
             PROVE  IInv'
  OBVIOUS
<1>1. ASSUME NEW jobs \in Jobs, LimitToJobs(jobs)
      PROVE  IInv'
  BY Zenon, <1>1, LimitToJobsIInv
<1>2. ASSUME NEW r \in Requests, Acquire(r)
      PROVE  IInv'
  BY Zenon, <1>2, AcquireIInv
<1>3. ASSUME NEW r \in Requests, Wake(r)
      PROVE  IInv'
  BY Zenon, <1>3, WakeIInv
<1>4. ASSUME NEW r \in Requests, Cancel(r)
      PROVE  IInv'
  BY Zenon, <1>4, CancelIInv
<1>5. ASSUME NEW r \in Requests, NEW outcome \in {"ok", "other", "error"},
             RoundTrip(r, outcome)
      PROVE  IInv'
  BY Zenon, <1>5, RoundTripIInv
<1>6. ASSUME NEW r \in Requests, CloseBody(r)
      PROVE  IInv'
  BY Zenon, <1>6, CloseBodyIInv
<1>7. CASE UNCHANGED vars
  BY <1>7 DEF vars, poolVars, IInv, TypeOK, NoLostWakeup, OnceOK, HoldersIn, QueueOK
<1> QED
  BY Zenon, <1>1, <1>2, <1>3, <1>4, <1>5, <1>6, <1>7 DEF Next

\* The inductive invariant holds in every reachable state.
THEOREM Invariance == Spec => []IInv
BY InitIInv, NextIInv, PTL DEF Spec

\* The variables keep their types whatever the requests, roles and limits are.
THEOREM TypeCorrect == Spec => []TypeOK
<1>1. IInv => TypeOK
  BY Zenon DEF IInv
<1> QED
  BY <1>1, Invariance, PTL

\* The slots in use are exactly those of the requests that hold one: no sequence
\* of grants, cancellations, failed round trips and body closes leaks a slot or
\* frees one twice.
THEOREM AccountingIsExact == Spec => []SlotAccounting
<1>1. IInv => SlotAccounting
  <2>1. \A p \in PoolID : Holders(p) = HoldersIn(pc, p)
    BY Zenon DEF Holders, HoldersIn, Holding
  <2> QED
    BY Zenon, <2>1 DEF IInv, SlotAccounting
<1> QED
  BY <1>1, Invariance, PTL

\* grantLocked is called wherever it has to be: nobody sleeps beside a free slot.
THEOREM NoWakeupIsLost == Spec => []NoLostWakeup
<1>1. IInv => NoLostWakeup
  BY Zenon DEF IInv
<1> QED
  BY <1>1, Invariance, PTL

\* No request of the source pool ever sleeps, whatever --jobs is.
THEOREM ReadsAreNeverThrottled == Spec => []SourceNeverQueued
<1>1. IInv => SourceNeverQueued
  <2> SUFFICES ASSUME IInv, NEW r \in Requests, Pool(r) = "source", pc[r] = "queued"
               PROVE  FALSE
    BY Zenon DEF SourceNeverQueued
  <2>1. "source" \in PoolID
    BY Zenon DEF PoolID
  <2>2. \E i \in 1..Len(waiters["source"]) : waiters["source"][i] = r
    BY <2>1 DEF IInv, QueueOK
  <2>3. waiters["source"] # << >>
    BY <2>2
  <2> QED
    BY Zenon, <2>1, <2>3 DEF IInv, NoLostWakeup
<1> QED
  BY <1>1, Invariance, PTL
-----------------------------------------------------------------------------
(***************************************************************************)
(* The order of admission.                                                 *)
(***************************************************************************)

\* What AdmissionIsOrderly says of one step and one pool.
Orderly(p) ==
    /\ held'[p] > held[p] => limit'[p] = 0 \/ held'[p] <= limit'[p]
    /\ \A r \in Holders(p)' \ Holders(p) : Before(p, r) \cap Queued(p)' = {}

\* A step that admits nobody is orderly.
LEMMA QuietIsOrderly ==
    ASSUME TypeOK, NEW p \in PoolID, held'[p] = held[p],
           \A r \in Requests : Pool(r) = p /\ pc'[r] \in Holding => pc[r] \in Holding
    PROVE  Orderly(p)
<1>1. Holders(p)' \ Holders(p) = {}
  BY Zenon DEF Holders, Holding
<1>2. held[p] \in Nat
  BY Zenon DEF TypeOK
<1> QED
  BY <1>1, <1>2 DEF Orderly

\* grantLocked is orderly whatever critical section calls it: it admits a prefix
\* of the queue, so whoever queued before an admitted request is admitted too.
LEMMA GrantIsOrderly ==
    ASSUME TypeOK, NEW p \in PoolID, NEW l \in Nat, NEW h \in Nat,
           NEW status \in [Requests -> States],
           QueueOK(waiters[p], status, p),
           Grant(p, l, h, waiters[p], status),
           h <= held[p], limit'[p] = l,
           \A r \in Requests : status[r] \in Holding => pc[r] \in Holding
    PROVE  \A q \in PoolID : Orderly(q)
<1> DEFINE w == waiters[p]
           n == GrantCount(l, h, Len(w))
           G == {w[i] : i \in 1..n}
<1>0. w \in Seq(Requests) /\ Len(w) \in Nat /\ held[p] \in Nat
  BY DEF TypeOK
<1>1. n \in 0..Len(w) /\ (n > 0 => l = 0 \/ h + n <= l)
  BY Zenon, <1>0, GrantCountFacts
<1>2. /\ held' = [held EXCEPT ![p] = h + n]
      /\ pc' = [r \in Requests |->
                   IF \E i \in 1..n : w[i] = r THEN "granted" ELSE status[r]]
  BY Zenon DEF Grant, Admit
<1> HIDE DEF n
<1>3. \A r \in Requests : pc'[r] = IF r \in G THEN "granted" ELSE status[r]
  BY Zenon, <1>2
<1>4. \A r \in G : r \in Requests /\ Pool(r) = p
  BY SMTT(30), <1>0, <1>1 DEF QueueOK
<1>5. ASSUME NEW q \in PoolID, q # p
      PROVE  Orderly(q)
  <2>1. held'[q] = held[q]
    BY Zenon, <1>2, <1>5 DEF TypeOK
  <2>2. \A r \in Requests : Pool(r) = q /\ pc'[r] \in Holding => pc[r] \in Holding
    BY Zenon, <1>3, <1>4, <1>5
  <2> QED
    BY Zenon, <2>1, <2>2, QuietIsOrderly
<1>6. Orderly(p)
  <2>1. held'[p] > held[p] => l = 0 \/ held'[p] <= l
    <3>1. held'[p] = h + n
      BY Zenon, <1>2 DEF TypeOK
    <3> QED
      BY <1>0, <1>1, <3>1
  <2>2. ASSUME NEW r \in Holders(p)' \ Holders(p)
        PROVE  Before(p, r) \cap Queued(p)' = {}
    <3>1. r \in Requests /\ Pool(r) = p /\ pc'[r] \in Holding /\ pc[r] \notin Holding
      BY Zenon, <2>2 DEF Holders, Holding
    <3>2. r \in G
      BY Zenon, <1>3, <3>1
    <3>3. PICK k \in 1..n : w[k] = r
      BY Zenon, <3>2
    <3>4. k \in DOMAIN w /\ k \in Int
      BY SMTT(30), <1>0, <1>1
    <3>5. \A j \in DOMAIN w : j < k => w[j] \in G
      BY SMTT(30), <1>0, <1>1, <3>4
    <3>6. Before(p, r) \subseteq G
      BY Zenon, <3>3, <3>4, <3>5 DEF Before
    <3>7. \A s \in Queued(p)' : s \in Requests /\ pc'[s] = "queued"
      BY Zenon DEF Queued
    <3>8. \A s \in G : pc'[s] = "granted"
      BY Zenon, <1>3, <1>4
    <3> QED
      BY Zenon, <3>6, <3>7, <3>8
  <2> QED
    BY Zenon, <2>1, <2>2 DEF Orderly
<1> QED
  BY Zenon, <1>5, <1>6

\* A slot that is given back is handed on in order.
LEMMA ReleaseLockedIsOrderly ==
    ASSUME IInv, NEW r \in Requests, NEW e \in Ended, pc[r] \in Holding,
           ReleaseLocked(Pool(r), [pc EXCEPT ![r] = e]), UNCHANGED limit
    PROVE  \A q \in PoolID : Orderly(q)
<1> DEFINE p == Pool(r)
           status == [pc EXCEPT ![r] = e]
<1>1. /\ p \in PoolID /\ TypeOK /\ status \in [Requests -> States]
      /\ limit[p] \in Nat /\ held[p] \in Nat
  BY Zenon, PoolType DEF IInv, TypeOK, Ended, States
<1>2. held[p] - 1 \in Nat
  BY Zenon, <1>1, HolderLeaves DEF IInv, TypeOK
<1>3. \A s \in Requests : /\ pc[s] = "queued" <=> status[s] = "queued"
                          /\ status[s] \in Holding => pc[s] \in Holding
  BY Zenon DEF IInv, TypeOK, Ended, Holding
<1>4. QueueOK(waiters[p], status, p)
  BY Zenon, <1>1, <1>3, QueueOKSame DEF IInv
<1>5. Grant(p, limit[p], held[p] - 1, waiters[p], status)
  BY Zenon DEF ReleaseLocked
<1>6. held[p] - 1 <= held[p] /\ limit'[p] = limit[p]
  BY <1>1
<1> HIDE DEF status, p
<1> QED
  BY Zenon, <1>1, <1>2, <1>3, <1>4, <1>5, <1>6, GrantIsOrderly

\* So is every call of a release function, the first one and the later ones.
LEMMA ReleaseIsOrderly ==
    ASSUME IInv, NEW r \in Requests, NEW e \in Ended, pc[r] \in Holding \cup Ended,
           Release(r, [pc EXCEPT ![r] = e]), released[r] \/ pc[r] \in Holding,
           UNCHANGED limit
    PROVE  \A q \in PoolID : Orderly(q)
<1>1. CASE released[r]
  <2>1. pc' = [pc EXCEPT ![r] = e] /\ UNCHANGED held
    BY Zenon, <1>1 DEF Release
  <2>2. \A s \in Requests : pc'[s] \in Holding => pc[s] \in Holding
    BY Zenon, <2>1 DEF IInv, TypeOK, Ended, Holding
  <2> QED
    BY Zenon, <2>1, <2>2, QuietIsOrderly DEF IInv
<1>2. CASE ~released[r]
  BY Zenon, <1>2, ReleaseLockedIsOrderly DEF Release
<1> QED
  BY Zenon, <1>1, <1>2

\* acquire admits at once only when the queue is empty and a slot is free.
LEMMA AcquireIsOrderly ==
    ASSUME IInv, NEW r \in Requests, Acquire(r)
    PROVE  \A q \in PoolID : Orderly(q)
<1> DEFINE p == Pool(r)
<1>1. p \in PoolID /\ TypeOK /\ held[p] \in Nat /\ limit[p] \in Nat /\ UNCHANGED limit
  BY Zenon, PoolType DEF IInv, TypeOK, Acquire
<1>2. CASE HasCapacity(p)
  <2>1. held' = [held EXCEPT ![p] = held[p] + 1] /\ pc' = [pc EXCEPT ![r] = "inflight"]
    BY Zenon, <1>2 DEF Acquire, Admit
  <2>2. waiters[p] = << >>
    BY <1>1, <1>2 DEF IInv, NoLostWakeup, HasCapacity
  <2>3. ASSUME NEW q \in PoolID, q # p
        PROVE  Orderly(q)
    <3>1. held'[q] = held[q]
      BY Zenon, <1>1, <2>1, <2>3 DEF TypeOK
    <3>2. \A s \in Requests : Pool(s) = q /\ pc'[s] \in Holding => pc[s] \in Holding
      BY Zenon, <1>1, <2>1, <2>3 DEF TypeOK
    <3> QED
      BY Zenon, <1>1, <3>1, <3>2, QuietIsOrderly
  <2>4. Orderly(p)
    <3>1. limit'[p] = 0 \/ held'[p] <= limit'[p]
      BY <1>1, <1>2, <2>1 DEF HasCapacity, TypeOK
    <3>2. \A s : Before(p, s) = {}
      BY SMTT(30), <2>2 DEF Before
    <3> QED
      BY Zenon, <3>1, <3>2 DEF Orderly
  <2> QED
    BY Zenon, <2>3, <2>4
<1>3. CASE ~HasCapacity(p)
  <2>1. UNCHANGED held /\ pc' = [pc EXCEPT ![r] = "queued"]
    BY Zenon, <1>3 DEF Acquire
  <2>2. \A s \in Requests : pc'[s] \in Holding => pc[s] \in Holding
    BY Zenon, <1>1, <2>1 DEF TypeOK, Holding
  <2> QED
    BY Zenon, <1>1, <2>1, <2>2, QuietIsOrderly
<1> QED
  BY Zenon, <1>2, <1>3

\* Giving up admits nobody, or hands a granted slot on in order.
LEMMA CancelIsOrderly ==
    ASSUME IInv, NEW r \in Requests, Cancel(r)
    PROVE  \A q \in PoolID : Orderly(q)
<1> DEFINE p == Pool(r)
           status == [pc EXCEPT ![r] = "failed"]
<1>1. TypeOK /\ p \in PoolID /\ UNCHANGED limit /\ pc[r] \in {"queued", "granted"}
  BY Zenon, PoolType DEF IInv, Cancel
<1>2. CASE \E i \in 1..Len(waiters[p]) : waiters[p][i] = r
  <2>1. UNCHANGED held /\ pc' = status
    BY Zenon, <1>2 DEF Cancel
  <2>2. \A s \in Requests : pc'[s] \in Holding => pc[s] \in Holding
    BY Zenon, <1>1, <2>1 DEF TypeOK, Holding
  <2> QED
    BY Zenon, <1>1, <2>1, <2>2, QuietIsOrderly
<1>3. CASE \A i \in 1..Len(waiters[p]) : waiters[p][i] # r
  <2>1. ReleaseLocked(p, status) /\ "failed" \in Ended
    BY Zenon, <1>3 DEF Cancel, Ended
  <2>2. pc[r] # "queued"
    BY <1>1, <1>3 DEF IInv, QueueOK
  <2>3. pc[r] \in Holding
    BY Zenon, <1>1, <2>2 DEF Holding
  <2> QED
    BY Zenon, <1>1, <2>1, <2>3, ReleaseLockedIsOrderly
<1> QED
  BY Zenon, <1>2, <1>3

\* The end of a round trip keeps its slot or gives it back in order.
LEMMA RoundTripIsOrderly ==
    ASSUME IInv, NEW r \in Requests, NEW outcome \in {"ok", "other", "error"},
           RoundTrip(r, outcome)
    PROVE  \A q \in PoolID : Orderly(q)
<1>1. TypeOK /\ pc[r] = "inflight" /\ UNCHANGED limit /\ pc[r] \in Holding
  BY Zenon DEF IInv, RoundTrip, Holding
<1>2. CASE outcome = "ok" /\ HoldsSlotUntilBodyClose(r)
  <2>1. pc' = [pc EXCEPT ![r] = "body"] /\ UNCHANGED held
    BY Zenon, <1>2 DEF RoundTrip
  <2>2. \A s \in Requests : pc'[s] \in Holding => pc[s] \in Holding
    BY Zenon, <1>1, <2>1 DEF TypeOK, Holding
  <2> QED
    BY Zenon, <1>1, <2>1, <2>2, QuietIsOrderly
<1>3. CASE ~(outcome = "ok" /\ HoldsSlotUntilBodyClose(r))
  <2> DEFINE e == IF outcome = "error" THEN "failed" ELSE "done"
  <2>1. Release(r, [pc EXCEPT ![r] = e])
    BY Zenon, <1>3 DEF RoundTrip
  <2>2. e \in Ended
    BY Zenon DEF Ended
  <2> HIDE DEF e
  <2> QED
    BY Zenon, <1>1, <2>1, <2>2, ReleaseIsOrderly
<1> QED
  BY Zenon, <1>2, <1>3

\* Every step is orderly in both pools.
LEMMA NextIsOrderly ==
    ASSUME IInv, Next
    PROVE  \A q \in PoolID : Orderly(q)
<1>1. TypeOK
  BY Zenon DEF IInv
<1>2. ASSUME NEW jobs \in Jobs, LimitToJobs(jobs)
      PROVE  \A q \in PoolID : Orderly(q)
  <2> DEFINE d == "destination"
  <2>1. /\ d \in PoolID /\ jobs \in Nat /\ held[d] \in Nat
        /\ pc \in [Requests -> States]
        /\ QueueOK(waiters[d], pc, d)
        /\ Grant(d, jobs, held[d], waiters[d], pc)
        /\ limit'[d] = jobs
        /\ held[d] <= held[d]
    BY <1>2, LimitAssumption DEF LimitToJobs, PoolID, IInv, TypeOK
  <2> HIDE DEF d
  <2> QED
    BY Zenon, <1>1, <2>1, GrantIsOrderly
<1>3. ASSUME NEW r \in Requests, Wake(r)
      PROVE  \A q \in PoolID : Orderly(q)
  <2>1. pc' = [pc EXCEPT ![r] = "inflight"] /\ pc[r] = "granted" /\ UNCHANGED held
    BY Zenon, <1>3 DEF Wake, poolVars
  <2>2. \A s \in Requests : pc'[s] \in Holding => pc[s] \in Holding
    BY Zenon, <1>1, <2>1 DEF TypeOK, Holding
  <2> QED
    BY Zenon, <1>1, <2>1, <2>2, QuietIsOrderly
<1>4. ASSUME NEW r \in Requests, CloseBody(r)
      PROVE  \A q \in PoolID : Orderly(q)
  <2>1. /\ pc[r] \in {"body", "done"} /\ "done" \in Ended /\ UNCHANGED limit
        /\ Release(r, [pc EXCEPT ![r] = "done"])
    BY Zenon, <1>4 DEF CloseBody, Ended
  <2>2. pc[r] \in Holding \cup Ended /\ (released[r] \/ pc[r] \in Holding)
    BY Zenon, <2>1 DEF IInv, OnceOK, Holding, Ended
  <2> QED
    BY Zenon, <2>1, <2>2, ReleaseIsOrderly
<1> QED
  BY Zenon, <1>2, <1>3, <1>4, AcquireIsOrderly, CancelIsOrderly, RoundTripIsOrderly DEF Next

\* Within the limit in force and oldest first, whatever the requests, the pools
\* and the limits are: setLimit, release and cancellation all admit in the order
\* of the queue, and acquire passes nobody who waits.
THEOREM AdmissionIsInOrder == Spec => AdmissionIsOrderly
<1> DEFINE A == \A p \in PoolID :
          /\ held'[p] > held[p] => limit'[p] = 0 \/ held'[p] <= limit'[p]
          /\ \A r \in Holders(p)' \ Holders(p) : Before(p, r) \cap Queued(p)' = {}
<1>1. IInv /\ [Next]_vars => [A]_vars
  <2> SUFFICES ASSUME IInv, Next
               PROVE  A
    OBVIOUS
  <2> QED
    BY Zenon, NextIsOrderly DEF Orderly
<1> QED
  BY <1>1, Invariance, PTL DEF Spec, AdmissionIsOrderly
=============================================================================
