---------------------------- MODULE GatewayFleet ----------------------------
(***************************************************************************)
(* The instances of a serving deployment, what each believes about the     *)
(* blobs of an upstream registry, and how they tell each other:            *)
(* pkg/serve/gateway/gateway.go (forward, rememberBlob, forgetDeletedBlob) *)
(* and replication.go.                                                     *)
(*                                                                         *)
(* A request is forwarded, answered by the registry, and applied to the    *)
(* cache when its answer is back: three steps, and other requests, events  *)
(* and donations come between them.  The cache of an instance is what is   *)
(* left of the deadline of each entry, 0 for a blob it holds no live entry *)
(* for; the order in which entries are evicted is ExistenceShard's.        *)
(*                                                                         *)
(* A fact under way (an answer, an event, a donated entry) takes at most   *)
(* MaxLag ticks for one leg of its way.                                    *)
(***************************************************************************)
EXTENDS Integers, Sequences, FiniteSets

CONSTANTS
    Gateways,     \* the instances of the deployment
    Clients,      \* requests in flight at the same time
    Blobs,        \* keys of the cache: a blob in a repository
    Ops,          \* the kinds of request clients send
    TTL,          \* blobExistenceCache.ttl in ticks
    MaxLag,       \* replicationSendTimeout, donationTimeout, the way of an answer
    QueueDepth,   \* replicationQueueDepth
    BatchSize,    \* ReplicationConfig.BatchSize
    MaxInFlight,  \* replicationMaxInFlight
    MaxDonations, \* maxConcurrentDonations
    MaxRequests,  \* bound on the requests of a behaviour
    MaxSnapshots  \* bound on the donations of a behaviour

ASSUME FleetAssumption ==
    /\ {TTL, QueueDepth, BatchSize, MaxInFlight} \subseteq Nat \ {0}
    /\ {MaxLag, MaxDonations, MaxRequests, MaxSnapshots} \subseteq Nat
    /\ Ops \subseteq {"head", "read", "upload", "delete"}
    /\ IsFiniteSet(Gateways)

VARIABLES
    upstream,  \* the blobs the registry holds
    cache,     \* blobExistenceCache of each instance: ticks left of each entry
    req,       \* the request each client has in flight
    queue,     \* CacheReplication.events
    pending,   \* batch: the events taken off the queue
    flights,   \* CacheReplication.inflight: the batches being sent
    warmup,    \* warmUp: the donation each instance is reading
    requests,  \* requests sent so far
    snapshots, \* donations so far
    gone,      \* history: ticks since each blob left the registry
    erased,    \* history: blobs whose delete the registry has confirmed
    purged     \* history: blobs whose delete an instance has forwarded and that
               \* have not been back in the registry since

replicationVars == <<queue, pending, flights>>
vars == <<upstream, cache, req, replicationVars, warmup, requests, snapshots, gone, erased, purged>>

Slots == 1 .. MaxInFlight
NoRequest == [stage |-> "none"]
NoFlight == [events |-> <<>>, todo |-> {}]
NoDonation == [stage |-> "done", donor |-> {}, entries |-> [b \in Blobs |-> 0], age |-> 0]

\* The longest an entry may outlive its blob: its TTL, an answer and an event
\* that were each MaxLag on their way, and as much for every donation.
Horizon == TTL + (2 + MaxSnapshots) * MaxLag

AtMost(n, bound) == IF n < bound THEN n ELSE bound
Elements(s) == {s[i] : i \in DOMAIN s}

Init ==
    /\ upstream = {}
    /\ cache = [g \in Gateways |-> [b \in Blobs |-> 0]]
    /\ req = [c \in Clients |-> NoRequest]
    /\ queue = [g \in Gateways |-> <<>>]
    /\ pending = [g \in Gateways |-> <<>>]
    /\ flights = [g \in Gateways |-> [s \in Slots |-> NoFlight]]
    /\ warmup = [g \in Gateways |-> NoDonation]
    /\ requests = 0
    /\ snapshots = 0
    /\ gone = [b \in Blobs |-> Horizon + 1]
    /\ erased = {}
    /\ purged = [g \in Gateways |-> {}]

------------------------------------------------------------------------------
(* Time *)

Aged(events) == [i \in DOMAIN events |-> [events[i] EXCEPT !.age = @ + 1]]
InTime(events) == \A e \in Elements(events) : e.age < MaxLag

Tick ==
    /\ \A c \in Clients : req[c].stage = "answered" => req[c].age < MaxLag
    /\ \A g \in Gateways :
          /\ InTime(queue[g]) /\ InTime(pending[g])
          /\ \A s \in Slots : InTime(flights[g][s].events)
          /\ warmup[g].stage = "reading" => warmup[g].age < MaxLag
    /\ cache' = [g \in Gateways |-> [b \in Blobs |-> IF cache[g][b] = 0 THEN 0 ELSE cache[g][b] - 1]]
    /\ gone' = [b \in Blobs |-> IF b \in upstream THEN 0 ELSE AtMost(gone[b] + 1, Horizon + 1)]
    /\ req' = [c \in Clients |-> IF req[c].stage = "answered" THEN [req[c] EXCEPT !.age = @ + 1] ELSE req[c]]
    /\ queue' = [g \in Gateways |-> Aged(queue[g])]
    /\ pending' = [g \in Gateways |-> Aged(pending[g])]
    /\ flights' = [g \in Gateways |-> [s \in Slots |-> [flights[g][s] EXCEPT !.events = Aged(@)]]]
    /\ warmup' = [g \in Gateways |-> IF warmup[g].stage = "reading" THEN [warmup[g] EXCEPT !.age = @ + 1] ELSE warmup[g]]
    /\ UNCHANGED <<upstream, requests, snapshots, erased, purged>>

------------------------------------------------------------------------------
(* The registry *)

\* The registry collects a blob behind the gateway's back.
CollectUpstream(b) ==
    /\ b \in upstream
    /\ upstream' = upstream \ {b}
    /\ UNCHANGED <<cache, req, replicationVars, warmup, requests, snapshots, gone, erased, purged>>

\* What the registry makes of a request for b, and whether b is there afterwards:
\* "ok" is the answer rememberBlob and forgetDeletedBlob act on, "other" any
\* answer they do not (a status they do not name, or a digest that is missing or
\* another one), and "none" an answer that never comes.
Answers(op, present) ==
    [head   |-> {<<IF present THEN "ok" ELSE "other", present>>, <<"none", present>>},
     read   |-> (IF present THEN {"ok", "other", "none"} ELSE {"other", "none"}) \X {present},
     upload |-> {<<"ok", TRUE>>} \cup ({"other", "none"} \X {present, TRUE}),
     delete |-> ({"other", "none"} \X {present}) \cup (IF present THEN {"ok", "none"} \X {FALSE} ELSE {})][op]

Answer(c) ==
    LET r == req[c] IN
    /\ r.stage = "sent"
    /\ \E a \in Answers(r.op, r.blob \in upstream) :
          /\ req' = [req EXCEPT ![c] = [r EXCEPT !.stage = "answered", !.answer = a[1]]]
          /\ upstream' = IF a[2] THEN upstream \cup {r.blob} ELSE upstream \ {r.blob}
          /\ gone' = IF a[2] THEN [gone EXCEPT ![r.blob] = 0] ELSE gone
          /\ purged' = IF a[2] THEN [g \in Gateways |-> purged[g] \ {r.blob}] ELSE purged
          /\ erased' = IF r.op = "delete" /\ a[1] = "ok" THEN erased \cup {r.blob} ELSE erased
    /\ UNCHANGED <<cache, replicationVars, warmup, requests, snapshots>>

------------------------------------------------------------------------------
(* Requests *)

\* A client's request reaches an instance and is forwarded.  An existence check of
\* a blob the instance holds an entry for is answered from the cache and changes
\* nothing here.
Arrive(c, g, op, b) ==
    /\ req[c].stage = "none"
    /\ requests < MaxRequests
    /\ op = "head" => cache[g][b] = 0
    /\ req' = [req EXCEPT ![c] = [stage |-> "sent", gateway |-> g, op |-> op, blob |-> b, answer |-> "none", age |-> 0]]
    /\ requests' = requests + 1
    /\ UNCHANGED <<upstream, cache, replicationVars, warmup, snapshots, gone, erased, purged>>

\* A full queue drops the event.
Record(events, b, deleted) ==
    IF Len(events) < QueueDepth THEN Append(events, [blob |-> b, deleted |-> deleted, age |-> 0]) ELSE events

\* rememberBlob: the answer proves that the blob is in the repository.
Remembers(r) == r.op # "delete" /\ r.answer = "ok"

\* forgetDeletedBlob does not ask what the registry answered.
Forgets(r) == r.op = "delete"

\* The peers are told of what the registry confirmed.
TellsOfEveryDelete(r) == r.op = "delete" \/ r.answer = "ok"
Tells(r) == r.answer = "ok"

\* The answer is back, or the wait for it is over: rememberBlob, then
\* forgetDeletedBlob.
Finish(c) ==
    LET r == req[c] IN
    /\ r.stage = "answered"
    /\ cache' = [cache EXCEPT ![r.gateway][r.blob] = IF Remembers(r) THEN TTL ELSE IF Forgets(r) THEN 0 ELSE @]
    /\ queue' = [queue EXCEPT ![r.gateway] = IF Tells(r) THEN Record(@, r.blob, r.op = "delete") ELSE @]
    /\ purged' = [purged EXCEPT ![r.gateway] = IF r.op = "delete" /\ r.blob \notin upstream THEN @ \cup {r.blob} ELSE @]
    /\ req' = [req EXCEPT ![c] = NoRequest]
    /\ UNCHANGED <<upstream, pending, flights, warmup, requests, snapshots, gone, erased>>

\* Traffic for other blobs fills the shard and the entry makes room.
Evict(g, b) ==
    /\ cache[g][b] > 0
    /\ cache' = [cache EXCEPT ![g][b] = 0]
    /\ UNCHANGED <<upstream, req, replicationVars, warmup, requests, snapshots, gone, erased, purged>>

------------------------------------------------------------------------------
(* Replication *)

\* batch: the batcher takes an event off the queue.
Collect(g) ==
    /\ queue[g] # <<>>
    /\ Len(pending[g]) < BatchSize
    /\ pending' = [pending EXCEPT ![g] = Append(@, Head(queue[g]))]
    /\ queue' = [queue EXCEPT ![g] = Tail(@)]
    /\ UNCHANGED <<upstream, cache, req, flights, warmup, requests, snapshots, gone, erased, purged>>

\* dedupeEvents: the events at these positions stay, in their order.
Pick(events, keep) ==
    LET at(n) == CHOOSE i \in keep : Cardinality({j \in keep : j <= i}) = n
    IN [n \in 1 .. Cardinality(keep) |-> events[at(n)]]
Dedupe(events) ==
    Pick(events, {i \in DOMAIN events : \A j \in i + 1 .. Len(events) : events[j].blob # events[i].blob})

Peers(g) == Gateways \ {g}

\* flush: the batch is full or its timer has expired.  It goes to every peer, or
\* is dropped when every send slot is busy.
Flush(g) ==
    LET free == {s \in Slots : flights[g][s].todo = {}} IN
    /\ pending[g] # <<>>
    /\ pending' = [pending EXCEPT ![g] = <<>>]
    /\ IF free = {} \/ Peers(g) = {}
       THEN flights' = flights
       ELSE LET s == CHOOSE s \in free : \A t \in free : s <= t
            IN flights' = [flights EXCEPT ![g][s] = [events |-> Dedupe(pending[g]), todo |-> Peers(g)]]
    /\ UNCHANGED <<upstream, cache, req, queue, warmup, requests, snapshots, gone, erased, purged>>

\* A send ends, and with the last of a batch its slot is free again.
Sent(g, s, p) ==
    LET f == flights[g][s] IN
    flights' = [flights EXCEPT ![g][s] = IF f.todo = {p} THEN NoFlight ELSE [f EXCEPT !.todo = f.todo \ {p}]]

\* What a batch leaves of a cache: its events, one after the other.
Outcome(entries, events) ==
    LET after[n \in 0 .. Len(events)] ==
            IF n = 0 THEN entries
            ELSE [after[n - 1] EXCEPT ![events[n].blob] = IF events[n].deleted THEN 0 ELSE TTL]
    IN after[Len(events)]

\* apply: a peer writes the batch to its cache, and queues nothing.
Deliver(g, s, p) ==
    /\ p \in flights[g][s].todo
    /\ cache' = [cache EXCEPT ![p] = Outcome(@, flights[g][s].events)]
    /\ Sent(g, s, p)
    /\ UNCHANGED <<upstream, req, queue, pending, warmup, requests, snapshots, gone, erased, purged>>

\* A send that fails is not repeated.
Lose(g, s, p) ==
    /\ p \in flights[g][s].todo
    /\ Sent(g, s, p)
    /\ UNCHANGED <<upstream, cache, req, queue, pending, warmup, requests, snapshots, gone, erased, purged>>

Replicate(g) ==
    \/ Collect(g)
    \/ Flush(g)
    \/ \E s \in Slots, p \in Peers(g) : Deliver(g, s, p) \/ Lose(g, s, p)

------------------------------------------------------------------------------
(* Warm-up *)

\* An instance stops and starts again: its cache, its queue and the requests it
\* was serving are lost.
Restart(g) ==
    /\ cache' = [cache EXCEPT ![g] = [b \in Blobs |-> 0]]
    /\ req' = [c \in Clients |-> IF req[c].stage # "none" /\ req[c].gateway = g THEN NoRequest ELSE req[c]]
    /\ queue' = [queue EXCEPT ![g] = <<>>]
    /\ pending' = [pending EXCEPT ![g] = <<>>]
    /\ flights' = [flights EXCEPT ![g] = [s \in Slots |-> NoFlight]]
    /\ warmup' = [warmup EXCEPT ![g] = [NoDonation EXCEPT !.stage = "asking"]]
    /\ UNCHANGED <<upstream, requests, snapshots, gone, erased, purged>>

Reading(d) == {h \in Gateways : warmup[h].stage = "reading" /\ d \in warmup[h].donor}

\* serveDonation: a peer that is not busy with other donations answers with some
\* of its live entries and what is left of their deadlines.
AskDonor(g, d) ==
    /\ warmup[g].stage = "asking"
    /\ d \in Peers(g)
    /\ snapshots < MaxSnapshots
    /\ Cardinality(Reading(d)) < MaxDonations
    /\ \E hottest \in SUBSET Blobs :
          warmup' = [warmup EXCEPT ![g] =
              [stage |-> "reading", donor |-> {d}, age |-> 0,
               entries |-> [b \in Blobs |-> IF b \in hottest THEN cache[d][b] ELSE 0]]]
    /\ snapshots' = snapshots + 1
    /\ UNCHANGED <<upstream, cache, req, replicationVars, requests, gone, erased, purged>>

\* requestDonation: an entry is inserted as it arrives.
DonatedAfresh(g, b) ==
    /\ warmup[g].entries[b] > 0
    /\ cache' = [cache EXCEPT ![g][b] = TTL]
    /\ warmup' = [warmup EXCEPT ![g].entries[b] = 0]
    /\ UNCHANGED <<upstream, req, replicationVars, requests, snapshots, gone, erased, purged>>
Donated(g, b) ==
    /\ warmup[g].entries[b] > 0
    /\ cache' = [cache EXCEPT ![g][b] = AtMost(warmup[g].entries[b], TTL)]
    /\ warmup' = [warmup EXCEPT ![g].entries[b] = 0]
    /\ UNCHANGED <<upstream, req, replicationVars, requests, snapshots, gone, erased, purged>>

\* The stream is over, was cut off and another peer is asked, or the warm-up's
\* time is up.
EndDonation(g) ==
    /\ \/ warmup[g].stage = "reading" /\ warmup' = [warmup EXCEPT ![g] = [NoDonation EXCEPT !.stage = "asking"]]
       \/ warmup[g].stage # "done" /\ warmup' = [warmup EXCEPT ![g] = NoDonation]
    /\ UNCHANGED <<upstream, cache, req, replicationVars, requests, snapshots, gone, erased, purged>>

WarmUp(g) ==
    \/ Restart(g)
    \/ \E d \in Gateways : AskDonor(g, d)
    \/ \E b \in Blobs : Donated(g, b)
    \/ EndDonation(g)

------------------------------------------------------------------------------
Next ==
    \/ Tick
    \/ \E b \in Blobs : CollectUpstream(b)
    \/ \E c \in Clients : Answer(c) \/ Finish(c)
    \/ \E c \in Clients, g \in Gateways, op \in Ops, b \in Blobs : Arrive(c, g, op, b)
    \/ \E g \in Gateways, b \in Blobs : Evict(g, b)
    \/ \E g \in Gateways : Replicate(g) \/ WarmUp(g)

\* The batcher and every send of an instance run in goroutines of their own, and a
\* send ends after replicationSendTimeout at the latest.
Fairness == \A g \in Gateways : WF_vars(Replicate(g))

Spec == Init /\ [][Next]_vars /\ Fairness

------------------------------------------------------------------------------
(* Properties *)

EventType == [blob : Blobs, deleted : BOOLEAN, age : 0 .. MaxLag]
Lifetimes == [Blobs -> 0 .. TTL]
IsEvents(s, bound) == Len(s) <= bound /\ Elements(s) \subseteq EventType

\* The queue, the batch and the send slots of CacheReplication stay within their
\* bounds, and no entry has more than the cache's TTL left.
TypeOK ==
    /\ upstream \subseteq Blobs /\ erased \subseteq Blobs
    /\ cache \in [Gateways -> Lifetimes]
    /\ \A c \in Clients : req[c] = NoRequest \/
          req[c] \in [stage : {"sent", "answered"}, gateway : Gateways, op : Ops, blob : Blobs,
                      answer : {"ok", "other", "none"}, age : 0 .. MaxLag]
    /\ \A g \in Gateways :
          /\ IsEvents(queue[g], QueueDepth) /\ IsEvents(pending[g], BatchSize)
          /\ \A s \in Slots : IsEvents(flights[g][s].events, BatchSize) /\ flights[g][s].todo \subseteq Peers(g)
          /\ warmup[g] \in [stage : {"asking", "reading", "done"}, donor : SUBSET Gateways,
                            entries : Lifetimes, age : 0 .. MaxLag]
          /\ Cardinality(Reading(g)) <= MaxDonations
    /\ requests \in 0 .. MaxRequests /\ snapshots \in 0 .. MaxSnapshots
    /\ gone \in [Blobs -> 0 .. Horizon + 1]
    /\ purged \in [Gateways -> SUBSET Blobs]

\* An entry is believed at most a TTL longer than its blob is in the registry, and
\* the time the fact was under way: copying it to a peer, by an event or by a
\* donation (cacheEntry.lifetime), does not restart its TTL.
BeliefIsBounded ==
    /\ TypeOK
    /\ \A g \in Gateways, b \in Blobs :
        cache[g][b] > 0 /\ b \notin upstream => gone[b] + cache[g][b] <= TTL + (2 + snapshots) * MaxLag

UnderWay(g) ==
    Elements(queue[g]) \cup Elements(pending[g]) \cup UNION {Elements(flights[g][s].events) : s \in Slots}

\* The peers are told to forget only blobs whose delete the registry has confirmed
\* (forgetDeletedBlob): deletes it rejects do not flush the fleet's caches.
DeletionsAreReal ==
    \A g \in Gateways : \A e \in UnderWay(g) : e.deleted => e.blob \in erased

\* Dropping all but the last event of each blob from a batch (dedupeEvents) makes
\* no difference to a peer that applies it, whatever the peer holds.
DedupeIsTransparent ==
    \A g \in Gateways, entries \in Lifetimes :
        Outcome(entries, Dedupe(pending[g])) = Outcome(entries, pending[g])

\* Both together: what an instance tells its peers is what it learnt.
EventsAreFaithful == DeletionsAreReal /\ DedupeIsTransparent

\* A blob whose delete went through an instance has no entry there
\* (WithBlobExistenceCache: "that entry goes at once", forgetDeletedBlob).
DeletedEntryIsGone ==
    \A g \in Gateways : \A b \in purged[g] : cache[g][b] = 0

Quiet ==
    \A g \in Gateways : queue[g] = <<>> /\ pending[g] = <<>> /\ \A s \in Slots : flights[g][s].todo = {}

=============================================================================
