------------------------------- MODULE DigestFS -------------------------------
(***************************************************************************)
(* The digests of the files of a layer (pkg/digestfs): "img layer" asks    *)
(* for them one file after the other while the workers of a Precacher      *)
(* calculate them ahead, and FileSystem lets no file be hashed twice.      *)
(*                                                                         *)
(* The digest of a file is the name of its real path: two paths that are   *)
(* links to one file have one digest.  A runningLookup is named by the     *)
(* process that made it and the number of its call, and outlives the call: *)
(* who subscribed to it reads it after its channel is closed.              *)
(***************************************************************************)
EXTENDS Naturals, Sequences, TLAPS

CONSTANTS
    Paths, RealPaths,  \* paths, and the real paths they resolve to
    Real,              \* filepath.EvalSymlinks
    Reads,             \* the paths the layer writer asks a digest of, in order
    Precached,         \* the paths that PrecacheFiles is given, in order
    Workers,           \* the workers of the Precacher
    Main,              \* the layer writer
    Nobody

Procs == Workers \cup {Main}
Lookups == Procs \X Nat
Error == "error"
Value == RealPaths \cup {Error}

ASSUME DigestFSAssumption ==
    /\ Paths # {} /\ Real \in [Paths -> RealPaths]
    /\ Reads \in Seq(Paths) /\ Precached \in Seq(Paths)
    /\ Main \notin Workers
    /\ Nobody \notin Lookups /\ Nobody \notin Value /\ Error \notin RealPaths

Buffer == 2   \* tasks is a channel with room for 2 * numWorkers paths

VARIABLES
    pc, path, calls,       \* per process: where it is, its file, its OpenFile calls
    lookup,                \* per process: the lookup it made or waits for
    digestCache,           \* real path -> digest
    runningLookups,        \* real path -> the lookup that calculates it
    outcome,               \* lookup -> its digest or its error; Nobody while it runs
    closed,                \* the lookups whose channel is closed
    todo, got, failed,     \* Main: the paths left, what it got, whether one failed
    unsent, tasks, done    \* the Precacher: the paths to send, the channel, Close

vars == <<pc, path, calls, lookup, digestCache, runningLookups, outcome, closed,
          todo, got, failed, unsent, tasks, done>>

Init ==
    /\ pc = [p \in Procs |-> "idle"]
    /\ path = [p \in Procs |-> CHOOSE file \in Paths : TRUE]
    /\ calls = [p \in Procs |-> 0]
    /\ lookup = [p \in Procs |-> <<p, 0>>]
    /\ digestCache = [f \in RealPaths |-> Nobody]
    /\ runningLookups = [f \in RealPaths |-> Nobody]
    /\ outcome = [l \in {} |-> Nobody]
    /\ closed = {}
    /\ todo = Reads /\ got = <<>> /\ failed = FALSE
    /\ unsent = Precached /\ tasks = <<>> /\ done = FALSE

f(p) == Real[path[p]]
cacheVars == <<digestCache, runningLookups, outcome, closed>>

\* The caller has its answer: a worker ignores it, the layer writer goes on with
\* the next file or gives the layer up.
Return(p, value) ==
    /\ pc' = [pc EXCEPT ![p] = "idle"]
    /\ IF p = Main
       THEN /\ todo' = IF value = Error THEN <<>> ELSE Tail(todo)
            /\ got' = IF value = Error THEN got ELSE Append(got, value)
            /\ failed' = (failed \/ value = Error)
       ELSE UNCHANGED <<todo, got, failed>>

\* OpenFile: os.Open may fail.
OpenFile(p, file) ==
    /\ path' = [path EXCEPT ![p] = file]
    /\ calls' = [calls EXCEPT ![p] = @ + 1]
    /\ \/ pc' = [pc EXCEPT ![p] = "opened"] /\ UNCHANGED <<todo, got, failed>>
       \/ Return(p, Error)
    /\ UNCHANGED <<lookup, cacheVars>>

\* Digest, and precache, while they hold fs.mu: a digest that is cached is the
\* answer; a calculation that runs is waited for, by precache not even that.
Cached(p) ==
    /\ pc[p] = "opened" /\ digestCache[f(p)] # Nobody
    /\ Return(p, digestCache[f(p)])
    /\ UNCHANGED <<path, calls, lookup, cacheVars, unsent, tasks, done>>

Subscribe(p) ==
    /\ pc[p] = "opened" /\ digestCache[f(p)] = Nobody /\ runningLookups[f(p)] # Nobody
    /\ IF p = Main
       THEN /\ pc' = [pc EXCEPT ![p] = "waiting"]
            /\ lookup' = [lookup EXCEPT ![p] = runningLookups[f(p)]]
            /\ UNCHANGED <<todo, got, failed>>
       ELSE /\ Return(p, Error)
            /\ UNCHANGED lookup
    /\ UNCHANGED <<path, calls, cacheVars, unsent, tasks, done>>

\* A bug: a calculation begins whether or not one is registered.
BeginAnother(p) ==
    LET l == <<p, calls[p]>>
    IN  /\ pc[p] = "opened" /\ digestCache[f(p)] = Nobody
        /\ lookup' = [lookup EXCEPT ![p] = l]
        /\ runningLookups' = [runningLookups EXCEPT ![f(p)] = l]
        /\ outcome' = [m \in DOMAIN outcome \cup {l} |-> IF m = l THEN Nobody ELSE outcome[m]]
        /\ pc' = [pc EXCEPT ![p] = "calculating"]
        /\ UNCHANGED <<path, calls, digestCache, closed, todo, got, failed, unsent, tasks, done>>

\* Else the caller registers a lookup of its own and calculates.
Begin(p) ==
    LET l == <<p, calls[p]>>
    IN  /\ pc[p] = "opened" /\ digestCache[f(p)] = Nobody /\ runningLookups[f(p)] = Nobody
        /\ lookup' = [lookup EXCEPT ![p] = l]
        /\ runningLookups' = [runningLookups EXCEPT ![f(p)] = l]
        /\ outcome' = [m \in DOMAIN outcome \cup {l} |-> IF m = l THEN Nobody ELSE outcome[m]]
        /\ pc' = [pc EXCEPT ![p] = "calculating"]
        /\ UNCHANGED <<path, calls, digestCache, closed, todo, got, failed, unsent, tasks, done>>

\* calculateDigest, which may fail, and the critical section after it.
Publish(p, value) ==
    /\ pc[p] = "calculating"
    /\ outcome' = [outcome EXCEPT ![lookup[p]] = value]
    /\ digestCache' = IF value = Error THEN digestCache ELSE [digestCache EXCEPT ![f(p)] = value]
    /\ runningLookups' = [runningLookups EXCEPT ![f(p)] = Nobody]
    /\ pc' = [pc EXCEPT ![p] = "notifying"]
    /\ UNCHANGED <<path, calls, lookup, closed, todo, got, failed, unsent, tasks, done>>

\* A bug: the channel of a failed calculation is left open.
NotifySuccess(p) ==
    /\ pc[p] = "notifying"
    /\ closed' = IF outcome[lookup[p]] = Error THEN closed ELSE closed \cup {lookup[p]}
    /\ Return(p, outcome[lookup[p]])
    /\ UNCHANGED <<path, calls, lookup, digestCache, runningLookups, outcome, unsent, tasks, done>>

\* close(lookup.ch).
Notify(p) ==
    /\ pc[p] = "notifying"
    /\ closed' = closed \cup {lookup[p]}
    /\ Return(p, outcome[lookup[p]])
    /\ UNCHANGED <<path, calls, lookup, digestCache, runningLookups, outcome, unsent, tasks, done>>

\* <-ch, and then the fields of the lookup.
Wake(p) ==
    /\ pc[p] = "waiting" /\ lookup[p] \in closed
    /\ Return(p, outcome[lookup[p]])
    /\ UNCHANGED <<path, calls, lookup, cacheVars, unsent, tasks, done>>

-----------------------------------------------------------------------------
\* The layer writer: Digest of one file after the other, then Close.

Ask ==
    /\ pc[Main] = "idle" /\ todo # <<>>
    /\ OpenFile(Main, Head(todo))
    /\ UNCHANGED <<unsent, tasks, done>>

Close ==
    /\ pc[Main] = "idle" /\ todo = <<>>
    /\ done' = TRUE
    /\ pc' = [pc EXCEPT ![Main] = "closing"]
    /\ UNCHANGED <<path, calls, lookup, cacheVars, todo, got, failed, unsent, tasks>>

\* wg.Wait.
Closed ==
    /\ pc[Main] = "closing" /\ \A v \in Workers : pc[v] = "gone"
    /\ pc' = [pc EXCEPT ![Main] = "gone"]
    /\ UNCHANGED <<path, calls, lookup, cacheVars, todo, got, failed, unsent, tasks, done>>

\* PrecacheFiles: a goroutine sends the paths, until all are sent or Close.
Send ==
    /\ unsent # <<>> /\ Len(tasks) < Buffer
    /\ tasks' = Append(tasks, Head(unsent)) /\ unsent' = Tail(unsent)
    /\ UNCHANGED <<pc, path, calls, lookup, cacheVars, todo, got, failed, done>>

StopSending ==
    /\ unsent # <<>> /\ done
    /\ unsent' = <<>>
    /\ UNCHANGED <<pc, path, calls, lookup, cacheVars, todo, got, failed, tasks, done>>

\* worker: either branch of the select while both are ready.
Receive(v) ==
    /\ pc[v] = "idle" /\ tasks # <<>>
    /\ OpenFile(v, Head(tasks))
    /\ tasks' = Tail(tasks)
    /\ UNCHANGED <<unsent, done>>

Leave(v) ==
    /\ pc[v] = "idle" /\ done
    /\ pc' = [pc EXCEPT ![v] = "gone"]
    /\ UNCHANGED <<path, calls, lookup, cacheVars, todo, got, failed, unsent, tasks, done>>

Call(p) ==
    \/ Cached(p) \/ Subscribe(p) \/ Begin(p) \/ Notify(p) \/ Wake(p)
    \/ \E value \in {f(p), Error} : Publish(p, value)

Finished == pc[Main] = "gone" /\ UNCHANGED vars

Next ==
    \/ \E p \in Procs : Call(p)
    \/ Ask \/ Close \/ Closed \/ Send \/ StopSending
    \/ \E v \in Workers : Receive(v) \/ Leave(v)
    \/ Finished

\* Each goroutine runs as long as it can.
Fairness ==
    /\ WF_vars(Ask \/ Close \/ Closed)
    /\ WF_vars(Send \/ StopSending)
    /\ \A p \in Procs : WF_vars(Call(p))
    /\ \A v \in Workers : WF_vars(Receive(v) \/ Leave(v))

Spec == Init /\ [][Next]_vars /\ Fairness

-----------------------------------------------------------------------------
TypeOK ==
    /\ pc \in [Procs -> {"idle", "opened", "calculating", "notifying", "waiting", "closing", "gone"}]
    /\ path \in [Procs -> Paths]
    /\ calls \in [Procs -> Nat]
    /\ lookup \in [Procs -> Lookups]
    /\ digestCache \in [RealPaths -> RealPaths \cup {Nobody}]
    /\ runningLookups \in [RealPaths -> Lookups \cup {Nobody}]
    /\ DOMAIN outcome \subseteq Lookups
    /\ \A l \in DOMAIN outcome : outcome[l] \in Value \cup {Nobody}
    /\ closed \subseteq Lookups
    /\ todo \in Seq(Paths) /\ got \in Seq(RealPaths) /\ failed \in BOOLEAN
    /\ unsent \in Seq(Paths) /\ tasks \in Seq(Paths) /\ done \in BOOLEAN

\* A file that is being hashed is registered under the lookup of who hashes it.
Registered ==
    /\ \A p \in Procs : pc[p] = "calculating" =>
          /\ lookup[p] = <<p, calls[p]>> /\ runningLookups[f(p)] = lookup[p]
          /\ lookup[p] \in DOMAIN outcome /\ outcome[lookup[p]] = Nobody
          /\ digestCache[f(p)] = Nobody
    /\ \A r \in RealPaths : runningLookups[r] # Nobody =>
          \E q \in Procs : pc[q] = "calculating" /\ f(q) = r
    /\ \A p \in Procs : pc[p] = "opened" => <<p, calls[p]>> \notin DOMAIN outcome
    /\ \A p \in Procs, l \in DOMAIN outcome : l[1] = p => l[2] <= calls[p]

\* What a caller is about to return is an answer for its file.
Answered ==
    /\ \A p \in Procs : pc[p] = "notifying" =>
          lookup[p] \in DOMAIN outcome /\ outcome[lookup[p]] \in {f(p), Error}
    /\ \A p \in Procs : pc[p] = "waiting" =>
          /\ lookup[p] \in DOMAIN outcome
          /\ \/ outcome[lookup[p]] \in {f(p), Error}
             \/ outcome[lookup[p]] = Nobody /\ runningLookups[f(p)] = lookup[p]
    /\ \A l \in closed : l \in DOMAIN outcome /\ outcome[l] # Nobody
    /\ \A r \in RealPaths : digestCache[r] \in {Nobody, r}

\* Where the layer writer is in its list.
Progress ==
    /\ ~failed => /\ Len(got) + Len(todo) = Len(Reads)
                  /\ \A i \in 1..Len(todo) : todo[i] = Reads[Len(got) + i]
    /\ failed => todo = <<>>
    /\ pc[Main] \in {"opened", "calculating", "notifying", "waiting"} =>
          todo # <<>> /\ path[Main] = Head(todo)
    /\ pc[Main] \in {"closing", "gone"} => todo = <<>>
    /\ Len(got) <= Len(Reads)
    /\ \A i \in 1..Len(got) : got[i] = Real[Reads[i]]

\* The inductive invariant.
Inv == TypeOK /\ Registered /\ Answered /\ Progress

\* No file is hashed by two at once, nor after its digest is known, whatever links
\* lead to it (Digest and precache look at the cache and at the running lookups, and
\* register theirs, under one lock).
HashedOnce ==
    \A p, q \in Procs : pc[p] = "calculating" =>
        /\ digestCache[f(p)] = Nobody
        /\ pc[q] = "calculating" /\ f(p) = f(q) => p = q

\* What the layer writer gets is the digest of the file it asked for, also when
\* another process calculated it and when the lookup it waits for was long removed
\* from the map; and it fails only if an open or a calculation did.
DigestsAreRight ==
    /\ \A i \in 1..Len(got) : got[i] = Real[Reads[i]]
    /\ \A r \in RealPaths : digestCache[r] \in {Nobody, r}
    /\ pc[Main] = "gone" /\ ~failed => Len(got) = Len(Reads)

\* Both together: whoever calculates a digest calculates it for all.
DigestsAreShared == HashedOnce /\ DigestsAreRight

\* The layer ends: no subscriber waits for a channel that is never closed, Close does
\* not wait for a worker that waits for a path, and no goroutine of PrecacheFiles is
\* left behind with a path it cannot send.
AllGone == pc[Main] = "gone" /\ unsent = <<>>
-----------------------------------------------------------------------------
(* Proofs, for any files, links, readings and number of workers. *)

LEMMA EmptySeq == ASSUME NEW S PROVE <<>> \in Seq(S)
OBVIOUS

LEMMA InitInv == Init => Inv
<1> SUFFICES ASSUME Init PROVE Inv
  OBVIOUS
<1> USE DigestFSAssumption DEF Init
<1>1. (CHOOSE file \in Paths : TRUE) \in Paths
  OBVIOUS
<1>2. TypeOK
  <2>1. path \in [Procs -> Paths] /\ lookup \in [Procs -> Lookups] /\ calls \in [Procs -> Nat]
    BY Zenon, <1>1 DEF Lookups
  <2>2. DOMAIN outcome = {} /\ closed = {}
    OBVIOUS
  <2> QED
    <3>1. pc \in [Procs -> {"idle", "opened", "calculating", "notifying", "waiting", "closing", "gone"}]
      OBVIOUS
    <3>2. digestCache \in [RealPaths -> RealPaths \cup {Nobody}]
      OBVIOUS
    <3>3. runningLookups \in [RealPaths -> Lookups \cup {Nobody}]
      OBVIOUS
    <3>4. /\ todo \in Seq(Paths) /\ got \in Seq(RealPaths) /\ failed \in BOOLEAN
          /\ unsent \in Seq(Paths) /\ tasks \in Seq(Paths) /\ done \in BOOLEAN
      BY ZenonT(40), EmptySeq
    <3> HIDE DEF Init
    <3> QED
      BY Zenon, <2>1, <2>2, <3>1, <3>2, <3>3, <3>4 DEF TypeOK
<1>3. Registered /\ Answered /\ Progress
  BY DEF Registered, Answered, Progress, Procs
<1> QED
  BY Zenon, <1>2, <1>3 DEF Inv

\* The layer writer takes an answer for the file it asked for, and goes on.
LEMMA ReturnProgress ==
    ASSUME Inv, NEW p \in Procs, NEW value, Return(p, value),
           pc[p] \in {"opened", "notifying", "waiting"} \/ p # Main \/ value = Error,
           value \in {f(p), Error},
           path' = path \/ p # Main \/ value = Error,
           p = Main \/ path'[Main] = path[Main]
    PROVE  /\ Progress'
           /\ pc' = [pc EXCEPT ![p] = "idle"]
           /\ todo' \in Seq(Paths) /\ got' \in Seq(RealPaths) /\ failed' \in BOOLEAN
<1> USE DigestFSAssumption DEF Inv, TypeOK, Procs
<1>0. pc' = [pc EXCEPT ![p] = "idle"]
  BY Zenon DEF Return
<1>1. CASE p # Main
  <2>1. todo' = todo /\ got' = got /\ failed' = failed /\ pc'[Main] = pc[Main]
    BY Zenon, <1>1 DEF Return
  <2> QED
    BY Zenon, <2>1, <1>0, <1>1 DEF Progress
<1>2. CASE p = Main /\ value = Error
  <2>1. todo' = <<>> /\ got' = got /\ failed' = TRUE /\ pc'[Main] = "idle"
    BY ZenonT(40), <1>2 DEF Return
  <2> QED
    BY <2>1, <1>0 DEF Progress
<1>3. CASE p = Main /\ value # Error
  <2>1. todo' = Tail(todo) /\ got' = Append(got, value) /\ failed' = failed /\ pc'[Main] = "idle"
    BY Zenon, <1>3 DEF Return
  <2>2. todo # <<>> /\ path[Main] = Head(todo) /\ ~failed /\ value = Real[path[Main]]
    BY Zenon, <1>3 DEF Progress, f
  <2>3. value = Real[Reads[Len(got) + 1]] /\ Len(got) + 1 <= Len(Reads)
    BY <2>2 DEF Progress
  <2>4. Len(got') = Len(got) + 1 /\ Len(todo') = Len(todo) - 1
    BY <2>1, <2>2
  <2>5. \A i \in 1..Len(todo') : todo'[i] = Reads[Len(got') + i]
    BY <2>1, <2>2, <2>4 DEF Progress
  <2>6. \A i \in 1..Len(got') : got'[i] = Real[Reads[i]]
    BY SMTT(30), <2>1, <2>3, <2>4 DEF Progress
  <2>7. got' \in Seq(RealPaths) /\ todo' \in Seq(Paths)
    BY <2>1, <2>2
  <2> QED
    BY <2>1, <2>2, <2>3, <2>4, <2>5, <2>6, <2>7, <1>0 DEF Progress
<1> QED
  BY Zenon, <1>1, <1>2, <1>3

\* The steps that open a file.
LEMMA OpenInv ==
    ASSUME Inv, NEW p \in Procs, NEW file \in Paths, OpenFile(p, file), pc[p] = "idle",
           p = Main => todo # <<>> /\ file = Head(todo),
           unsent' \in Seq(Paths), tasks' \in Seq(Paths), done' = done
    PROVE  Inv'
<1> USE DigestFSAssumption
<1> DEFINE Keep == /\ lookup' = lookup /\ digestCache' = digestCache
                   /\ runningLookups' = runningLookups /\ outcome' = outcome /\ closed' = closed
<1>1. /\ Keep
      /\ path' = [path EXCEPT ![p] = file] /\ calls' = [calls EXCEPT ![p] = @ + 1]
  BY Zenon DEF OpenFile, cacheVars
<1>2. \E there \in {"opened", "idle"} : pc' = [pc EXCEPT ![p] = there]
  BY Zenon DEF OpenFile, Return
<1>3. /\ Progress'
      /\ todo' \in Seq(Paths) /\ got' \in Seq(RealPaths) /\ failed' \in BOOLEAN
  <2>1. CASE pc' = [pc EXCEPT ![p] = "opened"] /\ UNCHANGED <<todo, got, failed>>
    BY Zenon, <1>1, <2>1 DEF Inv, TypeOK, Progress, Procs
  <2>2. CASE Return(p, Error)
    BY Zenon, <1>1, <2>2, ReturnProgress DEF Inv, TypeOK, Procs
  <2> QED
    BY Zenon, <2>1, <2>2 DEF OpenFile
<1>4. TypeOK'
  BY SMTT(30), <1>1, <1>2, <1>3 DEF Inv, TypeOK
<1>5. Registered'
  <2>1. <<p, calls[p] + 1>> \notin DOMAIN outcome
    <3> SUFFICES ASSUME <<p, calls[p] + 1>> \in DOMAIN outcome PROVE FALSE
      OBVIOUS
    <3>1. calls[p] \in Nat
      BY Zenon DEF Inv, TypeOK
    <3>2. <<p, calls[p] + 1>>[2] <= calls[p]
      BY Zenon DEF Inv, Registered
    <3> QED
      BY <3>1, <3>2
  <2>2. \A q \in Procs : q # p => pc'[q] = pc[q] /\ path'[q] = path[q] /\ calls'[q] = calls[q]
    BY Zenon, <1>1, <1>2 DEF Inv, TypeOK
  <2>3. pc'[p] # "calculating" /\ calls'[p] = calls[p] + 1 /\ calls[p] \in Nat
    BY Zenon, <1>1, <1>2 DEF Inv, TypeOK
  <2>4. \A q \in Procs : pc'[q] = "calculating" => q # p
    BY Zenon, <2>3
  <2>5. \A q \in Procs : q # p => f(q)' = f(q)
    BY Zenon, <2>2 DEF f
  <2>6. \A r \in RealPaths : runningLookups'[r] # Nobody =>
          \E q \in Procs : pc'[q] = "calculating" /\ f(q)' = r
    <3> SUFFICES ASSUME NEW r \in RealPaths, runningLookups[r] # Nobody
                 PROVE  \E q \in Procs : pc'[q] = "calculating" /\ f(q)' = r
      BY Zenon, <1>1
    <3>1. PICK q \in Procs : pc[q] = "calculating" /\ f(q) = r
      BY Zenon DEF Inv, Registered
    <3> QED
      BY Zenon, <3>1, <2>2, <2>5
  <2>7. \A q \in Procs, l \in DOMAIN outcome' : l[1] = q => l[2] <= calls'[q]
    <3> SUFFICES ASSUME NEW q \in Procs, NEW l \in DOMAIN outcome, l[1] = q
                 PROVE  l[2] <= calls'[q]
      BY Zenon, <1>1
    <3>1. l[2] <= calls[q] /\ l[2] \in Nat
      BY Zenon DEF Inv, Registered, TypeOK, Lookups
    <3>2. calls[q] \in Nat /\ calls'[q] \in Nat /\ calls[q] <= calls'[q]
      BY <1>1 DEF Inv, TypeOK
    <3> HIDE DEF Keep
    <3> QED
      BY <3>1, <3>2
  <2>8. \A q \in Procs : pc'[q] = "calculating" =>
          /\ lookup'[q] = <<q, calls'[q]>> /\ runningLookups'[f(q)'] = lookup'[q]
          /\ lookup'[q] \in DOMAIN outcome' /\ outcome'[lookup'[q]] = Nobody
          /\ digestCache'[f(q)'] = Nobody
    <3> SUFFICES ASSUME NEW q \in Procs, pc'[q] = "calculating"
                 PROVE  /\ lookup'[q] = <<q, calls'[q]>> /\ runningLookups'[f(q)'] = lookup'[q]
                        /\ lookup'[q] \in DOMAIN outcome' /\ outcome'[lookup'[q]] = Nobody
                        /\ digestCache'[f(q)'] = Nobody
      OBVIOUS
    <3>1. q # p /\ pc[q] = "calculating" /\ calls'[q] = calls[q] /\ f(q)' = f(q)
      BY Zenon, <2>2, <2>4, <2>5
    <3>2. /\ lookup[q] = <<q, calls[q]>> /\ runningLookups[f(q)] = lookup[q]
          /\ lookup[q] \in DOMAIN outcome /\ outcome[lookup[q]] = Nobody
          /\ digestCache[f(q)] = Nobody
      BY Zenon, <3>1 DEF Inv, Registered
    <3> QED
      BY Zenon, <1>1, <3>1, <3>2
  <2>9. \A q \in Procs : pc'[q] = "opened" => <<q, calls'[q]>> \notin DOMAIN outcome'
    <3> SUFFICES ASSUME NEW q \in Procs, pc'[q] = "opened"
                 PROVE  <<q, calls'[q]>> \notin DOMAIN outcome'
      OBVIOUS
    <3>1. CASE q = p
      BY ZenonT(40), <1>1, <2>1, <2>3, <3>1
    <3>2. CASE q # p
      <4>1. pc[q] = "opened" /\ calls'[q] = calls[q]
        BY Zenon, <2>2, <3>2
      <4> QED
        BY Zenon, <1>1, <4>1 DEF Inv, Registered
    <3> QED
      BY Zenon, <3>1, <3>2
  <2> HIDE DEF Keep
  <2> QED
    BY Zenon, <2>6, <2>7, <2>8, <2>9 DEF Registered
<1>6. Answered'
  BY <1>1, <1>2 DEF Inv, TypeOK, Answered, f
<1> QED
  BY Zenon, <1>3, <1>4, <1>5, <1>6 DEF Inv

\* The steps of Digest and precache.
LEMMA CallInv == ASSUME Inv, NEW p \in Procs, Call(p) PROVE Inv'
<1> USE DigestFSAssumption
<1>1. CASE Cached(p)
  <2>1. /\ pc[p] = "opened" /\ digestCache[f(p)] = f(p) /\ Return(p, f(p))
        /\ UNCHANGED <<path, calls, lookup, cacheVars, unsent, tasks, done>>
    BY ZenonT(40), <1>1 DEF Cached, Inv, Answered, TypeOK, f
  <2>2. /\ Progress' /\ pc' = [pc EXCEPT ![p] = "idle"]
        /\ todo' \in Seq(Paths) /\ got' \in Seq(RealPaths) /\ failed' \in BOOLEAN
    BY Zenon, <2>1, ReturnProgress
  <2> QED
    BY SMTT(30), <2>1, <2>2 DEF Inv, TypeOK, Registered, Answered, f, cacheVars
<1>2. CASE Subscribe(p)
  <2>1. CASE p = Main
    <3>1. /\ pc[p] = "opened" /\ runningLookups[f(p)] # Nobody
          /\ pc' = [pc EXCEPT ![p] = "waiting"]
          /\ lookup' = [lookup EXCEPT ![p] = runningLookups[f(p)]]
          /\ UNCHANGED <<path, calls, cacheVars, todo, got, failed, unsent, tasks, done>>
      BY Zenon, <1>2, <2>1 DEF Subscribe
    <3>2. runningLookups[f(p)] \in Lookups /\ f(p) \in RealPaths
      BY Zenon, <3>1 DEF Inv, TypeOK, f
    <3>3. PICK q \in Procs : pc[q] = "calculating" /\ f(q) = f(p)
      BY Zenon, <3>1, <3>2 DEF Inv, Registered
    <3>4. runningLookups[f(p)] \in DOMAIN outcome /\ outcome[runningLookups[f(p)]] = Nobody
      BY SMTT(30), <3>3 DEF Inv, Registered
    <3>5. TypeOK' /\ Progress'
      BY ZenonT(40), <2>1, <3>1, <3>2 DEF Inv, TypeOK, Progress, cacheVars, Procs
    <3>6. Registered'
      BY <3>1 DEF Inv, TypeOK, Registered, f, cacheVars
    <3>7. Answered'
      BY SMTT(30), <3>1, <3>4 DEF Inv, TypeOK, Answered, f, cacheVars
    <3> QED
      BY Zenon, <3>5, <3>6, <3>7 DEF Inv
  <2>2. CASE p # Main
    <3>1. /\ pc[p] = "opened" /\ Return(p, Error)
          /\ UNCHANGED <<path, calls, lookup, cacheVars, unsent, tasks, done>>
      BY Zenon, <1>2, <2>2 DEF Subscribe
    <3>2. /\ Progress' /\ pc' = [pc EXCEPT ![p] = "idle"]
          /\ todo' \in Seq(Paths) /\ got' \in Seq(RealPaths) /\ failed' \in BOOLEAN
      BY Zenon, <3>1, ReturnProgress
    <3> QED
      BY SMTT(30), <3>1, <3>2 DEF Inv, TypeOK, Registered, Answered, f, cacheVars
  <2> QED
    BY Zenon, <2>1, <2>2
<1>3. CASE Begin(p)
  <2> DEFINE l == <<p, calls[p]>>
  <2>1. /\ pc[p] = "opened" /\ digestCache[f(p)] = Nobody /\ runningLookups[f(p)] = Nobody
        /\ lookup' = [lookup EXCEPT ![p] = l]
        /\ runningLookups' = [runningLookups EXCEPT ![f(p)] = l]
        /\ outcome' = [m \in DOMAIN outcome \cup {l} |-> IF m = l THEN Nobody ELSE outcome[m]]
        /\ pc' = [pc EXCEPT ![p] = "calculating"]
        /\ UNCHANGED <<path, calls, digestCache, closed, todo, got, failed, unsent, tasks, done>>
    BY Zenon, <1>3 DEF Begin
  <2>2. f(p) \in RealPaths /\ l \in Lookups /\ l # Nobody /\ calls[p] \in Nat
    BY DEF Inv, TypeOK, f, Lookups
  <2>3. l \notin DOMAIN outcome
    BY Zenon, <2>1 DEF Inv, Registered
  <2> HIDE DEF l
  <2>4. TypeOK'
    BY Zenon, <2>1, <2>2 DEF Inv, TypeOK
  <2>5. Registered'
    <3>1. \A q \in Procs : q # p /\ pc[q] = "calculating" => f(q) # f(p)
      BY SMTT(30), <2>1 DEF Inv, Registered, TypeOK, f, Lookups, l
    <3> QED
      BY <2>1, <2>2, <2>3, <3>1 DEF Inv, TypeOK, Registered, f, l, Lookups
  <2>6. Answered'
    BY SMTT(30), <2>1, <2>2, <2>3 DEF Inv, TypeOK, Answered, f
  <2>7. Progress'
    BY Zenon, <2>1 DEF Inv, TypeOK, Progress, Procs
  <2> QED
    BY Zenon, <2>4, <2>5, <2>6, <2>7 DEF Inv
<1>4. CASE Notify(p)
  <2>1. /\ pc[p] = "notifying" /\ closed' = closed \cup {lookup[p]}
        /\ Return(p, outcome[lookup[p]])
        /\ UNCHANGED <<path, calls, lookup, digestCache, runningLookups, outcome, unsent, tasks, done>>
    BY Zenon, <1>4 DEF Notify
  <2>2. lookup[p] \in DOMAIN outcome /\ outcome[lookup[p]] \in {f(p), Error} /\ lookup[p] \in Lookups
    BY Zenon, <2>1 DEF Inv, TypeOK, Answered
  <2>3. /\ Progress' /\ pc' = [pc EXCEPT ![p] = "idle"]
        /\ todo' \in Seq(Paths) /\ got' \in Seq(RealPaths) /\ failed' \in BOOLEAN
    BY Zenon, <2>1, <2>2, ReturnProgress
  <2>4. TypeOK' /\ Registered'
    BY SMTT(30), <2>1, <2>2, <2>3 DEF Inv, TypeOK, Registered, f
  <2>5. Answered'
    <3>1. outcome[lookup[p]] # Nobody
      BY SMTT(30), <2>2 DEF Inv, TypeOK, f, Value
    <3> QED
      BY SMTT(30), <2>1, <2>2, <2>3, <3>1 DEF Inv, TypeOK, Answered, f
  <2> QED
    BY Zenon, <2>3, <2>4, <2>5 DEF Inv
<1>5. CASE Wake(p)
  <2>1. /\ pc[p] = "waiting" /\ lookup[p] \in closed
        /\ Return(p, outcome[lookup[p]])
        /\ UNCHANGED <<path, calls, lookup, cacheVars, unsent, tasks, done>>
    BY ZenonT(40), <1>5 DEF Wake
  <2>2. outcome[lookup[p]] \in {f(p), Error}
    BY Zenon, <2>1 DEF Inv, Answered
  <2>3. /\ Progress' /\ pc' = [pc EXCEPT ![p] = "idle"]
        /\ todo' \in Seq(Paths) /\ got' \in Seq(RealPaths) /\ failed' \in BOOLEAN
    BY Zenon, <2>1, <2>2, ReturnProgress
  <2> QED
    BY SMTT(30), <2>1, <2>3 DEF Inv, TypeOK, Registered, Answered, f, cacheVars
<1>6. ASSUME NEW value \in {f(p), Error}, Publish(p, value) PROVE Inv'
  <2>1. /\ pc[p] = "calculating"
        /\ outcome' = [outcome EXCEPT ![lookup[p]] = value]
        /\ digestCache' = IF value = Error THEN digestCache ELSE [digestCache EXCEPT ![f(p)] = value]
        /\ runningLookups' = [runningLookups EXCEPT ![f(p)] = Nobody]
        /\ pc' = [pc EXCEPT ![p] = "notifying"]
        /\ UNCHANGED <<path, calls, lookup, closed, todo, got, failed, unsent, tasks, done>>
    BY Zenon, <1>6 DEF Publish
  <2>2. /\ lookup[p] = <<p, calls[p]>> /\ runningLookups[f(p)] = lookup[p]
        /\ lookup[p] \in DOMAIN outcome /\ outcome[lookup[p]] = Nobody
        /\ f(p) \in RealPaths /\ value \in Value /\ value # Nobody
    BY SMTT(30), <2>1 DEF Inv, TypeOK, Registered, f, Value
  <2>3. \A q \in Procs : pc[q] = "calculating" /\ q # p => f(q) # f(p) /\ lookup[q] # lookup[p]
    BY <2>2 DEF Inv, Registered, TypeOK
  <2>4. TypeOK'
    <3>1. digestCache' \in [RealPaths -> RealPaths \cup {Nobody}]
      BY ZenonT(40), <2>1, <2>2 DEF Inv, TypeOK
    <3> QED
      BY Zenon, <2>1, <2>2, <3>1 DEF Inv, TypeOK
  <2>5. Registered'
    BY SMTT(30), <2>1, <2>2, <2>3 DEF Inv, TypeOK, Registered, f
  <2>6. Answered'
    <3>1. \A q \in Procs : pc[q] = "waiting" /\ lookup[q] = lookup[p] => f(q) = f(p)
      <4> SUFFICES ASSUME NEW q \in Procs, pc[q] = "waiting", lookup[q] = lookup[p]
                   PROVE  f(q) = f(p)
        OBVIOUS
      <4>0. f(q) \in RealPaths /\ lookup[p] # Nobody /\ Nobody \notin {f(q), Error}
        BY DEF Inv, TypeOK, f, Value
      <4>1. runningLookups[f(q)] = lookup[p]
        BY ZenonT(40), <2>2, <4>0 DEF Inv, Answered
      <4>2. PICK s \in Procs : pc[s] = "calculating" /\ f(s) = f(q)
        BY Zenon, <4>0, <4>1 DEF Inv, Registered
      <4>3. lookup[s] = lookup[p]
        BY Zenon, <4>1, <4>2 DEF Inv, Registered
      <4> QED
        BY Zenon, <4>2, <4>3, <2>3
    <3>2. \A r \in RealPaths : digestCache'[r] \in {Nobody, r}
      BY <2>1, <2>2 DEF Inv, Answered, TypeOK
    <3>3. \A l \in DOMAIN outcome : l \in DOMAIN outcome' /\ (l # lookup[p] => outcome'[l] = outcome[l])
      BY Zenon, <2>1
    <3>4. outcome'[lookup[p]] = value
      BY Zenon, <2>1, <2>2
    <3>5. \A q \in Procs : f(q)' = f(q) /\ lookup'[q] = lookup[q] /\ (q # p => pc'[q] = pc[q])
      BY Zenon, <2>1 DEF f, Inv, TypeOK
    <3>6. \A q \in Procs : pc'[q] = "notifying" =>
             lookup'[q] \in DOMAIN outcome' /\ outcome'[lookup'[q]] \in {f(q)', Error}
      <4>1. \A q \in Procs : pc[q] = "notifying" => lookup[q] # lookup[p]
        <5>1. \A q \in Procs : Nobody \notin {f(q), Error}
          BY DEF Inv, TypeOK, f, Value
        <5> QED
          BY ZenonT(40), <2>2, <5>1 DEF Inv, Answered
      <4>2. pc'[p] = "notifying" /\ \A q \in Procs : q # p => pc'[q] = pc[q]
        BY Zenon, <2>1 DEF Inv, TypeOK
      <4> SUFFICES ASSUME NEW q \in Procs, pc'[q] = "notifying"
                   PROVE  lookup[q] \in DOMAIN outcome' /\ outcome'[lookup[q]] \in {f(q), Error}
        BY Zenon, <3>5
      <4>3. CASE q = p
        BY Zenon, <4>3, <2>2, <3>3, <3>4
      <4>4. CASE q # p
        <5>1. lookup[q] \in DOMAIN outcome /\ outcome[lookup[q]] \in {f(q), Error} /\ lookup[q] # lookup[p]
          BY Zenon, <4>1, <4>2, <4>4 DEF Inv, Answered
        <5> QED
          BY Zenon, <5>1, <3>3
      <4> QED
        BY Zenon, <4>3, <4>4
    <3>7. \A q \in Procs : pc'[q] = "waiting" =>
             /\ lookup'[q] \in DOMAIN outcome'
             /\ \/ outcome'[lookup'[q]] \in {f(q)', Error}
                \/ outcome'[lookup'[q]] = Nobody /\ runningLookups'[f(q)'] = lookup'[q]
      <4> SUFFICES ASSUME NEW q \in Procs, pc[q] = "waiting"
                   PROVE  /\ lookup[q] \in DOMAIN outcome'
                          /\ \/ outcome'[lookup[q]] \in {f(q), Error}
                             \/ outcome'[lookup[q]] = Nobody /\ runningLookups'[f(q)] = lookup[q]
        BY SMTT(30), <2>1, <3>5 DEF Inv, TypeOK
      <4>1. CASE lookup[q] = lookup[p]
        BY Zenon, <4>1, <2>2, <3>1, <3>3, <3>4
      <4>2. CASE lookup[q] # lookup[p]
        <5>1. f(q) \in RealPaths /\ (runningLookups[f(q)] = lookup[q] => f(q) # f(p))
          BY Zenon, <2>2, <4>2 DEF Inv, TypeOK, f
        <5> QED
          BY ZenonT(40), <2>1, <3>3, <4>2, <5>1 DEF Inv, Answered, TypeOK
      <4> QED
        BY Zenon, <4>1, <4>2
    <3>8. \A l \in closed' : l \in DOMAIN outcome' /\ outcome'[l] # Nobody
      BY Zenon, <2>1, <2>2, <3>3, <3>4 DEF Inv, Answered
    <3> QED
      BY Zenon, <3>2, <3>6, <3>7, <3>8 DEF Answered
  <2>7. Progress'
    BY Zenon, <2>1 DEF Inv, TypeOK, Progress, Procs
  <2> QED
    BY Zenon, <2>4, <2>5, <2>6, <2>7 DEF Inv
<1> QED
  BY Zenon, <1>1, <1>2, <1>3, <1>4, <1>5, <1>6 DEF Call

\* The steps with which a process leaves, or waits for the others to leave.
LEMMA LeaveInv ==
    ASSUME Inv, NEW q \in Procs, NEW there \in {"closing", "gone"},
           pc[q] \in {"idle", "closing"}, q = Main => todo = <<>>,
           pc' = [pc EXCEPT ![q] = there], done' \in BOOLEAN,
           UNCHANGED <<path, calls, lookup, cacheVars, todo, got, failed, unsent, tasks>>
    PROVE  Inv'
<1> USE DigestFSAssumption
<1>1. TypeOK'
  BY Zenon DEF Inv, TypeOK, cacheVars
<1>2. \A p \in Procs : p # q => pc'[p] = pc[p]
  BY Zenon DEF Inv, TypeOK
<1>3. pc'[q] = there
  BY Zenon DEF Inv, TypeOK
<1>4. Registered'
  BY SMTT(30), <1>2, <1>3 DEF Inv, Registered, f, cacheVars
<1>5. Answered'
  BY <1>2, <1>3 DEF Inv, Answered, f, cacheVars
<1>6. Progress'
  BY Zenon, <1>2, <1>3 DEF Inv, Progress, Procs
<1> QED
  BY Zenon, <1>1, <1>4, <1>5, <1>6 DEF Inv

\* A step that changes only the worker pool's queue.
LEMMA QueueInv ==
    ASSUME Inv, UNCHANGED <<pc, path, calls, lookup, cacheVars, todo, got, failed, done>>,
           unsent' \in Seq(Paths), tasks' \in Seq(Paths)
    PROVE  Inv'
<1>1. UNCHANGED <<pc, path, calls, lookup, digestCache, runningLookups, outcome, closed, todo, got, failed, done>>
  BY Zenon DEF cacheVars
<1>2. TypeOK'
  BY Zenon, <1>1 DEF Inv, TypeOK
<1>3. Registered'
  BY SMTT(30), <1>1 DEF Inv, Registered, f
<1>4. Answered'
  BY Zenon, <1>1 DEF Inv, Answered, f
<1>5. Progress'
  BY SMTT(30), <1>1 DEF Inv, Progress, TypeOK
<1> QED
  BY Zenon, <1>2, <1>3, <1>4, <1>5 DEF Inv

LEMMA NextInv == Inv /\ [Next]_vars => Inv'
<1> SUFFICES ASSUME Inv, [Next]_vars PROVE Inv'
  OBVIOUS
<1> USE DigestFSAssumption
<1>1. ASSUME NEW p \in Procs, Call(p) PROVE Inv'
  BY Zenon, <1>1, CallInv
<1>2. CASE Ask
  <2>1. Head(todo) \in Paths
    BY <1>2 DEF Ask, Inv, TypeOK
  <2>2. /\ Main \in Procs /\ OpenFile(Main, Head(todo)) /\ pc[Main] = "idle" /\ todo # <<>>
        /\ unsent' \in Seq(Paths) /\ tasks' \in Seq(Paths) /\ done' = done
    BY Zenon, <1>2 DEF Ask, Inv, TypeOK, Procs
  <2> QED
    BY Zenon, <2>1, <2>2, OpenInv
<1>3. ASSUME NEW v \in Workers, Receive(v) PROVE Inv'
  <2>1. Head(tasks) \in Paths /\ Tail(tasks) \in Seq(Paths) /\ v \in Procs /\ v # Main
    BY <1>3 DEF Receive, Inv, TypeOK, Procs
  <2>2. /\ OpenFile(v, Head(tasks)) /\ pc[v] = "idle"
        /\ unsent' \in Seq(Paths) /\ tasks' \in Seq(Paths) /\ done' = done
    BY Zenon, <1>3, <2>1 DEF Receive, Inv, TypeOK
  <2> QED
    BY Zenon, <2>1, <2>2, OpenInv
<1>4. CASE Send \/ StopSending
  <2>1. /\ UNCHANGED <<pc, path, calls, lookup, cacheVars, todo, got, failed, done>>
        /\ unsent' \in Seq(Paths) /\ tasks' \in Seq(Paths)
    <3>1. CASE Send
      BY <3>1 DEF Send, Inv, TypeOK
    <3>2. CASE StopSending
      BY Zenon, <3>2, EmptySeq DEF StopSending, Inv, TypeOK
    <3> QED
      BY Zenon, <1>4, <3>1, <3>2
  <2> QED
    BY Zenon, <2>1, QueueInv
<1>6. CASE Close
  BY ZenonT(40), <1>6, LeaveInv DEF Close, Procs
<1>7. CASE Closed
  BY ZenonT(40), <1>7, LeaveInv DEF Closed, Procs, Inv, Progress, TypeOK
<1>8. ASSUME NEW v \in Workers, Leave(v) PROVE Inv'
  BY ZenonT(40), <1>8, LeaveInv DEF Leave, Procs, Inv, TypeOK
<1>5. CASE UNCHANGED vars
  <2>1. UNCHANGED <<pc, path, calls, lookup, cacheVars, todo, got, failed, done>> /\ UNCHANGED <<unsent, tasks>>
    BY Zenon, <1>5 DEF vars, cacheVars
  <2> QED
    BY Zenon, <2>1, QueueInv DEF Inv, TypeOK
<1> QED
  BY Zenon, <1>1, <1>2, <1>3, <1>4, <1>5, <1>6, <1>7, <1>8 DEF Next, Finished

\* The inductive invariant holds throughout.
THEOREM DigestFSInvariant == Spec => []Inv
BY InitInv, NextInv, PTL DEF Spec

\* For every number of workers and all files and links: no file is hashed by two
\* processes at once, nor after its digest is in the cache.
THEOREM FilesAreHashedOnce == Spec => []HashedOnce
<1>1. Inv => HashedOnce
  BY DEF Inv, TypeOK, Registered, HashedOnce
<1> QED
  BY <1>1, DigestFSInvariant, PTL

\* For every number of workers and all files and links: the layer writer gets the
\* digest of each file it asked for, in its order.
THEOREM EveryDigestIsRight == Spec => []DigestsAreRight
<1>1. Inv => DigestsAreRight
  BY DEF Inv, TypeOK, Answered, Progress, DigestsAreRight
<1> QED
  BY <1>1, DigestFSInvariant, PTL

\* The two together, which is what the layer command relies on.
THEOREM PrecacheIsTransparent == Spec => []DigestsAreShared
BY FilesAreHashedOnce, EveryDigestIsRight, PTL DEF DigestsAreShared
===============================================================================
