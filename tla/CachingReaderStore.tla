------------------------ MODULE CachingReaderStore ------------------------
(***************************************************************************)
(* The inductive invariant of CachingReader, and the steps of an agent that *)
(* was the last to leave a fetch and stores or discards what it brought.   *)
(***************************************************************************)
EXTENDS CachingReader, TLAPS

------------------------------------------------------------------------------
(* The inductive invariant *)

\* Where a reader has counted itself among the readers of its fetch.
Attached == {"opentemp", "reading", "detach"}

\* Where an agent is once its finalize has claimed the fetch.
Finalizing == {"rename", "index", "prune", "forgetFinalized"}

\* Where a caller holds a fetch.
Joined == {"attach", "abandon", "discard", "finalize"} \cup Attached \cup Finalizing
CallerLabels == {Idle, "open", "lookup", "passthrough"} \cup Joined
RunLabels == {Idle, "streaming", "forgetThenDiscard", "forget", "discard", "finalize"} \cup Finalizing

BlobFetch ==
    [digest : Digests \cup {NoFetch}, source : {"good", "bad", "long"}, published : 0 .. Chunks + 1, readers : Nat,
     done : BOOLEAN, err : {"none", "failed", "local"}, abandoned : BOOLEAN, finalized : BOOLEAN,
     discarded : BOOLEAN, temp : BOOLEAN]
Call ==
    [op : Ops \cup {"none"}, digest : Digests \cup {NoFetch}, fetch : Fetches \cup {NoFetch},
     off : 0 .. Chunks + 1, tries : 0 .. MaxAttempts, then : {Idle, "open", "passthrough"}]

NoDuplicates(index) == \A i, j \in DOMAIN index : index[i] = index[j] => i = j

Types ==
    /\ inflight \in [Digests -> Fetches \cup {NoFetch}]
    /\ fetch \in [Fetches -> BlobFetch]
    /\ file \in [Digests -> {"absent", "good", "bad", "long"}]
    /\ lru \in Seq(Digests)
    /\ NoDuplicates(lru)
    /\ stuck \subseteq Digests
    /\ reserved \in Nat
    /\ disabled \in BOOLEAN
    /\ pc \in [Agents -> Labels]
    /\ call \in [Callers -> Call]
    /\ result \in [Callers -> Results]

Started(f) == fetch[f].digest # NoFetch

\* An agent is at one of these places with fetch f.
At(f, places) == \E a \in Agents : Of(a) = f /\ pc[a] \in places

\* A caller's record says what its place makes of it.
CallFits(c) ==
    /\ pc[c] \in CallerLabels
    /\ pc[c] # Idle => call[c].digest # NoFetch
    /\ pc[c] \in Joined <=> call[c].fetch # NoFetch
    /\ pc[c] \in Joined => Started(call[c].fetch)
    /\ pc[c] = "reading" => call[c].off <= fetch[call[c].fetch].published
    /\ pc[c] # "reading" => call[c].off = 0

\* The life of a fetch: streamed, done, then stored or discarded.
FetchFits(f) ==
    /\ pc[f] \in RunLabels
    /\ ~Started(f) => pc[f] = Idle /\ ~fetch[f].temp
    /\ Started(f) => (pc[f] = "streaming" <=> ~fetch[f].done)
    /\ ~fetch[f].done => fetch[f].err = "none"
    /\ fetch[f].done /\ fetch[f].err = "none" => fetch[f].source = "good"
    /\ fetch[f].finalized => fetch[f].done /\ fetch[f].err = "none"
    /\ fetch[f].discarded => fetch[f].err # "none"
    /\ Started(f) => (fetch[f].temp <=> ~fetch[f].discarded /\ (fetch[f].finalized => At(f, {"rename"})))

\* What an agent found when it went where it is still holds.
AgentFits(a) ==
    /\ pc[a] \in Finalizing => fetch[Of(a)].finalized
    /\ pc[a] = "finalize" => fetch[Of(a)].done /\ fetch[Of(a)].err = "none"
    /\ pc[a] \in {"discard", "forget", "forgetThenDiscard"} => fetch[Of(a)].err # "none"
    /\ pc[a] = "abandon" => fetch[Of(a)].abandoned

OneFinalizer ==
    \A a, b \in Agents : pc[a] \in Finalizing /\ pc[b] \in Finalizing /\ Of(a) = Of(b) => a = b

\* The blob is not yet looked for in the store.
InFlight(f) == fetch[f].err = "none" /\ (fetch[f].finalized => At(f, Finalizing))

InflightFits ==
    /\ \A d \in Digests, f \in Fetches : inflight[d] = f =>
          fetch[f].digest = d /\ (InFlight(f) \/ pc[f] \in {"forget", "forgetThenDiscard"})
    /\ \A f \in Fetches : Started(f) /\ ~fetch[f].abandoned /\ InFlight(f) => inflight[fetch[f].digest] = f

ReadersOf(f) == {c \in Callers : pc[c] \in Attached /\ call[c].fetch = f}

\* Somebody is left to store or to discard a fetch that has ended.
FetchIsHeld(f) ==
    /\ fetch[f].readers = Cardinality(ReadersOf(f))
    /\ fetch[f].done /\ ~fetch[f].discarded /\ ~fetch[f].finalized =>
          \/ fetch[f].readers > 0
          \/ fetch[f].err = "none" /\ At(f, {"finalize"})
          \/ fetch[f].err # "none" /\ At(f, {"discard", "forgetThenDiscard"})

StoreFits ==
    /\ StoreIsSound
    /\ MaxSize > 0 => Len(lru) <= MaxSize \/ Indexed(lru) \subseteq stuck \/ \E a \in Agents : pc[a] = "prune"

Inv ==
    /\ Types
    /\ \A c \in Callers : CallFits(c)
    /\ \A f \in Fetches : FetchFits(f)
    /\ \A a \in Agents : AgentFits(a)
    /\ OneFinalizer
    /\ InflightFits
    /\ \A f \in Fetches : FetchIsHeld(f)
    /\ StoreFits
    /\ ReservationsAreExact

------------------------------------------------------------------------------
(* The operators of the store's index *)

\* MoveToFront puts the blob first and loses no other; a blob it moves it does not duplicate.
LEMMA MoveKeepsIndex ==
    ASSUME NEW index \in Seq(Digests), NoDuplicates(index), NEW d \in Digests
    PROVE  /\ MoveToFront(index, d) \in Seq(Digests)
           /\ NoDuplicates(MoveToFront(index, d))
           /\ Indexed(MoveToFront(index, d)) = Indexed(index) \cup {d}
           /\ d \in Indexed(index) => Len(MoveToFront(index, d)) = Len(index)
<1> DEFINE m == MoveToFront(index, d)
<1>1. CASE d \notin Indexed(index)
  <2>1. m = <<d>> \o index
    BY Zenon, <1>1 DEF MoveToFront
  <2>2. m \in Seq(Digests) /\ Len(m) = Len(index) + 1
    BY <2>1
  <2>3. m[1] = d /\ \A i \in 1 .. Len(index) : m[i + 1] = index[i]
    BY <2>1
  <2>4. \A i \in DOMAIN index : m[i + 1] = index[i] /\ i + 1 \in DOMAIN m
    BY <2>2, <2>3
  <2>5. \A i \in DOMAIN m : i = 1 \/ (i - 1 \in DOMAIN index /\ m[i] = index[i - 1])
    BY SMTT(30), <2>2, <2>3
  <2>6. 1 \in DOMAIN m
    BY <2>2
  <2>7. NoDuplicates(m)
    BY <1>1, <2>2, <2>3, <2>5 DEF NoDuplicates, Indexed
  <2>8. Indexed(m) = Indexed(index) \cup {d}
    BY <2>3, <2>4, <2>5, <2>6 DEF Indexed
  <2> QED
    BY Zenon, <1>1, <2>2, <2>7, <2>8
<1>2. CASE d \in Indexed(index)
  <2> DEFINE i == CHOOSE i \in DOMAIN index : index[i] = d
  <2>1. i \in DOMAIN index /\ index[i] = d
    BY Zenon, <1>2 DEF Indexed
  <2>2. m = <<d>> \o SubSeq(index, 1, i - 1) \o SubSeq(index, i + 1, Len(index))
    BY Zenon, <1>2 DEF MoveToFront
  <2> HIDE DEF i
  <2>3. i \in 1 .. Len(index)
    BY <2>1
  <2>4. /\ m \in Seq(Digests) /\ Len(m) = Len(index)
        /\ m[1] = d
        /\ \A j \in 1 .. Len(index) : j > 1 => m[j] = IF j <= i THEN index[j - 1] ELSE index[j]
    <3> DEFINE a == SubSeq(index, 1, i - 1)
               b == SubSeq(index, i + 1, Len(index))
    <3>1. a \in Seq(Digests) /\ Len(a) = i - 1 /\ \A j \in 1 .. i - 1 : a[j] = index[j]
      BY <2>3
    <3>2. b \in Seq(Digests) /\ Len(b) = Len(index) - i /\ \A j \in 1 .. Len(index) - i : b[j] = index[j + i]
      BY <2>3
    <3> DEFINE h == <<d>> \o a
    <3>3. m = h \o b
      BY Zenon, <2>2
    <3> HIDE DEF a, b, m
    <3>4. h \in Seq(Digests) /\ Len(h) = i
      BY <2>3, <3>1
    <3>5. h[1] = d /\ \A j \in 1 .. i : j > 1 => h[j] = index[j - 1]
      BY <2>3, <3>1
    <3> HIDE DEF h
    <3>6. m \in Seq(Digests) /\ Len(m) = Len(index)
      BY <2>3, <3>2, <3>3, <3>4
    <3>7. \A j \in 1 .. i : m[j] = h[j]
      BY <2>3, <3>2, <3>3, <3>4
    <3>8. \A j \in 1 .. Len(index) : j > i => m[j] = index[j]
      <4> SUFFICES ASSUME NEW j \in 1 .. Len(index), j > i
                   PROVE  m[j] = index[j]
        OBVIOUS
      <4>1. m[j] = b[j - i]
        BY <2>3, <3>2, <3>3, <3>4
      <4> QED
        BY <2>3, <3>2, <4>1
    <3>9. m[1] = d
      BY <2>3, <3>5, <3>7
    <3>10. \A j \in 1 .. Len(index) : j > 1 => m[j] = IF j <= i THEN index[j - 1] ELSE index[j]
      BY <2>3, <3>5, <3>7, <3>8
    <3> QED
      BY Zenon, <3>6, <3>9, <3>10
  <2> HIDE DEF m
  <2>5. \A j \in 1 .. Len(index) : \E k \in 1 .. Len(index) : m[k] = index[j]
    <3> TAKE j \in 1 .. Len(index)
    <3>1. CASE j < i
      <4>1. j + 1 \in 1 .. Len(index) /\ j + 1 > 1 /\ j + 1 <= i /\ (j + 1) - 1 = j
        BY <2>3, <3>1
      <4> QED
        BY Zenon, <2>4, <4>1
    <3>2. CASE j = i
      BY <2>1, <2>4, <3>2
    <3>3. CASE j > i
      BY <2>3, <2>4, <3>3
    <3> QED
      BY <2>3, <3>1, <3>2, <3>3
  <2>6. \A j \in 1 .. Len(index) : \E k \in 1 .. Len(index) : m[j] = index[k]
    BY <2>1, <2>3, <2>4
  <2>7. NoDuplicates(m)
    <3> SUFFICES ASSUME NEW j \in 1 .. Len(index), NEW k \in 1 .. Len(index), m[j] = m[k], j < k
                 PROVE  FALSE
      BY <2>4 DEF NoDuplicates
    <3>1. m[k] = IF k <= i THEN index[k - 1] ELSE index[k]
      BY <2>4
    <3>2. CASE j = 1
      <4>1. \E x \in 1 .. Len(index) : x # i /\ index[x] = d
        BY <2>3, <2>4, <3>1, <3>2
      <4> QED
        BY <2>1, <2>3, <4>1 DEF NoDuplicates
    <3>3. CASE j > 1
      <4>1. m[j] = IF j <= i THEN index[j - 1] ELSE index[j]
        BY Zenon, <2>4, <3>3
      <4> QED
        BY <2>3, <3>1, <3>3, <4>1 DEF NoDuplicates
    <3> QED
      BY <3>2, <3>3
  <2>8. Indexed(m) = Indexed(index)
    <3>1. DOMAIN m = 1 .. Len(index) /\ DOMAIN index = 1 .. Len(index)
      BY <2>4
    <3>2. Indexed(m) \subseteq Indexed(index)
      BY Zenon, <2>6, <3>1 DEF Indexed
    <3>3. Indexed(index) \subseteq Indexed(m)
      BY Zenon, <2>5, <3>1 DEF Indexed
    <3> QED
      BY Zenon, <3>2, <3>3
  <2> QED
    BY Zenon, <1>2, <2>4, <2>7, <2>8 DEF m
<1> QED
  BY Zenon, <1>1, <1>2

\* What is left of an index is an index, and holds nothing new.
LEMMA SelectionIsIndex ==
    ASSUME NEW index \in Seq(Digests), NoDuplicates(index), NEW kept \in Selections(index)
    PROVE  /\ kept \in Seq(Digests)
           /\ NoDuplicates(kept)
           /\ Len(kept) <= Len(index)
           /\ Indexed(kept) \subseteq Indexed(index)
<1>1. PICK n \in 0 .. Len(index) : kept \in [1 .. n -> Indexed(index)]
  BY Zenon DEF Selections
<1>2. PICK at \in [DOMAIN kept -> DOMAIN index] :
         /\ \A i, j \in DOMAIN kept : i < j => at[i] < at[j]
         /\ \A i \in DOMAIN kept : kept[i] = index[at[i]]
  BY Zenon DEF Selections
<1>3. Indexed(index) \subseteq Digests
  BY DEF Indexed
<1>4. n \in Nat /\ n <= Len(index) /\ DOMAIN kept = 1 .. n /\ kept \in [1 .. n -> Digests]
  BY <1>1, <1>3
<1>5. kept \in Seq(Digests) /\ Len(kept) = n
  BY <1>4
<1>6. \A i, j \in 1 .. n : at[i] = at[j] => i = j
  <2> SUFFICES ASSUME NEW i \in 1 .. n, NEW j \in 1 .. n, at[i] = at[j], i < j
               PROVE  FALSE
    BY <1>4
  <2>1. at[i] \in 1 .. Len(index) /\ at[i] < at[j]
    BY <1>2, <1>4
  <2> QED
    BY <2>1
<1>7. NoDuplicates(kept)
  <2> SUFFICES ASSUME NEW i \in 1 .. n, NEW j \in 1 .. n, kept[i] = kept[j]
               PROVE  i = j
    BY Zenon, <1>4 DEF NoDuplicates
  <2>1. kept[i] = index[at[i]] /\ kept[j] = index[at[j]] /\ at[i] \in DOMAIN index /\ at[j] \in DOMAIN index
    BY Zenon, <1>2, <1>4
  <2>2. at[i] = at[j]
    BY Zenon, <2>1 DEF NoDuplicates
  <2> QED
    BY Zenon, <1>6, <2>2
<1>8. Indexed(kept) \subseteq Indexed(index)
  BY Zenon, <1>1, <1>4 DEF Indexed
<1> QED
  BY Zenon, <1>4, <1>5, <1>7, <1>8

------------------------------------------------------------------------------
(* Steps of one agent *)

\* Nobody but a moves, and nobody else's call changes.
Alone(a) ==
    /\ pc' \in [Agents -> Labels] /\ call' \in [Callers -> Call]
    /\ \A b \in Agents \ {a} : pc'[b] = pc[b]
    /\ \A c \in Callers \ {a} : call'[c] = call[c]

\* a has let go of its fetch.
Left(a) ==
    /\ Alone(a)
    /\ pc'[a] \in {Idle, "open", "passthrough"}
    /\ a \in Fetches => pc'[a] = Idle
    /\ a \in Callers => /\ call'[a].fetch = NoFetch /\ call'[a].off = 0
                        /\ pc'[a] # Idle => call'[a].digest # NoFetch

Moved(a, label) == Alone(a) /\ pc'[a] = label /\ call' = call

Leaving == {"abandon", "discard", "finalize"} \cup Finalizing

\* Whoever is about to leave a fetch has one.
LEMMA LeaversHaveFetch ==
    ASSUME Inv, NEW a \in Agents, pc[a] \in Leaving
    PROVE  Of(a) \in Fetches /\ Started(Of(a)) /\ fetch[Of(a)].digest \in Digests
<1> USE ReaderAssumption
<1>1. CASE a \in Callers
  BY <1>1 DEF Inv, CallFits, Leaving, Joined, Of, Types, Call, BlobFetch, Started
<1>2. CASE a \notin Callers
  BY ZenonT(40), <1>2 DEF Inv, FetchFits, Leaving, Finalizing, Idle, Of, Types, BlobFetch,
     Started, Agents
<1> QED
  BY Zenon, <1>1, <1>2

LEMMA GotoMoves ==
    ASSUME Inv, NEW a \in Agents, NEW label \in Labels, Goto(a, label), call' = call
    PROVE  Moved(a, label)
BY DEF Inv, Types, Goto, Moved, Alone

LEMMA LeaveLeaves ==
    ASSUME Inv, NEW a \in Agents, pc[a] \in Leaving \cup {"detach"}, Leave(a)
    PROVE  Left(a)
<1> USE ReaderAssumption
<1>1. CASE a \in Fetches
  BY ZenonT(40), <1>1 DEF Inv, Types, Leave, Goto, Left, Alone, Labels
<1>2. CASE a \in Callers
  <2>1. /\ pc' = [pc EXCEPT ![a] = call[a].then]
        /\ call' = [call EXCEPT ![a] = IF call[a].then = Idle THEN NoCall
                                       ELSE [call[a] EXCEPT !.fetch = NoFetch, !.then = Idle]]
    BY Zenon, <1>2 DEF Leave, Goto
  <2>2. call[a] \in Call /\ call \in [Callers -> Call] /\ pc \in [Agents -> Labels] /\ call[a].digest # NoFetch /\ call[a].off = 0
    BY Zenon, <1>2 DEF Inv, Types, CallFits, Leaving, Finalizing, Idle
  <2>3. NoCall \in Call
    BY DEF NoCall, NewCall, Call, Idle
  <2>4. [call[a] EXCEPT !.fetch = NoFetch, !.then = Idle] \in Call
    BY Zenon, <2>2 DEF Call, Idle
  <2>5. call[a].then \in {Idle, "open", "passthrough"}
    BY Zenon, <2>2 DEF Call
  <2>6. call'[a] \in Call /\ call'[a].fetch = NoFetch /\ call'[a].off = 0 /\ (call[a].then # Idle => call'[a].digest # NoFetch)
    BY <1>2, <2>1, <2>2, <2>3, <2>4 DEF NoCall, NewCall, Call
  <2> QED
    BY Zenon, <1>2, <2>1, <2>2, <2>5, <2>6 DEF Left, Alone, Labels, Agents
<1> QED
  BY Zenon, <1>1, <1>2 DEF Agents

\* The fetches of the others stay theirs.
LEMMA OthersKeepFetch ==
    ASSUME NEW a \in Agents, Alone(a), NEW b \in Agents, b # a
    PROVE  Of(b)' = Of(b)
BY DEF Alone, Of

\* A place that a neither leaves nor reaches is as it was.
LEMMA AtIsKept ==
    ASSUME NEW a \in Agents, Alone(a), NEW f, NEW places,
           Of(a) # f \/ pc[a] \notin places, Of(a)' # f \/ pc'[a] \notin places
    PROVE  At(f, places)' <=> At(f, places)
<1>1. \A b \in Agents : Of(b)' = f /\ pc'[b] \in places <=> Of(b) = f /\ pc[b] \in places
  <2> TAKE b \in Agents
  <2>1. CASE b = a
    BY Zenon, <2>1
  <2>2. CASE b # a
    BY Zenon, <2>2, OthersKeepFetch DEF Alone
  <2> QED
    BY Zenon, <2>1, <2>2
<1> QED
  BY Zenon, <1>1 DEF At

LEMMA ReadersAreKept ==
    ASSUME NEW a \in Agents, Alone(a), NEW f,
           a \in Callers => (pc[a] \in Attached /\ call[a].fetch = f <=> pc'[a] \in Attached /\ call'[a].fetch = f)
    PROVE  ReadersOf(f)' = ReadersOf(f)
BY DEF ReadersOf, Alone, Agents

LEMMA ReservationIsKept ==
    ASSUME NEW f, fetch'[f].digest = fetch[f].digest, fetch'[f].discarded = fetch[f].discarded,
           fetch'[f].finalized = fetch[f].finalized, At(f, {"rename", "index"})' <=> At(f, {"rename", "index"})
    PROVE  HoldsReservation(f)' <=> HoldsReservation(f)
BY DEF HoldsReservation, At

LEMMA ReservationsAreKept ==
    ASSUME ReservationsAreExact, reserved' = reserved,
           \A f \in Fetches : HoldsReservation(f)' <=> HoldsReservation(f)
    PROVE  ReservationsAreExact'
BY DEF ReservationsAreExact

\* Only fetch f changes, and becomes b.
Updated(f, b) ==
    /\ fetch' \in [Fetches -> BlobFetch]
    /\ \A g \in Fetches \ {f} : fetch'[g] = fetch[g]
    /\ fetch'[f] = b

LEMMA UpdateFetch ==
    ASSUME Inv, NEW f \in Fetches, NEW b \in BlobFetch, fetch' = [fetch EXCEPT ![f] = b]
    PROVE  Updated(f, b)
BY DEF Inv, Types, Updated

\* The fetch keeps what anybody may have found out about it.
Grows(g) ==
    /\ fetch'[g].digest = fetch[g].digest
    /\ fetch'[g].published >= fetch[g].published
    /\ fetch[g].done => fetch'[g].done /\ fetch'[g].err = fetch[g].err /\ fetch'[g].source = fetch[g].source
    /\ fetch[g].finalized => fetch'[g].finalized
    /\ fetch[g].abandoned => fetch'[g].abandoned

Working == {"streaming", "forget", "forgetThenDiscard"} \cup Leaving

LEMMA WorkersHaveFetch ==
    ASSUME Inv, NEW a \in Agents, pc[a] \in Working
    PROVE  Of(a) \in Fetches /\ Started(Of(a)) /\ fetch[Of(a)].digest \in Digests
<1> USE ReaderAssumption
<1>1. CASE a \in Callers
  BY Zenon, <1>1, LeaversHaveFetch DEF Inv, CallFits, CallerLabels, Joined, Working, Attached,
     Idle, Finalizing
<1>2. CASE a \notin Callers
  BY ZenonT(40), <1>2 DEF Inv, FetchFits, Working, Leaving, Finalizing, Idle, Of, Types,
     BlobFetch, Started, Agents
<1> QED
  BY Zenon, <1>1, <1>2

LEMMA CallIsKept ==
    ASSUME Inv, NEW c \in Callers, pc'[c] = pc[c], call'[c] = call[c],
           call[c].fetch \in Fetches => Grows(call[c].fetch) /\ fetch'[call[c].fetch] \in BlobFetch
    PROVE  CallFits(c)'
<1> USE ReaderAssumption
<1>1. CallFits(c) /\ call[c] \in Call
  BY Zenon DEF Inv, Types
<1>2. CASE call[c].fetch \in Fetches
  <2>1. fetch[call[c].fetch] \in BlobFetch
    BY Zenon, <1>2 DEF Inv, Types
  <2>2. Grows(call[c].fetch) /\ fetch'[call[c].fetch] \in BlobFetch
    BY Zenon, <1>2
  <2> QED
    BY <1>1, <2>1, <2>2 DEF CallFits, Grows, Started, BlobFetch, Call
<1>3. CASE call[c].fetch \notin Fetches
  <2>1. call[c].fetch = NoFetch
    BY Zenon, <1>1, <1>3 DEF Call
  <2> QED
    BY <1>1, <2>1 DEF CallFits, Joined, Attached
<1> QED
  BY Zenon, <1>2, <1>3

LEMMA AgentIsKept ==
    ASSUME Inv, NEW x \in Agents, pc'[x] = pc[x], Of(x)' = Of(x), Of(x) \in Fetches => Grows(Of(x))
    PROVE  AgentFits(x)'
<1>1. AgentFits(x)
  BY Zenon DEF Inv
<1>2. CASE pc[x] \notin Working
  BY Zenon, <1>2 DEF AgentFits, Working, Leaving, Finalizing
<1>3. CASE pc[x] \in Working
  <2>1. Of(x) \in Fetches /\ Grows(Of(x)) /\ FetchFits(Of(x))
    BY Zenon, <1>3, WorkersHaveFetch DEF Inv
  <2> QED
    BY Zenon, <1>1, <2>1 DEF AgentFits, Grows, FetchFits
<1> QED
  BY Zenon, <1>2, <1>3

\* A step of one agent that only adds to the fetches disturbs nobody else.
LEMMA OthersAreKept ==
    ASSUME Inv, NEW a \in Agents, Alone(a), \A g \in Fetches : Grows(g), fetch' \in [Fetches -> BlobFetch]
    PROVE  /\ \A c \in Callers \ {a} : CallFits(c)'
           /\ \A x \in Agents \ {a} : AgentFits(x)'
<1>1. \A c \in Callers \ {a} : CallFits(c)'
  BY Zenon, CallIsKept DEF Alone, Agents
<1>2. \A x \in Agents \ {a} : AgentFits(x)'
  BY Zenon, AgentIsKept, OthersKeepFetch DEF Alone
<1> QED
  BY Zenon, <1>1, <1>2

LEMMA FetchIsKept ==
    ASSUME Inv, NEW g \in Fetches, pc'[g] = pc[g], fetch'[g] = fetch[g], At(g, {"rename"})' <=> At(g, {"rename"})
    PROVE  FetchFits(g)'
BY DEF Inv, FetchFits, Started

LEMMA FinalizersAreKept ==
    ASSUME Inv, NEW a \in Agents, Alone(a),
           pc'[a] \notin Finalizing \/ (pc[a] \in Finalizing /\ Of(a)' = Of(a))
    PROVE  OneFinalizer'
<1>1. \A x \in Agents : pc'[x] \in Finalizing => pc[x] \in Finalizing /\ Of(x)' = Of(x)
  BY Zenon, OthersKeepFetch DEF Alone
<1> QED
  BY Zenon, <1>1 DEF Inv, OneFinalizer

LEMMA InflightIsKept ==
    ASSUME Inv, inflight' = inflight,
           \A g \in Fetches :
              /\ fetch'[g].digest = fetch[g].digest
              /\ InFlight(g)' <=> InFlight(g)
              /\ fetch[g].abandoned => fetch'[g].abandoned
              /\ pc[g] \in {"forget", "forgetThenDiscard"} => pc'[g] = pc[g]
    PROVE  InflightFits'
<1>1. \A d \in Digests : inflight[d] \in Fetches \cup {NoFetch}
  BY Zenon DEF Inv, Types
<1> QED
  BY <1>1 DEF Inv, InflightFits, Started

LEMMA HeldIsKept ==
    ASSUME Inv, NEW g \in Fetches, ReadersOf(g)' = ReadersOf(g),
           fetch'[g].readers = fetch[g].readers, fetch'[g].done = fetch[g].done, fetch'[g].err = fetch[g].err,
           fetch'[g].discarded = fetch[g].discarded, fetch'[g].finalized = fetch[g].finalized,
           At(g, {"finalize"})' <=> At(g, {"finalize"}),
           At(g, {"discard", "forgetThenDiscard"})' <=> At(g, {"discard", "forgetThenDiscard"})
    PROVE  FetchIsHeld(g)'
BY DEF Inv, FetchIsHeld

LEMMA StoreIsKept ==
    ASSUME Inv, NEW a \in Agents, Alone(a), \A g \in Fetches : Grows(g),
           pc[a] \notin {"index", "prune"}, file' = file, lru' = lru, stuck' = stuck
    PROVE  StoreFits'
<1>1. \A x \in Agents : pc[x] \in {"index", "prune"} =>
          pc'[x] = pc[x] /\ Of(x)' = Of(x) /\ fetch'[Of(x)].digest = fetch[Of(x)].digest
  BY Zenon, WorkersHaveFetch, OthersKeepFetch DEF Alone, Working, Leaving, Finalizing, Grows
<1>2. StoreIsSound'
  BY <1>1 DEF Inv, StoreFits, StoreIsSound
<1> QED
  BY Zenon, <1>1, <1>2 DEF Inv, StoreFits

\* A caller that goes from one place with its fetch to another, not to read it.
LEMMA CallIsStillJoined ==
    ASSUME NEW c \in Callers, CallFits(c), call' = call, Started(Of(c)), fetch'[Of(c)].digest = fetch[Of(c)].digest,
           pc[c] \in Joined \ {"reading"}, pc'[c] \in Joined \ {"reading"}
    PROVE  CallFits(c)'
<1>1. pc[c] # Idle /\ pc[c] # "reading" /\ pc'[c] \in CallerLabels /\ pc'[c] # "reading"
  BY DEF Joined, Attached, Finalizing, CallerLabels, Idle
<1>2. call[c].digest # NoFetch /\ call[c].fetch # NoFetch /\ call[c].off = 0
  BY Zenon, <1>1 DEF CallFits
<1>3. Of(c) = call[c].fetch
  BY Zenon DEF Of
<1> QED
  BY Zenon, <1>1, <1>2, <1>3 DEF CallFits, Started

------------------------------------------------------------------------------
(* The last to leave *)

\* finalize finds the fetch complete and unread, and claims it.
LEMMA ClaimStep ==
    ASSUME Inv, NEW a \in Agents, finalize(a), NEW f \in Fetches, f = Of(a), Eligible(fetch[f])
    PROVE  Inv'
<1> USE ReaderAssumption
<1> DEFINE b == [fetch[f] EXCEPT !.finalized = TRUE]
<1>1. pc[a] = "finalize" /\ UNCHANGED <<inflight, storeVars, result>>
  BY Zenon DEF finalize
<1>2. Started(f) /\ (a \in Fetches => f = a) /\ fetch[f] \in BlobFetch
  BY Zenon, <1>1, LeaversHaveFetch DEF Leaving, Of, Inv, Types
<1>3. b \in BlobFetch
  BY Zenon, <1>2 DEF BlobFetch
<1>4. /\ b.finalized
      /\ b.digest = fetch[f].digest /\ b.source = fetch[f].source /\ b.published = fetch[f].published
      /\ b.readers = fetch[f].readers /\ b.done = fetch[f].done /\ b.err = fetch[f].err
      /\ b.abandoned = fetch[f].abandoned /\ b.discarded = fetch[f].discarded /\ b.temp = fetch[f].temp
  BY Zenon, <1>2 DEF BlobFetch
<1> HIDE DEF b
<1>5. Updated(f, b) /\ Moved(a, "rename")
  <2>1. fetch' = [fetch EXCEPT ![f] = b] /\ Goto(a, "rename") /\ call' = call
    BY Zenon DEF finalize, b
  <2> QED
    BY Zenon, <1>3, <2>1, UpdateFetch, GotoMoves DEF Labels
<1>6. /\ Alone(a) /\ pc'[a] = "rename" /\ Of(a)' = f /\ call' = call
      /\ fetch'[f] = b /\ \A g \in Fetches \ {f} : fetch'[g] = fetch[g]
      /\ fetch' \in [Fetches -> BlobFetch]
  BY Zenon, <1>5 DEF Moved, Of, Updated
<1>7. fetch[f].done /\ fetch[f].err = "none" /\ fetch[f].readers = 0 /\ ~fetch[f].finalized
  BY Zenon DEF Eligible
<1>8. At(f, {"rename"})' /\ At(f, Finalizing)' /\ At(f, {"rename", "index"})'
  BY Zenon, <1>6 DEF At, Finalizing
<1>9. \A places : \A g \in Fetches : g # f => (At(g, places)' <=> At(g, places))
  BY Zenon, <1>6, AtIsKept
<1>10. \A g \in Fetches : Grows(g)
  <2>1. \A g \in Fetches : fetch[g] \in BlobFetch
    BY Zenon DEF Inv, Types
  <2> QED
    BY <1>4, <1>6, <2>1 DEF Grows, BlobFetch
<1>11. Types'
  BY Zenon, <1>1, <1>6 DEF Inv, Types, Alone, storeVars, indexVars
<1>12. \A c \in Callers : CallFits(c)'
  <2>1. {"finalize", "rename"} \subseteq Joined \ {"reading"}
    BY DEF Joined, Finalizing
  <2>2. fetch'[f].digest = fetch[f].digest /\ call' = call
    BY Zenon, <1>4, <1>6
  <2>3. a \in Callers => CallFits(a)
    BY Zenon DEF Inv
  <2>4. a \in Callers => CallFits(a)'
    BY ZenonT(40), <1>1, <1>2, <1>6, <2>1, <2>2, <2>3, CallIsStillJoined
  <2> QED
    BY Zenon, <1>6, <1>10, <2>4, OthersAreKept
<1>13. \A g \in Fetches : FetchFits(g)'
  <2>1. FetchFits(f)'
    <3>1. pc'[f] = IF a = f THEN "rename" ELSE pc[f]
      BY Zenon, <1>6 DEF Alone, Agents
    <3>2. FetchFits(f)
      BY Zenon DEF Inv
    <3> QED
      BY ZenonT(40), <1>1, <1>2, <1>4, <1>6, <1>7, <1>8, <3>1, <3>2 DEF FetchFits, Started, RunLabels, Finalizing
  <2>2. \A g \in Fetches \ {f} : FetchFits(g)'
    BY Zenon, <1>2, <1>6, <1>9, FetchIsKept DEF Alone, Agents
  <2> QED
    BY Zenon, <2>1, <2>2
<1>14. \A x \in Agents : AgentFits(x)'
  <2>1. AgentFits(a)'
    BY Zenon, <1>4, <1>6 DEF AgentFits
  <2> QED
    BY Zenon, <1>6, <1>10, <2>1, OthersAreKept
<1>15. OneFinalizer'
  <2>1. \A x \in Agents \ {a} : pc'[x] = pc[x] /\ Of(x)' = Of(x)
    BY Zenon, <1>6, OthersKeepFetch DEF Alone
  <2>2. \A x \in Agents : pc[x] \in Finalizing => Of(x) # f
    BY Zenon, <1>7 DEF Inv, AgentFits
  <2> QED
    BY <1>6, <2>1, <2>2 DEF Inv, OneFinalizer
<1>16. InflightFits'
  <2>1. \A g \in Fetches : InFlight(g)' <=> InFlight(g)
    BY <1>4, <1>6, <1>7, <1>8, <1>9 DEF InFlight
  <2> QED
    BY ZenonT(40), <1>1, <1>2, <1>4, <1>6, <2>1, InflightIsKept DEF Alone, Agents
<1>17. \A g \in Fetches : FetchIsHeld(g)'
  <2>1. \A g \in Fetches : ReadersOf(g)' = ReadersOf(g)
    BY ZenonT(40), <1>1, <1>6, ReadersAreKept DEF Attached
  <2>2. FetchIsHeld(f)'
    BY <1>4, <1>6, <2>1 DEF Inv, FetchIsHeld
  <2>3. \A g \in Fetches \ {f} : FetchIsHeld(g)'
    BY Zenon, <1>6, <1>9, <2>1, HeldIsKept
  <2> QED
    BY Zenon, <2>2, <2>3
<1>18. StoreFits'
  BY Zenon, <1>1, <1>6, <1>10, StoreIsKept DEF storeVars, indexVars
<1>19. ReservationsAreExact'
  <2>1. HoldsReservation(f)' <=> HoldsReservation(f)
    BY ZenonT(40), <1>4, <1>6, <1>7, <1>8 DEF HoldsReservation, At
  <2>2. \A g \in Fetches \ {f} : HoldsReservation(g)' <=> HoldsReservation(g)
    BY Zenon, <1>6, <1>9, ReservationIsKept
  <2> QED
    BY Zenon, <1>1, <2>1, <2>2, ReservationsAreKept DEF Inv, storeVars, indexVars
<1> QED
  BY Zenon, <1>11, <1>12, <1>13, <1>14, <1>15, <1>16, <1>17, <1>18, <1>19 DEF Inv

\* An agent lets go of its fetch and leaves it as it is.
LEMMA LeavingKeeps ==
    ASSUME Inv, NEW a \in Agents, NEW f \in Fetches, f = Of(a), Left(a),
           pc[a] \in {"abandon", "finalize", "forgetFinalized"},
           UNCHANGED <<fetch, storeVars, result>>
    PROVE  /\ inflight' \in [Digests -> Fetches \cup {NoFetch}] => Types'
           /\ \A c \in Callers : CallFits(c)'
           /\ \A g \in Fetches : FetchFits(g)'
           /\ \A x \in Agents : AgentFits(x)'
           /\ OneFinalizer'
           /\ \A g \in Fetches : (pc[a] = "finalize" /\ g = f) \/ FetchIsHeld(g)'
           /\ StoreFits'
           /\ ReservationsAreExact'
           /\ \A places : \A g \in Fetches :
                 (g # f \/ pc[a] \notin places) /\ pc'[a] \notin places => (At(g, places)' <=> At(g, places))
           /\ \A g \in Fetches : ReadersOf(g)' = ReadersOf(g)
<1> USE ReaderAssumption
<1>1. /\ Alone(a) /\ pc'[a] \in {Idle, "open", "passthrough"} /\ (a \in Fetches => pc'[a] = Idle)
      /\ a \in Callers => call'[a].fetch = NoFetch /\ call'[a].off = 0 /\ (pc'[a] # Idle => call'[a].digest # NoFetch)
      /\ a \in Fetches => f = a
      /\ file' = file /\ lru' = lru /\ stuck' = stuck /\ reserved' = reserved /\ disabled' = disabled
  BY Zenon DEF Left, storeVars, indexVars, Of
<1>2. \A places : \A g \in Fetches :
          (g # f \/ pc[a] \notin places) /\ pc'[a] \notin places => (At(g, places)' <=> At(g, places))
  BY Zenon, <1>1, AtIsKept
<1>3. \A g \in Fetches : Grows(g)
  <2>1. \A g \in Fetches : fetch[g] \in BlobFetch
    BY Zenon DEF Inv, Types
  <2> QED
    BY <2>1 DEF Grows, BlobFetch
<1>4. fetch' \in [Fetches -> BlobFetch]
  BY Zenon DEF Inv, Types
<1>5. inflight' \in [Digests -> Fetches \cup {NoFetch}] => Types'
  BY Zenon, <1>1 DEF Inv, Types, Alone
<1>6. \A c \in Callers : CallFits(c)'
  <2>1. a \in Callers => CallFits(a)'
    BY Zenon, <1>1 DEF CallFits, CallerLabels, Joined, Attached, Finalizing, Idle
  <2> QED
    BY Zenon, <1>1, <1>3, <1>4, <2>1, OthersAreKept
<1>7. \A x \in Agents : AgentFits(x)'
  <2>1. AgentFits(a)'
    BY Zenon, <1>1 DEF AgentFits, Finalizing, Idle
  <2> QED
    BY Zenon, <1>1, <1>3, <1>4, <2>1, OthersAreKept
<1>8. \A g \in Fetches : FetchFits(g)'
  <2> TAKE g \in Fetches
  <2>1. At(g, {"rename"})' <=> At(g, {"rename"})
    BY Zenon, <1>1, <1>2 DEF Idle
  <2>2. CASE g # a
    BY Zenon, <1>1, <2>1, <2>2, FetchIsKept DEF Alone, Agents
  <2>3. CASE g = a
    <3>1. FetchFits(g) /\ Started(g)
      BY Zenon, <2>3, LeaversHaveFetch DEF Inv, Leaving, Finalizing, Of
    <3> QED
      BY Zenon, <1>1, <2>1, <2>3, <3>1 DEF FetchFits, Started, RunLabels, Idle
  <2> QED
    BY Zenon, <2>2, <2>3
<1>9. OneFinalizer'
  BY Zenon, <1>1, FinalizersAreKept DEF Finalizing, Idle
<1>10. \A g \in Fetches : ReadersOf(g)' = ReadersOf(g)
  BY ZenonT(40), <1>1, ReadersAreKept DEF Attached, Idle
<1>11. \A g \in Fetches : (pc[a] = "finalize" /\ g = f) \/ FetchIsHeld(g)'
  <2> SUFFICES ASSUME NEW g \in Fetches, ~(pc[a] = "finalize" /\ g = f)
               PROVE  FetchIsHeld(g)'
    BY Zenon
  <2>1. At(g, {"finalize"})' <=> At(g, {"finalize"})
    BY Zenon, <1>1, <1>2 DEF Idle
  <2>2. At(g, {"discard", "forgetThenDiscard"})' <=> At(g, {"discard", "forgetThenDiscard"})
    BY Zenon, <1>1, <1>2 DEF Idle
  <2> QED
    BY Zenon, <1>10, <2>1, <2>2, HeldIsKept
<1>12. StoreFits'
  BY Zenon, <1>1, <1>3, StoreIsKept
<1>13. ReservationsAreExact'
  <2>1. \A g \in Fetches : At(g, {"rename", "index"})' <=> At(g, {"rename", "index"})
    BY Zenon, <1>1, <1>2 DEF Idle
  <2> QED
    BY Zenon, <1>1, <2>1, ReservationIsKept, ReservationsAreKept DEF Inv
<1> QED
  BY Zenon, <1>2, <1>5, <1>6, <1>7, <1>8, <1>9, <1>10, <1>11, <1>12, <1>13

\* finalize finds readers, or that somebody else was first.
LEMMA FinalizeIsLate ==
    ASSUME Inv, NEW a \in Agents, finalize(a), NEW f \in Fetches, f = Of(a), ~Eligible(fetch[f])
    PROVE  Inv'
<1> USE ReaderAssumption
<1>1. /\ pc[a] = "finalize" /\ inflight' = inflight /\ UNCHANGED <<fetch, storeVars, result>>
      /\ Left(a)
  BY Zenon, LeaveLeaves DEF finalize, Leaving
<1>2. fetch[f].done /\ fetch[f].err = "none" /\ fetch[f].readers \in Nat
  BY Zenon, <1>1 DEF Inv, AgentFits, Types, BlobFetch
<1>3. pc'[a] \in {Idle, "open", "passthrough"} /\ Alone(a)
  BY Zenon, <1>1 DEF Left
<1>4. FetchIsHeld(f)'
  <2>1. ReadersOf(f)' = ReadersOf(f)
    BY Zenon, <1>1, LeavingKeeps
  <2>2. fetch[f].readers > 0 \/ fetch[f].finalized
    BY <1>2 DEF Eligible
  <2> QED
    BY Zenon, <1>1, <2>1, <2>2 DEF Inv, FetchIsHeld
<1>5. InflightFits'
  <2>1. \A g \in Fetches : At(g, Finalizing)' <=> At(g, Finalizing)
    BY ZenonT(40), <1>1, <1>3, LeavingKeeps DEF Finalizing, Idle
  <2>2. \A g \in Fetches : InFlight(g)' <=> InFlight(g)
    BY ZenonT(40), <1>1, <2>1 DEF InFlight
  <2> QED
    BY Zenon, <1>1, <1>3, <2>2, InflightIsKept DEF Alone, Agents
<1>6. Types'
  <2>1. inflight' \in [Digests -> Fetches \cup {NoFetch}]
    BY Zenon, <1>1 DEF Inv, Types
  <2> QED
    BY Zenon, <1>1, <2>1, LeavingKeeps
<1>7. /\ \A c \in Callers : CallFits(c)'
      /\ \A g \in Fetches : FetchFits(g)'
      /\ \A x \in Agents : AgentFits(x)'
      /\ OneFinalizer' /\ StoreFits' /\ ReservationsAreExact'
  BY Zenon, <1>1, LeavingKeeps
<1>8. \A g \in Fetches : FetchIsHeld(g)'
  BY Zenon, <1>1, <1>4, LeavingKeeps
<1> QED
  BY Zenon, <1>5, <1>6, <1>7, <1>8 DEF Inv

LEMMA ForgetChanges ==
    ASSUME Inv, NEW f \in Fetches, inflight' = Forgotten(f)
    PROVE  /\ inflight' \in [Digests -> Fetches \cup {NoFetch}]
           /\ \A d \in Digests : inflight'[d] # NoFetch => inflight'[d] = inflight[d] /\ inflight[d] # f
           /\ \A d \in Digests : inflight[d] # f => inflight'[d] = inflight[d]
BY ReaderAssumption DEF Inv, Types, Forgotten

\* A fetch that is out of inflight was not in flight any more, or nobody wanted it.
LEMMA ForgetKeepsInflight ==
    ASSUME Inv, NEW f \in Fetches, inflight' = Forgotten(f), fetch[f].abandoned \/ ~InFlight(f)',
           \A g \in Fetches : fetch'[g].digest = fetch[g].digest /\ fetch'[g].abandoned = fetch[g].abandoned,
           \A g \in Fetches \ {f} : /\ InFlight(g)' <=> InFlight(g)
                                    /\ pc[g] \in {"forget", "forgetThenDiscard"} => pc'[g] = pc[g]
    PROVE  InflightFits'
<1> USE ReaderAssumption
<1>1. /\ \A d \in Digests : inflight'[d] # NoFetch => inflight'[d] = inflight[d] /\ inflight[d] # f
      /\ \A d \in Digests : inflight[d] # f => inflight'[d] = inflight[d]
      /\ \A d \in Digests : inflight[d] \in Fetches \cup {NoFetch}
  BY ZenonT(40), ForgetChanges DEF Inv, Types
<1>2. ASSUME NEW d \in Digests, NEW g \in Fetches, inflight'[d] = g
      PROVE  fetch'[g].digest = d /\ (InFlight(g)' \/ pc'[g] \in {"forget", "forgetThenDiscard"})
  <2>1. inflight[d] = g /\ g # f
    BY Zenon, <1>1, <1>2
  <2> QED
    BY SMTT(30), <2>1 DEF Inv, InflightFits
<1>3. ASSUME NEW g \in Fetches, fetch'[g].digest # NoFetch, ~fetch'[g].abandoned, InFlight(g)'
      PROVE  inflight'[fetch'[g].digest] = g
  <2>1. g # f
    BY Zenon, <1>3
  <2>2. fetch[g].digest \in Digests
    BY ZenonT(40), <1>3 DEF Inv, Types, BlobFetch
  <2>3. inflight[fetch[g].digest] = g
    BY ZenonT(40), <1>3, <2>1 DEF Inv, InflightFits, Started
  <2> QED
    BY Zenon, <1>1, <2>1, <2>2, <2>3
<1> QED
  BY Zenon, <1>2, <1>3 DEF InflightFits, Started

\* Abandon.
LEMMA AbandonStep ==
    ASSUME Inv, NEW c \in Callers, Abandon(c)
    PROVE  Inv'
<1> USE ReaderAssumption
<1>1. PICK f \in Fetches : f = Of(c)
  BY Zenon, LeaversHaveFetch DEF Abandon, Leaving, Agents
<1>2. /\ c \in Agents /\ pc[c] = "abandon" /\ inflight' = Forgotten(f) /\ UNCHANGED <<fetch, storeVars, result>>
      /\ Left(c) /\ fetch[f].abandoned
  BY Zenon, <1>1, LeaveLeaves DEF Abandon, Leaving, Agents, Of, Inv, AgentFits
<1>3. pc'[c] \in {Idle, "open", "passthrough"} /\ Alone(c)
  BY Zenon, <1>2 DEF Left
<1>4. InflightFits'
  <2>1. \A g \in Fetches : At(g, Finalizing)' <=> At(g, Finalizing)
    BY Zenon, <1>1, <1>2, <1>3, LeavingKeeps DEF Finalizing, Idle
  <2>2. \A g \in Fetches : InFlight(g)' <=> InFlight(g)
    BY Zenon, <1>2, <2>1 DEF InFlight
  <2> QED
    BY Zenon, <1>2, <1>3, <2>2, ForgetKeepsInflight DEF Alone, Agents
<1>5. Types'
  BY Zenon, <1>1, <1>2, LeavingKeeps, ForgetChanges
<1>6. /\ \A x \in Callers : CallFits(x)'
      /\ \A g \in Fetches : FetchFits(g)'
      /\ \A x \in Agents : AgentFits(x)'
      /\ OneFinalizer' /\ StoreFits' /\ ReservationsAreExact'
      /\ \A g \in Fetches : FetchIsHeld(g)'
  BY Zenon, <1>1, <1>2, LeavingKeeps
<1> QED
  BY Zenon, <1>4, <1>5, <1>6 DEF Inv

\* ForgetFinalized: the finalizer was the only one, so nobody expects the fetch in flight.
LEMMA ForgetFinalizedStep ==
    ASSUME Inv, NEW a \in Agents, ForgetFinalized(a)
    PROVE  Inv'
<1> USE ReaderAssumption
<1>1. PICK f \in Fetches : f = Of(a)
  BY Zenon, LeaversHaveFetch DEF ForgetFinalized, Leaving, Finalizing
<1>2. /\ pc[a] = "forgetFinalized" /\ inflight' = Forgotten(f) /\ UNCHANGED <<fetch, storeVars, result>>
      /\ Left(a) /\ fetch[f].finalized
  BY Zenon, <1>1, LeaveLeaves DEF ForgetFinalized, Leaving, Finalizing, Inv, AgentFits
<1>3. pc'[a] \in {Idle, "open", "passthrough"} /\ Alone(a)
  BY Zenon, <1>2 DEF Left
<1>4. InflightFits'
  <2>1. \A g \in Fetches \ {f} : At(g, Finalizing)' <=> At(g, Finalizing)
    BY SMTT(30), <1>1, <1>2, <1>3, LeavingKeeps DEF Finalizing, Idle
  <2>2. \A g \in Fetches \ {f} : InFlight(g)' <=> InFlight(g)
    BY Zenon, <1>2, <2>1 DEF InFlight
  <2>3. \A x \in Agents \ {a} : pc'[x] = pc[x] /\ Of(x)' = Of(x)
    BY Zenon, <1>3, OthersKeepFetch DEF Alone
  <2>4. ~At(f, Finalizing)'
    BY Zenon, <1>1, <1>2, <1>3, <2>3 DEF At, Inv, OneFinalizer, Finalizing, Idle
  <2>5. ~InFlight(f)'
    BY Zenon, <1>2, <2>4 DEF InFlight
  <2> QED
    BY ZenonT(40), <1>1, <1>2, <1>3, <2>2, <2>5, ForgetKeepsInflight DEF Alone, Agents
<1>5. Types'
  BY Zenon, <1>1, <1>2, LeavingKeeps, ForgetChanges
<1>6. /\ \A x \in Callers : CallFits(x)'
      /\ \A g \in Fetches : FetchFits(g)'
      /\ \A x \in Agents : AgentFits(x)'
      /\ OneFinalizer' /\ StoreFits' /\ ReservationsAreExact'
      /\ \A g \in Fetches : FetchIsHeld(g)'
  BY Zenon, <1>1, <1>2, LeavingKeeps
<1> QED
  BY Zenon, <1>4, <1>5, <1>6 DEF Inv

\* What the proofs use of finite sets: the subsets of S can be counted.
Countable(S) ==
    \A T \in SUBSET S :
        /\ Cardinality(T) \in Nat
        /\ T = {} => Cardinality(T) = 0
        /\ \A x \in S \ T : Cardinality(T \cup {x}) = Cardinality(T) + 1

\* A reservation that is given back once is counted once.
LEMMA ReservationIsReleased ==
    ASSUME Inv, Countable(Fetches), NEW f \in Fetches, HoldsReservation(f), ~HoldsReservation(f)', reserved' = Released(1),
           \A g \in Fetches \ {f} : HoldsReservation(g)' <=> HoldsReservation(g)
    PROVE  ReservationsAreExact' /\ reserved' \in Nat
<1> DEFINE H == {g \in Fetches : HoldsReservation(g)}
           K == {g \in Fetches : HoldsReservation(g)'}
<1>1. K \cup {f} = H /\ f \in Fetches \ K /\ K \in SUBSET Fetches /\ H \in SUBSET Fetches
  OBVIOUS
<1> HIDE DEF H, K
<1> DEFINE k == Cardinality(K)
<1>2. Cardinality(H) = k + 1 /\ k \in Nat
  BY Zenon, <1>1 DEF Countable
<1>3. reserved = Cardinality(H)
  BY Zenon DEF Inv, ReservationsAreExact, H
<1>4. reserved = k + 1
  BY Zenon, <1>2, <1>3
<1> HIDE DEF k
<1>5. reserved' = k /\ reserved' \in Nat
  BY <1>2, <1>4 DEF Released
<1> QED
  BY Zenon, <1>5 DEF ReservationsAreExact, K, k

\* discard: the temporary file goes, and its reservation with it the first time.
LEMMA DiscardStep ==
    ASSUME Inv, Countable(Fetches), NEW a \in Agents, discard(a)
    PROVE  Inv'
<1> USE ReaderAssumption
<1>1. PICK f \in Fetches : f = Of(a) /\ Started(f) /\ (a \in Fetches => f = a)
  BY Zenon, LeaversHaveFetch DEF discard, Leaving, Of
<1> DEFINE b == [fetch[f] EXCEPT !.discarded = TRUE, !.temp = FALSE]
<1>2. fetch[f] \in BlobFetch
  BY Zenon DEF Inv, Types
<1>3. b \in BlobFetch
  <2>1. [fetch[f] EXCEPT !.discarded = TRUE] \in BlobFetch
    BY Zenon, <1>2 DEF BlobFetch
  <2> QED
    BY Zenon, <2>1 DEF BlobFetch
<1>4. /\ b.discarded /\ ~b.temp
      /\ b.digest = fetch[f].digest /\ b.source = fetch[f].source /\ b.published = fetch[f].published
      /\ b.readers = fetch[f].readers /\ b.done = fetch[f].done /\ b.err = fetch[f].err
      /\ b.abandoned = fetch[f].abandoned /\ b.finalized = fetch[f].finalized
  BY Zenon, <1>2 DEF BlobFetch
<1>5. fetch' = [fetch EXCEPT ![f] = b]
  BY Zenon, <1>1 DEF discard
<1> HIDE DEF b
<1>6. /\ fetch'[f] = b /\ \A g \in Fetches \ {f} : fetch'[g] = fetch[g]
      /\ fetch' \in [Fetches -> BlobFetch]
  <2>1. Updated(f, b)
    BY Zenon, <1>3, <1>5, UpdateFetch
  <2> QED
    BY Zenon, <2>1 DEF Updated
<1>7. /\ pc[a] = "discard" /\ inflight' = inflight /\ file' = file /\ lru' = lru /\ stuck' = stuck /\ disabled' = disabled
      /\ result' = result /\ reserved' = (IF fetch[f].discarded THEN reserved ELSE Released(1))
      /\ Left(a)
  BY Zenon, <1>1, LeaveLeaves DEF discard, Leaving, indexVars
<1>8. /\ Alone(a) /\ pc'[a] \in {Idle, "open", "passthrough"} /\ (a \in Fetches => pc'[a] = Idle)
      /\ a \in Callers => call'[a].fetch = NoFetch /\ call'[a].off = 0 /\ (pc'[a] # Idle => call'[a].digest # NoFetch)
  BY Zenon, <1>7 DEF Left
<1>9. fetch[f].err # "none" /\ ~fetch[f].finalized /\ fetch[f].done
  BY Zenon, <1>1, <1>7 DEF Inv, AgentFits, FetchFits
<1>10. \A places : \A g \in Fetches :
          (g # f \/ pc[a] \notin places) /\ pc'[a] \notin places => (At(g, places)' <=> At(g, places))
  BY Zenon, <1>1, <1>8, AtIsKept
<1>11. \A g \in Fetches : Grows(g)
  <2>1. \A g \in Fetches : fetch[g] \in BlobFetch
    BY Zenon DEF Inv, Types
  <2> QED
    BY <1>4, <1>6, <2>1 DEF Grows, BlobFetch
<1>12. \A c \in Callers : CallFits(c)'
  <2>1. a \in Callers => CallFits(a)'
    BY Zenon, <1>8 DEF CallFits, CallerLabels, Joined, Attached, Finalizing, Idle
  <2> QED
    BY Zenon, <1>6, <1>8, <1>11, <2>1, OthersAreKept
<1>13. \A x \in Agents : AgentFits(x)'
  <2>1. AgentFits(a)'
    BY Zenon, <1>8 DEF AgentFits, Finalizing, Idle
  <2> QED
    BY Zenon, <1>6, <1>8, <1>11, <2>1, OthersAreKept
<1>14. \A g \in Fetches : FetchFits(g)'
  <2>1. FetchFits(f)'
    <3>1. pc'[f] = (IF a = f THEN Idle ELSE pc[f])
      BY Zenon, <1>1, <1>8 DEF Alone, Agents
    <3>2. FetchFits(f)
      BY Zenon DEF Inv
    <3> QED
      BY Zenon, <1>1, <1>4, <1>6, <1>7, <1>9, <3>1, <3>2 DEF FetchFits, Started, RunLabels, Idle
  <2>2. \A g \in Fetches \ {f} : At(g, {"rename"})' <=> At(g, {"rename"})
    BY Zenon, <1>8, <1>10 DEF Idle
  <2>3. \A g \in Fetches \ {f} : FetchFits(g)'
    BY ZenonT(40), <1>1, <1>6, <1>8, <2>2, FetchIsKept DEF Alone, Agents
  <2> QED
    BY Zenon, <2>1, <2>3
<1>15. OneFinalizer'
  BY Zenon, <1>8, FinalizersAreKept DEF Finalizing, Idle
<1>16. InflightFits'
  <2>1. \A g \in Fetches : At(g, Finalizing)' <=> At(g, Finalizing)
    BY Zenon, <1>7, <1>8, <1>10 DEF Finalizing, Idle
  <2>2. \A g \in Fetches : InFlight(g)' <=> InFlight(g)
    BY ZenonT(40), <1>4, <1>6, <2>1 DEF InFlight
  <2> QED
    BY ZenonT(40), <1>1, <1>4, <1>6, <1>7, <1>8, <2>2, InflightIsKept DEF Alone, Agents
<1>17. \A g \in Fetches : FetchIsHeld(g)'
  <2>1. \A g \in Fetches : ReadersOf(g)' = ReadersOf(g)
    BY Zenon, <1>7, <1>8, ReadersAreKept DEF Attached, Idle
  <2>2. FetchIsHeld(f)'
    BY Zenon, <1>4, <1>6, <2>1 DEF Inv, FetchIsHeld
  <2>3. ASSUME NEW g \in Fetches \ {f} PROVE FetchIsHeld(g)'
    <3>1. /\ At(g, {"finalize"})' <=> At(g, {"finalize"})
          /\ At(g, {"discard", "forgetThenDiscard"})' <=> At(g, {"discard", "forgetThenDiscard"})
      BY Zenon, <1>8, <1>10 DEF Idle
    <3> QED
      BY Zenon, <1>6, <2>1, <3>1, HeldIsKept
  <2> QED
    BY Zenon, <2>2, <2>3
<1>18. StoreFits'
  BY Zenon, <1>7, <1>8, <1>11, StoreIsKept
<1>19. ReservationsAreExact' /\ reserved' \in Nat
  <2>1. \A g \in Fetches : At(g, {"rename", "index"})' <=> At(g, {"rename", "index"})
    BY Zenon, <1>7, <1>8, <1>10 DEF Idle
  <2>2. \A g \in Fetches \ {f} : HoldsReservation(g)' <=> HoldsReservation(g)
    BY Zenon, <1>6, <2>1, ReservationIsKept
  <2>3. ~HoldsReservation(f)'
    BY Zenon, <1>4, <1>6 DEF HoldsReservation
  <2>4. HoldsReservation(f) <=> ~fetch[f].discarded
    BY Zenon, <1>1, <1>9 DEF HoldsReservation, Started
  <2>5. CASE fetch[f].discarded
    BY Zenon, <1>7, <2>2, <2>3, <2>4, <2>5, ReservationsAreKept DEF Inv, Types
  <2>6. CASE ~fetch[f].discarded
    BY Zenon, <1>7, <2>2, <2>3, <2>4, <2>6, ReservationIsReleased
  <2> QED
    BY Zenon, <2>5, <2>6
<1>20. Types'
  BY Zenon, <1>6, <1>7, <1>8, <1>19 DEF Inv, Types, Alone
<1> QED
  BY ZenonT(40), <1>12, <1>13, <1>14, <1>15, <1>16, <1>17, <1>18, <1>19, <1>20 DEF Inv

\* The one agent that finalizes f goes a step further; the temporary file is gone after the first.
LEMMA FinalizerMoves ==
    ASSUME Inv, NEW a \in Agents, NEW f \in Fetches, f = Of(a),
           pc[a] \in {"rename", "index", "prune"}, NEW label \in {"index", "prune", "forgetFinalized"},
           Moved(a, label), inflight' = inflight,
           fetch' = [fetch EXCEPT ![f].temp = FALSE]
    PROVE  /\ fetch' \in [Fetches -> BlobFetch]
           /\ \A c \in Callers : CallFits(c)'
           /\ \A g \in Fetches : FetchFits(g)'
           /\ \A x \in Agents : AgentFits(x)'
           /\ OneFinalizer'
           /\ InflightFits'
           /\ \A g \in Fetches : FetchIsHeld(g)'
           /\ \A g \in Fetches \ {f} : HoldsReservation(g)' <=> HoldsReservation(g)
           /\ HoldsReservation(f)' <=> label = "index"
           /\ HoldsReservation(f) <=> pc[a] \in {"rename", "index"}
           /\ \A g \in Fetches : Grows(g)
           /\ \A x \in Agents \ {a} : pc'[x] = pc[x] /\ Of(x)' = Of(x)
           /\ pc'[a] = label /\ Of(a)' = f
           /\ fetch[f].digest \in Digests /\ fetch[f].source = "good"
<1> USE ReaderAssumption
<1> DEFINE b == [fetch[f] EXCEPT !.temp = FALSE]
<1>1. Started(f) /\ fetch[f].digest \in Digests /\ (a \in Fetches => f = a) /\ fetch[f] \in BlobFetch
  BY Zenon, LeaversHaveFetch DEF Leaving, Finalizing, Of, Inv, Types
<1>2. b \in BlobFetch
  BY Zenon, <1>1 DEF BlobFetch
<1>3. /\ ~b.temp
      /\ b.digest = fetch[f].digest /\ b.source = fetch[f].source /\ b.published = fetch[f].published
      /\ b.readers = fetch[f].readers /\ b.done = fetch[f].done /\ b.err = fetch[f].err
      /\ b.abandoned = fetch[f].abandoned /\ b.discarded = fetch[f].discarded /\ b.finalized = fetch[f].finalized
  BY Zenon, <1>1 DEF BlobFetch
<1>4. fetch' = [fetch EXCEPT ![f] = b]
  OBVIOUS
<1> HIDE DEF b
<1>5. Updated(f, b)
  BY Zenon, <1>2, <1>4, UpdateFetch
<1>6. /\ fetch'[f] = b /\ \A g \in Fetches \ {f} : fetch'[g] = fetch[g]
      /\ fetch' \in [Fetches -> BlobFetch]
      /\ Alone(a) /\ pc'[a] = label /\ call' = call /\ Of(a)' = f
  BY Zenon, <1>5 DEF Moved, Of, Updated
<1>7. \A x \in Agents \ {a} : pc'[x] = pc[x] /\ Of(x)' = Of(x)
  BY Zenon, <1>6, OthersKeepFetch DEF Alone
<1>8. fetch[f].finalized /\ fetch[f].done /\ fetch[f].err = "none" /\ fetch[f].source = "good" /\ ~fetch[f].discarded
  BY Zenon DEF Inv, AgentFits, FetchFits, Finalizing
<1>9. \A x \in Agents \ {a} : pc[x] \in Finalizing => Of(x) # f
  BY Zenon DEF Inv, OneFinalizer, Finalizing
<1>10. \A places : \A g \in Fetches : g # f \/ places \cap {pc[a], label} = {} => (At(g, places)' <=> At(g, places))
  BY Zenon, <1>6, AtIsKept
<1>11. ~At(f, {"rename"})' /\ At(f, Finalizing)' /\ At(f, Finalizing)
  BY <1>6, <1>7, <1>9 DEF At, Finalizing
<1>12. \A g \in Fetches : Grows(g)
  <2>1. \A g \in Fetches : fetch[g] \in BlobFetch
    BY Zenon DEF Inv, Types
  <2> QED
    BY <1>3, <1>6, <2>1 DEF Grows, BlobFetch
<1>13. \A c \in Callers : CallFits(c)'
  <2>1. pc[a] \in Joined \ {"reading"} /\ label \in Joined \ {"reading"}
    BY DEF Joined, Finalizing
  <2>2. fetch'[f].digest = fetch[f].digest /\ call' = call
    BY Zenon, <1>3, <1>6
  <2>3. a \in Callers => CallFits(a)
    BY Zenon DEF Inv
  <2>4. a \in Callers => CallFits(a)'
    BY ZenonT(40), <1>1, <1>6, <2>1, <2>2, <2>3, CallIsStillJoined
  <2> QED
    BY ZenonT(40), <1>6, <1>12, <2>4, OthersAreKept
<1>14. \A x \in Agents : AgentFits(x)'
  <2>1. AgentFits(a)'
    BY Zenon, <1>3, <1>6, <1>8 DEF AgentFits
  <2> QED
    BY Zenon, <1>6, <1>12, <2>1, OthersAreKept
<1>15. \A g \in Fetches : FetchFits(g)'
  <2>1. FetchFits(f)'
    <3>1. pc'[f] = IF a = f THEN label ELSE pc[f]
      BY Zenon, <1>6, <1>7 DEF Agents
    <3>2. FetchFits(f)
      BY Zenon DEF Inv
    <3> QED
      BY <1>1, <1>3, <1>6, <1>8, <1>11, <3>1, <3>2 DEF FetchFits, Started, RunLabels, Finalizing
  <2>2. \A g \in Fetches \ {f} : FetchFits(g)'
    BY Zenon, <1>1, <1>6, <1>7, <1>10, FetchIsKept DEF Agents
  <2> QED
    BY Zenon, <2>1, <2>2
<1>16. OneFinalizer'
  BY Zenon, <1>6, FinalizersAreKept DEF Finalizing
<1>17. InflightFits'
  <2>1. \A g \in Fetches : InFlight(g)' <=> InFlight(g)
    BY <1>3, <1>6, <1>10, <1>11 DEF InFlight
  <2> QED
    BY ZenonT(40), <1>1, <1>3, <1>6, <1>7, <2>1, InflightIsKept DEF Agents
<1>18. \A g \in Fetches : FetchIsHeld(g)'
  <2> TAKE g \in Fetches
  <2>1. ReadersOf(g)' = ReadersOf(g)
    BY ZenonT(40), <1>6, ReadersAreKept DEF Attached
  <2>2. At(g, {"finalize"})' <=> At(g, {"finalize"})
    BY Zenon, <1>10
  <2>3. At(g, {"discard", "forgetThenDiscard"})' <=> At(g, {"discard", "forgetThenDiscard"})
    BY Zenon, <1>10
  <2> QED
    BY ZenonT(40), <1>3, <1>6, <2>1, <2>2, <2>3, HeldIsKept
<1>19. \A g \in Fetches \ {f} : HoldsReservation(g)' <=> HoldsReservation(g)
  BY Zenon, <1>6, <1>10, ReservationIsKept
<1>20. HoldsReservation(f)' <=> label = "index"
  BY <1>1, <1>3, <1>6, <1>7, <1>8, <1>9 DEF HoldsReservation, Started, Finalizing
<1>21. HoldsReservation(f) <=> pc[a] \in {"rename", "index"}
  BY Zenon, <1>1, <1>8, <1>9 DEF HoldsReservation, Started, Finalizing
<1> QED
  BY ZenonT(40), <1>1, <1>6, <1>7, <1>8, <1>12, <1>13, <1>14, <1>15, <1>16, <1>17, <1>18, <1>19, <1>20,
     <1>21

\* Rename.
LEMMA RenameStep ==
    ASSUME Inv, Countable(Fetches), NEW a \in Agents, Rename(a)
    PROVE  Inv'
<1> USE ReaderAssumption
<1>1. PICK f \in Fetches : f = Of(a)
  BY Zenon, LeaversHaveFetch DEF Rename, Leaving, Finalizing
<1>2. /\ pc[a] = "rename" /\ fetch' = [fetch EXCEPT ![f].temp = FALSE]
      /\ UNCHANGED <<inflight, lru, stuck, call, result>>
  BY Zenon, <1>1 DEF Rename
<1> DEFINE d == fetch[f].digest
<1>3. CASE /\ file' = [file EXCEPT ![d] = fetch[f].source] \/ (has(d) /\ file' = file)
           /\ Goto(a, "index") /\ UNCHANGED <<reserved, disabled>>
  <2>1. Moved(a, "index")
    BY Zenon, <1>2, <1>3, GotoMoves DEF Labels
  <2>2. /\ fetch' \in [Fetches -> BlobFetch]
        /\ \A c \in Callers : CallFits(c)'
        /\ \A g \in Fetches : FetchFits(g)'
        /\ \A x \in Agents : AgentFits(x)'
        /\ OneFinalizer' /\ InflightFits'
        /\ \A g \in Fetches : FetchIsHeld(g)'
        /\ \A g \in Fetches : HoldsReservation(g)' <=> HoldsReservation(g)
        /\ \A g \in Fetches : Grows(g)
        /\ \A x \in Agents \ {a} : pc'[x] = pc[x] /\ Of(x)' = Of(x)
        /\ pc'[a] = "index" /\ Of(a)' = f
        /\ d \in Digests /\ fetch[f].source = "good"
    BY ZenonT(40), <1>1, <1>2, <2>1, FinalizerMoves
  <2> HIDE DEF d
  <2>3. file' \in [Digests -> {"absent", "good", "bad", "long"}] /\ \A e \in Digests \ {d} : file'[e] = file[e]
    BY <1>3, <2>2 DEF Inv, Types
  <2>4. file'[d] = "good"
    <3>1. file \in [Digests -> {"absent", "good", "bad", "long"}] /\ file[d] \in {"absent", "good"}
      BY Zenon, <2>2 DEF Inv, Types, StoreFits, StoreIsSound
    <3>2. CASE file' = [file EXCEPT ![d] = fetch[f].source]
      BY Zenon, <2>2, <3>1, <3>2
    <3>3. CASE has(d) /\ file' = file
      BY Zenon, <3>1, <3>3 DEF has
    <3> QED
      BY Zenon, <1>3, <3>2, <3>3
  <2>5. fetch'[f].digest = d
    BY Zenon, <2>2 DEF Grows, d
  <2>6. \A x \in Agents : pc[x] \in {"index", "prune"} =>
            pc'[x] = pc[x] /\ Of(x)' = Of(x) /\ fetch'[Of(x)].digest = fetch[Of(x)].digest
    BY Zenon, <1>2, <2>2, WorkersHaveFetch DEF Working, Leaving, Finalizing, Grows
  <2>7. StoreIsSound'
    <3> SUFFICES ASSUME NEW e \in Digests
                 PROVE  /\ file'[e] \in {"absent", "good"}
                        /\ file'[e] # "absent" =>
                              \/ e \in Indexed(lru)
                              \/ \E x \in Agents : pc'[x] = "index" /\ fetch'[Of(x)'].digest = e
      BY Zenon, <1>2 DEF StoreIsSound
    <3>1. CASE e = d
      BY ZenonT(40), <2>2, <2>4, <2>5, <3>1
    <3>2. CASE e # d
      BY <2>3, <2>6, <3>2 DEF Inv, StoreFits, StoreIsSound
    <3> QED
      BY Zenon, <3>1, <3>2
  <2>8. StoreFits'
    BY Zenon, <1>2, <2>6, <2>7 DEF Inv, StoreFits
  <2>9. ReservationsAreExact'
    BY Zenon, <1>3, <2>2, ReservationsAreKept DEF Inv
  <2>10. Types'
    BY Zenon, <1>2, <1>3, <2>1, <2>2, <2>3 DEF Inv, Types, Moved, Alone
  <2> QED
    BY Zenon, <2>2, <2>8, <2>9, <2>10 DEF Inv
<1>4. CASE /\ reserved' = Released(1) /\ disabled' \in {disabled, TRUE} /\ file' = file
           /\ Goto(a, "forgetFinalized")
  <2>1. Moved(a, "forgetFinalized")
    BY Zenon, <1>2, <1>4, GotoMoves DEF Labels
  <2>2. /\ fetch' \in [Fetches -> BlobFetch]
        /\ \A c \in Callers : CallFits(c)'
        /\ \A g \in Fetches : FetchFits(g)'
        /\ \A x \in Agents : AgentFits(x)'
        /\ OneFinalizer' /\ InflightFits'
        /\ \A g \in Fetches : FetchIsHeld(g)'
        /\ \A g \in Fetches \ {f} : HoldsReservation(g)' <=> HoldsReservation(g)
        /\ HoldsReservation(f) /\ ~HoldsReservation(f)'
        /\ \A g \in Fetches : Grows(g)
    BY Zenon, <1>1, <1>2, <2>1, FinalizerMoves
  <2>3. StoreFits'
    BY Zenon, <1>2, <1>4, <2>1, <2>2, StoreIsKept DEF Moved
  <2>4. ReservationsAreExact' /\ reserved' \in Nat
    BY Zenon, <1>4, <2>2, ReservationIsReleased
  <2>5. Types'
    BY Zenon, <1>2, <1>4, <2>1, <2>2, <2>4 DEF Inv, Types, Moved, Alone
  <2> QED
    BY Zenon, <2>2, <2>3, <2>4, <2>5 DEF Inv
<1> QED
  BY Zenon, <1>1, <1>3, <1>4 DEF Rename

\* After the rename there is no temporary file.
LEMMA RenamedHasNoTemp ==
    ASSUME Inv, NEW a \in Agents, NEW f \in Fetches, f = Of(a), pc[a] \in {"index", "prune"}
    PROVE  fetch = [fetch EXCEPT ![f].temp = FALSE]
<1>1. ~At(f, {"rename"})
  BY Zenon DEF At, Inv, OneFinalizer, Finalizing
<1>2. fetch[f].finalized /\ Started(f)
  BY Zenon, LeaversHaveFetch DEF Inv, AgentFits, Finalizing, Leaving
<1>3. fetch[f].temp = FALSE
  BY ZenonT(40), <1>1, <1>2 DEF Inv, FetchFits, Types, BlobFetch
<1>4. fetch \in [Fetches -> BlobFetch] /\ fetch[f] \in BlobFetch
  BY Zenon DEF Inv, Types
<1>5. fetch[f] = [fetch[f] EXCEPT !.temp = FALSE]
  BY Zenon, <1>3, <1>4 DEF BlobFetch
<1> QED
  BY Zenon, <1>4, <1>5

\* Index.
LEMMA IndexStep ==
    ASSUME Inv, Countable(Fetches), NEW a \in Agents, Index(a)
    PROVE  Inv'
<1> USE ReaderAssumption
<1>1. PICK f \in Fetches : f = Of(a)
  BY Zenon, LeaversHaveFetch DEF Index, Leaving, Finalizing
<1> DEFINE d == fetch[f].digest
<1>2. /\ pc[a] = "index" /\ lru' = MoveToFront(lru, d) /\ reserved' = Released(1)
      /\ UNCHANGED <<inflight, fetch, file, stuck, disabled, call, result>>
  BY Zenon, <1>1 DEF Index
<1>3. Moved(a, "prune") /\ fetch' = [fetch EXCEPT ![f].temp = FALSE]
  BY Zenon, <1>1, <1>2, GotoMoves, RenamedHasNoTemp DEF Labels, Index
<1>4. /\ fetch' \in [Fetches -> BlobFetch]
      /\ \A c \in Callers : CallFits(c)'
      /\ \A g \in Fetches : FetchFits(g)'
      /\ \A x \in Agents : AgentFits(x)'
      /\ OneFinalizer' /\ InflightFits'
      /\ \A g \in Fetches : FetchIsHeld(g)'
      /\ \A g \in Fetches \ {f} : HoldsReservation(g)' <=> HoldsReservation(g)
      /\ HoldsReservation(f) /\ ~HoldsReservation(f)'
      /\ \A x \in Agents \ {a} : pc'[x] = pc[x] /\ Of(x)' = Of(x)
      /\ pc'[a] = "prune" /\ d \in Digests
  BY Zenon, <1>1, <1>2, <1>3, FinalizerMoves
<1>5. lru' \in Seq(Digests) /\ NoDuplicates(lru)' /\ Indexed(lru)' = Indexed(lru) \cup {d}
  <2>1. lru \in Seq(Digests) /\ NoDuplicates(lru)
    BY Zenon DEF Inv, Types
  <2> QED
    BY Zenon, <1>2, <1>4, <2>1, MoveKeepsIndex
<1>6. StoreFits'
  <2>1. StoreIsSound'
    <3> SUFFICES ASSUME NEW e \in Digests
                 PROVE  /\ file[e] \in {"absent", "good"}
                        /\ file[e] # "absent" =>
                              e \in Indexed(lru)' \/ \E x \in Agents : pc'[x] = "index" /\ fetch[Of(x)'].digest = e
      BY Zenon, <1>2 DEF StoreIsSound
    <3>1. StoreIsSound
      BY Zenon DEF Inv, StoreFits
    <3>2. CASE e = d
      BY Zenon, <1>5, <3>1, <3>2 DEF StoreIsSound
    <3>3. CASE e # d
      <4>1. ASSUME NEW x \in Agents, pc[x] = "index", fetch[Of(x)].digest = e
            PROVE  pc'[x] = "index" /\ fetch[Of(x)'].digest = e
        <5>1. x # a
          BY Zenon, <1>1, <3>3, <4>1
        <5>2. pc'[x] = pc[x] /\ Of(x)' = Of(x)
          BY Zenon, <1>4, <5>1
        <5> QED
          BY Zenon, <4>1, <5>2
      <4>2. /\ file[e] \in {"absent", "good"}
            /\ file[e] # "absent" =>
                  e \in Indexed(lru) \/ \E x \in Agents : pc[x] = "index" /\ fetch[Of(x)].digest = e
        BY Zenon, <3>1 DEF StoreIsSound
      <4>3. e \in Indexed(lru) => e \in Indexed(lru)'
        BY Zenon, <1>5
      <4> QED
        BY Zenon, <4>1, <4>2, <4>3
    <3> QED
      BY Zenon, <3>2, <3>3
  <2> QED
    BY Zenon, <1>4, <2>1 DEF StoreFits
<1>7. ReservationsAreExact' /\ reserved' \in Nat
  BY Zenon, <1>2, <1>4, ReservationIsReleased
<1>8. Types'
  BY Zenon, <1>2, <1>3, <1>4, <1>5, <1>7 DEF Inv, Types, Moved, Alone
<1> QED
  BY Zenon, <1>4, <1>6, <1>7, <1>8 DEF Inv

\* What leaves the index leaves the disk: the store stays sound.  What a walk to the
\* front leaves could not be removed.
LEMMA EvictionIsSound ==
    ASSUME Inv, NEW i \in 0 .. Len(lru), NEW refused, evictLocked(i, refused),
           \A x \in Agents : pc[x] = "index" => pc'[x] = "index" /\ Of(x)' = Of(x) /\ fetch'[Of(x)].digest = fetch[Of(x)].digest
    PROVE  /\ lru' \in Seq(Digests) /\ NoDuplicates(lru)' /\ Len(lru') <= Len(lru)
           /\ file' \in [Digests -> {"absent", "good", "bad", "long"}]
           /\ stuck' \subseteq Digests
           /\ StoreIsSound'
           /\ i = 0 \/ Indexed(lru) \subseteq stuck => Indexed(lru)' \subseteq stuck'
<1> DEFINE walked == {lru[j] : j \in (i + 1) .. Len(lru)}
           gone == walked \ refused
<1>1. PICK kept \in Selections(lru) : Indexed(kept) = Indexed(lru) \ gone /\ lru' = kept
  BY Zenon DEF evictLocked
<1>2. /\ file' = [d \in Digests |-> IF d \in gone THEN "absent" ELSE file[d]]
      /\ stuck' = (stuck \ walked) \cup refused /\ refused \subseteq walked
  BY Zenon DEF evictLocked
<1>3. lru \in Seq(Digests) /\ NoDuplicates(lru) /\ stuck \subseteq Digests
      /\ file \in [Digests -> {"absent", "good", "bad", "long"}]
  BY Zenon DEF Inv, Types
<1>4. walked \subseteq Digests
  BY <1>3
<1>5. i = 0 => walked = Indexed(lru)
  BY <1>3 DEF Indexed
<1> HIDE DEF walked
<1>6. /\ kept \in Seq(Digests) /\ NoDuplicates(kept) /\ Len(kept) <= Len(lru)
  BY Zenon, <1>3, SelectionIsIndex
<1>7. file' \in [Digests -> {"absent", "good", "bad", "long"}]
  BY Zenon, <1>2, <1>3
<1>8. stuck' \subseteq Digests
  BY Zenon, <1>2, <1>3, <1>4
<1>9. Indexed(lru)' = Indexed(kept) /\ NoDuplicates(lru)'
  BY Zenon, <1>1, <1>6
<1>10. i = 0 \/ Indexed(lru) \subseteq stuck => Indexed(kept) \subseteq stuck'
  BY Zenon, <1>1, <1>2, <1>5
<1>11. \A d \in Digests : file'[d] # "absent" => file'[d] = file[d] /\ (d \in Indexed(lru) => d \in Indexed(kept))
  BY Zenon, <1>1, <1>2
<1>12. \A d \in Digests : file'[d] \in {"absent", "good"}
  BY Zenon, <1>2 DEF Inv, StoreFits, StoreIsSound
<1>13. ASSUME NEW d \in Digests, file'[d] # "absent"
       PROVE  d \in Indexed(kept) \/ \E x \in Agents : pc'[x] = "index" /\ fetch'[Of(x)'].digest = d
  <2>1. file[d] # "absent"
    BY Zenon, <1>11, <1>13
  <2>2. d \in Indexed(lru) \/ \E x \in Agents : pc[x] = "index" /\ fetch[Of(x)].digest = d
    BY Zenon, <2>1 DEF Inv, StoreFits, StoreIsSound
  <2> QED
    BY Zenon, <1>11, <1>13, <2>2
<1>14. StoreIsSound'
  BY Zenon, <1>9, <1>12, <1>13 DEF StoreIsSound
<1> QED
  BY Zenon, <1>1, <1>6, <1>7, <1>8, <1>9, <1>10, <1>14

\* makeRoom and prune leave the store within its limit, or with what cannot be removed.
LEMMA RoomIsMade ==
    ASSUME Inv, NEW size \in Nat, MakeRoom(size),
           \A x \in Agents : pc[x] = "index" => pc'[x] = "index" /\ Of(x)' = Of(x) /\ fetch'[Of(x)].digest = fetch[Of(x)].digest
    PROVE  /\ lru' \in Seq(Digests) /\ NoDuplicates(lru)'
           /\ file' \in [Digests -> {"absent", "good", "bad", "long"}]
           /\ stuck' \subseteq Digests
           /\ StoreFits'
<1> USE ReaderAssumption
<1>1. CASE MaxSize = 0
  <2>1. lru' = lru /\ file' = file /\ stuck' = stuck
    BY Zenon, <1>1 DEF MakeRoom, indexVars
  <2>2. /\ lru' \in Seq(Digests) /\ NoDuplicates(lru)' /\ stuck' \subseteq Digests
        /\ file' \in [Digests -> {"absent", "good", "bad", "long"}]
    BY Zenon, <2>1 DEF Inv, Types
  <2>3. StoreIsSound'
    <3>1. \A d \in Digests : file[d] \in {"absent", "good"}
      BY Zenon DEF Inv, StoreFits, StoreIsSound
    <3>2. \A d \in Digests : file[d] # "absent" =>
             d \in Indexed(lru) \/ \E x \in Agents : pc[x] = "index" /\ fetch[Of(x)].digest = d
      BY Zenon DEF Inv, StoreFits, StoreIsSound
    <3>3. \A d \in Digests : file[d] # "absent" =>
             d \in Indexed(lru) \/ \E x \in Agents : pc'[x] = "index" /\ fetch'[Of(x)'].digest = d
      <4> SUFFICES ASSUME NEW d \in Digests, file[d] # "absent", d \notin Indexed(lru)
                   PROVE  \E x \in Agents : pc'[x] = "index" /\ fetch'[Of(x)'].digest = d
        BY Zenon
      <4>1. PICK x \in Agents : pc[x] = "index" /\ fetch[Of(x)].digest = d
        BY Zenon, <3>2
      <4>2. pc'[x] = "index" /\ Of(x)' = Of(x) /\ fetch'[Of(x)].digest = fetch[Of(x)].digest
        BY Zenon, <4>1
      <4> QED
        BY Zenon, <4>1, <4>2
    <3> QED
      BY Zenon, <2>1, <3>1, <3>3 DEF StoreIsSound
  <2>4. ~(MaxSize > 0)
    BY <1>1
  <2> QED
    BY Zenon, <2>2, <2>3, <2>4 DEF StoreFits
<1>2. CASE MaxSize # 0
  <2>1. PICK i \in 0 .. Len(lru), refused \in SUBSET Indexed(lru) :
           evictLocked(i, refused) /\ (i > 0 => Len(lru') + reserved + size <= MaxSize)
    BY Zenon, <1>2 DEF MakeRoom
  <2>2. /\ lru' \in Seq(Digests) /\ NoDuplicates(lru)'
        /\ file' \in [Digests -> {"absent", "good", "bad", "long"}]
        /\ stuck' \subseteq Digests
        /\ StoreIsSound'
        /\ i = 0 => Indexed(lru)' \subseteq stuck'
    BY Zenon, <2>1, EvictionIsSound
  <2>3. Len(lru') \in Nat /\ reserved \in Nat /\ Len(lru) \in Nat
    BY <2>2 DEF Inv, Types
  <2>4. i = 0 \/ i > 0
    BY <2>3
  <2>5. i > 0 => Len(lru') <= MaxSize
    BY <2>1, <2>3
  <2> QED
    BY Zenon, <2>2, <2>4, <2>5 DEF StoreFits
<1> QED
  BY Zenon, <1>1, <1>2

\* prune.
LEMMA PruneStep ==
    ASSUME Inv, NEW a \in Agents, prune(a)
    PROVE  Inv'
<1> USE ReaderAssumption
<1>1. PICK f \in Fetches : f = Of(a)
  BY Zenon, LeaversHaveFetch DEF prune, Leaving, Finalizing
<1>2. /\ pc[a] = "prune" /\ MakeRoom(0)
      /\ UNCHANGED <<inflight, fetch, reserved, disabled, call, result>>
  BY Zenon DEF prune
<1>3. Moved(a, "forgetFinalized") /\ fetch' = [fetch EXCEPT ![f].temp = FALSE]
  BY Zenon, <1>1, <1>2, GotoMoves, RenamedHasNoTemp DEF Labels, prune
<1>4. /\ fetch' \in [Fetches -> BlobFetch]
      /\ \A c \in Callers : CallFits(c)'
      /\ \A g \in Fetches : FetchFits(g)'
      /\ \A x \in Agents : AgentFits(x)'
      /\ OneFinalizer' /\ InflightFits'
      /\ \A g \in Fetches : FetchIsHeld(g)'
      /\ \A g \in Fetches : HoldsReservation(g)' <=> HoldsReservation(g)
      /\ \A x \in Agents \ {a} : pc'[x] = pc[x] /\ Of(x)' = Of(x)
  BY Zenon, <1>1, <1>2, <1>3, FinalizerMoves
<1>5. 0 \in Nat
  OBVIOUS
<1>6. /\ lru' \in Seq(Digests) /\ NoDuplicates(lru)'
      /\ file' \in [Digests -> {"absent", "good", "bad", "long"}]
      /\ stuck' \subseteq Digests
      /\ StoreFits'
  BY Zenon, <1>2, <1>4, <1>5, RoomIsMade
<1>7. ReservationsAreExact'
  BY Zenon, <1>2, <1>4, ReservationsAreKept DEF Inv
<1>8. Types'
  BY Zenon, <1>2, <1>3, <1>4, <1>6 DEF Inv, Types, Moved, Alone
<1> QED
  BY Zenon, <1>4, <1>6, <1>7, <1>8 DEF Inv

LEMMA LastToLeaveStep ==
    ASSUME Inv, Countable(Fetches), NEW a \in Agents, LastToLeave(a)
    PROVE  Inv'
<1>1. CASE finalize(a)
  <2>1. PICK f \in Fetches : f = Of(a)
    BY Zenon, <1>1, LeaversHaveFetch DEF finalize, Leaving
  <2> QED
    BY Zenon, <1>1, <2>1, ClaimStep, FinalizeIsLate
<1> QED
  BY Zenon, <1>1, DiscardStep, RenameStep, IndexStep, PruneStep, ForgetFinalizedStep DEF LastToLeave

------------------------------------------------------------------------------
(* Callers *)

Quiet == {Idle, "open", "lookup", "passthrough", "attach"} \cup Attached

\* A caller's step that touches no fetch and keeps the store in order.
LEMMA QuietStoreStep ==
    ASSUME Inv, NEW c \in Callers, Alone(c), pc[c] \in Quiet, pc'[c] \in Quiet, CallFits(c)',
           pc[c] \in Attached <=> pc'[c] \in Attached,
           pc[c] \in Attached => call'[c].fetch = call[c].fetch,
           UNCHANGED <<inflight, fetch, reserved>>, disabled' \in BOOLEAN,
           lru' \in Seq(Digests), NoDuplicates(lru)', file' \in [Digests -> {"absent", "good", "bad", "long"}],
           stuck' \subseteq Digests, StoreFits', result' \in [Callers -> Results]
    PROVE  Inv'
<1> USE ReaderAssumption
<1>1. c \in Agents /\ c \notin Fetches
  BY Zenon DEF Agents
<1>2. \A places : \A g \in Fetches : places \cap Quiet = {} => (At(g, places)' <=> At(g, places))
  BY Zenon, <1>1, AtIsKept
<1>3. \A g \in Fetches : Grows(g)
  <2>1. \A g \in Fetches : fetch[g] \in BlobFetch
    BY Zenon DEF Inv, Types
  <2> QED
    BY <2>1 DEF Grows, BlobFetch
<1>4. fetch' \in [Fetches -> BlobFetch]
  BY Zenon DEF Inv, Types
<1>5. \A x \in Agents \ {c} : pc'[x] = pc[x] /\ Of(x)' = Of(x)
  BY Zenon, <1>1, OthersKeepFetch DEF Alone
<1>6. \A x \in Callers : CallFits(x)'
  BY Zenon, <1>1, <1>3, <1>4, OthersAreKept
<1>7. \A x \in Agents : AgentFits(x)'
  <2>1. AgentFits(c)'
    BY Zenon DEF AgentFits, Quiet, Attached, Finalizing, Idle
  <2> QED
    BY Zenon, <1>1, <1>3, <1>4, <2>1, OthersAreKept
<1>8. \A g \in Fetches : FetchFits(g)'
  <2>1. \A g \in Fetches : At(g, {"rename"})' <=> At(g, {"rename"})
    BY Zenon, <1>2 DEF Quiet, Attached, Idle
  <2> QED
    BY Zenon, <1>1, <1>5, <2>1, FetchIsKept DEF Agents
<1>9. OneFinalizer'
  BY Zenon, <1>1, FinalizersAreKept DEF Quiet, Attached, Finalizing, Idle
<1>10. InflightFits'
  <2>1. \A g \in Fetches : At(g, Finalizing)' <=> At(g, Finalizing)
    BY Zenon, <1>2 DEF Quiet, Attached, Finalizing, Idle
  <2>2. \A g \in Fetches : InFlight(g)' <=> InFlight(g)
    BY Zenon, <2>1 DEF InFlight
  <2> QED
    BY Zenon, <1>1, <1>5, <2>2, InflightIsKept DEF Agents
<1>11. \A g \in Fetches : FetchIsHeld(g)'
  <2> TAKE g \in Fetches
  <2>1. ReadersOf(g)' = ReadersOf(g)
    BY Zenon, <1>1, ReadersAreKept
  <2>2. /\ At(g, {"finalize"})' <=> At(g, {"finalize"})
        /\ At(g, {"discard", "forgetThenDiscard"})' <=> At(g, {"discard", "forgetThenDiscard"})
    BY Zenon, <1>2 DEF Quiet, Attached, Idle
  <2> QED
    BY Zenon, <2>1, <2>2, HeldIsKept
<1>12. ReservationsAreExact'
  <2>1. \A g \in Fetches : At(g, {"rename", "index"})' <=> At(g, {"rename", "index"})
    BY Zenon, <1>2 DEF Quiet, Attached, Idle
  <2> QED
    BY Zenon, <2>1, ReservationIsKept, ReservationsAreKept DEF Inv
<1>13. Types'
  BY Zenon DEF Inv, Types, Alone
<1> QED
  BY ZenonT(40), <1>6, <1>7, <1>8, <1>9, <1>10, <1>11, <1>12, <1>13 DEF Inv

\* A caller's step that touches neither a fetch nor what the store holds.
LEMMA QuietStep ==
    ASSUME Inv, NEW c \in Callers, Alone(c), pc[c] \in Quiet, pc'[c] \in Quiet, CallFits(c)',
           pc[c] \in Attached <=> pc'[c] \in Attached,
           pc[c] \in Attached => call'[c].fetch = call[c].fetch,
           UNCHANGED <<inflight, fetch, file, stuck, reserved, disabled>>,
           lru' \in Seq(Digests), NoDuplicates(lru)', Indexed(lru)' = Indexed(lru), Len(lru') = Len(lru),
           result' \in [Callers -> Results]
    PROVE  Inv'
<1>1. \A x \in Agents : pc[x] \in {"index", "prune"} => pc'[x] = pc[x] /\ Of(x)' = Of(x)
  BY Zenon, OthersKeepFetch DEF Alone, Agents, Quiet, Attached, Idle
<1>2. StoreIsSound'
  BY SMTT(30), <1>1 DEF Inv, StoreFits, StoreIsSound
<1>3. StoreFits'
  BY ZenonT(40), <1>1, <1>2 DEF Inv, StoreFits
<1>4. file' \in [Digests -> {"absent", "good", "bad", "long"}] /\ disabled' \in BOOLEAN /\ stuck' \subseteq Digests
  BY ZenonT(40) DEF Inv, Types
<1> QED
  BY ZenonT(40), <1>3, <1>4, QuietStoreStep

\* The same without a change of the index, the new call and place given.
LEMMA QuietMove ==
    ASSUME Inv, NEW c \in Callers, NEW k \in Call, NEW label \in Labels,
           pc' = [pc EXCEPT ![c] = label], call' = [call EXCEPT ![c] = k],
           pc[c] \in Quiet, label \in Quiet,
           label # Idle => k.digest # NoFetch,
           label \in Joined <=> k.fetch # NoFetch,
           label \in Joined => Started(k.fetch),
           label = "reading" => k.off <= fetch[k.fetch].published,
           label # "reading" => k.off = 0,
           pc[c] \in Attached <=> label \in Attached,
           pc[c] \in Attached => k.fetch = call[c].fetch,
           UNCHANGED <<inflight, fetch, file, stuck, reserved, disabled>>
    PROVE  /\ Alone(c) /\ CallFits(c)'
           /\ UNCHANGED lru /\ result' \in [Callers -> Results] => Inv'
<1> USE ReaderAssumption
<1>1. pc'[c] = label /\ call'[c] = k /\ Alone(c)
  BY ZenonT(40) DEF Inv, Types, Alone, Agents
<1>2. CallFits(c)'
  BY Zenon, <1>1 DEF CallFits, Started, CallerLabels, Quiet, Joined
<1>3. ASSUME UNCHANGED lru, result' \in [Callers -> Results]
      PROVE  Inv'
  <2>1. lru' \in Seq(Digests) /\ NoDuplicates(lru)' /\ Indexed(lru)' = Indexed(lru) /\ Len(lru') = Len(lru)
    BY SMTT(30), <1>3 DEF Inv, Types, NoDuplicates, Indexed
  <2> QED
    BY ZenonT(40), <1>1, <1>2, <1>3, <2>1, QuietStep
<1> QED
  BY Zenon, <1>1, <1>2, <1>3

LEMMA BeginStep ==
    ASSUME Inv, NEW c \in Callers, NEW op \in Ops, NEW d \in Digests, Begin(c, op, d)
    PROVE  Inv'
<1> USE ReaderAssumption
<1> DEFINE k == NewCall(op, d)
<1>1. k \in Call /\ k.digest = d /\ k.fetch = NoFetch /\ k.off = 0
  BY DEF NewCall, Call, Idle
<1>2. /\ pc[c] = Idle /\ pc' = [pc EXCEPT ![c] = "open"] /\ call' = [call EXCEPT ![c] = k]
      /\ UNCHANGED <<inflight, fetch, file, stuck, reserved, disabled>> /\ lru' = lru
      /\ result' \in [Callers -> Results]
  BY Zenon DEF Begin, Goto, storeVars, indexVars, Inv, Types, Results
<1> HIDE DEF k
<1> QED
  BY Zenon, <1>1, <1>2, QuietMove DEF Labels, Quiet, Joined, Attached, Finalizing, Idle

LEMMA AnswerStep ==
    ASSUME Inv, NEW c \in Callers, pc[c] \in {"open", "passthrough"}, NEW r \in Results, Answer(c, r),
           UNCHANGED <<inflight, fetch, file, stuck, reserved, disabled>>,
           lru' \in Seq(Digests), NoDuplicates(lru)', Indexed(lru)' = Indexed(lru), Len(lru') = Len(lru)
    PROVE  Inv'
<1> USE ReaderAssumption
<1>1. NoCall \in Call /\ NoCall.fetch = NoFetch /\ NoCall.off = 0
  BY DEF NoCall, NewCall, Call, Idle
<1>2. /\ pc' = [pc EXCEPT ![c] = Idle] /\ call' = [call EXCEPT ![c] = NoCall]
      /\ result' \in [Callers -> Results]
  BY Zenon DEF Answer, Goto, Inv, Types
<1>3. Alone(c) /\ CallFits(c)'
  BY Zenon, <1>1, <1>2, QuietMove DEF Labels, Quiet, Joined, Attached, Finalizing, Idle
<1>4. pc'[c] = Idle
  BY Zenon, <1>2 DEF Inv, Types, Agents
<1> QED
  BY ZenonT(40), <1>2, <1>3, <1>4, QuietStep DEF Quiet, Attached, Idle

\* A caller without a fetch.
LEMMA WithoutFetch ==
    ASSUME Inv, NEW c \in Callers, pc[c] \in {"open", "lookup", "passthrough"}
    PROVE  call[c] \in Call /\ call[c].fetch = NoFetch /\ call[c].off = 0 /\ call[c].digest \in Digests
<1>1. call[c] \in Call /\ CallFits(c)
  BY Zenon DEF Inv, Types
<1> QED
  BY Zenon, <1>1 DEF CallFits, Call, Joined, Attached, Finalizing, Idle

LEMMA OpenStoredStep ==
    ASSUME Inv, NEW c \in Callers, OpenStored(c)
    PROVE  Inv'
<1> USE ReaderAssumption
<1> DEFINE d == call[c].digest
<1>1. /\ pc[c] = "open" /\ UNCHANGED <<inflight, fetch, file, stuck, reserved, disabled>>
      /\ call[c] \in Call /\ call[c].fetch = NoFetch /\ call[c].off = 0 /\ d \in Digests
  BY Zenon, WithoutFetch DEF OpenStored
<1>2. lru \in Seq(Digests) /\ NoDuplicates(lru) /\ call \in [Callers -> Call] /\ result \in [Callers -> Results]
  BY Zenon DEF Inv, Types
<1>3. CASE Goto(c, "passthrough") /\ UNCHANGED <<lru, call, result>>
  <2>1. pc' = [pc EXCEPT ![c] = "passthrough"] /\ call' = [call EXCEPT ![c] = call[c]]
    BY Zenon, <1>2, <1>3 DEF Goto
  <2> QED
    BY Zenon, <1>1, <1>2, <1>3, <2>1, QuietMove DEF Labels, Quiet, Joined, Attached, Finalizing, Idle
<1>4. CASE lru' = (IF d \in Indexed(lru) THEN MoveToFront(lru, d) ELSE lru) /\ Answer(c, Quality(file[d]))
  <2>1. lru' \in Seq(Digests) /\ NoDuplicates(lru)' /\ Indexed(lru)' = Indexed(lru) /\ Len(lru') = Len(lru)
    <3>1. CASE d \in Indexed(lru)
      <4>1. Indexed(lru) \cup {d} = Indexed(lru)
        BY Zenon, <3>1
      <4> QED
        BY ZenonT(40), <1>1, <1>2, <1>4, <3>1, <4>1, MoveKeepsIndex
    <3>2. CASE d \notin Indexed(lru)
      BY Zenon, <1>2, <1>4, <3>2
    <3> QED
      BY Zenon, <3>1, <3>2
  <2>2. Quality(file[d]) \in Results
    BY Zenon DEF Quality, Results
  <2> QED
    BY Zenon, <1>1, <1>4, <2>1, <2>2, AnswerStep
<1>5. CASE /\ call[c].tries < MaxAttempts /\ call' = [call EXCEPT ![c].tries = @ + 1]
           /\ Goto(c, "lookup") /\ UNCHANGED <<lru, result>>
  <2> DEFINE k == [call[c] EXCEPT !.tries = @ + 1]
  <2>1. k \in Call /\ k.digest = d /\ k.fetch = NoFetch /\ k.off = 0
    BY <1>1, <1>5 DEF Call
  <2>2. pc' = [pc EXCEPT ![c] = "lookup"] /\ call' = [call EXCEPT ![c] = k]
    BY Zenon, <1>5 DEF Goto
  <2> HIDE DEF k
  <2> QED
    BY ZenonT(40), <1>1, <1>2, <1>5, <2>1, <2>2, QuietMove DEF Labels, Quiet, Joined, Attached, Finalizing, Idle
<1> QED
  BY Zenon, <1>3, <1>4, <1>5 DEF OpenStored

LEMMA PassthroughStep ==
    ASSUME Inv, NEW c \in Callers, passthrough(c)
    PROVE  Inv'
<1>1. lru' \in Seq(Digests) /\ NoDuplicates(lru)' /\ Indexed(lru)' = Indexed(lru) /\ Len(lru') = Len(lru)
  BY Zenon DEF passthrough, storeVars, indexVars, Inv, Types, NoDuplicates, Indexed
<1>2. pc[c] = "passthrough" /\ UNCHANGED <<inflight, fetch, file, stuck, reserved, disabled>>
  BY Zenon DEF passthrough, storeVars, indexVars
<1>3. result[c] \in Results
  BY Zenon DEF Inv, Types
<1>4. PICK r \in Results : Answer(c, r)
  BY Zenon, <1>3 DEF passthrough, Results
<1> QED
  BY Zenon, <1>1, <1>2, <1>4, AnswerStep

\* A caller with a fetch.
LEMMA WithFetch ==
    ASSUME Inv, NEW c \in Callers, pc[c] \in {"attach"} \cup Attached
    PROVE  /\ call[c] \in Call /\ call[c].fetch \in Fetches /\ call[c].digest \in Digests /\ Started(call[c].fetch)
           /\ pc[c] # "reading" => call[c].off = 0
           /\ fetch[call[c].fetch] \in BlobFetch
<1>1. call[c] \in Call /\ CallFits(c)
  BY Zenon DEF Inv, Types
<1>2. call[c].fetch \in Fetches /\ call[c].digest \in Digests /\ Started(call[c].fetch)
  BY Zenon, <1>1 DEF CallFits, Call, Joined, Attached, Finalizing, Idle
<1> QED
  BY Zenon, <1>1, <1>2 DEF CallFits, Inv, Types

\* fetchFor, when it starts no fetch.
LEMMA JoinStep ==
    ASSUME Inv, NEW c \in Callers, pc[c] = "lookup", UNCHANGED <<inflight, fetch, storeVars, result>>,
           \/ /\ inflight[call[c].digest] # NoFetch
              /\ call' = [call EXCEPT ![c].fetch = inflight[call[c].digest]]
              /\ Goto(c, "attach")
           \/ Goto(c, "open") /\ UNCHANGED call
           \/ Goto(c, "passthrough") /\ UNCHANGED call
    PROVE  Inv'
<1> USE ReaderAssumption
<1>1. /\ call[c] \in Call /\ call[c].fetch = NoFetch /\ call[c].off = 0 /\ call[c].digest \in Digests
      /\ call \in [Callers -> Call] /\ result' \in [Callers -> Results]
      /\ UNCHANGED <<inflight, fetch, file, stuck, reserved, disabled>> /\ UNCHANGED lru
  BY Zenon, WithoutFetch DEF Inv, Types, storeVars, indexVars
<1>2. CASE /\ inflight[call[c].digest] # NoFetch
           /\ call' = [call EXCEPT ![c].fetch = inflight[call[c].digest]]
           /\ Goto(c, "attach")
  <2>1. PICK f \in Fetches : f = inflight[call[c].digest] /\ Started(f)
    BY <1>1, <1>2 DEF Inv, Types, InflightFits, Started
  <2> DEFINE k == [call[c] EXCEPT !.fetch = f]
  <2>2. k \in Call /\ k.digest = call[c].digest /\ k.fetch = f /\ k.off = 0
    BY Zenon, <1>1 DEF Call
  <2>3. pc' = [pc EXCEPT ![c] = "attach"] /\ call' = [call EXCEPT ![c] = k]
    BY Zenon, <1>2, <2>1 DEF Goto
  <2> HIDE DEF k
  <2> QED
    BY ZenonT(40), <1>1, <2>1, <2>2, <2>3, QuietMove DEF Labels, Quiet, Joined, Attached, Finalizing, Idle
<1>3. ASSUME NEW label \in {"open", "passthrough"}, Goto(c, label), UNCHANGED call
      PROVE  Inv'
  <2>1. pc' = [pc EXCEPT ![c] = label] /\ call' = [call EXCEPT ![c] = call[c]]
    BY Zenon, <1>1, <1>3 DEF Goto
  <2> QED
    BY Zenon, <1>1, <2>1, QuietMove DEF Labels, Quiet, Joined, Attached, Finalizing, Idle
<1> QED
  BY Zenon, <1>2, <1>3

LEMMA OpenTempStep ==
    ASSUME Inv, NEW c \in Callers, OpenTemp(c)
    PROVE  Inv'
<1> USE ReaderAssumption
<1>1. /\ pc[c] = "opentemp" /\ call[c] \in Call /\ call[c].fetch \in Fetches /\ call[c].digest \in Digests
      /\ Started(call[c].fetch) /\ call[c].off = 0 /\ fetch[call[c].fetch].published \in Nat
      /\ call \in [Callers -> Call] /\ result' \in [Callers -> Results]
      /\ UNCHANGED <<inflight, fetch, file, stuck, reserved, disabled>> /\ UNCHANGED lru
  BY SMTT(30), WithFetch DEF OpenTemp, Inv, Types, storeVars, indexVars, Attached, BlobFetch
<1>2. CASE Goto(c, "reading") /\ UNCHANGED call
  <2>1. pc' = [pc EXCEPT ![c] = "reading"] /\ call' = [call EXCEPT ![c] = call[c]]
    BY ZenonT(40), <1>1, <1>2 DEF Goto
  <2>2. /\ call[c].off <= fetch[call[c].fetch].published /\ call[c].fetch # NoFetch /\ call[c].digest # NoFetch
        /\ "reading" \in Labels /\ "reading" \in Quiet /\ "reading" \in Joined /\ "reading" \in Attached
        /\ pc[c] \in Quiet /\ pc[c] \in Attached
    BY <1>1 DEF Labels, Quiet, Joined, Attached
  <2> QED
    BY Zenon, <1>1, <2>1, <2>2, QuietMove
<1>3. CASE call' = [call EXCEPT ![c].then = "open"] /\ Goto(c, "detach")
  <2> DEFINE k == [call[c] EXCEPT !.then = "open"]
  <2>1. k \in Call /\ k.digest = call[c].digest /\ k.fetch = call[c].fetch /\ k.off = call[c].off
    BY Zenon, <1>1 DEF Call
  <2>2. pc' = [pc EXCEPT ![c] = "detach"] /\ call' = [call EXCEPT ![c] = k]
    BY Zenon, <1>3 DEF Goto
  <2> HIDE DEF k
  <2> QED
    BY ZenonT(40), <1>1, <2>1, <2>2, QuietMove DEF Labels, Quiet, Joined, Attached, Finalizing, Idle
<1> QED
  BY ZenonT(40), <1>2, <1>3 DEF OpenTemp

LEMMA LeaveForStep ==
    ASSUME Inv, NEW c \in Callers, pc[c] = "reading", NEW next \in {Idle, "open", "passthrough"},
           NEW r \in Results, LeaveFor(c, next, r)
    PROVE  Inv'
<1> USE ReaderAssumption
<1>1. /\ call[c] \in Call /\ call[c].fetch \in Fetches /\ call[c].digest \in Digests
      /\ Started(call[c].fetch) /\ fetch[call[c].fetch].published \in Nat
      /\ result' \in [Callers -> Results]
      /\ UNCHANGED <<inflight, fetch, file, stuck, reserved, disabled>> /\ UNCHANGED lru
  BY WithFetch DEF LeaveFor, Inv, Types, storeVars, indexVars, Attached, BlobFetch
<1> DEFINE j == [call[c] EXCEPT !.then = next]
           k == [j EXCEPT !.off = 0]
<1>2. call' = [call EXCEPT ![c] = k]
  BY Zenon DEF LeaveFor
<1>3. j \in Call /\ j.digest = call[c].digest /\ j.fetch = call[c].fetch
  BY Zenon, <1>1 DEF Call
<1> HIDE DEF j
<1>4. k \in Call /\ k.digest = call[c].digest /\ k.fetch = call[c].fetch /\ k.off = 0
  BY <1>3 DEF Call
<1>5. pc' = [pc EXCEPT ![c] = "detach"]
  BY Zenon DEF LeaveFor, Goto
<1> HIDE DEF k
<1>6. k.off = 0 /\ Started(k.fetch) /\ k.fetch # NoFetch /\ k.digest # NoFetch
  BY Zenon, <1>1, <1>4
<1>7. /\ "detach" \in Labels /\ "detach" \in Quiet /\ "detach" \in Joined /\ "detach" \in Attached
      /\ pc[c] \in Quiet /\ pc[c] \in Attached
  BY Zenon DEF Labels, Quiet, Joined, Attached
<1> QED
  BY Zenon, <1>1, <1>2, <1>4, <1>5, <1>6, <1>7, QuietMove

\* fetchReader.Read and Close.
LEMMA ReadStep ==
    ASSUME Inv, NEW c \in Callers, ReadPublished(c) \/ ReadEnd(c) \/ ReadBroken(c) \/ CloseEarly(c)
    PROVE  Inv'
<1> USE ReaderAssumption
<1>1. /\ \A content : Quality(content) \in Results /\ Early(content) \in Results
      /\ "fine" \in Results /\ "relayed" \in Results
      /\ Idle \in {Idle, "open", "passthrough"} /\ "passthrough" \in {Idle, "open", "passthrough"}
  BY Zenon DEF Quality, Early, Results
<1>2. pc[c] = "reading"
  BY Zenon DEF ReadPublished, ReadEnd, ReadBroken, CloseEarly
<1>3. CASE \E next \in {Idle, "open", "passthrough"}, r \in Results : LeaveFor(c, next, r)
  BY Zenon, <1>2, <1>3, LeaveForStep
<1>4. CASE /\ fetch[call[c].fetch].published > call[c].off
           /\ call' = [call EXCEPT ![c].off = @ + 1]
           /\ UNCHANGED <<inflight, fetch, storeVars, pc, result>>
  <2>1. /\ call[c] \in Call /\ call[c].fetch \in Fetches /\ call[c].digest \in Digests
        /\ Started(call[c].fetch) /\ fetch[call[c].fetch].published \in 0 .. Chunks + 1
        /\ result' \in [Callers -> Results]
        /\ UNCHANGED <<inflight, fetch, file, stuck, reserved, disabled>> /\ UNCHANGED lru
    BY ZenonT(40), <1>2, <1>4, WithFetch DEF Inv, Types, storeVars, indexVars, Attached, BlobFetch
  <2> DEFINE k == [call[c] EXCEPT !.off = @ + 1]
  <2>2. /\ k \in Call /\ k.digest = call[c].digest /\ k.fetch = call[c].fetch
        /\ k.off <= fetch[call[c].fetch].published
    BY <1>4, <2>1 DEF Call
  <2>3. pc' = [pc EXCEPT ![c] = "reading"] /\ call' = [call EXCEPT ![c] = k]
    BY Zenon, <1>2, <1>4 DEF Inv, Types
  <2> HIDE DEF k
  <2> QED
    BY ZenonT(40), <1>2, <2>1, <2>2, <2>3, QuietMove DEF Labels, Quiet, Joined, Attached, Finalizing, Idle
<1>5. CASE FallBack(c)
  BY Zenon, <1>1, <1>3, <1>5 DEF FallBack
<1>6. CASE ReadPublished(c)
  BY Zenon, <1>1, <1>3, <1>4, <1>6 DEF ReadPublished
<1>7. CASE ReadEnd(c)
  BY Zenon, <1>1, <1>3, <1>5, <1>7 DEF ReadEnd
<1> QED
  BY Zenon, <1>1, <1>3, <1>5, <1>6, <1>7 DEF ReadBroken, CloseEarly
==============================================================================
