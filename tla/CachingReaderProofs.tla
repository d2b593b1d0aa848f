------------------------ MODULE CachingReaderProofs ------------------------
(***************************************************************************)
(* The steps of the callers and of the fetches, and the theorems, for every *)
(* set of callers, blobs and fetches and every size of the store.          *)
(***************************************************************************)
EXTENDS CachingReaderStore

------------------------------------------------------------------------------
(* Callers that attach and detach *)

\* A reader that attaches or detaches is counted once.
LEMMA ReadersAreCounted ==
    ASSUME Countable(Callers), NEW f \in Fetches, NEW c \in Callers
    PROVE  /\ Cardinality(ReadersOf(f)) \in Nat /\ Cardinality(ReadersOf(f) \ {c}) \in Nat
           /\ c \notin ReadersOf(f) => Cardinality(ReadersOf(f) \cup {c}) = Cardinality(ReadersOf(f)) + 1
           /\ c \in ReadersOf(f) => Cardinality(ReadersOf(f) \ {c}) = Cardinality(ReadersOf(f)) - 1
<1> DEFINE R == ReadersOf(f)
           Q == R \ {c}
<1>1. R \in SUBSET Callers /\ Q \in SUBSET Callers /\ c \in Callers \ Q
  BY Zenon DEF ReadersOf
<1>2. c \in R => Q \cup {c} = R
  OBVIOUS
<1> HIDE DEF Q, R
<1>3. /\ Cardinality(R) \in Nat /\ Cardinality(Q) \in Nat
      /\ c \notin R => Cardinality(R \cup {c}) = Cardinality(R) + 1
      /\ Cardinality(Q \cup {c}) = Cardinality(Q) + 1
  BY Zenon, <1>1 DEF Countable
<1>4. c \in R => Cardinality(Q) = Cardinality(R) - 1
  BY <1>2, <1>3
<1> QED
  BY Zenon, <1>3, <1>4 DEF Q, R

\* attach.
LEMMA AttachStep ==
    ASSUME Inv, Countable(Callers), NEW c \in Callers, attach(c)
    PROVE  Inv'
<1> USE ReaderAssumption
<1>1. PICK f \in Fetches : f = call[c].fetch
  BY Zenon, WithFetch DEF attach
<1>2. /\ pc[c] = "attach" /\ UNCHANGED <<inflight, storeVars, result>>
      /\ call[c] \in Call /\ call[c].digest \in Digests /\ call[c].off = 0 /\ Started(f) /\ fetch[f] \in BlobFetch
      /\ call \in [Callers -> Call] /\ c \in Agents /\ c \notin Fetches
  BY Zenon, <1>1, WithFetch DEF attach, Inv, Types, Agents
<1>3. CASE call' = [call EXCEPT ![c].fetch = NoFetch] /\ Goto(c, "open") /\ UNCHANGED fetch
  <2> DEFINE k == [call[c] EXCEPT !.fetch = NoFetch]
  <2>1. k \in Call /\ k.digest = call[c].digest /\ k.fetch = NoFetch /\ k.off = 0
    BY Zenon, <1>2 DEF Call
  <2>2. pc' = [pc EXCEPT ![c] = "open"] /\ call' = [call EXCEPT ![c] = k]
    BY Zenon, <1>3 DEF Goto
  <2> HIDE DEF k
  <2>3. /\ "open" \in Labels /\ "open" \in Quiet /\ "open" \notin Joined /\ "open" \notin Attached
        /\ pc[c] \in Quiet /\ pc[c] \notin Attached
    BY Zenon, <1>2 DEF Labels, Quiet, Joined, Attached, Finalizing, Idle
  <2>4. UNCHANGED <<inflight, fetch, file, stuck, reserved, disabled>> /\ UNCHANGED lru /\ result' \in [Callers -> Results]
    BY Zenon, <1>2, <1>3 DEF Inv, Types, storeVars, indexVars
  <2> QED
    BY Zenon, <1>2, <2>1, <2>2, <2>3, <2>4, QuietMove
<1>4. CASE fetch' = [fetch EXCEPT ![f].readers = @ + 1] /\ Goto(c, "opentemp") /\ UNCHANGED call
  <2> DEFINE b == [fetch[f] EXCEPT !.readers = @ + 1]
  <2>1. b \in BlobFetch
    BY <1>2 DEF BlobFetch
  <2>2. /\ b.readers = fetch[f].readers + 1
        /\ b.digest = fetch[f].digest /\ b.source = fetch[f].source /\ b.published = fetch[f].published
        /\ b.done = fetch[f].done /\ b.err = fetch[f].err /\ b.temp = fetch[f].temp
        /\ b.abandoned = fetch[f].abandoned /\ b.discarded = fetch[f].discarded /\ b.finalized = fetch[f].finalized
    BY Zenon, <1>2 DEF BlobFetch
  <2>3. fetch' = [fetch EXCEPT ![f] = b]
    BY Zenon, <1>4
  <2> HIDE DEF b
  <2>4. Updated(f, b) /\ Moved(c, "opentemp")
    BY Zenon, <1>2, <1>4, <2>1, <2>3, UpdateFetch, GotoMoves DEF Labels
  <2>5. /\ fetch'[f] = b /\ \A g \in Fetches \ {f} : fetch'[g] = fetch[g]
        /\ fetch' \in [Fetches -> BlobFetch]
        /\ Alone(c) /\ pc'[c] = "opentemp" /\ call' = call
    BY Zenon, <2>4 DEF Moved, Updated
  <2>6. \A places : \A g \in Fetches : places \cap {"attach", "opentemp"} = {} => (At(g, places)' <=> At(g, places))
    BY Zenon, <1>2, <2>5, AtIsKept
  <2>7. \A g \in Fetches : Grows(g)
    <3>1. \A g \in Fetches : fetch[g] \in BlobFetch
      BY Zenon DEF Inv, Types
    <3> QED
      BY <2>2, <2>5, <3>1 DEF Grows, BlobFetch
  <2>8. \A x \in Callers : CallFits(x)'
    <3>1. CallFits(c)'
      BY ZenonT(40), <1>1, <1>2, <2>2, <2>5 DEF CallFits, Started, CallerLabels, Joined, Attached
    <3> QED
      BY Zenon, <1>2, <2>5, <2>7, <3>1, OthersAreKept
  <2>9. \A x \in Agents : AgentFits(x)'
    <3>1. AgentFits(c)'
      BY Zenon, <2>5 DEF AgentFits, Finalizing
    <3> QED
      BY Zenon, <1>2, <2>5, <2>7, <3>1, OthersAreKept
  <2>10. \A g \in Fetches : pc'[g] = pc[g]
    BY Zenon, <1>2, <2>5 DEF Alone, Agents
  <2>11. \A g \in Fetches : FetchFits(g)'
    <3>1. \A g \in Fetches : At(g, {"rename"})' <=> At(g, {"rename"})
      BY Zenon, <2>6
    <3>2. FetchFits(f)'
      BY SMTT(30), <2>2, <2>5, <2>10, <3>1 DEF Inv, FetchFits, Started
    <3> QED
      BY Zenon, <2>5, <2>10, <3>1, <3>2, FetchIsKept
  <2>12. OneFinalizer'
    BY Zenon, <1>2, <2>5, FinalizersAreKept DEF Finalizing
  <2>13. InflightFits'
    <3>1. \A g \in Fetches : At(g, Finalizing)' <=> At(g, Finalizing)
      BY Zenon, <2>6 DEF Finalizing
    <3>2. \A g \in Fetches : InFlight(g)' <=> InFlight(g)
      BY ZenonT(40), <2>2, <2>5, <3>1 DEF InFlight
    <3>3. \A g \in Fetches : fetch'[g].digest = fetch[g].digest /\ (fetch[g].abandoned => fetch'[g].abandoned)
      BY Zenon, <2>7 DEF Grows
    <3> QED
      BY Zenon, <1>2, <2>10, <3>2, <3>3, InflightIsKept
  <2>14. \A g \in Fetches : FetchIsHeld(g)'
    <3>1. FetchIsHeld(f)'
      <4>1. ReadersOf(f)' = ReadersOf(f) \cup {c} /\ c \notin ReadersOf(f)
        BY <1>1, <1>2, <2>5 DEF ReadersOf, Alone, Attached, Agents
      <4>2. Cardinality(ReadersOf(f) \cup {c}) = Cardinality(ReadersOf(f)) + 1
        BY Zenon, <4>1, ReadersAreCounted
      <4>3. fetch'[f].readers = Cardinality(ReadersOf(f)') /\ fetch'[f].readers > 0
        BY SMTT(30), <2>2, <2>5, <4>1, <4>2, ReadersAreCounted DEF Inv, FetchIsHeld
      <4> QED
        BY Zenon, <4>3 DEF FetchIsHeld
    <3>2. ASSUME NEW g \in Fetches \ {f} PROVE FetchIsHeld(g)'
      <4>1. ReadersOf(g)' = ReadersOf(g)
        BY Zenon, <1>1, <1>2, <2>5, ReadersAreKept
      <4>2. /\ At(g, {"finalize"})' <=> At(g, {"finalize"})
            /\ At(g, {"discard", "forgetThenDiscard"})' <=> At(g, {"discard", "forgetThenDiscard"})
        BY Zenon, <2>6
      <4> QED
        BY Zenon, <2>5, <4>1, <4>2, HeldIsKept
    <3> QED
      BY Zenon, <3>1, <3>2
  <2>15. StoreFits'
    BY Zenon, <1>2, <2>5, <2>7, StoreIsKept DEF storeVars, indexVars
  <2>16. ReservationsAreExact'
    <3>1. \A g \in Fetches : At(g, {"rename", "index"})' <=> At(g, {"rename", "index"})
      BY Zenon, <2>6
    <3>2. \A g \in Fetches : HoldsReservation(g)' <=> HoldsReservation(g)
      BY ZenonT(40), <2>2, <2>5, <3>1, ReservationIsKept
    <3> QED
      BY Zenon, <1>2, <3>2, ReservationsAreKept DEF Inv, storeVars, indexVars
  <2>17. Types'
    BY Zenon, <1>2, <2>5 DEF Inv, Types, storeVars, indexVars, Alone
  <2> QED
    BY ZenonT(40), <2>8, <2>9, <2>11, <2>12, <2>13, <2>14, <2>15, <2>16, <2>17 DEF Inv
<1> QED
  BY Zenon, <1>1, <1>3, <1>4 DEF attach

\* detach.  The last reader of a fetch that has ended goes on to store or to discard it.
LEMMA DetachStep ==
    ASSUME Inv, Countable(Callers), NEW c \in Callers, detach(c)
    PROVE  Inv'
<1> USE ReaderAssumption
<1>1. PICK f \in Fetches : f = call[c].fetch
  BY Zenon, WithFetch DEF detach, Attached
<1>2. /\ pc[c] = "detach" /\ UNCHANGED <<inflight, storeVars, result>>
      /\ call[c] \in Call /\ call[c].digest \in Digests /\ call[c].off = 0 /\ Started(f) /\ fetch[f] \in BlobFetch
      /\ call \in [Callers -> Call] /\ c \in Agents /\ c \notin Fetches
  BY Zenon, <1>1, WithFetch DEF detach, Inv, Types, Agents, Attached
<1> DEFINE last == fetch[f].readers = 1
           abandon == last /\ ~fetch[f].done /\ fetch[f].published < Chunks
           j == [fetch[f] EXCEPT !.readers = @ - 1]
           b == [j EXCEPT !.abandoned = fetch[f].abandoned \/ abandon]
           end == IF abandon THEN "abandon" ELSE IF fetch[f].err = "none" THEN "finalize" ELSE "discard"
<1>3. ReadersOf(f) \ {c} # ReadersOf(f) /\ c \in ReadersOf(f)
  BY Zenon, <1>1, <1>2 DEF ReadersOf, Attached
<1>4. /\ Cardinality(ReadersOf(f) \ {c}) = fetch[f].readers - 1
      /\ fetch[f].readers - 1 \in Nat
  <2>1. Cardinality(ReadersOf(f)) = fetch[f].readers
    BY Zenon DEF Inv, FetchIsHeld
  <2>2. /\ Cardinality(ReadersOf(f) \ {c}) = Cardinality(ReadersOf(f)) - 1
        /\ Cardinality(ReadersOf(f) \ {c}) \in Nat
    BY Zenon, <1>3, ReadersAreCounted
  <2> QED
    BY Zenon, <2>1, <2>2
<1>5. /\ j \in BlobFetch /\ j.readers = fetch[f].readers - 1 /\ j.abandoned = fetch[f].abandoned
      /\ j.digest = fetch[f].digest /\ j.source = fetch[f].source /\ j.published = fetch[f].published
      /\ j.done = fetch[f].done /\ j.err = fetch[f].err /\ j.temp = fetch[f].temp
      /\ j.discarded = fetch[f].discarded /\ j.finalized = fetch[f].finalized
  BY ZenonT(40), <1>2, <1>4 DEF BlobFetch
<1>6. fetch' = [fetch EXCEPT ![f] = b]
  BY Zenon, <1>1, <1>2 DEF detach
<1>7. (last /\ (abandon \/ fetch[f].done) /\ Goto(c, end) /\ UNCHANGED call) \/ (~(last /\ (abandon \/ fetch[f].done)) /\ Leave(c))
  BY Zenon, <1>1 DEF detach
<1> HIDE DEF j
<1>8. b \in BlobFetch /\ b.abandoned = (fetch[f].abandoned \/ abandon)
  <2>1. (j.abandoned \/ abandon) \in BOOLEAN
    BY Zenon, <1>5 DEF BlobFetch
  <2> HIDE DEF abandon
  <2> QED
    BY Zenon, <1>5, <2>1 DEF BlobFetch
<1>9. /\ b.readers = fetch[f].readers - 1
      /\ b.digest = fetch[f].digest /\ b.source = fetch[f].source /\ b.published = fetch[f].published
      /\ b.done = fetch[f].done /\ b.err = fetch[f].err /\ b.temp = fetch[f].temp
      /\ b.discarded = fetch[f].discarded /\ b.finalized = fetch[f].finalized
  BY Zenon, <1>5 DEF BlobFetch
<1> HIDE DEF b
<1>10. /\ fetch'[f] = b /\ \A g \in Fetches \ {f} : fetch'[g] = fetch[g]
       /\ fetch' \in [Fetches -> BlobFetch]
  <2>1. Updated(f, b)
    BY Zenon, <1>6, <1>8, UpdateFetch
  <2> QED
    BY Zenon, <2>1 DEF Updated
<1>11. /\ Alone(c) /\ pc'[c] \in {Idle, "open", "passthrough", "abandon", "finalize", "discard"}
       /\ pc'[c] \in {"abandon", "finalize", "discard"} => call'[c].fetch = f
       /\ call'[c].fetch \in {f, NoFetch}
       /\ last /\ fetch[f].done => pc'[c] = (IF fetch[f].err = "none" THEN "finalize" ELSE "discard")
       /\ CallFits(c)' /\ AgentFits(c)'
  <2>1. CASE last /\ (abandon \/ fetch[f].done) /\ Goto(c, end) /\ UNCHANGED call
    <3>1. end \in {"abandon", "finalize", "discard"}
      OBVIOUS
    <3>2. Moved(c, end)
      BY Zenon, <1>2, <2>1, <3>1, GotoMoves DEF Labels
    <3>3. Alone(c) /\ pc'[c] = end /\ call' = call
      BY Zenon, <3>2 DEF Moved
    <3>4. end = "abandon" => b.abandoned
      BY Zenon, <1>8
    <3>5. end # "abandon" => fetch[f].done /\ (end = "finalize" <=> fetch[f].err = "none")
      BY Zenon, <2>1
    <3>6. fetch[f].done => end # "abandon"
      OBVIOUS
    <3> HIDE DEF end, abandon, last
    <3>7. CallFits(c)'
      BY ZenonT(40), <1>1, <1>2, <1>9, <1>10, <3>1, <3>3 DEF CallFits, Started, CallerLabels, Joined
    <3>8. Of(c)' = f
      BY Zenon, <1>1, <3>3 DEF Of
    <3>9. AgentFits(c)'
      BY ZenonT(40), <1>9, <1>10, <3>1, <3>3, <3>4, <3>5, <3>8 DEF AgentFits, Finalizing
    <3> QED
      BY ZenonT(40), <1>1, <3>1, <3>3, <3>5, <3>6, <3>7, <3>9
  <2>2. CASE ~(last /\ (abandon \/ fetch[f].done)) /\ Leave(c)
    <3>1. Left(c)
      BY Zenon, <1>2, <2>2, LeaveLeaves
    <3>2. /\ Alone(c) /\ pc'[c] \in {Idle, "open", "passthrough"}
          /\ call'[c].fetch = NoFetch /\ call'[c].off = 0 /\ (pc'[c] # Idle => call'[c].digest # NoFetch)
      BY Zenon, <1>2, <3>1 DEF Left
    <3>3. CallFits(c)'
      BY Zenon, <3>2 DEF CallFits, CallerLabels, Joined, Attached, Finalizing, Idle
    <3>4. AgentFits(c)'
      BY Zenon, <3>2 DEF AgentFits, Finalizing, Idle
    <3> HIDE DEF abandon, last
    <3> QED
      BY Zenon, <2>2, <3>2, <3>3, <3>4 DEF Idle
  <2> QED
    BY Zenon, <1>7, <2>1, <2>2
<1> HIDE DEF end, abandon, last
<1>12. Of(c) = f /\ Of(c)' \in {f, NoFetch}
  BY Zenon, <1>1, <1>11 DEF Of
<1>13. \A places : \A g \in Fetches :
          (g # f \/ places \cap {"detach", Idle, "open", "passthrough", "abandon", "finalize", "discard"} = {})
             => (At(g, places)' <=> At(g, places))
  <2> TAKE places
  <2> TAKE g \in Fetches
  <2> HAVE g # f \/ places \cap {"detach", Idle, "open", "passthrough", "abandon", "finalize", "discard"} = {}
  <2> QED
    BY Zenon, <1>2, <1>11, <1>12, AtIsKept
<1>14. \A g \in Fetches : Grows(g)
  <2>1. \A g \in Fetches : fetch[g] \in BlobFetch
    BY Zenon DEF Inv, Types
  <2> QED
    BY <1>8, <1>9, <1>10, <2>1 DEF Grows, BlobFetch
<1>15. /\ \A x \in Callers : CallFits(x)'
       /\ \A x \in Agents : AgentFits(x)'
  BY Zenon, <1>2, <1>10, <1>11, <1>14, OthersAreKept
<1>16. \A g \in Fetches : pc'[g] = pc[g]
  BY Zenon, <1>2, <1>11 DEF Alone, Agents
<1>17. \A g \in Fetches : FetchFits(g)'
  <2>1. \A g \in Fetches : At(g, {"rename"})' <=> At(g, {"rename"})
    BY Zenon, <1>13 DEF Idle
  <2>2. FetchFits(f)'
    BY SMTT(30), <1>9, <1>10, <1>16, <2>1 DEF Inv, FetchFits, Started
  <2> QED
    BY Zenon, <1>10, <1>16, <2>1, <2>2, FetchIsKept
<1>18. OneFinalizer'
  BY ZenonT(40), <1>2, <1>11, FinalizersAreKept DEF Finalizing, Idle
<1>19. InflightFits'
  <2>1. \A g \in Fetches : At(g, Finalizing)' <=> At(g, Finalizing)
    BY Zenon, <1>13 DEF Finalizing, Idle
  <2>2. \A g \in Fetches : InFlight(g)' <=> InFlight(g)
    BY ZenonT(40), <1>9, <1>10, <2>1 DEF InFlight
  <2>3. \A g \in Fetches : fetch'[g].digest = fetch[g].digest /\ (fetch[g].abandoned => fetch'[g].abandoned)
    BY Zenon, <1>14 DEF Grows
  <2> QED
    BY Zenon, <1>2, <1>16, <2>2, <2>3, InflightIsKept
<1>20. \A g \in Fetches : FetchIsHeld(g)'
  <2>1. FetchIsHeld(f)'
    <3>1. ReadersOf(f)' = ReadersOf(f) \ {c}
      BY ZenonT(40), <1>2, <1>11 DEF ReadersOf, Alone, Attached, Agents, Idle
    <3>2. fetch'[f].readers = Cardinality(ReadersOf(f)') /\ fetch'[f].readers \in Nat
      BY Zenon, <1>4, <1>9, <1>10, <3>1
    <3>3. fetch'[f].readers = 0 => last
      BY <1>2, <1>9, <1>10 DEF last, BlobFetch
    <3>4. last /\ fetch[f].done /\ fetch[f].err = "none" => At(f, {"finalize"})'
      BY Zenon, <1>2, <1>11 DEF At, Of
    <3>5. last /\ fetch[f].done /\ fetch[f].err # "none" => At(f, {"discard", "forgetThenDiscard"})'
      BY Zenon, <1>2, <1>11 DEF At, Of
    <3> QED
      BY SMTT(30), <1>9, <1>10, <3>2, <3>3, <3>4, <3>5 DEF FetchIsHeld
  <2>2. ASSUME NEW g \in Fetches \ {f} PROVE FetchIsHeld(g)'
    <3>1. ReadersOf(g)' = ReadersOf(g)
      BY Zenon, <1>1, <1>2, <1>11, ReadersAreKept
    <3>2. /\ At(g, {"finalize"})' <=> At(g, {"finalize"})
          /\ At(g, {"discard", "forgetThenDiscard"})' <=> At(g, {"discard", "forgetThenDiscard"})
      BY Zenon, <1>13
    <3> QED
      BY Zenon, <1>10, <3>1, <3>2, HeldIsKept
  <2> QED
    BY Zenon, <2>1, <2>2
<1>21. StoreFits'
  BY Zenon, <1>2, <1>11, <1>14, StoreIsKept DEF storeVars, indexVars
<1>22. ReservationsAreExact'
  <2>1. \A g \in Fetches : At(g, {"rename", "index"})' <=> At(g, {"rename", "index"})
    BY Zenon, <1>13 DEF Idle
  <2>2. \A g \in Fetches : HoldsReservation(g)' <=> HoldsReservation(g)
    BY Zenon, <1>9, <1>10, <2>1, ReservationIsKept
  <2> QED
    BY Zenon, <1>2, <2>2, ReservationsAreKept DEF Inv, storeVars, indexVars
<1>23. Types'
  BY Zenon, <1>2, <1>10, <1>11 DEF Inv, Types, storeVars, indexVars, Alone
<1> QED
  BY ZenonT(40), <1>15, <1>17, <1>18, <1>19, <1>20, <1>21, <1>22, <1>23 DEF Inv

\* startFetch: room is made, and without a temporary file nothing is cached any more.
LEMMA GiveUpCachingStep ==
    ASSUME Inv, NEW c \in Callers, pc[c] = "lookup", Goto(c, "passthrough"),
           MakeRoom(1), disabled' = TRUE,
           UNCHANGED <<inflight, fetch, reserved, call, result>>
    PROVE  Inv'
<1> USE ReaderAssumption
<1>1. Moved(c, "passthrough") /\ c \in Agents
  BY Zenon, GotoMoves DEF Labels, Agents
<1>2. Alone(c) /\ pc'[c] = "passthrough" /\ call' = call
  BY Zenon, <1>1 DEF Moved
<1>3. \A x \in Agents : pc[x] = "index" => pc'[x] = "index" /\ Of(x)' = Of(x)
  BY Zenon, <1>1, <1>2, OthersKeepFetch DEF Alone
<1>4. 1 \in Nat
  OBVIOUS
<1>5. /\ lru' \in Seq(Digests) /\ NoDuplicates(lru)'
      /\ file' \in [Digests -> {"absent", "good", "bad", "long"}]
      /\ stuck' \subseteq Digests
      /\ StoreFits'
  BY Zenon, <1>3, <1>4, RoomIsMade
<1>8. CallFits(c)'
  <2>1. CallFits(c)
    BY Zenon DEF Inv
  <2> QED
    BY Zenon, <1>2, <2>1 DEF CallFits, CallerLabels, Joined, Attached, Finalizing, Idle
<1>9. result' \in [Callers -> Results] /\ disabled' \in BOOLEAN
  BY Zenon DEF Inv, Types
<1>10. /\ pc[c] \in Quiet /\ pc[c] \notin Attached /\ pc'[c] \in Quiet /\ pc'[c] \notin Attached
  BY Zenon, <1>2 DEF Quiet, Attached
<1> QED
  BY ZenonT(40), <1>2, <1>5, <1>8, <1>9, <1>10, QuietStoreStep

\* Nobody is anywhere with a fetch that is over.
LEMMA OverIsUnused ==
    ASSUME Inv, NEW f \in Fetches, Over(f)
    PROVE  /\ \A a \in Agents : Of(a) = f => a = f
           /\ pc[f] = Idle
           /\ \A d \in Digests : inflight[d] # f
           /\ ~HoldsReservation(f)
<1>1. \A a \in Agents : Of(a) = f => a = f
  BY Zenon DEF Over, Of, Agents
<1>2. fetch[f].finalized => ~\E a \in Agents : Of(a) = f /\ pc[a] \in {"rename", "index"}
  BY Zenon, <1>1 DEF Over, Idle
<1>3. NoBlobFetch.digest = NoFetch
  BY Zenon DEF NoBlobFetch
<1> QED
  BY Zenon, <1>1, <1>2, <1>3 DEF Over, HoldsReservation

LEMMA UpdateInflight ==
    ASSUME Inv, NEW d \in Digests, NEW f \in Fetches, inflight' = [inflight EXCEPT ![d] = f]
    PROVE  /\ inflight' \in [Digests -> Fetches \cup {NoFetch}] /\ inflight'[d] = f
           /\ \A e \in Digests \ {d} : inflight'[e] = inflight[e]
BY DEF Inv, Types

LEMMA UpdateCall ==
    ASSUME Inv, NEW c \in Callers, NEW k \in Call, call' = [call EXCEPT ![c] = k]
    PROVE  call' \in [Callers -> Call] /\ call'[c] = k /\ \A x \in Callers \ {c} : call'[x] = call[x]
BY DEF Inv, Types

\* Fetch f of d is new, and c joins it.
Starts(c, d, f) ==
    /\ fetch' \in [Fetches -> BlobFetch] /\ \A g \in Fetches \ {f} : fetch'[g] = fetch[g]
    /\ fetch'[f].digest = d /\ fetch'[f].published = 0 /\ fetch'[f].readers = 0 /\ ~fetch'[f].done
    /\ fetch'[f].err = "none" /\ ~fetch'[f].finalized /\ ~fetch'[f].discarded /\ fetch'[f].temp
    /\ pc' \in [Agents -> Labels] /\ pc'[c] = "attach" /\ pc'[f] = "streaming"
    /\ \A x \in Agents \ {c, f} : pc'[x] = pc[x]
    /\ call' \in [Callers -> Call] /\ \A x \in Callers \ {c} : call'[x] = call[x]
    /\ call'[c].fetch = f /\ call'[c].digest = d /\ call'[c].off = 0
    /\ inflight' \in [Digests -> Fetches \cup {NoFetch}] /\ inflight'[d] = f
    /\ \A e \in Digests \ {d} : inflight'[e] = inflight[e]

LEMMA NewFetch ==
    ASSUME Inv, NEW c \in Callers, NEW d \in Digests, NEW f \in Fetches, NEW source \in Sources,
           pc[c] = "lookup", d = call[c].digest,
           fetch' = [fetch EXCEPT ![f] = [NoBlobFetch EXCEPT !.digest = d, !.source = source, !.temp = TRUE]],
           inflight' = [inflight EXCEPT ![d] = f],
           call' = [call EXCEPT ![c].fetch = f],
           pc' = [pc EXCEPT ![c] = "attach", ![f] = "streaming"]
    PROVE  Starts(c, d, f)
<1> USE ReaderAssumption
<1> DEFINE b1 == [NoBlobFetch EXCEPT !.digest = d]
           b2 == [b1 EXCEPT !.source = source]
           b == [b2 EXCEPT !.temp = TRUE]
           k == [call[c] EXCEPT !.fetch = f]
<1>1. /\ NoBlobFetch \in BlobFetch /\ NoBlobFetch.published = 0 /\ NoBlobFetch.readers = 0 /\ ~NoBlobFetch.done
      /\ NoBlobFetch.err = "none" /\ ~NoBlobFetch.finalized /\ ~NoBlobFetch.discarded
  BY DEF NoBlobFetch, BlobFetch
<1>2. /\ b1 \in BlobFetch /\ b1.digest = d /\ b1.published = 0 /\ b1.readers = 0 /\ ~b1.done
      /\ b1.err = "none" /\ ~b1.finalized /\ ~b1.discarded
  BY Zenon, <1>1 DEF BlobFetch
<1>3. /\ b \in BlobFetch /\ b.digest = d /\ b.published = 0 /\ b.readers = 0 /\ ~b.done
      /\ b.err = "none" /\ ~b.finalized /\ ~b.discarded /\ b.temp
  <2> HIDE DEF b1
  <2>1. /\ b2 \in BlobFetch /\ b2.digest = d /\ b2.published = 0 /\ b2.readers = 0 /\ ~b2.done
        /\ b2.err = "none" /\ ~b2.finalized /\ ~b2.discarded
    BY Zenon, <1>2 DEF BlobFetch
  <2> HIDE DEF b2
  <2> QED
    BY Zenon, <2>1 DEF BlobFetch
<1>4. fetch' = [fetch EXCEPT ![f] = b]
  OBVIOUS
<1> HIDE DEF b
<1>5. fetch' \in [Fetches -> BlobFetch] /\ fetch'[f] = b /\ \A g \in Fetches \ {f} : fetch'[g] = fetch[g]
  BY <1>3, <1>4 DEF Inv, Types
<1>6. call[c] \in Call /\ call[c].fetch = NoFetch /\ call[c].off = 0 /\ call[c].digest \in Digests
  BY Zenon, WithoutFetch
<1>7. k \in Call /\ k.fetch = f /\ k.off = 0 /\ k.digest = d
  BY Zenon, <1>6 DEF Call
<1>8. call' = [call EXCEPT ![c] = k]
  OBVIOUS
<1> HIDE DEF k
<1>9. call' \in [Callers -> Call] /\ call'[c] = k /\ \A x \in Callers \ {c} : call'[x] = call[x]
  BY Zenon, <1>7, <1>8, UpdateCall
<1>10. c # f /\ c \in Agents /\ f \in Agents
  BY Zenon DEF Agents
<1>11. /\ pc' \in [Agents -> Labels] /\ pc'[c] = "attach" /\ pc'[f] = "streaming"
       /\ \A x \in Agents \ {c, f} : pc'[x] = pc[x]
  <2>1. pc \in [Agents -> Labels]
    BY Zenon DEF Inv, Types
  <2>2. "attach" \in Labels /\ "streaming" \in Labels
    BY Zenon DEF Labels
  <2> DEFINE p == [pc EXCEPT ![c] = "attach"]
  <2>3. p \in [Agents -> Labels] /\ p[c] = "attach" /\ \A x \in Agents \ {c} : p[x] = pc[x]
    BY Zenon, <1>10, <2>1, <2>2
  <2>4. pc' = [p EXCEPT ![f] = "streaming"]
    OBVIOUS
  <2> HIDE DEF p
  <2> QED
    BY SMTT(30), <1>10, <2>2, <2>3, <2>4
<1>12. /\ inflight' \in [Digests -> Fetches \cup {NoFetch}] /\ inflight'[d] = f
       /\ \A e \in Digests \ {d} : inflight'[e] = inflight[e]
  BY Zenon, UpdateInflight
<1> QED
  BY ZenonT(40), <1>3, <1>5, <1>7, <1>9, <1>11, <1>12 DEF Starts

LEMMA ReservationIsTaken ==
    ASSUME Inv, Countable(Fetches), NEW f \in Fetches, ~HoldsReservation(f), HoldsReservation(f)', reserved' = reserved + 1,
           \A g \in Fetches \ {f} : HoldsReservation(g)' <=> HoldsReservation(g)
    PROVE  ReservationsAreExact' /\ reserved' \in Nat
<1> DEFINE H == {g \in Fetches : HoldsReservation(g)}
           K == {g \in Fetches : HoldsReservation(g)'}
<1>1. K = H \cup {f} /\ f \in Fetches \ H /\ H \in SUBSET Fetches
  OBVIOUS
<1>2. reserved = Cardinality(H) => Cardinality(K) = reserved + 1
  <2> HIDE DEF H, K
  <2> QED
    BY Zenon, <1>1 DEF Countable
<1>3. reserved = Cardinality(H) /\ reserved \in Nat
  BY Zenon DEF Inv, Types, ReservationsAreExact
<1> QED
  BY <1>2, <1>3 DEF ReservationsAreExact

\* startFetch.
LEMMA StartStep ==
    ASSUME Inv, Countable(Callers), Countable(Fetches), NEW c \in Callers, NEW d \in Digests, NEW f \in Fetches, Starts(c, d, f),
           pc[c] = "lookup", d = call[c].digest, inflight[d] = NoFetch, Over(f),
           MakeRoom(1), reserved' = reserved + 1, UNCHANGED <<disabled, result>>
    PROVE  Inv'
<1> USE ReaderAssumption
<1>1. /\ fetch' \in [Fetches -> BlobFetch] /\ \A g \in Fetches \ {f} : fetch'[g] = fetch[g]
      /\ fetch'[f].digest = d /\ fetch'[f].published = 0 /\ fetch'[f].readers = 0 /\ ~fetch'[f].done
      /\ fetch'[f].err = "none" /\ ~fetch'[f].finalized /\ ~fetch'[f].discarded /\ fetch'[f].temp
  BY Zenon DEF Starts
<1>2. /\ pc' \in [Agents -> Labels] /\ pc'[c] = "attach" /\ pc'[f] = "streaming"
      /\ \A x \in Agents \ {c, f} : pc'[x] = pc[x]
      /\ call' \in [Callers -> Call] /\ \A x \in Callers \ {c} : call'[x] = call[x]
      /\ call'[c].fetch = f /\ call'[c].digest = d /\ call'[c].off = 0
  BY Zenon DEF Starts
<1>3. /\ inflight' \in [Digests -> Fetches \cup {NoFetch}] /\ inflight'[d] = f
      /\ \A e \in Digests \ {d} : inflight'[e] = inflight[e]
  BY Zenon DEF Starts
<1>4. /\ \A a \in Agents : Of(a) = f => a = f
      /\ pc[f] = Idle /\ \A e \in Digests : inflight[e] # f
      /\ ~HoldsReservation(f)
  BY Zenon, OverIsUnused
<1>5. call[c].fetch = NoFetch
  BY Zenon, WithoutFetch
<1>6. c # f /\ c \in Agents /\ f \in Agents /\ c \notin Fetches
  BY Zenon DEF Agents
<1>7. /\ \A x \in Agents \ {c} : Of(x)' = Of(x)
      /\ Of(c) = NoFetch /\ Of(c)' = f /\ Of(f)' = f
  BY ZenonT(40), <1>2, <1>5, <1>6 DEF Of, Agents
<1>8. \A places : \A g \in Fetches \ {f} : At(g, places)' <=> At(g, places)
  BY SMTT(30), <1>2, <1>4, <1>6, <1>7 DEF At
<1>9. \A places : places \cap {"attach", "streaming"} = {} => ~At(f, places)'
  BY SMTT(30), <1>2, <1>4, <1>6, <1>7 DEF At
<1>10. \A g \in Fetches \ {f} : Grows(g)
  <2>1. \A g \in Fetches : fetch[g] \in BlobFetch
    BY Zenon DEF Inv, Types
  <2> QED
    BY <1>1, <2>1 DEF Grows, BlobFetch
<1>11. \A x \in Callers : CallFits(x)'
  <2>1. CallFits(c)'
    BY <1>1, <1>2 DEF CallFits, Started, CallerLabels, Joined, Attached, Finalizing, Idle
  <2>2. ASSUME NEW x \in Callers \ {c} PROVE CallFits(x)'
    <3>1. x \in Agents /\ x # f /\ call[x].fetch # f
      BY Zenon, <1>4, <1>6 DEF Of, Agents
    <3> QED
      BY ZenonT(40), <1>1, <1>2, <1>10, <3>1, CallIsKept
  <2> QED
    BY ZenonT(40), <2>1, <2>2
<1>12. \A x \in Agents : AgentFits(x)'
  <2>1. AgentFits(c)' /\ AgentFits(f)'
    BY Zenon, <1>2 DEF AgentFits, Finalizing
  <2>2. ASSUME NEW x \in Agents \ {c, f} PROVE AgentFits(x)'
    BY ZenonT(40), <1>2, <1>4, <1>7, <1>10, AgentIsKept
  <2> QED
    BY Zenon, <2>1, <2>2
<1>13. \A g \in Fetches : FetchFits(g)'
  <2>1. FetchFits(f)'
    BY ZenonT(40), <1>1, <1>2 DEF FetchFits, Started, RunLabels
  <2>2. \A g \in Fetches \ {f} : FetchFits(g)'
    BY ZenonT(40), <1>1, <1>2, <1>6, <1>8, FetchIsKept DEF Agents
  <2> QED
    BY Zenon, <2>1, <2>2
<1>14. OneFinalizer'
  <2>1. \A x \in Agents : pc'[x] \in Finalizing => pc[x] \in Finalizing /\ Of(x)' = Of(x)
    BY Zenon, <1>2, <1>7 DEF Finalizing
  <2> QED
    BY Zenon, <2>1 DEF Inv, OneFinalizer
<1>15. InflightFits'
  <2>1. InFlight(f)'
    BY Zenon, <1>1 DEF InFlight
  <2>2. \A g \in Fetches \ {f} : InFlight(g)' <=> InFlight(g)
    BY Zenon, <1>1, <1>8 DEF InFlight
  <2>3. \A g \in Fetches \ {f} : pc'[g] = pc[g]
    BY Zenon, <1>2, <1>6 DEF Agents
  <2>4. ASSUME NEW e \in Digests, NEW g \in Fetches, inflight'[e] = g
        PROVE  fetch'[g].digest = e /\ (InFlight(g)' \/ pc'[g] \in {"forget", "forgetThenDiscard"})
    <3>1. CASE g = f
      <4>1. e = d
        BY ZenonT(40), <1>3, <1>4, <2>4, <3>1
      <4> QED
        BY ZenonT(40), <1>1, <2>1, <3>1, <4>1
    <3>2. CASE g # f
      <4>1. inflight[e] = g
        BY Zenon, <1>3, <2>4, <3>2
      <4>2. fetch[g].digest = e /\ (InFlight(g) \/ pc[g] \in {"forget", "forgetThenDiscard"})
        BY Zenon, <4>1 DEF Inv, InflightFits
      <4>3. fetch'[g] = fetch[g] /\ pc'[g] = pc[g] /\ (InFlight(g)' <=> InFlight(g))
        BY Zenon, <1>1, <2>2, <2>3, <3>2
      <4> QED
        BY Zenon, <4>2, <4>3
    <3> QED
      BY Zenon, <3>1, <3>2
  <2>5. ASSUME NEW g \in Fetches, Started(g)', ~fetch'[g].abandoned, InFlight(g)'
        PROVE  inflight'[fetch'[g].digest] = g
    <3>1. CASE g = f
      BY ZenonT(40), <1>1, <1>3, <3>1
    <3>2. CASE g # f
      <4>1. inflight[fetch[g].digest] = g /\ fetch[g].digest \in Digests
        BY SMTT(30), <1>1, <2>2, <2>5, <3>2 DEF Inv, Types, BlobFetch, InflightFits, Started
      <4> QED
        BY SMTT(30), <1>1, <1>3, <3>2, <4>1
    <3> QED
      BY Zenon, <3>1, <3>2
  <2> QED
    BY Zenon, <2>4, <2>5 DEF InflightFits
<1>16. \A g \in Fetches : FetchIsHeld(g)'
  <2>1. FetchIsHeld(f)'
    <3>1. ReadersOf(f)' = {}
      BY ZenonT(40), <1>2, <1>4, <1>6, <1>7 DEF ReadersOf, Of, Agents, Attached
    <3> QED
      BY Zenon, <1>1, <3>1 DEF FetchIsHeld, Countable
  <2>2. ASSUME NEW g \in Fetches \ {f} PROVE FetchIsHeld(g)'
    <3>1. ReadersOf(g)' = ReadersOf(g)
      <4>1. \A x \in Callers \ {c} : pc'[x] = pc[x] /\ call'[x] = call[x]
        BY SMTT(30), <1>2, <1>6 DEF Agents
      <4>2. ~(call[c].fetch = g) /\ ~(call'[c].fetch = g)
        BY <1>2, <1>5
      <4>3. \A x \in Callers : pc'[x] \in Attached /\ call'[x].fetch = g <=> pc[x] \in Attached /\ call[x].fetch = g
        BY Zenon, <4>1, <4>2
      <4> QED
        BY ZenonT(40), <4>3 DEF ReadersOf
    <3>2. /\ At(g, {"finalize"})' <=> At(g, {"finalize"})
          /\ At(g, {"discard", "forgetThenDiscard"})' <=> At(g, {"discard", "forgetThenDiscard"})
      BY Zenon, <1>8
    <3> QED
      BY Zenon, <1>1, <3>1, <3>2, HeldIsKept
  <2> QED
    BY Zenon, <2>1, <2>2
<1>17. /\ lru' \in Seq(Digests) /\ NoDuplicates(lru)'
       /\ file' \in [Digests -> {"absent", "good", "bad", "long"}]
       /\ stuck' \subseteq Digests
       /\ StoreFits'
  <2>1. \A x \in Agents : pc[x] = "index" =>
           pc'[x] = "index" /\ Of(x)' = Of(x) /\ Of(x) \in Fetches \ {f}
    BY Zenon, <1>2, <1>4, <1>7, LeaversHaveFetch DEF Leaving, Finalizing, Idle
  <2>2. \A x \in Agents : pc[x] = "index" => fetch'[Of(x)].digest = fetch[Of(x)].digest
    BY Zenon, <1>1, <2>1
  <2>3. 1 \in Nat
    OBVIOUS
  <2> QED
    BY Zenon, <2>1, <2>2, <2>3, RoomIsMade
<1>18. ReservationsAreExact' /\ reserved' \in Nat
  <2>1. HoldsReservation(f)'
    BY ZenonT(40), <1>1 DEF HoldsReservation
  <2>2. \A g \in Fetches \ {f} : HoldsReservation(g)' <=> HoldsReservation(g)
    BY Zenon, <1>1, <1>8, ReservationIsKept
  <2> QED
    BY ZenonT(40), <1>4, <2>1, <2>2, ReservationIsTaken
<1>19. Types'
  BY ZenonT(40), <1>1, <1>2, <1>3, <1>17, <1>18 DEF Inv, Types
<1> QED
  BY ZenonT(40), <1>11, <1>12, <1>13, <1>14, <1>15, <1>16, <1>17, <1>18, <1>19 DEF Inv

\* fetchFor, with startFetch.
LEMMA FetchForStep ==
    ASSUME Inv, Countable(Callers), Countable(Fetches), NEW c \in Callers, fetchFor(c)
    PROVE  Inv'
<1>1. PICK d \in Digests : d = call[c].digest
  BY Zenon, WithoutFetch DEF fetchFor
<1>2. pc[c] = "lookup" /\ UNCHANGED result
  BY Zenon DEF fetchFor
<1>3. CASE startFetch(c, d) /\ inflight[d] = NoFetch
  <2>1. CASE Goto(c, "passthrough") /\ UNCHANGED <<inflight, fetch, storeVars, call>>
    BY Zenon, <1>2, <2>1, JoinStep
  <2>2. CASE /\ MakeRoom(1)
             /\ disabled' = TRUE
             /\ Goto(c, "passthrough")
             /\ UNCHANGED <<inflight, fetch, reserved, call>>
    BY Zenon, <1>2, <2>2, GiveUpCachingStep
  <2>3. ASSUME NEW f \in Fetches, NEW source \in Sources, Over(f),
               fetch' = [fetch EXCEPT ![f] = [NoBlobFetch EXCEPT !.digest = d, !.source = source, !.temp = TRUE]],
               inflight' = [inflight EXCEPT ![d] = f],
               call' = [call EXCEPT ![c].fetch = f],
               pc' = [pc EXCEPT ![c] = "attach", ![f] = "streaming"],
               MakeRoom(1), reserved' = reserved + 1, UNCHANGED disabled
        PROVE  Inv'
    <3>1. Starts(c, d, f)
      BY Zenon, <1>1, <1>2, <2>3, NewFetch
    <3> QED
      BY ZenonT(40), <1>1, <1>2, <1>3, <2>3, <3>1, StartStep
  <2> QED
    BY ZenonT(40), <1>3, <2>1, <2>2, <2>3 DEF startFetch
<1>4. CASE ~(startFetch(c, d) /\ inflight[d] = NoFetch)
  BY Zenon, <1>1, <1>2, <1>4, JoinStep DEF fetchFor
<1> QED
  BY Zenon, <1>3, <1>4

------------------------------------------------------------------------------
(* The goroutine of a fetch *)

\* Another user of the directory, or a fetch that needs space, removes files of the store.
LEMMA StoreStep ==
    ASSUME Inv, UNCHANGED <<inflight, fetch, reserved, disabled, pc, call, result>>,
           lru' \in Seq(Digests), NoDuplicates(lru)', file' \in [Digests -> {"absent", "good", "bad", "long"}],
           stuck' \subseteq Digests, StoreFits'
    PROVE  Inv'
<1>1. \A a : Of(a)' = Of(a)
  BY Zenon DEF Of
<1>2. \A places : \A g \in Fetches : At(g, places)' <=> At(g, places)
  BY Zenon, <1>1 DEF At
<1>3. \A x \in Callers : CallFits(x)'
  BY Zenon DEF Inv, CallFits, Started
<1>4. \A x \in Agents : AgentFits(x)'
  BY Zenon, <1>1 DEF Inv, AgentFits
<1>5. \A g \in Fetches : FetchFits(g)'
  BY Zenon, <1>2, FetchIsKept
<1>6. OneFinalizer'
  BY Zenon, <1>1 DEF Inv, OneFinalizer
<1>7. InflightFits'
  BY Zenon, <1>2, InflightIsKept DEF InFlight
<1>8. \A g \in Fetches : FetchIsHeld(g)'
  <2>1. \A g \in Fetches : ReadersOf(g)' = ReadersOf(g)
    BY Zenon DEF ReadersOf
  <2> QED
    BY Zenon, <1>2, <2>1, HeldIsKept
<1>9. ReservationsAreExact'
  BY Zenon, <1>2, ReservationIsKept, ReservationsAreKept DEF Inv
<1>10. Types'
  BY Zenon DEF Inv, Types
<1> QED
  BY ZenonT(40), <1>3, <1>4, <1>5, <1>6, <1>7, <1>8, <1>9, <1>10 DEF Inv

LEMMA VanishStep ==
    ASSUME Inv, NEW d \in Digests, Vanish(d)
    PROVE  Inv'
<1>1. /\ UNCHANGED <<inflight, fetch, lru, stuck, reserved, disabled, pc, call, result>>
      /\ file' \in [Digests -> {"absent", "good", "bad", "long"}]
      /\ \A e \in Digests : file'[e] # "absent" => file'[e] = file[e]
  BY Zenon DEF Vanish, Inv, Types
<1>2. \A a : Of(a)' = Of(a)
  BY ZenonT(40), <1>1 DEF Of
<1>3. StoreIsSound'
  BY <1>1, <1>2 DEF Inv, StoreFits, StoreIsSound
<1>4. StoreFits'
  BY Zenon, <1>1, <1>3 DEF Inv, StoreFits
<1>5. lru' \in Seq(Digests) /\ NoDuplicates(lru)' /\ stuck' \subseteq Digests
  BY Zenon, <1>1 DEF Inv, Types
<1> QED
  BY Zenon, <1>1, <1>4, <1>5, StoreStep

\* writeAll, freeing space.
LEMMA FreeAtLeastStep ==
    ASSUME Inv, NEW f \in Fetches, freeAtLeast(f)
    PROVE  Inv'
<1>1. UNCHANGED <<inflight, fetch, reserved, disabled, pc, call, result>> /\ lru \in Seq(Digests) /\ NoDuplicates(lru)
  BY Zenon DEF freeAtLeast, Inv, Types
<1>2. PICK i \in 0 .. Len(lru), refused \in SUBSET Indexed(lru) : evictLocked(i, refused)
  BY Zenon DEF freeAtLeast
<1>3. \A a : Of(a)' = Of(a)
  BY Zenon, <1>1 DEF Of
<1>4. /\ lru' \in Seq(Digests) /\ NoDuplicates(lru)' /\ Len(lru') <= Len(lru)
      /\ file' \in [Digests -> {"absent", "good", "bad", "long"}]
      /\ stuck' \subseteq Digests
      /\ StoreIsSound'
      /\ Indexed(lru) \subseteq stuck => Indexed(lru)' \subseteq stuck'
  BY ZenonT(40), <1>1, <1>2, <1>3, EvictionIsSound
<1>5. Len(lru') \in Nat /\ Len(lru) \in Nat
  BY SMTT(30), <1>1, <1>4
<1>6. Len(lru) <= MaxSize => Len(lru') <= MaxSize
  BY SMTT(30), <1>4, <1>5, ReaderAssumption
<1>7. StoreFits'
  BY ZenonT(40), <1>1, <1>4, <1>6 DEF Inv, StoreFits
<1> QED
  BY Zenon, <1>1, <1>4, <1>7, StoreStep

\* What a streaming goroutine leaves alone.
SameFetch(b, j) ==
    /\ b.digest = j.digest /\ b.source = j.source /\ b.readers = j.readers
    /\ b.abandoned = j.abandoned /\ b.discarded = j.discarded
    /\ b.finalized = j.finalized /\ b.temp = j.temp /\ b.published >= j.published

\* Where it goes when the fetch goes on, or has ended.
GoesOn(b, label) ==
    /\ label \in {"streaming", "forget", "forgetThenDiscard", "finalize", Idle}
    /\ b.done <=> label # "streaming"
    /\ ~b.done => b.err = "none"
    /\ b.done /\ b.err = "none" => b.source = "good"
    /\ b.err # "none" <=> label \in {"forget", "forgetThenDiscard"}
    /\ b.done /\ b.readers = 0 => label \in {"finalize", "forgetThenDiscard"}

\* A step of a streaming goroutine: it goes on, or records how the fetch has ended.
LEMMA StreamingStep ==
    ASSUME Inv, NEW f \in Fetches, pc[f] = "streaming", NEW b \in BlobFetch, Updated(f, b),
           NEW label, GoesOn(b, label), Moved(f, label), SameFetch(b, fetch[f]),
           UNCHANGED <<inflight, indexVars, reserved, result>>, disabled' \in BOOLEAN
    PROVE  Inv'
<1> USE ReaderAssumption
<1>1. /\ Alone(f) /\ pc'[f] = label /\ call' = call
      /\ fetch'[f] = b /\ \A g \in Fetches \ {f} : fetch'[g] = fetch[g]
      /\ fetch' \in [Fetches -> BlobFetch]
  BY ZenonT(40) DEF Moved, Updated
<1>2. f \in Agents /\ f \notin Callers /\ Of(f) = f /\ Of(f)' = f /\ fetch[f] \in BlobFetch
  BY Zenon DEF Agents, Of, Inv, Types
<1>3. Started(f) /\ ~fetch[f].done /\ fetch[f].err = "none" /\ ~fetch[f].finalized /\ ~fetch[f].discarded /\ fetch[f].temp
  BY Zenon, <1>2 DEF Inv, FetchFits, Idle, BlobFetch
<1>4. \A places : \A g \in Fetches :
         g # f \/ places \cap {"streaming", "forget", "forgetThenDiscard", "finalize", Idle} = {} => (At(g, places)' <=> At(g, places))
  <2> TAKE places
  <2> TAKE g \in Fetches
  <2> HAVE g # f \/ places \cap {"streaming", "forget", "forgetThenDiscard", "finalize", Idle} = {}
  <2> QED
    BY Zenon, <1>1, <1>2, AtIsKept DEF GoesOn
<1>5. \A g \in Fetches : Grows(g)
  <2>1. \A g \in Fetches : fetch[g] \in BlobFetch
    BY Zenon DEF Inv, Types
  <2> QED
    BY SMTT(30), <1>1, <1>3, <2>1 DEF Grows, BlobFetch, SameFetch
<1>6. \A x \in Callers : CallFits(x)'
  BY ZenonT(40), <1>1, <1>2, <1>5, OthersAreKept
<1>7. \A x \in Agents : AgentFits(x)'
  <2>1. AgentFits(f)'
    BY Zenon, <1>1, <1>2 DEF AgentFits, Finalizing, Idle, GoesOn
  <2> QED
    BY ZenonT(40), <1>1, <1>2, <1>5, <2>1, OthersAreKept
<1>8. \A g \in Fetches \ {f} : pc'[g] = pc[g]
  BY Zenon, <1>1 DEF Alone, Agents
<1>9. \A g \in Fetches : FetchFits(g)'
  <2>1. \A g \in Fetches : At(g, {"rename"})' <=> At(g, {"rename"})
    BY Zenon, <1>4 DEF Idle
  <2>2. FetchFits(f)'
    BY ZenonT(40), <1>1, <1>3 DEF FetchFits, Started, RunLabels, Idle, GoesOn, SameFetch
  <2> QED
    BY ZenonT(40), <1>1, <1>8, <2>1, <2>2, FetchIsKept
<1>10. OneFinalizer'
  BY ZenonT(40), <1>1, <1>2, FinalizersAreKept DEF Finalizing, Idle, GoesOn
<1>11. InflightFits'
  <2>1. \A g \in Fetches : At(g, Finalizing)' <=> At(g, Finalizing)
    BY Zenon, <1>4 DEF Finalizing, Idle
  <2>2. \A g \in Fetches \ {f} : InFlight(g)' <=> InFlight(g)
    BY Zenon, <1>1, <2>1 DEF InFlight
  <2>3. InFlight(f) /\ (InFlight(f)' <=> b.err = "none")
    BY Zenon, <1>1, <1>3 DEF InFlight, SameFetch
  <2>4. ASSUME NEW e \in Digests, NEW g \in Fetches, inflight'[e] = g
        PROVE  fetch'[g].digest = e /\ (InFlight(g)' \/ pc'[g] \in {"forget", "forgetThenDiscard"})
    <3>1. fetch[g].digest = e /\ (InFlight(g) \/ pc[g] \in {"forget", "forgetThenDiscard"})
      BY Zenon, <2>4 DEF Inv, InflightFits
    <3> QED
      <4>1. CASE g = f
        BY ZenonT(40), <1>1, <2>3, <3>1, <4>1 DEF GoesOn, SameFetch
      <4>2. CASE g # f
        BY ZenonT(40), <1>1, <1>8, <2>2, <3>1, <4>2
      <4> QED
        BY Zenon, <4>1, <4>2
  <2>5. ASSUME NEW g \in Fetches, Started(g)', ~fetch'[g].abandoned, InFlight(g)'
        PROVE  inflight'[fetch'[g].digest] = g
    <3>1. Started(g) /\ ~fetch[g].abandoned /\ InFlight(g) /\ fetch'[g].digest = fetch[g].digest
      BY ZenonT(40), <1>1, <2>2, <2>3, <2>5 DEF Started, SameFetch
    <3> QED
      BY Zenon, <3>1 DEF Inv, InflightFits
  <2> QED
    BY ZenonT(40), <2>4, <2>5 DEF InflightFits
<1>12. \A g \in Fetches : FetchIsHeld(g)'
  <2>1. \A g \in Fetches : ReadersOf(g)' = ReadersOf(g)
    BY ZenonT(40), <1>1, <1>2, ReadersAreKept
  <2>2. FetchIsHeld(f)'
    <3>1. b.readers = Cardinality(ReadersOf(f)') /\ b.readers \in Nat
      BY ZenonT(40), <2>1 DEF Inv, FetchIsHeld, BlobFetch, SameFetch
    <3>2. label = "finalize" => At(f, {"finalize"})'
      BY Zenon, <1>1, <1>2 DEF At
    <3>3. label = "forgetThenDiscard" => At(f, {"discard", "forgetThenDiscard"})'
      BY Zenon, <1>1, <1>2 DEF At
    <3> QED
      BY SMTT(30), <1>1, <3>1, <3>2, <3>3 DEF FetchIsHeld, GoesOn
  <2>3. ASSUME NEW g \in Fetches \ {f} PROVE FetchIsHeld(g)'
    <3>1. /\ At(g, {"finalize"})' <=> At(g, {"finalize"})
          /\ At(g, {"discard", "forgetThenDiscard"})' <=> At(g, {"discard", "forgetThenDiscard"})
      BY Zenon, <1>4
    <3> QED
      BY ZenonT(40), <1>1, <2>1, <3>1, HeldIsKept
  <2> QED
    BY Zenon, <2>2, <2>3
<1>13. StoreFits'
  BY ZenonT(40), <1>1, <1>2, <1>5, StoreIsKept DEF indexVars
<1>14. ReservationsAreExact'
  <2>1. \A g \in Fetches : At(g, {"rename", "index"})' <=> At(g, {"rename", "index"})
    BY ZenonT(40), <1>4 DEF Idle
  <2>2. \A g \in Fetches : HoldsReservation(g)' <=> HoldsReservation(g)
    BY Zenon, <1>1, <2>1, ReservationIsKept DEF SameFetch
  <2> QED
    BY Zenon, <2>2, ReservationsAreKept DEF Inv
<1>15. Types'
  BY ZenonT(40), <1>1 DEF Inv, Types, Alone, indexVars
<1> QED
  BY ZenonT(40), <1>6, <1>7, <1>9, <1>10, <1>11, <1>12, <1>13, <1>14, <1>15 DEF Inv

LEMMA PublishStep ==
    ASSUME Inv, NEW f \in Fetches, publish(f)
    PROVE  Inv'
<1> USE ReaderAssumption
<1>1. /\ pc[f] = "streaming" /\ fetch[f].published < Chunks + 1 /\ fetch[f] \in BlobFetch
      /\ UNCHANGED <<inflight, storeVars, pc, call, result>> /\ disabled' \in BOOLEAN
  BY SMTT(30) DEF publish, Inv, Types, BlobFetch, storeVars, indexVars
<1>2. Started(f) /\ ~fetch[f].done /\ fetch[f].err = "none"
  BY ZenonT(40), <1>1 DEF Inv, FetchFits, Idle
<1> DEFINE b == [fetch[f] EXCEPT !.published = @ + 1]
<1>3. b \in BlobFetch /\ SameFetch(b, fetch[f]) /\ ~b.done /\ b.err = "none"
  BY <1>1, <1>2 DEF BlobFetch, SameFetch
<1>4. fetch' = [fetch EXCEPT ![f] = b]
  BY Zenon DEF publish
<1> HIDE DEF b
<1>5. Updated(f, b)
  BY Zenon, <1>3, <1>4, UpdateFetch
<1>6. Moved(f, "streaming")
  BY ZenonT(40), <1>1 DEF Moved, Alone, Inv, Types
<1>7. GoesOn(b, "streaming")
  BY Zenon, <1>3 DEF GoesOn, Idle
<1> QED
  BY ZenonT(40), <1>1, <1>3, <1>5, <1>6, <1>7, StreamingStep DEF storeVars, indexVars

\* finish.
LEMMA FinishStep ==
    ASSUME Inv, NEW f \in Fetches, pc[f] = "streaming", NEW err \in {"none", "failed", "local"}, Finish(f, err),
           err = "none" => fetch[f].source = "good", disabled' \in BOOLEAN
    PROVE  Inv'
<1> USE ReaderAssumption
<1>1. UNCHANGED <<inflight, indexVars, reserved, call, result>> /\ fetch[f] \in BlobFetch
  BY Zenon DEF Finish, Inv, Types
<1> DEFINE j == [fetch[f] EXCEPT !.done = TRUE]
           b == [j EXCEPT !.err = err]
           label == IF err # "none" THEN (IF fetch[f].readers = 0 THEN "forgetThenDiscard" ELSE "forget")
                    ELSE IF fetch[f].readers = 0 THEN "finalize" ELSE Idle
<1>2. fetch' = [fetch EXCEPT ![f] = b] /\ Goto(f, label)
  BY Zenon DEF Finish
<1>3. j \in BlobFetch /\ SameFetch(j, fetch[f]) /\ j.done
  <2>1. /\ j \in BlobFetch /\ j.digest = fetch[f].digest /\ j.source = fetch[f].source /\ j.readers = fetch[f].readers
        /\ j.abandoned = fetch[f].abandoned /\ j.discarded = fetch[f].discarded
        /\ j.finalized = fetch[f].finalized /\ j.temp = fetch[f].temp /\ j.published = fetch[f].published /\ j.done
    BY ZenonT(40), <1>1 DEF BlobFetch
  <2>2. fetch[f].published >= fetch[f].published
    BY <1>1 DEF BlobFetch
  <2> QED
    BY Zenon, <2>1, <2>2 DEF SameFetch
<1> HIDE DEF j
<1>4. b \in BlobFetch /\ SameFetch(b, fetch[f]) /\ b.done /\ b.err = err
  BY ZenonT(40), <1>1, <1>3 DEF BlobFetch, SameFetch
<1> HIDE DEF b
<1>5. /\ label \in {"streaming", "forget", "forgetThenDiscard", "finalize", Idle} /\ label \in Labels /\ label # "streaming"
      /\ err # "none" <=> label \in {"forget", "forgetThenDiscard"}
      /\ fetch[f].readers = 0 => label \in {"finalize", "forgetThenDiscard"}
  BY Zenon DEF Idle, Labels
<1> HIDE DEF label
<1>6. Updated(f, b) /\ Moved(f, label)
  BY ZenonT(40), <1>1, <1>2, <1>4, <1>5, UpdateFetch, GotoMoves DEF Agents
<1>7. GoesOn(b, label)
  BY Zenon, <1>4, <1>5 DEF GoesOn, SameFetch
<1> QED
  BY ZenonT(40), <1>1, <1>4, <1>6, <1>7, StreamingStep

LEMMA EndStreamStep ==
    ASSUME Inv, NEW f \in Fetches, EndStream(f)
    PROVE  Inv'
<1>1. pc[f] = "streaming" /\ disabled' \in BOOLEAN
  BY Zenon DEF EndStream, Inv, Types
<1>2. Verdict(fetch[f]) \in {"none", "failed"} /\ (Verdict(fetch[f]) = "none" => fetch[f].source = "good")
  BY Zenon DEF Verdict
<1>3. Finish(f, Verdict(fetch[f])) \/ Finish(f, "failed") \/ Finish(f, "local")
  BY Zenon DEF EndStream
<1>4. CASE Finish(f, Verdict(fetch[f]))
  BY ZenonT(40), <1>1, <1>2, <1>4, FinishStep
<1>5. CASE Finish(f, "failed")
  BY ZenonT(40), <1>1, <1>5, FinishStep
<1>6. CASE Finish(f, "local")
  BY ZenonT(40), <1>1, <1>6, FinishStep
<1> QED
  BY ZenonT(40), <1>3, <1>4, <1>5, <1>6

\* finish forgets a fetch that has failed.
LEMMA ForgetFailedStep ==
    ASSUME Inv, NEW f \in Fetches, ForgetFailed(f)
    PROVE  Inv'
<1> USE ReaderAssumption
<1>1. /\ pc[f] \in {"forgetThenDiscard", "forget"} /\ inflight' = Forgotten(f)
      /\ UNCHANGED <<fetch, storeVars, call, result>> /\ f \in Agents /\ f \notin Callers /\ Of(f) = f
  BY Zenon DEF ForgetFailed, Agents, Of
<1> DEFINE label == IF pc[f] = "forget" THEN Idle ELSE "discard"
<1>2. Moved(f, label) /\ label \in {Idle, "discard"}
  BY ZenonT(40), <1>1, GotoMoves DEF ForgetFailed, Labels
<1>3. label = "discard" <=> pc[f] = "forgetThenDiscard"
  BY Zenon, <1>1 DEF Idle
<1> HIDE DEF label
<1>4. Alone(f) /\ pc'[f] = label /\ Of(f)' = f
  BY Zenon, <1>1, <1>2 DEF Moved, Of
<1>5. fetch[f].err # "none"
  BY Zenon, <1>1 DEF Inv, AgentFits
<1>6. \A places : \A g \in Fetches :
         g # f \/ places \cap {"forget", "forgetThenDiscard", "discard", Idle} = {} => (At(g, places)' <=> At(g, places))
  <2> TAKE places
  <2> TAKE g \in Fetches
  <2> HAVE g # f \/ places \cap {"forget", "forgetThenDiscard", "discard", Idle} = {}
  <2> QED
    BY ZenonT(40), <1>1, <1>2, <1>4, AtIsKept
<1>7. (\A g \in Fetches : Grows(g)) /\ fetch' \in [Fetches -> BlobFetch]
  <2>1. \A g \in Fetches : fetch[g] \in BlobFetch
    BY Zenon DEF Inv, Types
  <2> QED
    BY SMTT(30), <1>1, <2>1 DEF Grows, BlobFetch, Inv, Types
<1>8. \A x \in Callers : CallFits(x)'
  BY ZenonT(40), <1>1, <1>4, <1>7, OthersAreKept
<1>9. \A x \in Agents : AgentFits(x)'
  <2>1. AgentFits(f)'
    BY ZenonT(40), <1>1, <1>2, <1>4, <1>5 DEF AgentFits, Finalizing, Idle
  <2> QED
    BY ZenonT(40), <1>1, <1>4, <1>7, <2>1, OthersAreKept
<1>10. \A g \in Fetches \ {f} : pc'[g] = pc[g]
  BY Zenon, <1>4 DEF Alone, Agents
<1>11. \A g \in Fetches : FetchFits(g)'
  <2>1. \A g \in Fetches : At(g, {"rename"})' <=> At(g, {"rename"})
    BY Zenon, <1>6 DEF Idle
  <2>2. FetchFits(f)'
    <3>1. FetchFits(f)
      BY Zenon DEF Inv
    <3> QED
      BY ZenonT(40), <1>1, <1>2, <1>4, <2>1, <3>1 DEF FetchFits, Started, RunLabels, Idle
  <2> QED
    BY ZenonT(40), <1>1, <1>10, <2>1, <2>2, FetchIsKept
<1>12. OneFinalizer'
  BY ZenonT(40), <1>1, <1>2, <1>4, FinalizersAreKept DEF Finalizing, Idle
<1>13. InflightFits' /\ inflight' \in [Digests -> Fetches \cup {NoFetch}]
  <2>1. \A g \in Fetches : At(g, Finalizing)' <=> At(g, Finalizing)
    BY Zenon, <1>6 DEF Finalizing, Idle
  <2>2. \A g \in Fetches : InFlight(g)' <=> InFlight(g)
    BY Zenon, <1>1, <2>1 DEF InFlight
  <2>3. ~InFlight(f)'
    BY Zenon, <1>1, <1>5 DEF InFlight
  <2> QED
    BY ZenonT(40), <1>1, <1>10, <2>2, <2>3, ForgetChanges, ForgetKeepsInflight
<1>14. \A g \in Fetches : FetchIsHeld(g)'
  <2>1. \A g \in Fetches : ReadersOf(g)' = ReadersOf(g)
    BY ZenonT(40), <1>1, <1>4, ReadersAreKept
  <2>2. FetchIsHeld(f)'
    <3>1. At(f, {"discard", "forgetThenDiscard"}) => At(f, {"discard", "forgetThenDiscard"})'
      <4>1. CASE pc[f] = "forgetThenDiscard"
        BY ZenonT(40), <1>1, <1>3, <1>4, <4>1 DEF At
      <4>2. CASE pc[f] = "forget"
        BY SMTT(30), <1>1, <1>3, <1>4, <4>2, OthersKeepFetch DEF At, Alone
      <4> QED
        BY Zenon, <1>1, <4>1, <4>2
    <3> QED
      BY ZenonT(40), <1>1, <1>5, <2>1, <3>1 DEF Inv, FetchIsHeld
  <2>3. ASSUME NEW g \in Fetches \ {f} PROVE FetchIsHeld(g)'
    <3>1. /\ At(g, {"finalize"})' <=> At(g, {"finalize"})
          /\ At(g, {"discard", "forgetThenDiscard"})' <=> At(g, {"discard", "forgetThenDiscard"})
      BY Zenon, <1>6
    <3> QED
      BY ZenonT(40), <1>1, <2>1, <3>1, HeldIsKept
  <2> QED
    BY Zenon, <2>2, <2>3
<1>15. StoreFits'
  BY ZenonT(40), <1>1, <1>4, <1>7, StoreIsKept DEF storeVars, indexVars
<1>16. ReservationsAreExact'
  <2>1. \A g \in Fetches : At(g, {"rename", "index"})' <=> At(g, {"rename", "index"})
    BY Zenon, <1>6 DEF Idle
  <2>2. \A g \in Fetches : HoldsReservation(g)' <=> HoldsReservation(g)
    BY ZenonT(40), <1>1, <2>1, ReservationIsKept
  <2> QED
    BY ZenonT(40), <1>1, <2>2, ReservationsAreKept DEF Inv, storeVars, indexVars
<1>17. Types'
  BY ZenonT(40), <1>1, <1>4, <1>7, <1>13 DEF Inv, Types, Alone, storeVars, indexVars
<1> QED
  BY ZenonT(40), <1>8, <1>9, <1>11, <1>12, <1>13, <1>14, <1>15, <1>16, <1>17 DEF Inv

------------------------------------------------------------------------------
(* The invariant, and what follows from it *)

LEMMA InitIsSound ==
    ASSUME Init, Countable(Callers), Countable(Fetches)
    PROVE  Inv
<1> USE ReaderAssumption
<1>1. /\ NoBlobFetch \in BlobFetch /\ NoBlobFetch.digest = NoFetch /\ NoBlobFetch.readers = 0 /\ ~NoBlobFetch.done
      /\ NoBlobFetch.err = "none" /\ ~NoBlobFetch.finalized /\ ~NoBlobFetch.discarded /\ ~NoBlobFetch.temp
  BY DEF NoBlobFetch, BlobFetch
<1>2. NoCall \in Call /\ NoCall.fetch = NoFetch /\ NoCall.off = 0
  BY DEF NoCall, NewCall, Call
<1>3. /\ \A f \in Fetches : fetch[f] = NoBlobFetch /\ ~Started(f)
      /\ \A a \in Agents : pc[a] = Idle
      /\ \A c \in Callers : call[c] = NoCall
      /\ \A d \in Digests : inflight[d] = NoFetch /\ file[d] = "absent"
  BY Zenon, <1>1 DEF Init, Started
<1>4. Types
  <2>1. Idle \in Labels
    BY Zenon DEF Labels
  <2>2. lru \in Seq(Digests) /\ NoDuplicates(lru)
    BY SMTT(30) DEF Init, NoDuplicates
  <2>3. stuck \subseteq Digests /\ "fine" \in Results
    BY Zenon DEF Init, Results
  <2> QED
    BY ZenonT(40), <1>1, <1>2, <2>1, <2>2, <2>3 DEF Init, Types
<1>5. \A c \in Callers : CallFits(c)
  BY Zenon, <1>2, <1>3 DEF CallFits, CallerLabels, Joined, Attached, Finalizing, Idle, Agents
<1>6. \A f \in Fetches : FetchFits(f)
  BY ZenonT(40), <1>1, <1>3 DEF FetchFits, RunLabels, Agents
<1>7. (\A a \in Agents : AgentFits(a)) /\ OneFinalizer
  BY Zenon, <1>3 DEF AgentFits, OneFinalizer, Finalizing, Idle
<1>8. InflightFits
  BY SMTT(30), <1>3 DEF InflightFits
<1>9. \A f \in Fetches : FetchIsHeld(f)
  <2>1. \A f \in Fetches : ReadersOf(f) = {}
    BY Zenon, <1>3 DEF ReadersOf, Attached, Idle, Agents
  <2> QED
    BY ZenonT(40), <1>1, <1>3, <2>1 DEF FetchIsHeld, Countable
<1>10. StoreFits
  <2>1. StoreIsSound
    BY Zenon, <1>3 DEF StoreIsSound
  <2>2. Len(lru) = 0
    BY Zenon DEF Init
  <2> QED
    BY SMTT(30), <2>1, <2>2 DEF StoreFits
<1>11. ReservationsAreExact
  <2>1. {f \in Fetches : HoldsReservation(f)} = {}
    BY Zenon, <1>1, <1>3 DEF HoldsReservation
  <2> QED
    BY Zenon, <2>1 DEF ReservationsAreExact, Init, Countable
<1> QED
  BY ZenonT(40), <1>4, <1>5, <1>6, <1>7, <1>8, <1>9, <1>10, <1>11 DEF Inv

LEMMA NextKeepsInv ==
    ASSUME Inv, [Next]_vars, Countable(Callers), Countable(Fetches)
    PROVE  Inv'
<1>1. CASE UNCHANGED vars
  <2>1. /\ UNCHANGED <<inflight, fetch, reserved, disabled, pc, call, result>> /\ UNCHANGED <<file, lru, stuck>>
    BY Zenon, <1>1 DEF vars, storeVars, indexVars
  <2>2. /\ lru' \in Seq(Digests) /\ NoDuplicates(lru)' /\ file' \in [Digests -> {"absent", "good", "bad", "long"}]
        /\ stuck' \subseteq Digests
    BY Zenon, <2>1 DEF Inv, Types
  <2>3. StoreFits'
    BY ZenonT(40), <2>1 DEF Inv, StoreFits, StoreIsSound, Of
  <2> QED
    BY ZenonT(40), <2>1, <2>2, <2>3, StoreStep
<1>2. ASSUME NEW c \in Callers, NEW op \in Ops, NEW d \in Digests, Begin(c, op, d) PROVE Inv'
  BY Zenon, <1>2, BeginStep
<1>3. ASSUME NEW c \in Callers, Proceed(c) \/ ReadBroken(c) \/ CloseEarly(c) PROVE Inv'
  <2>1. c \in Agents
    BY Zenon DEF Agents
  <2> QED
    BY Zenon, <1>3, <2>1, OpenStoredStep, FetchForStep, PassthroughStep, AttachStep, OpenTempStep,
       ReadStep, DetachStep, AbandonStep, LastToLeaveStep DEF Proceed
<1>4. ASSUME NEW f \in Fetches, run(f) \/ freeAtLeast(f) PROVE Inv'
  <2>1. f \in Agents
    BY Zenon DEF Agents
  <2> QED
    BY ZenonT(40), <1>4, <2>1, PublishStep, EndStreamStep, ForgetFailedStep, LastToLeaveStep,
       FreeAtLeastStep DEF run
<1>5. ASSUME NEW d \in Digests, Vanish(d) PROVE Inv'
  BY Zenon, <1>5, VanishStep
<1> QED
  BY ZenonT(40), <1>1, <1>2, <1>3, <1>4, <1>5 DEF Next

\* What the properties say follows from the invariant.
LEMMA InvMeansShared ==
    ASSUME Inv
    PROVE  FetchIsShared
<1> SUFFICES ASSUME NEW f \in Fetches, fetch[f].temp, ~fetch[f].abandoned, fetch[f].err = "none"
             PROVE  inflight[fetch[f].digest] = f
  BY Zenon DEF FetchIsShared
<1>1. FetchFits(f)
  BY Zenon DEF Inv
<1>2. Started(f) /\ (fetch[f].finalized => At(f, {"rename"}))
  BY Zenon, <1>1 DEF FetchFits
<1>3. At(f, {"rename"}) => At(f, Finalizing)
  BY Zenon DEF At, Finalizing
<1> QED
  BY ZenonT(40), <1>2, <1>3 DEF Inv, InflightFits, InFlight

\* A fetch that has not been stored, forgotten or discarded keeps somebody busy.
LEMMA IdleMeansOver ==
    ASSUME Inv, Countable(Callers), \A a \in Agents : pc[a] = Idle, NEW f \in Fetches, Started(f)
    PROVE  fetch[f].finalized \/ fetch[f].discarded
<1>1. FetchFits(f) /\ FetchIsHeld(f) /\ pc[f] = Idle
  BY Zenon DEF Inv, Agents
<1>2. \A places : Idle \notin places => ~At(f, places)
  BY Zenon DEF At
<1>3. fetch[f].done
  BY Zenon, <1>1 DEF FetchFits, Idle
<1>4. ReadersOf(f) = {}
  BY Zenon DEF ReadersOf, Attached, Idle, Agents
<1>5. Cardinality({}) = 0
  BY Zenon DEF Countable
<1>6. fetch[f].readers = 0
  BY Zenon, <1>1, <1>4, <1>5 DEF FetchIsHeld
<1>7. ~At(f, {"finalize"}) /\ ~At(f, {"discard", "forgetThenDiscard"})
  BY Zenon, <1>2 DEF Idle
<1> QED
  BY SMTT(30), <1>1, <1>3, <1>6, <1>7 DEF FetchIsHeld

LEMMA InvMeansAccounted ==
    ASSUME Inv, Countable(Callers), Countable(Fetches)
    PROVE  SpaceIsAccounted
<1>1. ReservationsAreExact
  BY Zenon DEF Inv
<1>2. NothingIsLeftBehind
  <2> SUFFICES ASSUME \A a \in Agents : pc[a] = Idle
               PROVE  /\ \A d \in Digests : inflight[d] = NoFetch
                      /\ \A f \in Fetches : ~fetch[f].temp
                      /\ reserved = 0
                      /\ MaxSize > 0 => Len(lru) <= MaxSize \/ Indexed(lru) \subseteq stuck
    BY Zenon DEF NothingIsLeftBehind
  <2>1. \A f \in Fetches : Started(f) => fetch[f].finalized \/ fetch[f].discarded
    BY Zenon, IdleMeansOver
  <2>2. \A f \in Fetches : \A places : Idle \notin places => ~At(f, places)
    BY Zenon DEF At
  <2>3. \A d \in Digests : inflight[d] = NoFetch
    <3> SUFFICES ASSUME NEW d \in Digests, NEW f \in Fetches, inflight[d] = f PROVE FALSE
      BY Zenon DEF Inv, Types
    <3>1. fetch[f].digest = d /\ (InFlight(f) \/ pc[f] \in {"forget", "forgetThenDiscard"}) /\ FetchFits(f)
      BY Zenon DEF Inv, InflightFits
    <3>2. Started(f) /\ InFlight(f)
      BY Zenon, <3>1, ReaderAssumption DEF Started, Idle, Agents
    <3>3. ~fetch[f].finalized
      BY Zenon, <2>2, <3>2 DEF InFlight, Finalizing, Idle
    <3>4. ~fetch[f].discarded
      BY Zenon, <3>1, <3>2 DEF InFlight, FetchFits
    <3> QED
      BY ZenonT(40), <2>1, <3>2, <3>3, <3>4
  <2>4. \A f \in Fetches : ~At(f, {"rename"}) /\ ~At(f, {"rename", "index"})
    BY ZenonT(40), <2>2 DEF Idle
  <2>5. \A f \in Fetches : ~fetch[f].temp
    BY ZenonT(40), <2>1, <2>4 DEF Inv, FetchFits
  <2>6. reserved = 0
    <3>1. \A f \in Fetches : ~HoldsReservation(f)
      BY Zenon, <2>1, <2>4 DEF HoldsReservation, Started, At
    <3>2. {f \in Fetches : HoldsReservation(f)} = {}
      BY Zenon, <3>1
    <3> QED
      BY Zenon, <1>1, <3>2 DEF ReservationsAreExact, Countable
  <2>7. MaxSize > 0 => Len(lru) <= MaxSize \/ Indexed(lru) \subseteq stuck
    BY Zenon DEF Inv, StoreFits, Idle
  <2> QED
    BY ZenonT(40), <2>3, <2>5, <2>6, <2>7
<1> QED
  BY Zenon, <1>1, <1>2 DEF SpaceIsAccounted

LEMMA ReadsStayRight ==
    ASSUME Inv, ReadsReturnTheBlob, [Next]_vars
    PROVE  ReadsReturnTheBlob'
<1> USE ReaderAssumption
<1>1. result \in [Callers -> Results]
  BY Zenon DEF Inv, Types
<1>2. ASSUME NEW c \in Callers, NEW r, r # "corrupt", result' = [result EXCEPT ![c] = r]
      PROVE  ReadsReturnTheBlob'
  BY Zenon, <1>1, <1>2 DEF ReadsReturnTheBlob
<1>3. ASSUME UNCHANGED result
      PROVE  ReadsReturnTheBlob'
  BY Zenon, <1>3 DEF ReadsReturnTheBlob
<1>4. ASSUME NEW c \in Callers, NEW op \in Ops, NEW d \in Digests, Begin(c, op, d)
      PROVE  ReadsReturnTheBlob'
  BY Zenon, <1>2, <1>4 DEF Begin
<1>5. ASSUME NEW c \in Callers, OpenStored(c)
      PROVE  ReadsReturnTheBlob'
  <2>1. call[c].digest \in Digests
    BY Zenon, <1>5, WithoutFetch DEF OpenStored
  <2>2. has(call[c].digest) => Quality(file[call[c].digest]) = "fine"
    BY Zenon, <2>1 DEF Inv, StoreFits, StoreIsSound, has, Quality
  <2> QED
    BY ZenonT(40), <1>2, <1>3, <1>5, <2>2 DEF OpenStored, Answer
<1>6. ASSUME NEW c \in Callers, ReadPublished(c) \/ ReadEnd(c) \/ ReadBroken(c) \/ CloseEarly(c)
      PROVE  ReadsReturnTheBlob'
  <2>1. pc[c] = "reading"
    BY Zenon, <1>6 DEF ReadPublished, ReadEnd, ReadBroken, CloseEarly
  <2>2. call[c].fetch \in Fetches
    BY Zenon, <2>1, WithFetch DEF Attached
  <2>3. fetch[call[c].fetch].done /\ fetch[call[c].fetch].err = "none" => Quality(fetch[call[c].fetch].source) = "fine"
    BY Zenon, <2>2 DEF Inv, FetchFits, Quality
  <2>4. ASSUME NEW next, NEW r, r # "corrupt", LeaveFor(c, next, r)
        PROVE  ReadsReturnTheBlob'
    BY Zenon, <1>2, <2>4 DEF LeaveFor
  <2>5. CASE FallBack(c)
    BY Zenon, <2>4, <2>5 DEF FallBack
  <2>6. CASE ReadPublished(c)
    <3>1. \A source : Early(source) # "corrupt"
      BY Zenon DEF Early
    <3> QED
      BY Zenon, <1>3, <2>4, <2>6, <3>1 DEF ReadPublished
  <2>7. CASE ReadEnd(c)
    BY Zenon, <2>3, <2>4, <2>5, <2>7 DEF ReadEnd
  <2> QED
    BY Zenon, <1>6, <2>4, <2>5, <2>6, <2>7 DEF ReadBroken, CloseEarly
<1>7. ASSUME NEW c \in Callers, passthrough(c)
      PROVE  ReadsReturnTheBlob'
  <2>1. result[c] # "corrupt"
    BY Zenon DEF ReadsReturnTheBlob
  <2> QED
    BY Zenon, <1>2, <1>7, <2>1 DEF passthrough, Answer
<1>8. ASSUME NEW c \in Callers, fetchFor(c) \/ attach(c) \/ OpenTemp(c) \/ detach(c) \/ Abandon(c)
      PROVE  ReadsReturnTheBlob'
  <2>1. CASE fetchFor(c)
    BY Zenon, <1>3, <2>1 DEF fetchFor
  <2>2. CASE attach(c)
    BY Zenon, <1>3, <2>2 DEF attach
  <2>3. CASE OpenTemp(c)
    BY Zenon, <1>3, <2>3 DEF OpenTemp
  <2>4. CASE detach(c)
    BY Zenon, <1>3, <2>4 DEF detach
  <2>5. CASE Abandon(c)
    BY Zenon, <1>3, <2>5 DEF Abandon
  <2> QED
    BY ZenonT(40), <1>8, <2>1, <2>2, <2>3, <2>4, <2>5
<1>9. ASSUME NEW a \in Agents, LastToLeave(a)
      PROVE  ReadsReturnTheBlob'
  BY Zenon, <1>3, <1>9 DEF LastToLeave, discard, finalize, Rename, Index, prune, ForgetFinalized
<1>10. ASSUME NEW f \in Fetches, publish(f) \/ EndStream(f) \/ ForgetFailed(f) \/ freeAtLeast(f)
       PROVE  ReadsReturnTheBlob'
  BY Zenon, <1>3, <1>10 DEF publish, EndStream, Finish, ForgetFailed, freeAtLeast
<1>11. ASSUME NEW d \in Digests, Vanish(d)
       PROVE  ReadsReturnTheBlob'
  BY Zenon, <1>3, <1>11 DEF Vanish
<1>12. CASE UNCHANGED vars
  BY Zenon, <1>3, <1>12 DEF vars
<1> QED
  BY ZenonT(40), <1>4, <1>5, <1>6, <1>7, <1>8, <1>9, <1>10, <1>11, <1>12 DEF Next, Proceed, run, Agents

------------------------------------------------------------------------------
(* The theorems *)

INSTANCE FiniteSetTheorems

LEMMA FiniteIsCountable ==
    ASSUME NEW S, IsFiniteSet(S)
    PROVE  Countable(S)
<1> SUFFICES ASSUME NEW T \in SUBSET S
             PROVE  /\ Cardinality(T) \in Nat
                    /\ T = {} => Cardinality(T) = 0
                    /\ \A x \in S \ T : Cardinality(T \cup {x}) = Cardinality(T) + 1
  BY Zenon DEF Countable
<1>1. IsFiniteSet(T) /\ Cardinality(T) \in Nat
  BY ZenonT(40), FS_Subset, FS_CardinalityType
<1>2. T = {} => Cardinality(T) = 0
  BY ZenonT(40), FS_EmptySet
<1> QED
  BY ZenonT(40), <1>1, <1>2, FS_AddElement

LEMMA AllIsCountable == Countable(Callers) /\ Countable(Fetches)
BY SMTT(30), ReaderAssumption, FiniteIsCountable

\* Inv holds throughout: the reader count of a fetch is the number of its readers, one
\* agent at most stores a fetch, and a fetch that has ended is held by somebody who
\* will store or discard it (attach, detach, finish, finalize, discard).
THEOREM CachingReaderInvariant == Spec => []Inv
<1>1. Init => Inv
  BY ZenonT(40), InitIsSound, AllIsCountable
<1>2. Inv /\ [Next]_vars => Inv'
  BY ZenonT(40), NextKeepsInv, AllIsCountable
<1> QED
  BY <1>1, <1>2, PTL DEF Spec

\* Only verified content is ever stored, and every stored file is counted (stream, finalize).
THEOREM OnlyVerifiedContentIsStored == Spec => []StoreIsSound
<1>1. Inv => StoreIsSound
  BY Zenon DEF Inv, StoreFits
<1> QED
  BY <1>1, CachingReaderInvariant, PTL

\* A fetch that somebody wants is found in inflight until its blob is in the store
\* (finalize renames before it forgets, fetchFor).
THEOREM ConcurrentReadersShareAFetch == Spec => []FetchIsShared
<1>1. ASSUME Inv PROVE FetchIsShared
  BY ZenonT(40), <1>1, InvMeansShared
<1> QED
  BY <1>1, CachingReaderInvariant, PTL

\* The reservations are exactly those of the fetches neither stored nor discarded, and
\* nothing is left behind once everybody is idle: no fetch in flight, no temporary file,
\* no reservation, and no more bytes than the limit unless every file the index still
\* counts refused to be removed when evictLocked last tried it (createTemp, release,
\* finalize, makeRoom, prune).
THEOREM SpaceIsGivenBackOnce == Spec => []SpaceIsAccounted
<1>1. ASSUME Inv PROVE SpaceIsAccounted
  BY ZenonT(40), <1>1, InvMeansAccounted, AllIsCountable
<1> QED
  BY <1>1, CachingReaderInvariant, PTL

\* No reader is told that it has the whole blob when it has other bytes, as long as all
\* it read came from the store or from one fetch followed to its end: what is stored was
\* verified, and the end of a fetch is announced after stream has verified it.  What a
\* reader took from passthrough, or before a local fallback, nobody verified; such reads
\* end as relayed, and those of a ReadBlob that stops at the size as early.
THEOREM ReadToTheEndIsTheBlob == Spec => []ReadsReturnTheBlob
<1>1. Init => ReadsReturnTheBlob
  BY Zenon DEF Init, ReadsReturnTheBlob
<1>2. Inv /\ ReadsReturnTheBlob /\ [Next]_vars => ReadsReturnTheBlob'
  BY ZenonT(40), ReadsStayRight
<1> QED
  BY <1>1, <1>2, CachingReaderInvariant, PTL DEF Spec

INSTANCE FunctionTheorems

\* Every variable keeps the type the code gives it: a fetch has no more readers than there
\* are callers and never fewer than none (detach), no more is reserved than there are
\* fetches (releaseLocked), and no blob is indexed twice (diskStore.lru).
THEOREM CachingReaderTypeCorrect == Spec => []TypeOK
<1>1. ASSUME Inv PROVE TypeOK
  <2>1. Types
    BY ZenonT(40), <1>1 DEF Inv
  <2>2. Cardinality(Indexed(lru)) = Len(lru) /\ Indexed(lru) \subseteq Digests
    <3>1. lru \in Seq(Digests) /\ Len(lru) \in Nat /\ DOMAIN lru = 1 .. Len(lru)
      BY SMTT(30), <2>1 DEF Types
    <3>2. lru \in Bijection(1 .. Len(lru), Indexed(lru))
      <4>1. lru \in [1 .. Len(lru) -> Indexed(lru)]
        BY SMTT(30), <3>1 DEF Indexed
      <4>2. \A i, j \in 1 .. Len(lru) : lru[i] = lru[j] => i = j
        BY ZenonT(40), <2>1, <3>1 DEF Types, NoDuplicates
      <4>3. \A d \in Indexed(lru) : \E i \in 1 .. Len(lru) : lru[i] = d
        BY ZenonT(40), <3>1 DEF Indexed
      <4> QED
        BY ZenonT(40), <4>1, <4>2, <4>3, Fun_IsBij
    <3>3. IsFiniteSet(1 .. Len(lru)) /\ Cardinality(1 .. Len(lru)) = Len(lru)
      BY SMTT(30), <3>1, FS_Interval
    <3> QED
      BY SMTT(30), <3>1, <3>2, <3>3, FS_Bijection DEF ExistsBijection, Indexed
  <2>3. reserved \in 0 .. Cardinality(Fetches)
    <3>1. {f \in Fetches : HoldsReservation(f)} \subseteq Fetches
      OBVIOUS
    <3>2. Cardinality({f \in Fetches : HoldsReservation(f)}) <= Cardinality(Fetches) /\ Cardinality(Fetches) \in Nat
      BY ZenonT(40), <3>1, ReaderAssumption, FS_Subset, FS_CardinalityType
    <3> QED
      BY SMTT(30), <1>1, <2>1, <3>2 DEF Inv, Types, ReservationsAreExact
  <2>4. \A f \in Fetches : fetch[f].readers \in 0 .. Cardinality(Callers)
    <3> TAKE f \in Fetches
    <3>1. ReadersOf(f) \subseteq Callers
      BY ZenonT(40) DEF ReadersOf
    <3>2. Cardinality(ReadersOf(f)) <= Cardinality(Callers) /\ Cardinality(Callers) \in Nat /\ Cardinality(ReadersOf(f)) \in Nat
      BY ZenonT(40), <3>1, ReaderAssumption, FS_Subset, FS_CardinalityType
    <3> QED
      BY SMTT(30), <1>1, <3>2 DEF Inv, FetchIsHeld
  <2>5. fetch \in [Fetches ->
         [digest : Digests \cup {NoFetch}, source : {"good", "bad", "long"}, published : 0..Chunks + 1,
          readers : 0..Cardinality(Callers), done : BOOLEAN, err : {"none", "failed", "local"},
          abandoned : BOOLEAN, finalized : BOOLEAN, discarded : BOOLEAN, temp : BOOLEAN]]
    BY ZenonT(40), <2>1, <2>4 DEF Types, BlobFetch
  <2> QED
    BY ZenonT(40), <2>1, <2>2, <2>3, <2>5 DEF TypeOK, Types, Call
<1> QED
  BY <1>1, CachingReaderInvariant, PTL
==============================================================================
