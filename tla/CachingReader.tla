--------------------------- MODULE CachingReader ---------------------------
(***************************************************************************)
(* The caching blob reader: pkg/cas/cache.go (CachingReader, blobFetch,    *)
(* fetchReader) and the part of pkg/cas/cachestore.go (diskStore) it       *)
(* drives.                                                                 *)
(*                                                                         *)
(* Readers of one blob share a fetch.  The fetch's goroutine publishes the *)
(* blob chunk by chunk; the last to leave, goroutine or reader, moves the  *)
(* file into the store or removes it.  Three mutexes are involved, and one *)
(* step is what happens under one of them: c.mu (inflight), b.mu (a fetch) *)
(* and s.mu (the store's index).  Calls to the file system are steps too.  *)
(***************************************************************************)
EXTENDS Integers, Sequences, FiniteSets

LOCAL INSTANCE TLC

CONSTANTS
    Callers,      \* goroutines that read blobs
    Fetches,      \* blobFetch objects; one that is over can be used again
    Digests,      \* blobs, each of size 1 in the store
    Chunks,       \* the buffers a blob fills
    MaxSize,      \* diskStore.maxSize, 0 for no limit
    Sources,      \* what upstream sends: "good", "bad" or "long"
    Ops,          \* "ReaderForBlob" read to its end, or "ReadBlob"
    MaxAttempts,  \* maxAttachAttempts
    MaxBusy,      \* how many callers and fetches may be at work at once
    NoFetch

ASSUME ReaderAssumption ==
    /\ Chunks \in Nat \ {0} /\ MaxSize \in Nat /\ MaxAttempts \in Nat \ {0} /\ MaxBusy \in Nat \ {0}
    /\ Sources \subseteq {"good", "bad", "long"}
    /\ Ops \subseteq {"ReaderForBlob", "ReadBlob"}
    /\ NoFetch \notin Fetches \cup Digests
    /\ Callers \cap Fetches = {}
    /\ IsFiniteSet(Callers) /\ IsFiniteSet(Fetches)

VARIABLES
    inflight,  \* CachingReader.inflight
    fetch,     \* the blobFetch objects
    file,      \* the content of each blob's file in the store
    lru,       \* diskStore.lru, most recently used first
    stuck,     \* the indexed blobs whose file could not be removed when last tried
    reserved,  \* diskStore.reserved
    disabled,  \* diskStore.disabled
    pc,        \* where each caller and each fetch's goroutine is
    call,      \* a caller's read: what it reads, its fetchReader, its attempts,
               \* and where it goes on once it has detached
    result     \* what its read delivered: "fine", the blob or an error, or content
               \* that is not the blob's: "corrupt" when the read came to its end in
               \* the cache, "relayed" when the end came straight from upstream, and
               \* "early" when the reader did not wait for the end

indexVars == <<lru, file, stuck>>
storeVars == <<indexVars, reserved, disabled>>
vars == <<inflight, fetch, storeVars, pc, call, result>>

Agents == Callers \cup Fetches
Idle == "idle"
NewCall(op, d) == [op |-> op, digest |-> d, fetch |-> NoFetch, off |-> 0, tries |-> 0, then |-> Idle]
NoCall == NewCall("none", NoFetch)
NoBlobFetch ==
    [digest |-> NoFetch, source |-> "good", published |-> 0, readers |-> 0, done |-> FALSE, err |-> "none",
     abandoned |-> FALSE, finalized |-> FALSE, discarded |-> FALSE, temp |-> FALSE]

Init ==
    /\ inflight = [d \in Digests |-> NoFetch]
    /\ fetch = [f \in Fetches |-> NoBlobFetch]
    /\ file = [d \in Digests |-> "absent"]
    /\ lru = <<>>
    /\ stuck = {}
    /\ reserved = 0
    /\ disabled = FALSE
    /\ pc = [a \in Agents |-> Idle]
    /\ call = [c \in Callers |-> NoCall]
    /\ result = [c \in Callers |-> "fine"]

Goto(a, label) == pc' = [pc EXCEPT ![a] = label]

\* The fetch an agent works on.
Of(a) == IF a \in Callers THEN call[a].fetch ELSE a

\* The read of c is over.
Answer(c, r) ==
    /\ Goto(c, Idle)
    /\ call' = [call EXCEPT ![c] = NoCall]
    /\ result' = [result EXCEPT ![c] = r]

------------------------------------------------------------------------------
(* The store *)

Indexed(index) == {index[i] : i \in DOMAIN index}
MoveToFront(index, d) ==
    IF d \notin Indexed(index) THEN <<d>> \o index
    ELSE LET i == CHOOSE i \in DOMAIN index : index[i] = d
         IN <<d>> \o SubSeq(index, 1, i - 1) \o SubSeq(index, i + 1, Len(index))

\* store.has: a file of the right size is there.
has(d) == file[d] # "absent"

\* What can be left of the index when entries leave it: the others keep their order.
Selections(index) ==
    {kept \in UNION {[1..n -> Indexed(index)] : n \in 0..Len(index)} :
        \E at \in [DOMAIN kept -> DOMAIN index] :
            /\ \A i, j \in DOMAIN kept : i < j => at[i] < at[j]
            /\ \A i \in DOMAIN kept : kept[i] = index[at[i]]}

\* evictLocked walks from the back and stops before entry i.  A file it fails to
\* remove, because another process holds it open, stays indexed and counted.
evictLocked(i, refused) ==
    LET walked == {lru[j] : j \in (i + 1)..Len(lru)} IN
    /\ \A d \in refused : d \in walked /\ has(d)
    /\ \E kept \in Selections(lru) : Indexed(kept) = Indexed(lru) \ (walked \ refused) /\ lru' = kept
    /\ file' = [d \in Digests |-> IF d \in walked \ refused THEN "absent" ELSE file[d]]
    /\ stuck' = (stuck \ walked) \cup refused

\* makeRoom and prune: entries go until size more bytes fit, or all have been tried.
MakeRoom(size) ==
    IF MaxSize = 0 THEN UNCHANGED indexVars
    ELSE \E i \in 0..Len(lru), refused \in SUBSET Indexed(lru) :
            /\ evictLocked(i, refused)
            /\ i > 0 => Len(lru') + reserved + size <= MaxSize
            /\ i < Len(lru) =>
                  Len(lru') + (IF lru[i + 1] \in refused THEN 0 ELSE 1) + reserved + size > MaxSize

\* releaseLocked.
Released(size) == IF reserved < size THEN 0 ELSE reserved - size

\* Another user of the directory deletes a cached blob.
Vanish(d) ==
    /\ file[d] # "absent"
    /\ file' = [file EXCEPT ![d] = "absent"]
    /\ UNCHANGED <<inflight, fetch, lru, stuck, reserved, disabled, pc, call, result>>

------------------------------------------------------------------------------
(* ReaderForBlob, ReadBlob *)

\* A blobFetch nobody refers to any more, whose file and reservation are gone.
Over(f) ==
    /\ pc[f] = Idle
    /\ \A c \in Callers : call[c].fetch # f
    /\ \A d \in Digests : inflight[d] # f
    /\ fetch[f] = NoBlobFetch \/ fetch[f].finalized \/ fetch[f].discarded

\* Fewer than MaxBusy callers and fetches are at work.
Spare == Cardinality({c \in Callers : pc[c] # Idle} \cup {f \in Fetches : ~Over(f)}) < MaxBusy

Begin(c, op, d) ==
    /\ pc[c] = Idle /\ Spare
    /\ call' = [call EXCEPT ![c] = NewCall(op, d)]
    /\ result' = [result EXCEPT ![c] = "fine"]
    /\ Goto(c, "open")
    /\ UNCHANGED <<inflight, fetch, storeVars>>

Quality(content) == IF content = "good" THEN "fine" ELSE "corrupt"

\* The head of ReaderForBlob's loop.  store.open counts as a use of the blob.
OpenStored(c) ==
    LET d == call[c].digest IN
    /\ pc[c] = "open"
    /\ \/ /\ call[c].tries = MaxAttempts
          /\ Goto(c, "passthrough")
          /\ UNCHANGED <<lru, call, result>>
       \/ /\ call[c].tries < MaxAttempts /\ has(d)
          /\ lru' = IF d \in Indexed(lru) THEN MoveToFront(lru, d) ELSE lru
          /\ Answer(c, Quality(file[d]))
       \/ /\ call[c].tries < MaxAttempts /\ ~has(d)
          /\ call' = [call EXCEPT ![c].tries = @ + 1]
          /\ Goto(c, "lookup")
          /\ UNCHANGED <<lru, result>>
    /\ UNCHANGED <<inflight, fetch, file, stuck, reserved, disabled>>

\* startFetch, with createTemp: room is made and reserved, a temporary file is
\* created, and the goroutine starts.  Without the file nothing is cached any more.
startFetch(c, d) ==
    \/ /\ disabled
       /\ Goto(c, "passthrough")
       /\ UNCHANGED <<inflight, fetch, storeVars, call>>
    \/ /\ ~disabled
       /\ MakeRoom(1)
       /\ disabled' = TRUE
       /\ Goto(c, "passthrough")
       /\ UNCHANGED <<inflight, fetch, reserved, call>>
    \/ /\ ~disabled
       /\ MakeRoom(1)
       /\ Spare
       /\ reserved' = reserved + 1
       /\ \E f \in Fetches, source \in Sources :
             /\ Over(f)
             /\ fetch' = [fetch EXCEPT ![f] = [NoBlobFetch EXCEPT !.digest = d, !.source = source, !.temp = TRUE]]
             /\ inflight' = [inflight EXCEPT ![d] = f]
             /\ call' = [call EXCEPT ![c].fetch = f]
             /\ pc' = [pc EXCEPT ![c] = "attach", ![f] = "streaming"]
       /\ UNCHANGED disabled

\* fetchFor, under c.mu: join the fetch in flight, go back to the store, or start a fetch.
fetchFor(c) ==
    LET d == call[c].digest IN
    /\ pc[c] = "lookup"
    /\ \/ /\ inflight[d] # NoFetch
          /\ call' = [call EXCEPT ![c].fetch = inflight[d]]
          /\ Goto(c, "attach")
          /\ UNCHANGED <<inflight, fetch, storeVars>>
       \/ /\ inflight[d] = NoFetch /\ has(d)
          /\ Goto(c, "open")
          /\ UNCHANGED <<inflight, fetch, storeVars, call>>
       \/ /\ inflight[d] = NoFetch /\ ~has(d)
          /\ startFetch(c, d)
    /\ UNCHANGED result

\* passthrough: the read goes on with what upstream sends, which nobody verifies, or
\* upstream fails.  The bytes the reader was given before stay with it.
passthrough(c) ==
    /\ pc[c] = "passthrough"
    /\ \/ Answer(c, "fine")
       \/ \E source \in Sources : Answer(c, IF source = "good" THEN result[c] ELSE "relayed")
    /\ UNCHANGED <<inflight, fetch, storeVars>>

------------------------------------------------------------------------------
(* Joining and leaving a fetch *)

\* attach, under b.mu.
attach(c) ==
    LET f == call[c].fetch IN
    /\ pc[c] = "attach"
    /\ \/ /\ fetch[f].abandoned
          /\ call' = [call EXCEPT ![c].fetch = NoFetch]
          /\ Goto(c, "open")
          /\ UNCHANGED fetch
       \/ /\ ~fetch[f].abandoned
          /\ fetch' = [fetch EXCEPT ![f].readers = @ + 1]
          /\ Goto(c, "opentemp")
          /\ UNCHANGED call
    /\ UNCHANGED <<inflight, storeVars, result>>

\* attach's os.Open of the temporary file, which may have been moved or removed.
OpenTemp(c) ==
    LET f == call[c].fetch IN
    /\ pc[c] = "opentemp"
    /\ \/ /\ fetch[f].temp
          /\ Goto(c, "reading")
          /\ UNCHANGED call
       \/ /\ ~fetch[f].temp
          /\ call' = [call EXCEPT ![c].then = "open"]
          /\ Goto(c, "detach")
    /\ UNCHANGED <<inflight, fetch, storeVars, result>>

\* The reader is finished with the fetch: it detaches and goes on at next.
LeaveFor(c, next, r) ==
    /\ call' = [call EXCEPT ![c] = [@ EXCEPT !.then = next, !.off = 0]]
    /\ result' = [result EXCEPT ![c] = r]
    /\ Goto(c, "detach")
    /\ UNCHANGED <<inflight, fetch, storeVars>>

\* fetchReader.Read while published bytes are ahead of the reader.  ReadBlob
\* reads as many bytes as the blob has and returns; a reader stops anywhere.
Early(source) == IF source = "good" THEN "fine" ELSE "early"
ReadPublished(c) ==
    LET f == call[c].fetch IN
    /\ pc[c] = "reading"
    /\ fetch[f].published > call[c].off
    /\ IF call[c].op = "ReadBlob" /\ call[c].off = Chunks - 1
         THEN LeaveFor(c, Idle, Early(fetch[f].source))
         ELSE /\ call' = [call EXCEPT ![c].off = @ + 1]
              /\ UNCHANGED <<inflight, fetch, storeVars, pc, result>>

\* The reader goes on with upstream, and keeps the bytes it has: those of a fetch
\* that has not ended, or that failed, were not verified.
FallBack(c) ==
    LET b == fetch[call[c].fetch]
    IN LeaveFor(c, "passthrough", IF call[c].off = 0 \/ b.source = "good" THEN "fine" ELSE "relayed")

ReadEndUnverified(c) ==
    LET f == call[c].fetch IN
    /\ pc[c] = "reading"
    /\ fetch[f].published = call[c].off /\ (fetch[f].done \/ call[c].off >= Chunks)
    /\ LeaveFor(c, Idle, IF fetch[f].err = "none" THEN Quality(fetch[f].source) ELSE "fine")
ReadEnd(c) ==
    LET f == call[c].fetch IN
    /\ pc[c] = "reading"
    /\ fetch[f].published = call[c].off /\ fetch[f].done
    /\ \/ fetch[f].err = "none" /\ LeaveFor(c, Idle, Quality(fetch[f].source))
       \/ fetch[f].err = "failed" /\ LeaveFor(c, Idle, "fine")
       \/ fetch[f].err = "local" /\ FallBack(c)
       \/ fetch[f].err = "local" /\ LeaveFor(c, Idle, "fine")

\* The temporary file cannot be read: the rest comes from upstream.
ReadBroken(c) ==
    /\ pc[c] = "reading"
    /\ fetch[call[c].fetch].published > call[c].off
    /\ FallBack(c)

\* fetchReader.Close before the end, or the reader's context is cancelled.
CloseEarly(c) ==
    /\ pc[c] = "reading"
    /\ LeaveFor(c, Idle, "fine")

\* Agent a has done what leaving the fetch asked of it.
Leave(a) ==
    IF a \in Fetches
      THEN Goto(a, Idle) /\ UNCHANGED call
      ELSE /\ Goto(a, call[a].then)
           /\ call' = [call EXCEPT ![a] = IF @.then = Idle THEN NoCall
                                         ELSE [@ EXCEPT !.fetch = NoFetch, !.then = Idle]]

detach(c) ==
    LET f == call[c].fetch
        b == fetch[f]
        last == b.readers = 1
        abandon == last /\ ~b.done /\ b.published < Chunks
    IN
    /\ pc[c] = "detach"
    /\ fetch' = [fetch EXCEPT ![f] = [b EXCEPT !.readers = b.readers - 1, !.abandoned = b.abandoned \/ abandon]]
    /\ IF last /\ (abandon \/ b.done)
         THEN /\ Goto(c, IF abandon THEN "abandon" ELSE IF b.err = "none" THEN "finalize" ELSE "discard")
              /\ UNCHANGED call
         ELSE Leave(c)
    /\ UNCHANGED <<inflight, storeVars, result>>

\* forget, under c.mu: a newer fetch of the digest stays.
Forgotten(f) == [d \in Digests |-> IF inflight[d] = f THEN NoFetch ELSE inflight[d]]

\* detach's last reader of an incomplete fetch: forget it, cancel its context.
Abandon(c) ==
    /\ pc[c] = "abandon"
    /\ inflight' = Forgotten(call[c].fetch)
    /\ Leave(c)
    /\ UNCHANGED <<fetch, storeVars, result>>

------------------------------------------------------------------------------
(* The goroutine of a fetch *)

\* stream writes and publishes a buffer.  A source that sends too much is cut off
\* one byte past the size of the blob.
publish(f) ==
    /\ pc[f] = "streaming"
    /\ fetch[f].published < (IF fetch[f].source = "long" THEN Chunks + 1 ELSE Chunks)
    /\ fetch' = [fetch EXCEPT ![f].published = @ + 1]
    /\ UNCHANGED <<inflight, storeVars, pc, call, result>>

\* writeAll meets a full file system.  Whatever the limit, entries go from the
\* back until one of them had a file to free, and the write is tried again.
freeAtLeast(f) ==
    /\ pc[f] = "streaming"
    /\ lru # <<>>
    /\ \E i \in 0..Len(lru), refused \in SUBSET Indexed(lru) :
          /\ i > 0 => \E j \in (i + 1)..Len(lru) : has(lru[j]) /\ lru[j] \notin refused
          /\ \A j \in (i + 2)..Len(lru) : has(lru[j]) => lru[j] \in refused
          /\ evictLocked(i, refused)
    /\ UNCHANGED <<inflight, fetch, reserved, disabled, pc, call, result>>

\* What stream concludes at the end of the source.
VerdictBySize(b) == IF b.published = Chunks THEN "none" ELSE "failed"
Verdict(b) == IF b.published = Chunks /\ b.source = "good" THEN "none" ELSE "failed"

\* finish, under b.mu: the outcome is recorded, and readers looked at once.
Finish(f, err) ==
    LET unread == fetch[f].readers = 0 IN
    /\ fetch' = [fetch EXCEPT ![f] = [@ EXCEPT !.done = TRUE, !.err = err]]
    /\ Goto(f, IF err # "none" THEN (IF unread THEN "forgetThenDiscard" ELSE "forget")
               ELSE IF unread THEN "finalize" ELSE Idle)
    /\ UNCHANGED <<inflight, indexVars, reserved, call, result>>

\* stream ends: the source is exhausted, or upstream fails (a cancelled context
\* does the same), or the temporary file cannot be written.
EndStream(f) ==
    /\ pc[f] = "streaming"
    /\ \/ /\ fetch[f].published = (IF fetch[f].source = "long" THEN Chunks + 1 ELSE Chunks)
          /\ Finish(f, Verdict(fetch[f]))
          /\ UNCHANGED disabled
       \/ /\ Finish(f, "failed")
          /\ UNCHANGED disabled
       \/ /\ Finish(f, "local")
          /\ disabled' = TRUE

\* finish of a failed fetch lets the next caller try again.
ForgetFailed(f) ==
    /\ pc[f] \in {"forgetThenDiscard", "forget"}
    /\ inflight' = Forgotten(f)
    /\ Goto(f, IF pc[f] = "forget" THEN Idle ELSE "discard")
    /\ UNCHANGED <<fetch, storeVars, call, result>>

------------------------------------------------------------------------------
(* What the last one to leave does, reader or goroutine *)

\* discard: once, the temporary file is removed and its reservation released.
discardAgain(a) ==
    LET f == Of(a) IN
    /\ pc[a] = "discard"
    /\ fetch' = [fetch EXCEPT ![f] = [@ EXCEPT !.discarded = TRUE, !.temp = FALSE]]
    /\ reserved' = Released(1)
    /\ Leave(a)
    /\ UNCHANGED <<inflight, indexVars, disabled, result>>
discard(a) ==
    LET f == Of(a) IN
    /\ pc[a] = "discard"
    /\ fetch' = [fetch EXCEPT ![f] = [@ EXCEPT !.discarded = TRUE, !.temp = FALSE]]
    /\ reserved' = IF fetch[f].discarded THEN reserved ELSE Released(1)
    /\ Leave(a)
    /\ UNCHANGED <<inflight, indexVars, disabled, result>>

\* finalize, under b.mu: the first to find the fetch complete and unread moves it.
Eligible(b) == b.done /\ b.err = "none" /\ b.readers = 0 /\ ~b.finalized
finalizeForgettingFirst(a) ==
    LET f == Of(a) IN
    /\ pc[a] = "finalize"
    /\ IF Eligible(fetch[f])
         THEN /\ fetch' = [fetch EXCEPT ![f].finalized = TRUE]
              /\ inflight' = Forgotten(f)
              /\ Goto(a, "rename")
              /\ UNCHANGED call
         ELSE Leave(a) /\ UNCHANGED <<fetch, inflight>>
    /\ UNCHANGED <<storeVars, result>>
finalize(a) ==
    LET f == Of(a) IN
    /\ pc[a] = "finalize"
    /\ IF Eligible(fetch[f])
         THEN /\ fetch' = [fetch EXCEPT ![f].finalized = TRUE]
              /\ Goto(a, "rename")
              /\ UNCHANGED call
         ELSE Leave(a) /\ UNCHANGED fetch
    /\ UNCHANGED <<inflight, storeVars, result>>

\* store.finalize renames the file.  When that fails the file is removed, and
\* without the blob in the store its reservation is given back.
Rename(a) ==
    LET f == Of(a)
        d == fetch[f].digest
    IN
    /\ pc[a] = "rename"
    /\ fetch' = [fetch EXCEPT ![f].temp = FALSE]
    /\ \/ /\ file' = [file EXCEPT ![d] = fetch[f].source]
          /\ Goto(a, "index")
          /\ UNCHANGED <<reserved, disabled>>
       \/ /\ has(d)
          /\ Goto(a, "index")
          /\ UNCHANGED <<file, reserved, disabled>>
       \/ /\ ~has(d)
          /\ reserved' = Released(1)
          /\ disabled' \in {disabled, TRUE}
          /\ Goto(a, "forgetFinalized")
          /\ UNCHANGED file
    /\ UNCHANGED <<inflight, lru, stuck, call, result>>

\* store.finalize indexes the blob and releases its reservation.
Index(a) ==
    /\ pc[a] = "index"
    /\ lru' = MoveToFront(lru, fetch[Of(a)].digest)
    /\ reserved' = Released(1)
    /\ Goto(a, "prune")
    /\ UNCHANGED <<inflight, fetch, file, stuck, disabled, call, result>>

\* prune takes s.mu again.
prune(a) ==
    /\ pc[a] = "prune"
    /\ MakeRoom(0)
    /\ Goto(a, "forgetFinalized")
    /\ UNCHANGED <<inflight, fetch, reserved, disabled, call, result>>

\* finalize drops the fetch once the blob is in the store.
ForgetFinalized(a) ==
    /\ pc[a] = "forgetFinalized"
    /\ inflight' = Forgotten(Of(a))
    /\ Leave(a)
    /\ UNCHANGED <<fetch, storeVars, result>>

------------------------------------------------------------------------------

LastToLeave(a) == discard(a) \/ finalize(a) \/ Rename(a) \/ Index(a) \/ prune(a) \/ ForgetFinalized(a)
Proceed(c) ==
    \/ OpenStored(c) \/ fetchFor(c) \/ passthrough(c) \/ attach(c) \/ OpenTemp(c)
    \/ ReadPublished(c) \/ ReadEnd(c) \/ detach(c) \/ Abandon(c) \/ LastToLeave(c)
run(f) == publish(f) \/ EndStream(f) \/ ForgetFailed(f) \/ LastToLeave(f)

Next ==
    \/ \E c \in Callers, op \in Ops, d \in Digests : Begin(c, op, d)
    \/ \E c \in Callers : Proceed(c) \/ ReadBroken(c) \/ CloseEarly(c)
    \/ \E f \in Fetches : run(f) \/ freeAtLeast(f)
    \/ \E d \in Digests : Vanish(d)

Spec == Init /\ [][Next]_vars

------------------------------------------------------------------------------
(* Properties *)

Labels ==
    {Idle, "open", "lookup", "passthrough", "attach", "opentemp", "reading", "detach", "abandon", "streaming",
     "forgetThenDiscard", "forget", "discard", "finalize", "rename", "index", "prune", "forgetFinalized"}

Results == {"fine", "corrupt", "relayed", "early"}

\* Every variable has the type the code gives it: in particular a fetch never has
\* more readers than there are callers, nor fewer than none, and no blob is
\* indexed twice by the store.
TypeOK ==
    /\ inflight \in [Digests -> Fetches \cup {NoFetch}]
    /\ fetch \in [Fetches ->
         [digest : Digests \cup {NoFetch}, source : {"good", "bad", "long"}, published : 0..Chunks + 1,
          readers : 0..Cardinality(Callers), done : BOOLEAN, err : {"none", "failed", "local"},
          abandoned : BOOLEAN, finalized : BOOLEAN, discarded : BOOLEAN, temp : BOOLEAN]]
    /\ file \in [Digests -> {"absent", "good", "bad", "long"}]
    /\ Indexed(lru) \subseteq Digests /\ Cardinality(Indexed(lru)) = Len(lru)
    /\ stuck \subseteq Digests
    /\ reserved \in 0..Cardinality(Fetches)
    /\ disabled \in BOOLEAN
    /\ pc \in [Agents -> Labels]
    /\ call \in [Callers -> [op : Ops \cup {"none"}, digest : Digests \cup {NoFetch}, fetch : Fetches \cup {NoFetch},
                             off : 0..Chunks + 1, tries : 0..MaxAttempts, then : {Idle, "open", "passthrough"}]]
    /\ result \in [Callers -> Results]

\* Only content whose digest was verified is ever stored (stream, finalize),
\* whoever moves the file and whatever readers do meanwhile; and every stored file
\* counts against the size limit, from the moment store.finalize has indexed it
\* until evictLocked removes it.
StoreIsSound ==
    \A d \in Digests :
        /\ file[d] \in {"absent", "good"}
        /\ file[d] # "absent" =>
              d \in Indexed(lru) \/ \E a \in Agents : pc[a] = "index" /\ fetch[Of(a)].digest = d

\* A blob that is being downloaded for somebody, or that is downloaded and not
\* yet in the store, is found in inflight (finalize, fetchFor): so no second
\* fetch of it is started, and concurrent readers share one.
FetchIsShared ==
    \A f \in Fetches :
        fetch[f].temp /\ ~fetch[f].abandoned /\ fetch[f].err = "none" => inflight[fetch[f].digest] = f

\* The reservation of a fetch has not been given back.
HoldsReservation(f) ==
    /\ fetch[f].digest # NoFetch
    /\ ~fetch[f].discarded
    /\ fetch[f].finalized => \E a \in Agents : Of(a) = f /\ pc[a] \in {"rename", "index"}

\* The space reserved is the space of the fetches that have neither been stored
\* nor discarded (createTemp, release): it is given back once, though goroutine
\* and last reader may both set out to do it.
ReservationsAreExact == reserved = Cardinality({f \in Fetches : HoldsReservation(f)})

\* When nobody reads and no fetch runs, nothing is left over: no fetch in flight, no
\* temporary file, no reservation, and the store is within its limit, unless
\* evictLocked has tried every blob it holds and could remove none of them.
NothingIsLeftBehind ==
    (\A a \in Agents : pc[a] = Idle) =>
        /\ \A d \in Digests : inflight[d] = NoFetch
        /\ \A f \in Fetches : ~fetch[f].temp
        /\ reserved = 0
        /\ MaxSize > 0 => Len(lru) <= MaxSize \/ Indexed(lru) \subseteq stuck

\* Both together: what the cache takes from the disk it accounts for, and gives back.
SpaceIsAccounted == ReservationsAreExact /\ NothingIsLeftBehind

\* A read that comes to its end in the cache, from the store or from a fetch, has
\* returned the blob (fetchReader.Read, store.open), however often it went from one to
\* the other, and whatever upstream sent to others meanwhile.  Not so a read that ends
\* with what passthrough relays, nor ReadBlob, which returns once it has as many bytes
\* as the blob: that content nobody has verified.
ReadsReturnTheBlob == \A c \in Callers : result[c] # "corrupt"

------------------------------------------------------------------------------
(* For TLC *)

\* Callers, fetches and digests are interchangeable.
ReaderSymmetry == Permutations(Callers) \cup Permutations(Fetches) \cup Permutations(Digests)

\* What no later step looks at is left out: the fields of a fetch that is over, and the
\* content of one that has failed and has no reader; the entries that could not be
\* removed, while the store is within its limit or about to be pruned, since prune tries
\* them again; the operation of a caller that has read, and what it was given, unless it
\* goes on with passthrough.
View ==
    LET overfull == MaxSize > 0 /\ Len(lru) > MaxSize /\ \A a \in Agents : pc[a] \notin {"index", "prune"}
        relays(c) == pc[c] = "passthrough" \/ call[c].then = "passthrough"
        reads(c) == pc[c] \in {"open", "lookup", "attach", "opentemp", "reading"} \/ call[c].then = "open"
        dead(f) == /\ fetch[f].err # "none" /\ \A d \in Digests : inflight[d] # f
                   /\ \A c \in Callers : call[c].fetch = f => pc[c] \notin {"attach", "opentemp", "reading"}
        seen(f) == IF Over(f) THEN NoBlobFetch
                   ELSE IF dead(f) THEN [fetch[f] EXCEPT !.source = "bad", !.published = 0, !.abandoned = TRUE,
                                                        !.err = "failed"]
                   ELSE fetch[f]
    IN <<inflight, [f \in Fetches |-> seen(f)], lru, file, reserved, disabled, pc,
         overfull /\ Indexed(lru) \subseteq stuck,
         [c \in Callers |-> IF reads(c) THEN call[c] ELSE [call[c] EXCEPT !.op = "none"]],
         [c \in Callers |-> IF relays(c) \/ result[c] = "corrupt" THEN result[c] ELSE "fine"]>>

==============================================================================
