----------------------------- MODULE HashWorker -----------------------------
(***************************************************************************)
(* A persistent worker, pkg/persistentworker/worker.go, and the hash       *)
(* command run as one, cmd/hash.                                           *)
(*                                                                         *)
(* The loop reads work requests and cancel requests from one pipe, handles *)
(* each work request in a goroutine of its own, at most MaxWorkers at a    *)
(* time, and a writer puts the responses on another pipe.                  *)
(*                                                                         *)
(* The handler keeps what it computed of a file in five maps keyed by      *)
(* Bazel's digest of it, each under a lock of its own, and answers from    *)
(* them when it can.  The requests of a behaviour are all for one file.  A *)
(* request is                                                              *)
(*    alg     the digest algorithm          meta   layer metadata wanted   *)
(*    modes   its digest modes              digest whether Bazel names the *)
(*    media   a media type given, or ""            file's digest           *)
(***************************************************************************)
EXTENDS Integers, Sequences, FiniteSets

CONSTANTS
    Requests,    \* the request ids; Bazel uses each once
    Doubtful,    \* the requests Bazel may ask to cancel
    MaxWorkers,  \* maxWorkers
    PipeBound,   \* bound: messages in the pipe that Run has not read
    Workloads    \* the arguments of the requests: functions on Requests

VARIABLES
    input,       \* what Bazel has written and Run has not read, then "EOF" or "garbage"
    sent,        \* the requests Bazel has sent
    asked,       \* the requests Bazel has asked to cancel
    main,        \* where Run is: "decode", "acquire", "wait", "flush" or what it returned
    next,        \* the request main acquires a slot for
    slots,       \* slots taken of sem
    pc,          \* of each request's goroutine
    requests,    \* the ids of the map of cancel functions
    cancelled,   \* the requests whose context is cancelled
    exit,        \* the exit code of each response, -1 while there is none
    responses,   \* responseChan
    output,      \* the responses Bazel has received
    kind,        \* the arguments of each request
    cheat,       \* cheatMode, with a digest a SHA-256 can be extracted from
    cache,       \* the five maps at the file's digest
    got,         \* what a request has looked up or computed
    file         \* the output file of a request

workerVars == <<input, sent, asked, main, next, slots, pc, requests, cancelled, exit, responses, output>>
hashVars == <<kind, cheat, cache, got, file>>
vars == <<workerVars, hashVars>>

AnyRequest == CHOOSE r \in Requests : TRUE

Running == {r \in Requests : pc[r] \notin {"none", "done"}}

WorkerInit ==
    /\ input = <<>> /\ sent = {} /\ asked = {}
    /\ main = "decode" /\ next = AnyRequest
    /\ slots = 0
    /\ pc = [r \in Requests |-> "none"]
    /\ requests = {} /\ cancelled = {}
    /\ exit = [r \in Requests |-> -1]
    /\ responses = <<>> /\ output = {}

Goto(r, label) == pc' = [pc EXCEPT ![r] = label]

------------------------------------------------------------------------------
(* Bazel, at the other end of the pipes. *)

Ended == \E i \in DOMAIN input : input[i].kind \in {"EOF", "garbage"}

Write(message, r) == Len(input) < PipeBound /\ input' = Append(input, [kind |-> message, id |-> r])

BazelSends(r) ==
    /\ ~Ended /\ main \in {"decode", "acquire"} /\ r \notin sent
    /\ Write("work", r)
    /\ sent' = sent \cup {r}
    /\ UNCHANGED <<asked, main, next, slots, pc, requests, cancelled, exit, responses, output>>

\* A cancel request for what has not been answered yet, as far as Bazel knows.
BazelCancels(r) ==
    /\ ~Ended /\ main \in {"decode", "acquire"}
    /\ r \in (sent \cap Doubtful) \ asked
    /\ \A o \in output : o.id # r
    /\ Write("cancel", r)
    /\ asked' = asked \cup {r}
    /\ UNCHANGED <<sent, main, next, slots, pc, requests, cancelled, exit, responses, output>>

\* Bazel closes the pipe, or something that is no request is on it.
BazelEnds ==
    /\ ~Ended /\ main \in {"decode", "acquire"}
    /\ \E end \in {"EOF", "garbage"} : Write(end, AnyRequest)
    /\ UNCHANGED <<sent, asked, main, next, slots, pc, requests, cancelled, exit, responses, output>>

------------------------------------------------------------------------------
(* Run: the main loop. *)

\* A cancel request cancels a context that is registered, and is ignored otherwise.
DecodeCancel ==
    /\ main = "decode" /\ input # <<>> /\ Head(input).kind = "cancel"
    /\ input' = Tail(input)
    /\ cancelled' = cancelled \cup ({Head(input).id} \cap requests)
    /\ UNCHANGED <<sent, asked, main, next, slots, pc, requests, exit, responses, output>>

DecodeWork ==
    /\ main = "decode" /\ input # <<>> /\ Head(input).kind = "work"
    /\ input' = Tail(input)
    /\ next' = Head(input).id
    /\ main' = "acquire"
    /\ UNCHANGED <<sent, asked, slots, pc, requests, cancelled, exit, responses, output>>

\* EOF ends the loop; so does an error, which is returned.
DecodeEnd ==
    /\ main = "decode" /\ input # <<>> /\ Head(input).kind \in {"EOF", "garbage"}
    /\ main' = "wait"
    /\ UNCHANGED <<input, sent, asked, next, slots, pc, requests, cancelled, exit, responses, output>>

\* Faulty variant of Acquire, used to show that the properties notice it: no limit.
AcquireUnlimited ==
    /\ main = "acquire"
    /\ slots' = slots + 1
    /\ Goto(next, "started")
    /\ main' = "decode"
    /\ UNCHANGED <<input, sent, asked, next, requests, cancelled, exit, responses, output>>

\* sem <- struct{}{}, and the goroutine is started.
Acquire ==
    /\ main = "acquire" /\ slots < MaxWorkers
    /\ slots' = slots + 1
    /\ Goto(next, "started")
    /\ main' = "decode"
    /\ UNCHANGED <<input, sent, asked, next, requests, cancelled, exit, responses, output>>

\* wg.Wait(), then responseChan is closed.
WaitForAll ==
    /\ main = "wait" /\ Running = {}
    /\ main' = "flush"
    /\ UNCHANGED <<input, sent, asked, next, slots, pc, requests, cancelled, exit, responses, output>>

\* <-responseDone: the writer has drained the channel.
Flushed ==
    /\ main = "flush" /\ responses = <<>>
    /\ main' = IF Head(input).kind = "EOF" THEN "ok" ELSE "error"
    /\ UNCHANGED <<input, sent, asked, next, slots, pc, requests, cancelled, exit, responses, output>>

\* The writer encodes a response. Bazel reads until Run has returned; a response that
\* could not be written would be dropped, and nothing else would change.
WriteResponse ==
    /\ responses # <<>>
    /\ responses' = Tail(responses)
    /\ output' = output \cup {Head(responses)}
    /\ UNCHANGED <<input, sent, asked, main, next, slots, pc, requests, cancelled, exit>>

------------------------------------------------------------------------------
(* The goroutine of a request. *)

Register(r) ==
    /\ pc[r] = "started"
    /\ requests' = requests \cup {r}
    /\ Goto(r, "handle")
    /\ UNCHANGED <<input, sent, asked, main, next, slots, cancelled, exit, responses, output>>

\* WasCancelled is read off the context, then the response is sent to the writer.
Respond(r) ==
    /\ pc[r] = "handled" /\ Len(responses) < MaxWorkers
    /\ responses' = Append(responses, [id |-> r, exit |-> exit[r], wasCancelled |-> r \in cancelled])
    /\ Goto(r, "unregister")
    /\ UNCHANGED <<input, sent, asked, main, next, slots, requests, cancelled, exit, output>>

\* The deferred calls: the registration, then the slot, then the WaitGroup.
Unregister(r) ==
    /\ pc[r] = "unregister"
    /\ requests' = requests \ {r}
    /\ Goto(r, "release")
    /\ UNCHANGED <<input, sent, asked, main, next, slots, cancelled, exit, responses, output>>

Release(r) ==
    /\ pc[r] = "release"
    /\ slots' = slots - 1
    /\ Goto(r, "done")
    /\ UNCHANGED <<input, sent, asked, main, next, requests, cancelled, exit, responses, output>>

Bazel == BazelEnds \/ \E r \in Requests : BazelSends(r) \/ BazelCancels(r)

Run == DecodeCancel \/ DecodeWork \/ DecodeEnd \/ Acquire \/ WaitForAll \/ Flushed

Goroutine(r) == Register(r) \/ Respond(r) \/ Unregister(r) \/ Release(r)

Loop == Bazel \/ Run \/ WriteResponse \/ \E r \in Requests : Goroutine(r)

------------------------------------------------------------------------------
None == "none"

\* What the file's content is: what each computation on it gives.
Content == [sha256 |-> "s256", sha512 |-> "s512", diffID |-> "u256", format |-> "tar+gzip", size |-> "n"]

Nothing == [x \in {"sha256", "sha512", "diffID", "format", "size"} |-> None]

NoFile == [digest |-> None]

Init ==
    /\ WorkerInit
    /\ kind \in Workloads
    /\ cheat \in BOOLEAN
    /\ cache = Nothing
    /\ got = [r \in Requests |-> Nothing]
    /\ file = [r \in Requests |-> NoFile]

------------------------------------------------------------------------------
(* hashfile.go. *)

digestModesNeedDiffID(modes) == modes \cap {"diff_id", "annotation"} # {}

\* computeLayerHashes, without the failures to read the file.
computeLayerHashes(k) ==
    IF k.alg # "sha256" \/ "bogus" \in k.modes THEN Nothing
    ELSE IF digestModesNeedDiffID(k.modes) THEN [Content EXCEPT !.sha512 = None]
    ELSE [Content EXCEPT !.sha512 = None, !.diffID = None, !.format = ""]

\* computeHash
computeHash(k) == [Nothing EXCEPT ![k.alg] = Content[k.alg]]

\* writeHashOutput, buildLayerMetadata and writeLayerMetadata: the bytes of the output.
writeHashOutput(k, h) ==
    IF ~k.meta
      THEN [digest |-> h[k.alg]]
      ELSE [digest     |-> h[k.alg],
            diffID     |-> IF "diff_id" \in k.modes THEN h.diffID ELSE None,
            annotation |-> IF "annotation" \in k.modes THEN h.diffID ELSE None,
            mediaType  |-> IF k.media # "" THEN k.media ELSE IF h.format = None THEN "" ELSE h.format,
            size       |-> h.size]

\* oneShot: what the command writes for these arguments when it runs on its own.
oneShot(k) ==
    LET h == IF k.meta THEN computeLayerHashes(k) ELSE computeHash(k)
    IN IF h = Nothing THEN NoFile ELSE writeHashOutput(k, h)

------------------------------------------------------------------------------
(* persistentHasher.HandleRequest. *)

Reply(r, code) ==
    /\ exit' = [exit EXCEPT ![r] = code]
    /\ got' = [got EXCEPT ![r] = Nothing]
    /\ Goto(r, "handled")

Keep == UNCHANGED <<input, sent, asked, main, next, slots, requests, cancelled, responses, output, kind, cheat>>

LookedUp(r, x) == got' = [got EXCEPT ![r][x] = cache[x]]

NeedsDiffID(k) == k.meta /\ digestModesNeedDiffID(k.modes)

\* Arguments that do not parse, the output path missing.
BadRequest(r) ==
    /\ pc[r] = "handle" /\ kind[r].alg = "bad"
    /\ Reply(r, 1)
    /\ Keep /\ UNCHANGED <<cache, file>>

\* Cheat mode writes the hash Bazel has; it has no layer metadata to write.
Cheat(r) ==
    /\ pc[r] = "handle" /\ cheat /\ kind[r].digest /\ kind[r].alg = "sha256"
    /\ IF kind[r].meta
         THEN Reply(r, 1) /\ file' = file
         ELSE Reply(r, 0) /\ file' = [file EXCEPT ![r] = writeHashOutput(kind[r], Content)]
    /\ Keep /\ UNCHANGED cache

\* The lookups, one critical section each.
LookupHash(r) ==
    /\ pc[r] = "handle" /\ kind[r].alg # "bad"
    /\ ~(cheat /\ kind[r].digest /\ kind[r].alg = "sha256")
    /\ IF kind[r].digest
         THEN /\ LookedUp(r, kind[r].alg)
              /\ Goto(r, IF kind[r].meta /\ kind[r].alg = "sha256"
                         THEN IF NeedsDiffID(kind[r]) THEN "diffID" ELSE "size"
                         ELSE "decide")
         ELSE got' = got /\ Goto(r, "compute")
    /\ Keep /\ UNCHANGED <<exit, cache, file>>

LookupMeta(r) ==
    /\ pc[r] \in {"diffID", "format", "size"}
    /\ LookedUp(r, pc[r])
    /\ Goto(r, IF pc[r] = "diffID" THEN "format" ELSE IF pc[r] = "format" THEN "size" ELSE "decide")
    /\ Keep /\ UNCHANGED <<exit, cache, file>>

\* canUseCache
canUseCache(k, h) ==
    /\ h[k.alg] # None
    /\ k.meta => h.size # None
    /\ NeedsDiffID(k) => h.diffID # None /\ h.format # None

Decide(r) ==
    /\ pc[r] = "decide"
    /\ IF canUseCache(kind[r], got[r])
         THEN /\ file' = [file EXCEPT ![r] = writeHashOutput(kind[r], got[r])]
              /\ Reply(r, 0)
         ELSE /\ Goto(r, "compute")
              /\ UNCHANGED <<file, exit, got>>
    /\ Keep /\ UNCHANGED cache

\* The file is read; it may be unreadable, or not a layer.
Compute(r) ==
    LET k == kind[r]
        h == IF k.meta THEN computeLayerHashes(k) ELSE computeHash(k)
    IN /\ pc[r] = "compute"
       /\ \/ Reply(r, 1)
          \/ /\ h # Nothing
             /\ got' = [got EXCEPT ![r] = h]
             /\ Goto(r, IF ~k.digest THEN "write" ELSE IF ~k.meta THEN "putHash"
                        ELSE IF "diff_id" \in k.modes THEN "putDiffID" ELSE "putFormat")
             /\ exit' = exit
       /\ Keep /\ UNCHANGED <<cache, file>>

Put(r, label, x, then) ==
    /\ pc[r] = label
    /\ cache' = [cache EXCEPT ![x] = got[r][x]]
    /\ Goto(r, then)
    /\ Keep /\ UNCHANGED <<exit, got, file>>

\* Each map in its own critical section; the format is "" where no diff ID was needed.
PutDiffID(r) == Put(r, "putDiffID", "diffID", "putFormat")
PutFormat(r) == Put(r, "putFormat", "format", "putSize")
PutSize(r) == Put(r, "putSize", "size", "putHash")
PutHash(r) == Put(r, "putHash", kind[r].alg, "write")

\* Writing the output may fail too.
WriteFile(r) ==
    /\ pc[r] = "write"
    /\ \/ file' = [file EXCEPT ![r] = writeHashOutput(kind[r], got[r])] /\ Reply(r, 0)
       \/ file' = file /\ Reply(r, 1)
    /\ Keep /\ UNCHANGED cache

HandleRequest(r) ==
    \/ BadRequest(r) \/ Cheat(r) \/ LookupHash(r) \/ LookupMeta(r) \/ Decide(r)
    \/ Compute(r) \/ PutDiffID(r) \/ PutFormat(r) \/ PutSize(r) \/ PutHash(r) \/ WriteFile(r)

Next ==
    \/ Loop /\ UNCHANGED hashVars
    \/ \E r \in Requests : HandleRequest(r)

\* Every goroutine runs on; Bazel closes the pipe in the end.
RunsOn == (Run \/ BazelEnds) /\ UNCHANGED <<kind, cheat, cache, got, file>>
Responds == WriteResponse /\ UNCHANGED <<kind, cheat, cache, got, file>>
Handles(r) == (Goroutine(r) /\ UNCHANGED <<kind, cheat, cache, got, file>>) \/ HandleRequest(r)

Fairness == WF_vars(RunsOn) /\ WF_vars(Responds) /\ \A r \in Requests : WF_vars(Handles(r))

Spec == Init /\ [][Next]_vars /\ Fairness

------------------------------------------------------------------------------
(* Correctness. *)

TypeOK ==
    /\ slots \in 0..MaxWorkers
    /\ Cardinality(Running) <= slots
    /\ Len(responses) <= MaxWorkers
    /\ requests \subseteq Requests /\ cancelled \subseteq asked
    /\ cache \in [DOMAIN Nothing -> {None, ""} \cup {Content[x] : x \in DOMAIN Content}]
    /\ \A r \in Requests : exit[r] \in {-1, 0, 1}

\* A request that is answered with success has written what the command writes for the
\* same arguments when it runs on its own, whatever the worker had cached.
WorkerIsOneShot ==
    \A r \in Requests : exit[r] = 0 => file[r] = oneShot(kind[r])

\* The requests agree on whether the diff ID is needed, as they do when every target that
\* uses the file has the same digest modes.
OneUse ==
    \A r, s \in Requests : kind[r].meta /\ kind[s].meta => NeedsDiffID(kind[r]) = NeedsDiffID(kind[s])

\* At most MaxWorkers requests are handled at a time; each has at most one answer, its own;
\* an answer says the request was cancelled only if Bazel asked for that; and where the
\* uses of a file agree, a cached answer is the one a fresh run would give.
WorkerIsTransparent ==
    /\ TypeOK
    /\ \A o \in output : o.id \in sent /\ pc[o.id] \in {"unregister", "release", "done"} /\ o.exit = exit[o.id]
    /\ \A o, p \in output : o.id = p.id => o = p
    /\ \A o \in output : o.wasCancelled => o.id \in asked
    /\ OneUse => WorkerIsOneShot

\* Run has returned, with every request it had read answered and every slot free again.
Returned ==
    /\ main \in {"ok", "error"} /\ slots = 0 /\ requests = {}
    /\ \A r \in Requests : pc[r] = "none" \/ \E o \in output : o.id = r
=============================================================================
