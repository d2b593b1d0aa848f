------------------------------- MODULE Syncer -------------------------------
(***************************************************************************)
(* The Build Event Service back end and its syncer: every image_push       *)
(* target that a Bazel build completes is committed, that is, its blobs    *)
(* are read from the content-addressable store and uploaded to a registry  *)
(* by a pool of workers shared by all commits, its manifest is written and *)
(* its tags are set.                                                       *)
(*                                                                         *)
(*   pkg/serve/bes/bes.go            streams, and the errgroup and context *)
(*                                   that the commits run under            *)
(*   pkg/serve/bes/syncer/syncer.go  commits, the upload queue, the workers*)
(*                                                                         *)
(* A commit of a plain image has one part, the commit of an index has one  *)
(* part per platform.  A part uploads its blobs in waves (layers, then the *)
(* configuration, then, in an index, the manifest as a blob): it queues    *)
(* all uploads of a wave and then waits for each of their results.  The    *)
(* repository is the same for all commits, so that a blob is its upload    *)
(* key.  A result channel has capacity 1 and is known by its place         *)
(* <<part, wave, number>>.                                                 *)
(***************************************************************************)
EXTENDS Naturals, Sequences, FiniteSets

CONSTANTS
    Workers,      \* the goroutines of the pool
    QueueSize,    \* capacity of workQueue
    Streams,      \* Bazel invocations
    Commits,      \* image_push targets that complete
    StreamOf,     \* the stream that a commit's event arrives on
    PerStream,    \* the commit mode: CommitModePerStream or CommitModeBackground
    Parts,        \* goroutines that upload blobs
    CommitOf,     \* the commit that a part belongs to
    Images,       \* what the images may consist of: functions from a part to its
                  \* waves of blobs, in the order they are uploaded
    Manifest,     \* the root manifest of a commit
    TagsOf,       \* the tags of a commit, in order
    MaxFailures,  \* bound on the failures of the registry and of the store
    None          \* no transfer, no digest

\* What the constants must be for the model to make sense.
ConstantsFit ==
    /\ QueueSize \in Nat \ {0}
    /\ MaxFailures \in Nat
    /\ PerStream \in BOOLEAN
    /\ StreamOf \in [Commits -> Streams]
    /\ CommitOf \in [Parts -> Commits]
    /\ \A c \in Commits : \E p \in Parts : CommitOf[p] = c

VARIABLES
    waves,      \* the element of Images that these builds push (never changes)
    streams,    \* open, waiting (for its commits) or returned, per stream
    cancelled,  \* errgroups whose context is done
    commits,    \* where Commit is, per commit
    parts,      \* where the upload of a part is
    results,    \* result channels: empty or the one value they hold
    waiters,    \* pairs of channels: a goroutine that does to <- <-from
    ongoing,    \* ongoingTransfers
    uploaded,   \* uploadedBlobs
    queue,      \* workQueue, jobs known by their result channel
    workers,    \* where each worker is
    tagged,     \* uploadedTags
    stored,     \* the registry: blobs and manifests
    tags,       \* the registry: tags
    failures,   \* failures so far
    hurt        \* commits one of whose own operations failed, or whose client
                \* went away (history)

busVars == <<results, waiters, ongoing, queue>>
registryVars == <<stored, tags>>
vars == <<waves, streams, cancelled, commits, parts, results, waiters, ongoing,
          uploaded, queue, workers, tagged, stored, tags, failures, hurt>>

-----------------------------------------------------------------------------

Places(image) == UNION {UNION {{<<p, w, j>> : j \in DOMAIN image[p][w]} :
                                  w \in DOMAIN image[p]} : p \in Parts}
Channels == Places(waves)
BlobOf(ch) == waves[ch[1]][ch[2]][ch[3]]
Blobs == {BlobOf(ch) : ch \in Channels}
PartsOf(c) == {p \in Parts : CommitOf[p] = c}
BlobsOf(c) == {BlobOf(ch) : ch \in {x \in Channels : CommitOf[x[1]] = c}}
TagNames == UNION {{TagsOf[c][k] : k \in DOMAIN TagsOf[c]} : c \in Commits}

\* The errgroup a commit runs under: one per stream, or one for the server.
Group(c) == IF PerStream THEN StreamOf[c] ELSE "global"

\* remoteOpts carries the context of the commit.
CommitDone(c) == Group(c) \in cancelled

\* The context that queueBlobUpload selects on; the parts of an index run under
\* an errgroup of their own, which the first failing part cancels.
PartDone(p) ==
    \/ CommitDone(CommitOf[p])
    \/ \E q \in PartsOf(CommitOf[p]) : parts[q].pc = "failed"

Ended(c) == commits[c].pc \in {"done", "failed"}

Init ==
    /\ waves \in Images
    /\ streams = [s \in Streams |-> "open"]
    /\ cancelled = {}
    /\ commits = [c \in Commits |-> [pc |-> "unseen", k |-> 1]]
    /\ parts = [p \in Parts |-> [pc |-> "idle", w |-> 1, j |-> 1]]
    /\ results = [ch \in Channels |-> "empty"]
    /\ waiters = {}
    /\ ongoing = [b \in Blobs |-> None]
    /\ uploaded = {}
    /\ queue = <<>>
    /\ workers = [i \in Workers |-> [pc |-> "idle", job |-> None, res |-> "ok"]]
    /\ tagged = [t \in TagNames |-> None]
    /\ stored = {}
    /\ tags = [t \in TagNames |-> None]
    /\ failures = 0
    /\ hurt = {}

-----------------------------------------------------------------------------
(* Streams.                                                                *)

\* processBuildEvent: the TargetCompleted event of an image_push target runs
\* Commit under the errgroup of the commit mode.
Schedule(c) ==
    /\ streams[StreamOf[c]] = "open"
    /\ commits[c].pc = "unseen"
    /\ commits' = [commits EXCEPT ![c].pc = "fetch"]
    /\ UNCHANGED <<waves, streams, cancelled, parts, busVars, uploaded, workers,
                   tagged, registryVars, failures, hurt>>

\* The client closes the stream; the deferred function waits for the errgroup.
CloseStream(s) ==
    /\ streams[s] = "open"
    /\ streams' = [streams EXCEPT ![s] = "waiting"]
    /\ UNCHANGED <<waves, cancelled, commits, parts, busVars, uploaded, workers,
                   tagged, registryVars, failures, hurt>>

\* The client goes away: the stream's context is done, and with it the context
\* of the commits of this stream in CommitModePerStream.
Disconnect(s) ==
    /\ streams[s] # "returned"
    /\ PerStream
    /\ s \notin cancelled
    /\ streams' = [streams EXCEPT ![s] = "waiting"]
    /\ cancelled' = cancelled \cup {s}
    /\ hurt' = hurt \cup {c \in Commits : StreamOf[c] = s}
    /\ UNCHANGED <<waves, commits, parts, busVars, uploaded, workers, tagged,
                   registryVars, failures>>

\* PublishBuildToolEventStream returns.
Return(s) ==
    /\ streams[s] = "waiting"
    /\ PerStream => \A c \in Commits :
                      StreamOf[c] = s => commits[c].pc = "unseen" \/ Ended(c)
    /\ streams' = [streams EXCEPT ![s] = "returned"]
    /\ UNCHANGED <<waves, cancelled, commits, parts, busVars, uploaded, workers,
                   tagged, registryVars, failures, hurt>>

-----------------------------------------------------------------------------
(* Commits.                                                                *)

\* An error of Commit ends it, and the errgroup cancels the group's context.
FailCommit(c) ==
    /\ commits' = [commits EXCEPT ![c].pc = "failed"]
    /\ cancelled' = cancelled \cup {Group(c)}

\* An operation of commit c on the registry or the store fails by itself, or
\* because the context of the commit is done.
OperationFails(c) ==
    \/ /\ CommitDone(c)
       /\ UNCHANGED <<failures, hurt>>
    \/ /\ failures < MaxFailures
       /\ failures' = failures + 1
       /\ hurt' = hurt \cup {c}

\* Commit, pushIndex: the push metadata and the index come from the metadata
\* cache or the store; the parts start.
Fetch(c) ==
    /\ commits[c].pc = "fetch"
    /\ \/ /\ commits' = [commits EXCEPT ![c].pc = "parts"]
          /\ parts' = [p \in Parts |-> IF CommitOf[p] = c
                                       THEN [parts[p] EXCEPT !.pc = "fetch"]
                                       ELSE parts[p]]
          /\ UNCHANGED <<cancelled, failures, hurt>>
       \/ /\ FailCommit(c)
          /\ OperationFails(c)
          /\ UNCHANGED parts
    /\ UNCHANGED <<waves, streams, busVars, uploaded, workers, tagged, registryVars>>

\* All parts have returned: eg.Wait() in pushIndex, the only part in pushImage.
Join(c) ==
    /\ commits[c].pc = "parts"
    /\ \A p \in PartsOf(c) : parts[p].pc \in {"done", "failed"}
    /\ IF \E p \in PartsOf(c) : parts[p].pc = "failed"
       THEN FailCommit(c)
       ELSE /\ commits' = [commits EXCEPT ![c].pc = "write"]
            /\ UNCHANGED cancelled
    /\ UNCHANGED <<waves, streams, parts, busVars, uploaded, workers, tagged,
                   registryVars, failures, hurt>>

\* remote.Write and remote.WriteIndex skip the blobs that the registry has and
\* ask the image for the others, which casLayer refuses.
Write(c) ==
    /\ commits[c].pc = "write"
    /\ \/ /\ ~CommitDone(c)
          /\ BlobsOf(c) \subseteq stored
          /\ stored' = stored \cup {Manifest[c]}
          /\ commits' = [commits EXCEPT ![c].pc = "needs"]
          /\ UNCHANGED <<cancelled, failures, hurt>>
       \/ /\ FailCommit(c)
          /\ OperationFails(c)
          /\ UNCHANGED stored
       \/ /\ ~(BlobsOf(c) \subseteq stored)
          /\ FailCommit(c)
          /\ UNCHANGED <<stored, failures, hurt>>
    /\ UNCHANGED <<waves, streams, parts, busVars, uploaded, workers, tagged, tags>>

\* commitOne: is there a tag that does not point to the digest yet?
NeedsTagging(c) ==
    /\ commits[c].pc = "needs"
    /\ commits' = [commits EXCEPT ![c].pc =
                     IF \A k \in DOMAIN TagsOf[c] :
                          tagged[TagsOf[c][k]] = Manifest[c]
                     THEN "done" ELSE "tag"]
    /\ UNCHANGED <<waves, streams, cancelled, parts, busVars, uploaded, workers,
                   tagged, registryVars, failures, hurt>>

\* Continue with the tag after number k, or end.
AfterTag(c, k) ==
    IF k < Len(TagsOf[c]) THEN [pc |-> "tag", k |-> k + 1]
                          ELSE [pc |-> "done", k |-> k]


\* One round of the tag loop up to and including remote.Tag; the descriptor was
\* read by digest.
Tag(c) ==
    /\ commits[c].pc = "tag"
    /\ LET k == commits[c].k  t == TagsOf[c][k] IN
       \/ /\ tagged[t] = Manifest[c]
          /\ commits' = [commits EXCEPT ![c] = AfterTag(c, k)]
          /\ UNCHANGED <<cancelled, tags, failures, hurt>>
       \/ /\ tagged[t] # Manifest[c]
          /\ ~CommitDone(c)
          /\ tags' = [tags EXCEPT ![t] = Manifest[c]]
          /\ commits' = [commits EXCEPT ![c].pc = "remember"]
          /\ UNCHANGED <<cancelled, failures, hurt>>
       \/ /\ tagged[t] # Manifest[c]
          /\ FailCommit(c)
          /\ OperationFails(c)
          /\ UNCHANGED tags
    /\ UNCHANGED <<waves, streams, parts, busVars, uploaded, workers, tagged, stored>>

\* The cache of tags is updated after the registry, under its own lock.
Remember(c) ==
    /\ commits[c].pc = "remember"
    /\ LET k == commits[c].k IN
       /\ tagged' = [tagged EXCEPT ![TagsOf[c][k]] = Manifest[c]]
       /\ commits' = [commits EXCEPT ![c] = AfterTag(c, k)]
    /\ UNCHANGED <<waves, streams, cancelled, parts, busVars, uploaded, workers,
                   registryVars, failures, hurt>>

Commit(c) ==
    \/ Schedule(c) \/ Fetch(c) \/ Join(c) \/ Write(c)
    \/ NeedsTagging(c) \/ Tag(c) \/ Remember(c)

-----------------------------------------------------------------------------
(* Parts: uploadLayers and queueBlobUpload.                                *)

Channel(p) == <<p, parts[p].w, parts[p].j>>
LastOfWave(p) == parts[p].j = Len(waves[p][parts[p].w])

\* The next upload of the wave is queued, or the results are waited for.
AfterQueued(p) ==
    IF LastOfWave(p) THEN [parts[p] EXCEPT !.pc = "wait", !.j = 1]
                     ELSE [parts[p] EXCEPT !.pc = "check", !.j = @ + 1]

\* pushImage, uploadManifestAndLayers: the manifest comes from the metadata
\* cache or the store.
FetchManifest(p) ==
    /\ parts[p].pc = "fetch"
    /\ \/ /\ parts' = [parts EXCEPT ![p].pc = "check"]
          /\ UNCHANGED <<failures, hurt>>
       \/ /\ parts' = [parts EXCEPT ![p].pc = "failed"]
          /\ \/ PartDone(p) /\ UNCHANGED <<failures, hurt>>
             \/ OperationFails(CommitOf[p])
    /\ UNCHANGED <<waves, streams, cancelled, commits, busVars, uploaded, workers,
                   tagged, registryVars>>

\* Already uploaded?  The answer is there at once.
CheckUploaded(p) ==
    /\ parts[p].pc = "check"
    /\ IF BlobOf(Channel(p)) \in uploaded
       THEN /\ results' = [results EXCEPT ![Channel(p)] = "ok"]
            /\ parts' = [parts EXCEPT ![p] = AfterQueued(p)]
       ELSE /\ parts' = [parts EXCEPT ![p].pc = "mark"]
            /\ UNCHANGED results
    /\ UNCHANGED <<waves, streams, cancelled, commits, waiters, ongoing, uploaded,
                   queue, workers, tagged, registryVars, failures, hurt>>

MarkOngoingUnchecked(p) ==
    /\ parts[p].pc = "mark"
    /\ ongoing' = [ongoing EXCEPT ![BlobOf(Channel(p))] = Channel(p)]
    /\ parts' = [parts EXCEPT ![p].pc = "enqueue"]
    /\ UNCHANGED <<waves, streams, cancelled, commits, results, waiters, uploaded,
                   queue, workers, tagged, registryVars, failures, hurt>>

\* In progress?  A goroutine waits for the channel of the ongoing transfer.
\* Otherwise the transfer is marked as in progress.
MarkOngoing(p) ==
    /\ parts[p].pc = "mark"
    /\ LET b == BlobOf(Channel(p)) IN
       IF ongoing[b] # None
       THEN /\ waiters' = waiters \cup {<<ongoing[b], Channel(p)>>}
            /\ parts' = [parts EXCEPT ![p] = AfterQueued(p)]
            /\ UNCHANGED ongoing
       ELSE /\ ongoing' = [ongoing EXCEPT ![b] = Channel(p)]
            /\ parts' = [parts EXCEPT ![p].pc = "enqueue"]
            /\ UNCHANGED waiters
    /\ UNCHANGED <<waves, streams, cancelled, commits, results, uploaded, queue,
                   workers, tagged, registryVars, failures, hurt>>

\* select: there is room in the queue.
Enqueue(p) ==
    /\ parts[p].pc = "enqueue"
    /\ Len(queue) < QueueSize
    /\ queue' = Append(queue, Channel(p))
    /\ parts' = [parts EXCEPT ![p] = AfterQueued(p)]
    /\ UNCHANGED <<waves, streams, cancelled, commits, results, waiters, ongoing,
                   uploaded, workers, tagged, registryVars, failures, hurt>>

\* select: the context is done.
CancelEnqueue(p) ==
    /\ parts[p].pc = "enqueue"
    /\ PartDone(p)
    /\ ongoing' = [ongoing EXCEPT ![BlobOf(Channel(p))] = None]
    /\ results' = [results EXCEPT ![Channel(p)] = "error"]
    /\ parts' = [parts EXCEPT ![p] = AfterQueued(p)]
    /\ UNCHANGED <<waves, streams, cancelled, commits, waiters, uploaded, queue,
                   workers, tagged, registryVars, failures, hurt>>

\* The results of a wave are taken in order; the first error ends the part.
Await(p) ==
    /\ parts[p].pc = "wait"
    /\ results[Channel(p)] # "empty"
    /\ results' = [results EXCEPT ![Channel(p)] = "empty"]
    /\ parts' = [parts EXCEPT ![p] =
                   IF results[Channel(p)] = "error" THEN [@ EXCEPT !.pc = "failed"]
                   ELSE IF ~LastOfWave(p) THEN [@ EXCEPT !.j = @ + 1]
                   ELSE IF @.w < Len(waves[p])
                   THEN [pc |-> "check", w |-> @.w + 1, j |-> 1]
                   ELSE [@ EXCEPT !.pc = "done"]]
    /\ UNCHANGED <<waves, streams, cancelled, commits, waiters, ongoing, uploaded,
                   queue, workers, tagged, registryVars, failures, hurt>>

\* A waiting goroutine: result <- <-ongoing.
Pass(from, to) ==
    /\ <<from, to>> \in waiters
    /\ results[from] # "empty"
    /\ results' = [results EXCEPT ![from] = "empty", ![to] = results[from]]
    /\ waiters' = waiters \ {<<from, to>>}
    /\ UNCHANGED <<waves, streams, cancelled, commits, parts, ongoing, uploaded,
                   queue, workers, tagged, registryVars, failures, hurt>>

Receive(to) == to \in Channels /\ \E from \in Channels : Pass(from, to)

Part(p) ==
    \/ FetchManifest(p) \/ CheckUploaded(p) \/ MarkOngoing(p)
    \/ Enqueue(p) \/ CancelEnqueue(p) \/ Await(p)

-----------------------------------------------------------------------------
(* Workers.                                                                *)

\* A worker receives a job.
Take(i) ==
    /\ workers[i].pc = "idle"
    /\ queue # <<>>
    /\ workers' = [workers EXCEPT ![i] = [pc |-> "check", job |-> Head(queue), res |-> "ok"]]
    /\ queue' = Tail(queue)
    /\ UNCHANGED <<waves, streams, cancelled, commits, parts, results, waiters,
                   ongoing, uploaded, tagged, registryVars, failures, hurt>>

\* The second check: uploaded since the job was made?
DoubleCheck(i) ==
    /\ workers[i].pc = "check"
    /\ workers' = [workers EXCEPT ![i].pc =
                     IF BlobOf(workers[i].job) \in uploaded THEN "send" ELSE "upload"]
    /\ UNCHANGED <<waves, streams, cancelled, commits, parts, busVars, uploaded,
                   tagged, registryVars, failures, hurt>>

\* uploadBlob: the content is streamed from the store, an upstream registry or
\* a compact stream to the registry, then the blob is marked as uploaded.
uploadBlob(i) ==
    /\ workers[i].pc = "upload"
    /\ LET ch == workers[i].job  c == CommitOf[ch[1]] IN
       \/ /\ ~CommitDone(c)
          /\ stored' = stored \cup {BlobOf(ch)}
          /\ uploaded' = uploaded \cup {BlobOf(ch)}
          /\ workers' = [workers EXCEPT ![i].pc = "send", ![i].res = "ok"]
          /\ UNCHANGED <<failures, hurt>>
       \/ /\ OperationFails(c)
          /\ workers' = [workers EXCEPT ![i].pc = "send", ![i].res = "error"]
          /\ UNCHANGED <<stored, uploaded>>
    /\ UNCHANGED <<waves, streams, cancelled, commits, parts, busVars, tagged, tags>>

SendOnlySuccess(i) ==
    /\ workers[i].pc = "send"
    /\ results' = [results EXCEPT ![workers[i].job] =
                     IF workers[i].res = "ok" THEN "ok" ELSE @]
    /\ workers' = [workers EXCEPT ![i].pc = "cleanup", ![i].res = "ok"]
    /\ UNCHANGED <<waves, streams, cancelled, commits, parts, waiters, ongoing,
                   uploaded, queue, tagged, registryVars, failures, hurt>>

\* The worker answers on the channel of the job.
Send(i) ==
    /\ workers[i].pc = "send"
    /\ results' = [results EXCEPT ![workers[i].job] = workers[i].res]
    /\ workers' = [workers EXCEPT ![i].pc = "cleanup", ![i].res = "ok"]
    /\ UNCHANGED <<waves, streams, cancelled, commits, parts, waiters, ongoing,
                   uploaded, queue, tagged, registryVars, failures, hurt>>

\* The deferred function: the transfer is no longer in progress.
CleanUp(i) ==
    /\ workers[i].pc = "cleanup"
    /\ ongoing' = [ongoing EXCEPT ![BlobOf(workers[i].job)] = None]
    /\ workers' = [workers EXCEPT ![i] = [pc |-> "idle", job |-> None, res |-> "ok"]]
    /\ UNCHANGED <<waves, streams, cancelled, commits, parts, results, waiters,
                   uploaded, queue, tagged, registryVars, failures, hurt>>

worker(i) == Take(i) \/ DoubleCheck(i) \/ uploadBlob(i) \/ Send(i) \/ CleanUp(i)

-----------------------------------------------------------------------------

Next ==
    \/ \E c \in Commits : Commit(c)
    \/ \E p \in Parts : Part(p)
    \/ \E to \in Channels : Receive(to)
    \/ \E i \in Workers : worker(i)
    \/ \E s \in Streams : CloseStream(s) \/ Disconnect(s) \/ Return(s)

Spec == Init /\ [][Next]_vars

Progress(c) == Fetch(c) \/ Join(c) \/ Write(c) \/ NeedsTagging(c) \/ Tag(c) \/ Remember(c)

\* Goroutines that can run do run, and requests to the registry and the store
\* end, well or badly.
Fairness ==
    /\ \A c \in Commits : WF_vars(Progress(c))
    /\ \A p \in Parts : WF_vars(Part(p))
    /\ \A i \in Workers : WF_vars(worker(i))
    /\ \A to \in UNION {Places(image) : image \in Images} : WF_vars(Receive(to))

\* A step of the syncer itself. Each goroutine takes finitely many, so that fairness
\* to some goroutine, whichever it is, lets every one of them finish.
Runs ==
    \/ \E c \in Commits : Progress(c)
    \/ \E p \in Parts : Part(p)
    \/ \E i \in Workers : worker(i)
    \/ \E to \in Channels : Receive(to)

-----------------------------------------------------------------------------
(* Properties.                                                             *)

\* Every variable of the syncer has its type, and workQueue its capacity.
TypeOK ==
    /\ ConstantsFit
    /\ waves \in Images
    /\ streams \in [Streams -> {"open", "waiting", "returned"}]
    /\ cancelled \subseteq Streams \cup {"global"}
    /\ \A c \in Commits :
         /\ commits[c].pc \in {"unseen", "fetch", "parts", "write", "needs",
                               "tag", "remember", "done", "failed"}
         /\ commits[c].k \in 1..Len(TagsOf[c]) \cup {1}
    /\ parts \in [Parts -> [pc : {"idle", "fetch", "check", "mark", "enqueue",
                                  "wait", "done", "failed"}, w : Nat, j : Nat]]
    /\ \A p \in Parts : Channel(p) \in Channels
    /\ results \in [Channels -> {"empty", "ok", "error"}]
    /\ waiters \subseteq Channels \X Channels
    /\ ongoing \in [Blobs -> Channels \cup {None}]
    /\ uploaded \subseteq Blobs
    /\ queue \in Seq(Channels) /\ Len(queue) <= QueueSize
    /\ workers \in [Workers -> [pc : {"idle", "check", "upload", "send", "cleanup"},
                                job : Channels \cup {None}, res : {"ok", "error"}]]
    /\ tagged \in [TagNames -> {Manifest[c] : c \in Commits} \cup {None}]
    /\ stored \subseteq Blobs \cup {Manifest[c] : c \in Commits}
    /\ tags \in [TagNames -> {Manifest[c] : c \in Commits} \cup {None}]
    /\ failures \in 0..MaxFailures
    /\ hurt \subseteq Commits

\* Whether a channel's job is about to be queued, is queued, or is a worker's.
Enqueuing(ch) == parts[ch[1]].pc = "enqueue" /\ Channel(ch[1]) = ch
Queued(ch) == \E n \in 1..Len(queue) : queue[n] = ch
Working(ch) == \E i \in Workers : workers[i].job = ch
InFlight(ch) == Enqueuing(ch) \/ Queued(ch) \/ Working(ch)

\* However commits of several builds interleave, the transfers in flight are
\* exactly those that ongoingTransfers records: a blob has at most one job
\* between queueBlobUpload and the worker's clean-up, and no entry of the map
\* outlives its job (which would make every later commit wait for nothing).
OneTransferPerBlob ==
    /\ TypeOK
    /\ \A ch \in Channels : InFlight(ch) <=> ongoing[BlobOf(ch)] = ch
    /\ \A m, n \in 1..Len(queue) : queue[m] = queue[n] => m = n
    /\ \A ch \in Channels : Queued(ch) => ~Enqueuing(ch) /\ ~Working(ch)
    /\ \A ch \in Channels : Enqueuing(ch) => ~Working(ch)
    /\ \A i, k \in Workers : workers[i].job = workers[k].job /\ workers[i].job # None
                               => i = k

\* A blob that was uploaded is not uploaded again, although queueBlobUpload
\* looks at uploadedBlobs and at ongoingTransfers under two different locks
\* and a transfer may end between the two.
NoBlobIsSentAgain ==
    \A i \in Workers : workers[i].pc = "upload" => BlobOf(workers[i].job) \notin uploaded

\* When the manifest is written the registry has all of its blobs, including
\* those another commit uploaded: "Layers should never be requested here, we
\* already uploaded them."
LayersAreNeverRequested ==
    \A c \in Commits : commits[c].pc = "write" => BlobsOf(c) \subseteq stored

\* The tag cache, which lets commitOne skip tagging, says what the registry
\* has: a tag that is remembered "already points to the correct digest"
\* whenever no commit is between remote.Tag and the update of the cache.
TagCacheIsRight ==
    (\A c \in Commits : commits[c].pc # "remember") =>
        \A t \in TagNames : tagged[t] # None => tagged[t] = tags[t]

\* The three together: however the commits of several builds overlap, each blob
\* travels once, and it has arrived when a manifest that names it is written.
BlobsAreSentOnce == OneTransferPerBlob /\ NoBlobIsSentAgain /\ LayersAreNeverRequested

\* Whether no blob occurs twice in what the builds push.
NothingShared == \A x, y \in Channels : BlobOf(x) = BlobOf(y) => x = y

\* A commit fails only if something went wrong in its own build: "Continue
\* processing other events even if one fails".
FailuresStayInTheirStream ==
    \A c \in Commits : commits[c].pc = "failed" =>
        \E d \in hurt : StreamOf[d] = StreamOf[c]

\* The same as long as no transfer is shared, whose failure is the failure of
\* everyone who waits for it.
FailuresStayApart == NothingShared => FailuresStayInTheirStream


\* Every commit that was started ends: each channel that queueBlobUpload
\* returns "will receive exactly one value: nil on success or an error".
CommitsEnd ==
    \A c \in Commits : (commits[c].pc = "fetch") ~> Ended(c)

\* The same as long as no transfer is shared: the one value of a result channel
\* then has one receiver, and queue, workers and waves never wait in a circle.
\* (A commit is started once, so in the end none is on the way.)
CommitsSettled == NothingShared => \A c \in Commits : commits[c].pc = "unseen" \/ Ended(c)
=============================================================================
