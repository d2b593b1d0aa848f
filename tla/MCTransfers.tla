---------------------------- MODULE MCTransfers ----------------------------
(***************************************************************************)
(* The ways blobs move in or out of the process, each on an instance of    *)
(* its own and all in one run: a behaviour chooses one transfer in its     *)
(* initial state and moves nothing else.  The transfers but the first keep *)
(* their variables in s1 .. s18.                                           *)
(*                                                                         *)
(*   prefetch  a buffer of 3 bytes over a source of 5 (Prefetch)           *)
(*   read      blobs of up to 6 bytes, messages of up to 3 (ByteStream)    *)
(*   write     an empty blob, one that fits a batch and one of three       *)
(*             chunks (StreamUpload)                                       *)
(*   sync      two builds that each push an image, which share a layer or  *)
(*             not, with one worker and one failure (Syncer)               *)
(*   dedup     two requests that share a layer, in the ways that matter to *)
(*             the cache of locations, two failures (DedupPush)            *)
(***************************************************************************)
EXTENDS Prefetch

CONSTANT None

VARIABLES transfer, s1, s2, s3, s4, s5, s6, s7, s8, s9, s10, s11, s12, s13, s14, s15, s16, s17, s18

prefetchVars == vars
slots == <<s1, s2, s3, s4, s5, s6, s7, s8, s9, s10, s11, s12, s13, s14, s15, s16, s17, s18>>
transferVars == <<transfer, prefetchVars, slots>>

R == INSTANCE ByteStream WITH
    MaxSize <- 6, MaxBatch <- 1, MaxMessage <- 3, MaxAttempts <- 3,
    size <- s1, pc <- s2, resume <- s3, stream <- s4, readFromRemote <- s5, buf <- s6, eof <- s7, room <- s8,
    copied <- s9, attempt <- s10, out <- s11

W == INSTANCE StreamUpload WITH
    Sizes <- {0, 2, 5}, MaxBatch <- 2, MaxAttempts <- 3,
    size <- s1, seekable <- s2, implemented <- s3, pc <- s4, name <- s5, chunkStart <- s6, chunk <- s7,
    committed <- s8, srcEOF <- s9, noQuery <- s10, pos <- s11, offset <- s12, attempt <- s13, open <- s14,
    wire <- s15, answer <- s16, held <- s17, stored <- s18

------------------------------------------------------------------------------
(* Two builds, each of which pushes one image; the images share a layer or not. *)

TwoImages(base) == [p1 |-> <<<<"base", "l1">>, <<"k1">>>>, p2 |-> <<<<base>>, <<"k2">>>>]

S == INSTANCE Syncer WITH
    Workers <- {"w1"}, QueueSize <- 1, Streams <- {"s1", "s2"}, Commits <- {"c1", "c2"},
    StreamOf <- [c1 |-> "s1", c2 |-> "s2"], PerStream <- TRUE, Parts <- {"p1", "p2"},
    CommitOf <- [p1 |-> "c1", p2 |-> "c2"], Images <- {TwoImages("base"), TwoImages("l2")},
    Manifest <- [c1 |-> "m1", c2 |-> "m2"], TagsOf <- [c1 |-> <<>>, c2 |-> <<"v2">>], MaxFailures <- 1,
    waves <- s1, streams <- s2, cancelled <- s3, commits <- s4, parts <- s5, results <- s6, waiters <- s7,
    ongoing <- s8, uploaded <- s9, queue <- s10, workers <- s11, tagged <- s12, stored <- s13, tags <- s14,
    failures <- s15, hurt <- s16

------------------------------------------------------------------------------
(* Two requests that share a layer. *)

TwoRequests == {"q1", "q2"}
TwoBlobs == {"base", "app"}
ThreeRepositories == 1..3

Manifest(repository, layers, home, lenient) ==
    [repository |-> repository, layers |-> layers, home |-> home, artificial |-> FALSE,
     lenient |-> lenient, upstream |-> [b \in layers |-> 0]]

FromUpstream(m, p) == [m EXCEPT !.upstream = [b \in m.layers |-> p]]

Pair(first, second) == [q \in TwoRequests |-> IF q = "q1" THEN first ELSE second]

Plain(work) ==
    [work |-> work, served |-> {}, mounts |-> "stored", blobRepository |-> 0, incremental |-> TRUE]

\* Each request in a repository of its own, or one with two destinations.
Strict2 == Plain(Pair({Manifest(2, TwoBlobs, 0, FALSE)}, {Manifest(1, TwoBlobs, 0, FALSE)}))
TwoDestinations == Plain(Pair({Manifest(1, {"base"}, 0, FALSE), Manifest(2, {"base"}, 0, FALSE)},
                              {Manifest(3, TwoBlobs, 0, FALSE)}))
MixedModes(mounts) ==
    [Plain(Pair({Manifest(1, {"base"}, 0, FALSE), Manifest(2, {"base"}, 0, FALSE)},
                {Manifest(3, TwoBlobs, 0, TRUE)})) EXCEPT !.mounts = mounts]
Pinned == Plain(Pair({Manifest(1, {"base"}, 0, FALSE)}, {Manifest(2, TwoBlobs, 3, FALSE)}))
Served ==
    [Plain(Pair({Manifest(1, {"base"}, 0, FALSE)}, {Manifest(2, TwoBlobs, 0, FALSE)}))
        EXCEPT !.served = {Manifest(1, {"base"}, 0, FALSE)}]
Shallow == Plain(Pair({FromUpstream(Manifest(1, {"base"}, 0, FALSE), 3)},
                      {Manifest(2, TwoBlobs, 0, FALSE)}))

Artificials ==
    LET Asking(m) == [m EXCEPT !.artificial = TRUE]
    IN [Plain(Pair({Asking(Manifest(1, {"base"}, 0, FALSE))},
                   {Asking(Manifest(2, {"base"}, 0, FALSE)), Asking(Manifest(3, {"base"}, 0, FALSE))}))
            EXCEPT !.mounts = "referenced"]

\* One deploy on its own, not by the worker.
OneShot ==
    [Plain(Pair({Manifest(1, TwoBlobs, 0, FALSE), Manifest(2, {"base"}, 0, FALSE)}, {}))
        EXCEPT !.incremental = FALSE, !.blobRepository = 3]

ModelDeploys == {Strict2, TwoDestinations, MixedModes("stored"), MixedModes("nothing"), Artificials, Pinned, Served, Shallow, OneShot}

D == INSTANCE DedupPush WITH
    Requests <- TwoRequests, Blobs <- TwoBlobs, Repositories <- ThreeRepositories, Deploys <- ModelDeploys,
    Jobs <- 1, MaxFailures <- 1,
    deploy <- s1, present <- s2, inflight <- s3, flights <- s4, pc <- s5, found <- s6, todo <- s7, plan <- s8,
    up <- s9, stopped <- s10, erred <- s11, abandoned <- s12, stored <- s13, referenced <- s14, served <- s15,
    failures <- s16, hurt <- s17, sent <- s18

------------------------------------------------------------------------------
(* The sum. *)

\* The slots from the nth on, which a transfer with fewer variables leaves alone.
From17 == <<s17, s18>>
From12 == <<s12, s13, s14, s15, s16, s17, s18>>
Free17 == s17 = None /\ s18 = None
Free12 == s12 = None /\ s13 = None /\ s14 = None /\ s15 = None /\ s16 = None /\ Free17
Free1 ==
    /\ s1 = None /\ s2 = None /\ s3 = None /\ s4 = None /\ s5 = None /\ s6 = None
    /\ s7 = None /\ s8 = None /\ s9 = None /\ s10 = None /\ s11 = None /\ Free12

TransfersInit ==
    /\ Init
    /\ \/ transfer = "prefetch" /\ Free1
       \/ transfer = "read" /\ R!Init /\ Free12
       \/ transfer = "write" /\ W!Init
       \/ transfer = "sync" /\ S!Init /\ Free17
       \/ transfer = "dedup" /\ D!Init

Prefetches(step) == transfer = "prefetch" /\ step /\ UNCHANGED <<transfer, slots>>
Part(name, step) == transfer = name /\ step /\ UNCHANGED <<transfer, prefetchVars>>

TransfersNext ==
    \/ Prefetches(Next)
    \/ Part("read", R!Next) /\ UNCHANGED From12
    \/ Part("write", W!Next)
    \/ Part("sync", S!Next) /\ UNCHANGED From17
    \/ Part("dedup", D!Next)

\* The fairness of the transfer that moves.
TransfersFairness ==
    /\ WF_transferVars(Prefetches(Choose)) /\ WF_transferVars(Prefetches(SrcRead))
    /\ WF_transferVars(Prefetches(Publish))
    /\ WF_transferVars(Prefetches(Take \/ Copy \/ Advance))
    /\ WF_transferVars(Prefetches(CloseSrc))
    /\ WF_transferVars(Part("read", R!Proceed) /\ UNCHANGED From12)
    /\ WF_transferVars(Part("write", W!Client)) /\ WF_transferVars(Part("write", W!Serve))
    /\ WF_transferVars(Part("sync", S!Runs) /\ UNCHANGED From17)
    /\ WF_transferVars(Part("dedup", \E q \in TwoRequests : D!Step(q)))

TransfersSpec == TransfersInit /\ [][TransfersNext]_transferVars /\ TransfersFairness

\* The builds that share a layer, on their own.
SharedSpec ==
    /\ transfer = "sync" /\ TransfersInit /\ s1 = TwoImages("base")
    /\ [][TransfersNext]_transferVars /\ TransfersFairness

------------------------------------------------------------------------------
(* Properties: those of the transfers. *)


\* Each blob of a build travels once and has arrived when a manifest names it
\* (queueBlobUpload, commitOne).
BlobsAreSentOnce == transfer = "sync" => S!BlobsAreSentOnce




\* Every commit ends while nothing fails and no stream is cut, also of builds that share a
\* layer (commitOne).
CommitsEnd == [](s15 = 0 /\ s3 = {}) => S!CommitsEnd

\* Every transfer comes to an end: again and again no Read of a stream is under way,
\* the goroutine of a closed prefetching reader is gone, and the upload, the commits
\* that share nothing and the deduplicated pushes are over.
TransfersEnd ==
    []<>(/\ transfer = "prefetch" => Rests
         /\ transfer = "read" => R!Returned
         /\ transfer = "write" => W!Ended
         /\ transfer = "sync" => S!CommitsSettled
         /\ transfer = "dedup" => D!Ended)
=============================================================================
