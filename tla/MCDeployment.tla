---------------------------- MODULE MCDeployment ----------------------------
(***************************************************************************)
(* The commands around a build, each on an instance of its own and all in  *)
(* one run: a behaviour chooses a part in its initial state and moves only *)
(* that one.  The parts but the first two keep their variables in s1, s2 .. *)
(*                                                                         *)
(*   digests   a layer writer and two precache workers over three paths,   *)
(*             two of one file (DigestFS)                                  *)
(*   image     three inodes of an EROFS image in blocks of 4096, or two    *)
(*             chunk ranges of a data file (ErofsImage)                    *)
(*   hash      two requests at a time of the hash worker, and              *)
(*   queue     three requests one at a time (HashWorker)                   *)
(*   sink      three deploys into a directory, two faults (LayoutSink)     *)
(*   deploy    command lines over four request files (Deploy)              *)
(*   load      two loads of an index or an image (Loader)                  *)
(*   vfs       three requests of a deploy worker (BlobSources)             *)
(***************************************************************************)
EXTENDS DigestFS, ErofsImage, TLC

CONSTANTS
    RunParts,      \* the parts a run looks at
    Workloads   \* of the part "hash"

VARIABLES part, s1, s2, s3, s4, s5, s6, s7, s8, s9, s10, s11, s12, s13, s14, s15, s16, s17

digestVars == vars
slots == <<s1, s2, s3, s4, s5, s6, s7, s8, s9, s10, s11, s12, s13, s14, s15, s16, s17>>
partVars == <<part, digestVars, imageVars, slots>>

MCReal == [p \in {"a", "l", "b"} |-> IF p = "b" THEN "B" ELSE "A"]
MCReads == <<"a", "b", "l">>
MCPrecached == <<"l", "b", "a">>

------------------------------------------------------------------------------
(* Inodes whose data or names just fit a block of 4096 bytes, or just do not. *)

Name(r, l) == [rank |-> r, length |-> l, nid |-> r, dot |-> r < 3]
Dots == <<Name(1, 1), Name(2, 2)>>
Inode(kind, compact, xattrs, size) ==
    [kind |-> kind, compact |-> compact, xattrs |-> xattrs, size |-> size, names |-> <<>>,
     chunks |-> <<>>, contiguous |-> FALSE, metadataOnly |-> FALSE, share |-> 0, shared |-> FALSE]
Dir(compact, names) == [Inode("dir", compact, <<>>, 0) EXCEPT !.names = names]
Xattr == <<[name |-> 3, value |-> 5]>>
ImageInodes ==
    {Dir(TRUE, Dots \o <<Name(3, 5)>>), Dir(FALSE, Dots \o [i \in 1 .. 18 |-> Name(i + 2, 230 + i)])}
    \cup {Inode("file", c, <<>>, s) : c \in BOOLEAN, s \in {0, 3900, 4032, 4064, 4097}}
    \cup {Inode("file", TRUE, Xattr, s) : s \in {1, 3936}}
    \cup {Inode("link", TRUE, <<>>, 30), Inode("link", FALSE, Xattr, 4000),
          [Inode("file", TRUE, <<>>, 100) EXCEPT !.shared = TRUE],
          [Inode("file", FALSE, <<>>, 100) EXCEPT !.share = 2],
          [Inode("file", TRUE, <<[name |-> 1, value |-> 0], [name |-> 2, value |-> 6]>>, 20000)
              EXCEPT !.chunks = <<[block |-> 3, count |-> 5]>>, !.contiguous = TRUE],
          [Inode("file", FALSE, Xattr, 9000) EXCEPT !.metadataOnly = TRUE]}

ImageOptions == {[dataFirst |-> first, devices |-> d, threshold |-> t] : first \in BOOLEAN, d \in {0, 1}, t \in {-1, 0, 3000}}
ImageRanges == {[offset |-> o, size |-> s] : o \in {-1, 0, 4096, 8192}, s \in {4096, 12288, 100}}

------------------------------------------------------------------------------
(* The arguments of hash requests for one file. *)

Args(alg, meta, modes, digest, media) ==
    [alg |-> alg, meta |-> meta, modes |-> modes, digest |-> digest, media |-> media]
DiffID == Args("sha256", TRUE, {"digest", "diff_id"}, TRUE, "")
Annotation == Args("sha256", TRUE, {"annotation"}, TRUE, "")
Plain == Args("sha256", TRUE, {"digest"}, TRUE, "media")
Sha512 == Args("sha512", FALSE, {}, TRUE, "")
Invalid == Args("bad", FALSE, {}, TRUE, "")
Bogus == Args("sha256", TRUE, {"diff_id", "bogus"}, FALSE, "")

AgreeingWorkloads == {<<DiffID, Annotation>>, <<DiffID, DiffID>>}
MixedWorkloads == {<<DiffID, Plain, DiffID>>}

Hash == INSTANCE HashWorker WITH
    Requests <- DOMAIN (CHOOSE w \in Workloads : TRUE), Doubtful <- {1}, MaxWorkers <- 2, PipeBound <- 1,
    input <- s1, sent <- s2, asked <- s3, main <- s4, next <- s5, slots <- s6, pc <- s7, requests <- s8,
    cancelled <- s9, exit <- s10, responses <- s11, output <- s12, kind <- s13, cheat <- s14, cache <- s15,
    got <- s16, file <- s17

Queue == INSTANCE HashWorker WITH
    Requests <- 1 .. 3, Doubtful <- {2}, MaxWorkers <- 1, PipeBound <- 1,
    Workloads <- {<<DiffID, Annotation, DiffID>>, <<Invalid, Sha512, Sha512>>, <<Plain, Plain, Bogus>>},
    input <- s1, sent <- s2, asked <- s3, main <- s4, next <- s5, slots <- s6, pc <- s7, requests <- s8,
    cancelled <- s9, exit <- s10, responses <- s11, output <- s12, kind <- s13, cheat <- s14, cache <- s15,
    got <- s16, file <- s17

------------------------------------------------------------------------------
(* An image i of one layer and an index x of two images that share it, with their          *)
(* signatures; requests that push, load, tag and sign them, some to the same tag.          *)

SinkOp(cmd, repo, tags, image, sign) ==
    [cmd |-> cmd, repo |-> repo, tags |-> tags, image |-> image, sign |-> sign,
     targets |-> IF image = "x" THEN {"all"} ELSE {}]

Sink == INSTANCE LayoutSink WITH
    Blobs <- {"m1", "c1", "l", "m2", "x", "sm1", "sx", "sm2"},
    Children <- [i |-> <<<<"m1", "c1", "l">>>>, x |-> <<<<"m1", "c1", "l">>, <<"m2", "l">>>>,
                 sig1 |-> <<<<"sm1">>>>, sigx |-> <<<<"sx">>>>, sig2 |-> <<<<"sm2">>>>],
    Root <- [i |-> "m1", x |-> "x", sig1 |-> "sm1", sigx |-> "sx", sig2 |-> "sm2"],
    IsIndex <- [i |-> FALSE, x |-> TRUE, sig1 |-> FALSE, sigx |-> FALSE, sig2 |-> FALSE],
    Subject <- [i |-> "none", x |-> "none", sig1 |-> "m1", sigx |-> "x", sig2 |-> "m2"],
    Signature <- [m1 |-> "sig1", x |-> "sigx", m2 |-> "sig2"],
    Requests <- {<<SinkOp("push", "r1", {"t"}, "i", "yes")>>,
                 <<SinkOp("load", "none", {<<"r2", "u">>}, "i", "no"), SinkOp("push", "r1", {"t"}, "x", "best_effort")>>,
                 <<SinkOp("registry_tag", "r1", {"w"}, "x", "no"), SinkOp("push", "r2", {}, "i", "no")>>},
    Options <- {[worker |-> TRUE, force |-> FALSE, targets |-> {}, hasDefault |-> FALSE, override |-> "none"],
                [worker |-> FALSE, force |-> TRUE, targets |-> {}, hasDefault |-> TRUE, override |-> "r3"]},
    MaxFaults <- 2,
    kind <- s1, options <- s2, marker <- s3, saved <- s4, disk <- s5, tags <- s6, listed <- s7, up <- s8, index <- s9,
    blobPaths <- s10, touched <- s11, todo <- s12, served <- s13, torn <- s14, faults <- s15

------------------------------------------------------------------------------
(* Four request files, one for each push strategy and one with a staging repository. *)

DeployOp(cmd, registry, repo, tags, image, sign, dedup) ==
    [cmd |-> cmd, registry |-> registry, repo |-> repo, tags |-> tags, image |-> image, sign |-> sign, dedup |-> dedup]
Settings(strategy, staging) ==
    [pushStrategy |-> strategy, blobRepository |-> staging, forbidLayerPush |-> FALSE]
Line(worker, args, blobCache, force) ==
    [worker |-> worker, args |-> args, blobCache |-> blobCache, force |-> force, dedup |-> ""]
File(name) == <<"--request-file", name>>

Deployer == INSTANCE Deploy WITH
    Jobs <- 2,
    Layers <- [i |-> {"a"}, j |-> {"a", "b"}],
    RequestFiles <- [
      f |-> [operations |-> <<DeployOp("push", "r", "p", {"t"}, "i", "best_effort", ""),
                              DeployOp("load", "", "", {"x"}, "i", "no", "")>>,
             settings |-> Settings("eager", "")],
      g |-> [operations |-> <<DeployOp("push", "r", "q", {"t"}, "j", "yes", "enabled"),
                              DeployOp("registry_tag", "r", "q", {"u"}, "j", "no", "")>>,
             settings |-> Settings("eager", "stage")],
      c |-> [operations |-> <<DeployOp("push", "r", "p", {"t"}, "j", "no", "")>>,
             settings |-> Settings("cas_registry", "")],
      b |-> [operations |-> <<DeployOp("push", "r", "p", {"t"}, "j", "best_effort", ""),
                              DeployOp("registry_tag", "r", "p", {"u"}, "j", "no", "")>>,
             settings |-> Settings("bes", "")]],
    CommandLines <-
      {Line(w, a, TRUE, FALSE) : w \in BOOLEAN,
         a \in {<<File("f"), File("g")>>, <<File("c")>>, <<File("b")>>, <<>>,
                <<File("f"), <<"--deduplicated-push", "maybe">>>>}}
      \cup {Line(FALSE, <<File("f"), File("g"), <<"--repository", "z">>, <<"--tag", "w">>>>, FALSE, TRUE),
            Line(FALSE, <<File("c")>>, FALSE, FALSE),
            Line(FALSE, <<File("f"), File("b"), <<"--deduplicated-push", "enabled">>>>, TRUE, FALSE)},
    line <- s1, stages <- s2, active <- s3, cancelled <- s4, facts <- s5, exit <- s6

------------------------------------------------------------------------------
(* An index x of an image per platform; loads by every daemon and a platform that is missing. *)

LoadOp(daemon, root, names) == [daemon |-> daemon, root |-> root, names |-> names]
Load(ops, platforms) == [ops |-> ops, platforms |-> platforms]

Load1 == INSTANCE Loader WITH
    Layers <- [ma |-> {"l"}, mb |-> {"l", "k"}],
    Manifests <- [x |-> <<"ma", "mb">>],
    Platform <- [ma |-> "amd64", mb |-> "arm64"],
    Accepts <- [amd64 |-> {"amd64"}, arm64 |-> {"arm64"}],
    Current <- "amd64", Workers <- 2,
    Commands <-
      {<<Load(<<LoadOp("docker", "x", <<"n">>)>>, {}), Load(<<LoadOp("containerd", "x", <<"n">>)>>, {"arm64"})>>,
       <<Load(<<LoadOp("containerd", "ma", <<"n", "o">>), LoadOp("podman", "x", <<"n">>)>>, {"amd64"}),
         Load(<<LoadOp("tar", "x", <<"o">>)>>, {"all"})>>,
       <<Load(<<LoadOp("containerd", "ma", <<"n">>)>>, {"arm64"}), Load(<<LoadOp("docker", "mb", <<"n">>)>>, {})>>},
    todo <- s1, phase <- s2, have <- s3, daemons <- s4, queue <- s5, working <- s6, skipped <- s7, errors <- s8,
    names <- s9, content <- s10, lease <- s11, images <- s12, loaded <- s13, done <- s14

------------------------------------------------------------------------------
(* Requests over the layers x and y: one under cas_registry, one with layers on its command  *)
(* line, one that may not push layers.                                                       *)

VfsOp(command, strategy, layers, hint) ==
    [command |-> command, strategy |-> strategy, manifest |-> "m", config |-> "c", layers |-> layers, hint |-> hint]
LayerFlag(digest, content, stream, embedded) ==
    [digest |-> digest, content |-> content, stream |-> stream, embedded |-> embedded, exists |-> TRUE]

Vfs == INSTANCE BlobSources WITH
    Requests <- {"r1", "r2", "r3"},
    Request <-
      "r1" :> [ops |-> <<VfsOp("push", "cas_registry", <<"x", "y">>, TRUE), VfsOp("load", "lazy", <<"x">>, FALSE),
                         VfsOp("registry_tag", "", <<>>, FALSE)>>,
               layouts |-> {"l"}, specs |-> <<LayerFlag("", "x", TRUE, "x")>>,
               mounts |-> {"y"}, mountOnly |-> {"x"}, forbid |-> FALSE]
      @@ "r2" :> [ops |-> <<VfsOp("push", "eager", <<"x", "y">>, FALSE), VfsOp("push", "bes", <<"y">>, FALSE)>>,
                  layouts |-> {}, specs |-> <<LayerFlag("", "y", FALSE, ""), LayerFlag("x", "x", TRUE, "y")>>,
                  mounts |-> {}, mountOnly |-> {}, forbid |-> FALSE]
      @@ "r3" :> [ops |-> <<VfsOp("push", "eager", <<"x">>, FALSE)>>,
                  layouts |-> {}, specs |-> <<>>, mounts |-> {}, mountOnly |-> {}, forbid |-> TRUE],
    Base <- [layouts |-> {}, explicit |-> {}, streams |-> {}, mounts |-> {}, error |-> FALSE,
             disk |-> TRUE, cas |-> TRUE, hints |-> TRUE],
    Upstream <- {"x"}, Refs <- [x \in {"x", "y"} |-> IF x = "x" THEN {"q"} ELSE {}],
    Initially <- {<<"explicitStream", 0, "x">>, <<"runfiles", 2, "x">>, <<"cas", 0, "q">>, <<"disk", 0, "x">>,
                  <<"explicit", 0, "y">>, <<"layouts", "l", "m">>, <<"runfilesLayout", 1, "c">>, <<"cas", 0, "m">>},
    MaxChanges <- 1,
    there <- s1, changes <- s2, base <- s3, pc <- s4, b <- s5, vfs <- s6, reads <- s7

------------------------------------------------------------------------------
(* The sum. *)

\* The slots from the nth on, which a part with fewer variables leaves alone.
Free16 == s16 = Nobody /\ s17 = Nobody
Free15 == s15 = Nobody /\ Free16
Free8 ==
    /\ s8 = Nobody /\ s9 = Nobody /\ s10 = Nobody /\ s11 = Nobody /\ s12 = Nobody /\ s13 = Nobody /\ s14 = Nobody /\ Free15
Free7 == s7 = Nobody /\ Free8
Free1 == s1 = Nobody /\ s2 = Nobody /\ s3 = Nobody /\ s4 = Nobody /\ s5 = Nobody /\ s6 = Nobody /\ Free7

DeploymentInit ==
    /\ part \in RunParts
    /\ Init
    /\ IF part = "image" THEN ImageInit ELSE options = Nobody /\ inodes = Nobody /\ ranges = Nobody /\ plan = <<>> /\ area = <<>>
                                          /\ placed = <<>> /\ emitted = <<>>
    /\ \/ part \in {"digests", "image"} /\ Free1
       \/ part = "hash" /\ Hash!Init
       \/ part = "queue" /\ Queue!Init
       \/ part = "sink" /\ Sink!Init /\ Free16
       \/ part = "deploy" /\ Deployer!Init /\ Free7
       \/ part = "load" /\ Load1!Init /\ Free15
       \/ part = "vfs" /\ Vfs!Init /\ Free8

Digests(step) == part = "digests" /\ step /\ UNCHANGED <<part, imageVars, slots>>
Part(name, step) == part = name /\ step /\ UNCHANGED <<part, imageVars, digestVars>>
From7 == <<s7, s8, s9, s10, s11, s12, s13, s14, s15, s16, s17>>
From8 == <<s8, s9, s10, s11, s12, s13, s14, s15, s16, s17>>
From15 == <<s15, s16, s17>>
From16 == <<s16, s17>>

DeploymentNext ==
    \/ Digests(Next)
    \/ part = "image" /\ ImageNext /\ UNCHANGED <<part, digestVars, slots>>
    \/ Part("hash", Hash!Next)
    \/ Part("queue", Queue!Next)
    \/ Part("sink", Sink!Next) /\ UNCHANGED From16
    \/ Part("deploy", Deployer!Proceed) /\ UNCHANGED From7
    \/ Part("load", Load1!Next) /\ UNCHANGED From15
    \/ Part("vfs", Vfs!Next) /\ UNCHANGED From8

\* The fairness of the part that moves.
DeploymentFairness ==
    /\ WF_partVars(Digests(Ask \/ Close \/ Closed))
    /\ WF_partVars(Digests(Send \/ StopSending))
    /\ \A p \in Procs : WF_partVars(Digests(Call(p)))
    /\ \A v \in Workers : WF_partVars(Digests(Receive(v) \/ Leave(v)))
    /\ WF_partVars(Part("queue", Queue!RunsOn))
    /\ WF_partVars(Part("queue", Queue!Responds))
    /\ \A r \in 1 .. 3 : WF_partVars(Part("queue", Queue!Handles(r)))
    /\ WF_partVars(Part("deploy", Deployer!Proceed) /\ UNCHANGED From7)
    /\ WF_partVars(Part("load", Load1!Load) /\ UNCHANGED From15)

DeploymentSpec == DeploymentInit /\ [][DeploymentNext]_partVars
FairDeploymentSpec == DeploymentSpec /\ DeploymentFairness

------------------------------------------------------------------------------
(* Properties: those of the parts; DigestsAreShared is DigestFS's. *)

\* What the EROFS writer lays out, the EROFS reader finds (layout.go, erofs.go).
ImageIsReadable == part = "image" => ImageTypeOK /\ ImageReadsBack

\* A hash request has the answer it would have on its own (HandleRequest, Run), if the
\* requests for a file agree on what they need of it.
WorkerIsTransparent ==
    /\ part = "hash" => Hash!WorkerIsTransparent
    /\ part = "queue" => Queue!WorkerIsTransparent

\* A worker that has cached a file's hashes answers as a fresh one: "Only use cache if we
\* have all required data" (HandleRequest).
WorkerIsOneShot == part = "hash" => Hash!WorkerIsOneShot

\* A directory sink holds what was reported, whatever failed before (Editor, DistributionWriter).
SinkIsFaithful == part = "sink" => Sink!SinkIsFaithful

\* "a crash mid-edit leaves at most orphan blobs, never a corrupt index" (Editor).
NeverCorrupt == part = "sink" => Sink!NeverCorrupt




\* Every command ends: no subscriber, worker, upload or download waits for what never
\* comes, and a persistent worker answers and returns when its input is closed.
CommandsEnd ==
    <>[](/\ part = "digests" => AllGone
         /\ part = "queue" => Queue!Returned
         /\ part = "deploy" => s6 \in {"ok", "error"}
         /\ part = "load" => s1 = <<>>)
=============================================================================
