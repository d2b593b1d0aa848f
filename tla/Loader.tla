------------------------------- MODULE Loader -------------------------------
(***************************************************************************)
(* Loading images into a local daemon (pkg/load): LoadAll of a sequence of *)
(* commands, one after the other, against a containerd daemon that other   *)
(* clients use and that collects garbage at any time, or through the       *)
(* "image load" command of docker and its like.                            *)
(*                                                                         *)
(* Content is an image graph: an index has manifests, a manifest has its   *)
(* config and layers.  The daemon is external: its collector keeps what    *)
(* the images and the leases reach through the labels content was          *)
(* committed with, and removes the rest.                                   *)
(***************************************************************************)
EXTENDS Integers, Sequences, FiniteSets, SequencesExt

CONSTANTS
    Layers,      \* of each manifest: its config and layers
    Manifests,   \* of each index: the sequence of its manifests
    Platform,    \* of each manifest
    Accepts,     \* of each platform: those platforms.Only accepts for it
    Current,     \* DOCKER_DEFAULT_PLATFORM, or linux/$(GOARCH)
    Workers,     \* defaultWorkers
    Commands     \* sequences of [ops: a sequence of [daemon, root, names], platforms]

VARIABLES
    todo,       \* the commands not yet ended, the first one under way
    phase,      \* "connect", "daemon", "upload", "images" or "stream"
    have,       \* haveContainerd
    daemons,    \* the daemons left, sorted
    queue,      \* of an upload: the blobs no worker has taken
    working,    \* the blobs a worker has checked and is writing
    skipped,    \* the blobs the check found
    errors,     \* some upload failed
    names,      \* the image names still to create: a sequence of <<name, root>>
    content,    \* in containerd: facts <<blob, its labels>>
    lease,      \* in containerd: the blobs of the lease, or NoLease
    images,     \* in containerd: facts <<name, root>>
    loaded,     \* what "image load" of another daemon was given: facts <<daemon, name, manifests>>
    done        \* of the commands that ended: <<"ok" or "error", the command, what was skipped, haveContainerd>>

vars == <<todo, phase, have, daemons, queue, working, skipped, errors, names, content, lease, images, loaded, done>>

NoLease == {"no lease"}
Indexes == DOMAIN Manifests

Cmd == Head(todo)
Platforms == Cmd.platforms

------------------------------------------------------------------------------
(* taskSet: what an operation needs. *)

\* platformMatches: no filter accepts everything, "all" is no platform.
platformMatches(m, platforms) == platforms = {} \/ \E p \in platforms \ {"all"} : Platform[m] \in Accepts[p]

hasExplicitPlatforms(platforms) == platforms \notin {{}, {"all"}}

\* collectBlobsForIndex: the manifests an index is loaded with. Without a filter an
\* index of several manifests is loaded for the current platform only.
Selected(root, platforms) ==
    LET all == ToSet(Manifests[root])
        filter == IF platforms = {} /\ Cardinality(all) # 1 THEN {Current} ELSE platforms
    IN IF "all" \in platforms THEN all ELSE {m \in all : platformMatches(m, filter)}

\* collectBlobs of a manifest (validateManifestPlatform) or an index: whether the operation is refused.
Refuses(root, platforms) ==
    /\ hasExplicitPlatforms(platforms)
    /\ IF root \in Indexes THEN Selected(root, platforms) = {} ELSE ~platformMatches(root, platforms)

ManifestsOf(root, platforms) == IF root \in Indexes THEN Selected(root, platforms) ELSE {root}

\* computeManifestGCLabels, and the labels of an index: what a blob refers to in the daemon.
Labels(b, platforms) ==
    IF b \in Indexes THEN Selected(b, platforms)
    ELSE IF b \in DOMAIN Layers THEN Layers[b] ELSE {}

collectBlobs(root, platforms) ==
    {root} \cup UNION {{m} \cup Layers[m] : m \in ManifestsOf(root, platforms)}

\* A docker load is upgraded to a containerd load when containerd answers.
Daemon(op) == IF have /\ op.daemon = "docker" THEN "containerd" ELSE op.daemon

Operations(d) == SelectSeq(Cmd.ops, LAMBDA op : Daemon(op) = d)
Blobs(d) == UNION {collectBlobs(op.root, Platforms) : op \in ToSet(Operations(d))}

\* daemons(): sorted by name.
DaemonOrder == <<"containerd", "docker", "podman", "tar">>

\* makeManifestFilter for a tar of an index; a manifest is validated again.
TarManifests(root) ==
    IF root \notin Indexes THEN {root}
    ELSE IF "all" \in Platforms \/ Platforms = {} THEN ToSet(Manifests[root])
    ELSE LET some == {m \in ToSet(Manifests[root]) : platformMatches(m, Platforms)}
         IN IF some = {} THEN {Head(Manifests[root])} ELSE some

------------------------------------------------------------------------------
(* The daemon (external). *)

Held == {f[1] : f \in content}
Refers(b) == UNION {f[2] : f \in {g \in content : g[1] = b}}

RECURSIVE Reach(_)
Reach(bs) == LET more == bs \cup UNION {Refers(b) : b \in bs} IN IF more = bs THEN bs ELSE Reach(more)

\* The collector of the daemon.
Collect ==
    LET live == Reach({f[2] : f \in images} \cup lease)
    IN /\ content' = {f \in content : f[1] \in live}
       /\ content' # content
       /\ UNCHANGED <<todo, phase, have, daemons, queue, working, skipped, errors, names, lease, images, loaded, done>>

------------------------------------------------------------------------------
(* LoadAll. *)

Init ==
    /\ todo \in Commands
    /\ phase = "connect" /\ have = FALSE /\ daemons = <<>> /\ queue = {} /\ working = {} /\ skipped = {}
    /\ errors = FALSE /\ names = <<>>
    /\ content = {} /\ lease = NoLease /\ images = {} /\ loaded = {} /\ done = <<>>

\* A command ends: deferred, the lease is deleted.
End(result) ==
    /\ done' = Append(done, <<result, Cmd, skipped, have>>)
    /\ todo' = Tail(todo)
    /\ phase' = "connect" /\ have' = FALSE /\ daemons' = <<>> /\ queue' = {} /\ skipped' = {}
    /\ errors' = FALSE /\ names' = <<>> /\ lease' = NoLease

\* The connection is tried only for containerd and docker. Then every operation is
\* added, and the first one that is refused ends the command.
Connect(reachable) ==
    /\ todo # <<>> /\ phase = "connect"
    /\ reachable => \E op \in ToSet(Cmd.ops) : op.daemon \in {"containerd", "docker"}
    /\ IF \E op \in ToSet(Cmd.ops) : Refuses(op.root, Platforms)
         THEN End("error")
         ELSE /\ have' = reachable /\ phase' = "daemon"
              /\ daemons' = SelectSeq(DaemonOrder, LAMBDA d : \E op \in ToSet(Cmd.ops) :
                                       d = IF reachable /\ op.daemon = "docker" THEN "containerd" ELSE op.daemon)
              /\ UNCHANGED <<todo, queue, skipped, errors, names, lease, done>>
    /\ UNCHANGED <<working, content, images, loaded>>

\* The next daemon of the command: containerd gets a lease, which may fail.
NextDaemon ==
    /\ todo # <<>> /\ phase = "daemon"
    /\ IF daemons = <<>> THEN End("ok")
       ELSE IF Head(daemons) = "containerd"
         THEN \/ End("error")
              \/ /\ have /\ lease' = {} /\ phase' = "upload" /\ queue' = Blobs("containerd")
                 /\ UNCHANGED <<todo, have, daemons, skipped, errors, names, done>>
         ELSE /\ phase' = "stream"
              /\ names' = Operations(Head(daemons))
              /\ UNCHANGED <<todo, have, daemons, queue, skipped, errors, lease, done>>
    /\ UNCHANGED <<working, content, images, loaded>>

\* storeBlob: a blob the store has is skipped.
Check(b) ==
    /\ phase = "upload" /\ b \in queue /\ Cardinality(working) < Workers
    /\ queue' = queue \ {b}
    /\ IF b \in Held THEN skipped' = skipped \cup {b} /\ UNCHANGED working
       ELSE working' = working \cup {b} /\ UNCHANGED skipped
    /\ UNCHANGED <<todo, phase, have, daemons, errors, names, content, lease, images, loaded, done>>


\* The written blob is committed with its labels under the lease; content that is there
\* keeps its own labels.
Commit(b) ==
    /\ phase = "upload" /\ b \in working
    /\ working' = working \ {b}
    /\ content' = IF b \in Held THEN content ELSE content \cup {<<b, Labels(b, Platforms)>>}
    /\ lease' = lease \cup {b}
    /\ UNCHANGED <<todo, phase, have, daemons, queue, skipped, errors, names, images, loaded, done>>

\* A read, a write or the commit fails: the worker goes on with the next blob.
FailBlob(b) ==
    /\ phase = "upload" /\ b \in working
    /\ working' = working \ {b} /\ errors' = TRUE
    /\ UNCHANGED <<todo, phase, have, daemons, queue, skipped, names, content, lease, images, loaded, done>>

\* wg.Wait: every worker is idle.
Uploaded ==
    /\ phase = "upload" /\ queue = {} /\ working = {}
    /\ IF errors THEN End("error")
       ELSE /\ phase' = "images"
            /\ names' = FlattenSeq([i \in DOMAIN Operations("containerd") |->
                          LET op == Operations("containerd")[i]
                          IN [j \in DOMAIN op.names |-> <<op.names[j], op.root>>]])
            /\ UNCHANGED <<todo, have, daemons, queue, skipped, errors, lease, done>>
    /\ UNCHANGED <<working, content, images, loaded>>

\* loadContainerd, for one name: created, or updated to the new target.
CreateImage ==
    /\ phase = "images"
    /\ IF names = <<>>
         THEN /\ phase' = "daemon" /\ daemons' = Tail(daemons)
              /\ UNCHANGED <<todo, have, queue, skipped, errors, names, lease, done, images>>
         ELSE \/ End("error") /\ UNCHANGED images
              \/ /\ images' = {f \in images : f[1] # Head(names)[1]} \cup {Head(names)}
                 /\ names' = Tail(names)
                 /\ UNCHANGED <<todo, phase, have, daemons, queue, skipped, errors, lease, done>>
    /\ UNCHANGED <<working, content, loaded>>

\* loadViaDockerOrPodman, streamToStdout: the tar of one operation is written while the
\* other command reads it, and both must succeed.
Stream ==
    /\ phase = "stream"
    /\ IF names = <<>>
         THEN /\ phase' = "daemon" /\ daemons' = Tail(daemons)
              /\ UNCHANGED <<todo, have, queue, skipped, errors, names, lease, done, loaded>>
         ELSE \/ End("error") /\ UNCHANGED loaded
              \/ /\ loaded' = loaded \cup {<<Head(daemons), n, TarManifests(Head(names).root)>> : n \in ToSet(Head(names).names)}
                 /\ names' = Tail(names)
                 /\ UNCHANGED <<todo, phase, have, daemons, queue, skipped, errors, lease, done>>
    /\ UNCHANGED <<working, content, images>>

Load ==
    \/ \E r \in BOOLEAN : Connect(r)
    \/ NextDaemon \/ Uploaded \/ CreateImage \/ Stream
    \/ \E b \in queue : Check(b)
    \/ \E b \in working : Commit(b) \/ FailBlob(b)

Next == Load \/ Collect

Spec == Init /\ [][Next]_vars /\ WF_vars(Load)

------------------------------------------------------------------------------
(* Correctness. *)

TypeOK ==
    /\ phase \in {"connect", "daemon", "upload", "images", "stream"}
    /\ Cardinality(working) <= Workers
    /\ (lease # NoLease) => phase \in {"daemon", "upload", "images", "stream"}

\* The images a containerd load that succeeded has named, with the command and what it skipped.
Loads == {<<d[2].ops[i], d[2].platforms, d[3]>> :
            <<d, i>> \in {x \in ToSet(done) \X (1 .. 2) :
                            /\ x[1][1] = "ok" /\ x[2] \in DOMAIN x[1][2].ops
                            /\ x[1][2].ops[x[2]].daemon \in {"containerd"} \cup (IF x[1][4] THEN {"docker"} ELSE {})}}

Named(op) == \E n \in ToSet(op.names) : <<n, op.root>> \in images

\* It does when the load found none of the image's manifests there: what a load writes
\* outlives the lease. The lease covers a blob from its commit to the creation of the
\* names, and the labels from then on.
WrittenIsKept ==
    \A l \in Loads : Named(l[1]) /\ l[3] = {} => collectBlobs(l[1].root, l[2]) \subseteq Held

\* A name is created only for content the store has been given: while the names of a
\* load are created, everything written for them is there.
LeaseHolds == phase \in {"upload", "images"} => (lease \subseteq Held)

\* A tar holds the manifests of the platforms that were asked for and no other.
TarIsFiltered ==
    \A d \in ToSet(done) : d[1] = "ok" /\ hasExplicitPlatforms(d[2].platforms) /\ "all" \notin d[2].platforms =>
        \A i \in DOMAIN d[2].ops : LET op == d[2].ops[i] IN
            op.daemon \in {"podman", "tar"} => \A n \in ToSet(op.names) :
                <<op.daemon, n, {m \in ManifestsOf(op.root, {"all"}) : platformMatches(m, d[2].platforms)}>> \in loaded


=============================================================================
