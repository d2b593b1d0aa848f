----------------------------- MODULE LayoutSink -----------------------------
(***************************************************************************)
(* The directory sinks of a deploy: an OCI layout edited in place          *)
(* (ocilayout.Editor) and a static registry tree                           *)
(* (ocilayout.DistributionWriter).  A request of the deploy worker         *)
(* (routeGlobalSink), or a one-shot deploy (deployToSink), captures its    *)
(* operations and their signatures into the sink and then closes it.  A    *)
(* request may fail at any write and the process may be killed at any      *)
(* step; the directory is what the next process finds.                     *)
(*                                                                         *)
(* A request is turned into the writes it makes, in the code's order; the  *)
(* sink performs them one at a time.  Requests are served one after the    *)
(* other (sinkMu).                                                         *)
(*                                                                         *)
(* A ref is a pair of a repository and a tag, an operation is a record     *)
(*    cmd    "push", "load" or "registry_tag"                              *)
(*    repo   its repository, or NoRepo: its tags are then full references  *)
(*    tags   its tags                                                      *)
(*    image  the image it names                                            *)
(*    sign   "no", "best_effort" or "yes", with targets the sign targets   *)
(***************************************************************************)
EXTENDS Integers, Sequences, SequencesExt

CONSTANTS
    Blobs,       \* blob and manifest digests
    Children,    \* of each image: the sequence of its manifests, each the sequence of its blobs
    Root,        \* of each image: the digest of its root
    IsIndex,     \* of each image: whether the root is an index
    Subject,     \* of a signature image: the digest it signs, else None
    Signature,   \* of each digest that can be signed: the image the signer makes of it
    Requests,    \* sequences of operations
    Options,     \* the command lines considered: [worker, force, targets, hasDefault, override]
    MaxFaults    \* bound: failed writes and crashes

VARIABLES
    kind,        \* "oci" or "distribution"
    options,     \* the command line
    marker,      \* the oci-layout file is there
    saved,       \* the entries of index.json, {Absent} when there is no such file
    disk,        \* of each repository and blob: "absent", "partial" or "whole"
    tags,        \* of each repository: the pairs of a tag and the root it links to
    listed,      \* of each repository: the pairs of tags/list and of referrers/
    up,          \* whether a process runs
    index,       \* Editor.index
    blobPaths,   \* DistributionWriter.blobPaths
    touched,     \* DistributionWriter.touched
    todo,        \* the groups of writes left of the request at hand
    served,      \* the requests that were taken up, each "open", "failing", "ok" or "error"
    torn,        \* history: what a write was interrupted at
    faults

vars == <<kind, options, marker, saved, disk, tags, listed, up, index, blobPaths, touched, todo, served, torn, faults>>

NoRepo == "none"
None == "none"
Absent == <<"no index.json">>

\* The repositories of the tree; an OCI layout is one place.
Layout == "layout"
RefRepos == UNION {{o.repo : o \in ToSet(q)} \cup {t[1] : t \in UNION {IF o.repo = NoRepo THEN o.tags ELSE {} : o \in ToSet(q)}}
                   : q \in Requests} \cup {o.override : o \in Options}
Repos == (RefRepos \ {NoRepo}) \cup {Layout}

Init ==
    /\ kind \in {"oci", "distribution"}
    /\ options \in Options
    /\ marker = FALSE /\ saved = {Absent}
    /\ disk = [r \in Repos |-> [b \in Blobs |-> "absent"]]
    /\ tags = [r \in Repos |-> {}] /\ listed = [r \in Repos |-> {}]
    /\ up = FALSE /\ index = {} /\ blobPaths = [b \in Blobs |-> NoRepo] /\ touched = {}
    /\ todo = <<>> /\ served = <<>>
    /\ torn = {} /\ faults = 0

------------------------------------------------------------------------------
(* What is written for an operation: routeToSink and AddImage. *)

\* The references an operation gives its image, overrides applied. A load that names no
\* repository has full references for tags and is not redirected.
Target(op) ==
    IF options.override = NoRepo \/ op.repo = NoRepo THEN op.repo ELSE options.override

Refs(op) == IF op.repo = NoRepo THEN op.tags ELSE {<<Target(op), t>> : t \in op.tags}

Write(op, b, repo) == [op |-> op, blob |-> b, repo |-> repo]
WriteAll(files, repo) == [i \in DOMAIN files |-> Write("blob", files[i], repo)]

\* The names of an image in index.json: its references, else (of an image that is deployed,
\* and not of its signature) its repository, else none.
indexAnnotationRefs(repo, refs, fallback) ==
    IF refs # {} THEN refs
    ELSE IF fallback /\ repo # NoRepo THEN {<<repo, "">>} ELSE {<<NoRepo, "">>}

OCIWritesEntriesFirst(image, repo, refs, fallback) ==
    LET names == indexAnnotationRefs(repo, refs, fallback)
    IN SetToSeq({[op |-> "entry", ref |-> n, root |-> Root[image]] : n \in names})
       \o WriteAll(FlattenSeq(Children[image]), Layout)
       \o (IF IsIndex[image] THEN <<Write("blob", Root[image], Layout)>> ELSE <<>>)

\* ociDirSink.AddImage: every child's manifest, config and layers, the index, the entries.
\* AddManifest looks for an index.json first.
OCIWrites(image, repo, refs, fallback) ==
    LET names == indexAnnotationRefs(repo, refs, fallback)
    IN (IF IsIndex[image] THEN <<>> ELSE <<[op |-> "check"]>>)
       \o WriteAll(FlattenSeq(Children[image]), Layout)
       \o (IF IsIndex[image] THEN <<Write("blob", Root[image], Layout)>> ELSE <<>>)
       \o SetToSeq({[op |-> "entry", ref |-> n, root |-> Root[image]] : n \in names})

\* DistributionWriter.AddImage: config and layers before the manifest that names them,
\* the root last, then its tags; in each repository the references name.
ChildWrites(m, repo) == Append(WriteAll(Tail(m), repo), Write("manifest", m[1], repo))

DistributionWrites(image, repo, refs) ==
    LET repos == IF refs # {} THEN {r[1] : r \in refs} ELSE {repo} \ {NoRepo}
        In(r) == <<[op |-> "touch", repo |-> r]>>
                 \o FlattenSeq([i \in DOMAIN Children[image] |-> ChildWrites(Children[image][i], r)])
                 \o <<Write("manifest", Root[image], r)>>
                 \o FlattenSeq(SetToSeq({<<[op |-> "unlink", repo |-> r, tag |-> ref[2]],
                                           [op |-> "link", repo |-> r, tag |-> ref[2], root |-> Root[image]]>>
                                         : ref \in {x \in refs : x[1] = r /\ x[2] # ""}}))
    IN FlattenSeq(SetToSeq({In(r) : r \in repos}))

AddImage(image, repo, refs, fallback) ==
    IF kind = "oci" THEN OCIWrites(image, repo, refs, fallback) ELSE DistributionWrites(image, repo, refs)

------------------------------------------------------------------------------
(* What is signed: sign.go. *)

normalizeTargets(ts) == IF "all" \in ts THEN {"roots", "child_manifests", "referrers"} ELSE ts \cup {"roots"}

\* decideSigning: an explicit setting, --sign_force, or a referrer the targets include.
Signs(op) ==
    \/ op.sign # "no"
    \/ options.hasDefault /\ (options.force \/ (Subject[op.image] # None /\ "referrers" \in normalizeTargets(options.targets)))

\* chooseTargets
Targets(op) ==
    IF options.targets # {} THEN normalizeTargets(options.targets)
    ELSE IF op.targets # {} THEN normalizeTargets(op.targets) ELSE {"roots"}

\* collectSubjects
Subjects(op) ==
    {Root[op.image]} \cup
    (IF "child_manifests" \in Targets(op) /\ IsIndex[op.image] THEN {m[1] : m \in ToSet(Children[op.image])} ELSE {})

Group(steps, optional) == [steps |-> steps, optional |-> optional]

\* signOneEmit, one group per operation: a best-effort failure gives up the rest of it.
SignGroup(op) ==
    Group(FlattenSeq(SetToSeq({AddImage(Signature[s], Target(op), {}, FALSE) : s \in Subjects(op)})),
          op.sign = "best_effort")

\* routeToSink over the push, then the load, then the registry_tag operations; then
\* signIntoSink over the push operations; then Close.
OfCmd(q, c) == SelectSeq(q, LAMBDA o : o.cmd = c)

Closing == <<Group(<<[op |-> "close"]>>, FALSE)>>

Plan(q) ==
    LET ops == OfCmd(q, "push") \o OfCmd(q, "load") \o OfCmd(q, "registry_tag")
        signed == SelectSeq(OfCmd(q, "push"), Signs)
    IN [i \in DOMAIN ops |-> Group(AddImage(ops[i].image, Target(ops[i]), Refs(ops[i]), TRUE), FALSE)]
       \o [i \in DOMAIN signed |-> SignGroup(signed[i])]
       \o Closing

------------------------------------------------------------------------------
(* The process. *)

Fault == faults < MaxFaults /\ faults' = faults + 1

\* newSink: OpenDir on a directory that has the marker, else CreateDir, which writes the
\* marker and then an empty index.json. The process may be killed in between.
Start ==
    /\ ~up /\ up' = TRUE
    /\ \/ kind = "distribution" /\ UNCHANGED <<marker, saved, index, faults>>
       \/ kind = "oci" /\ marker /\ index' = saved /\ UNCHANGED <<marker, saved, faults>>
       \/ kind = "oci" /\ ~marker /\ marker' = TRUE /\ saved' = {} /\ index' = {} /\ UNCHANGED faults
    /\ UNCHANGED <<kind, options, disk, tags, listed, blobPaths, touched, todo, served, torn>>

StartKilled ==
    /\ ~up /\ kind = "oci" /\ ~marker /\ Fault
    /\ marker' = TRUE
    /\ UNCHANGED <<kind, options, saved, disk, tags, listed, up, index, blobPaths, touched, todo, served, torn>>

\* The next request takes sinkMu. routeToSink resolves an image before it writes it.
Take(q) ==
    /\ up /\ todo = <<>>
    /\ \A i \in DOMAIN served : served[i].request # q
    /\ served' = Append(served, [request |-> q, state |-> "open"])
    /\ todo' = Plan(q)
    /\ UNCHANGED <<kind, options, marker, saved, disk, tags, listed, up, index, blobPaths, touched, torn, faults>>

\* What is left of a process that ends: the directory.
Exit == up' = FALSE /\ index' = {} /\ blobPaths' = [b \in Blobs |-> NoRepo] /\ touched' = {}

Stay == UNCHANGED <<up, index, blobPaths, touched>>

Answer(state) == served' = [served EXCEPT ![Len(served)].state = state]

\* The request ends. The worker stays (and does not close the sink on an error); the
\* one-shot command exits (and closes it).
End(state) ==
    /\ todo' = <<>> /\ Answer(state)
    /\ IF options.worker THEN Stay ELSE Exit

Abort ==
    IF options.worker \/ served[Len(served)].state = "failing" \/ Head(todo) = Closing[1] THEN End("error")
    ELSE todo' = Closing /\ Answer("failing") /\ Stay

------------------------------------------------------------------------------
(* The writes. *)

Busy == up /\ todo # <<>>
Now == Head(Head(todo).steps)

\* The rest of the writes once the first is done; empty groups (nothing to sign) are skipped.
Rest ==
    LET group == Head(todo)
    IN IF Len(group.steps) > 1
         THEN <<[group EXCEPT !.steps = Tail(group.steps)]>> \o Tail(todo)
         ELSE Tail(todo)

Done == todo' = Rest

SkipGroup ==
    /\ Busy /\ Head(todo).steps = <<>>
    /\ todo' = Tail(todo)
    /\ UNCHANGED <<kind, options, marker, saved, disk, tags, listed, up, index, blobPaths, touched, served, torn, faults>>

\* What AddBlob, putBlob and putManifest take for a file that is there.
Exists(repo, b) == disk[repo][b] # "absent"

\* The content a blob is written with: putBlob copies or links the file that another
\* repository has of it.
Source(w) == IF kind = "distribution" /\ w.op = "blob" /\ blobPaths[w.blob] # NoRepo
               THEN disk[blobPaths[w.blob]][w.blob] ELSE "whole"

Step(ops) == Busy /\ Head(todo).steps # <<>> /\ Now.op \in ops

WriteBlob ==
    /\ Step({"blob", "manifest"})
    /\ disk' = IF Exists(Now.repo, Now.blob) THEN disk
               ELSE [disk EXCEPT ![Now.repo][Now.blob] = Source(Now)]
    /\ blobPaths' = IF kind = "distribution" /\ Now.op = "blob" /\ blobPaths[Now.blob] = NoRepo
                      THEN [blobPaths EXCEPT ![Now.blob] = Now.repo] ELSE blobPaths
    /\ Done
    /\ UNCHANGED <<kind, options, marker, saved, tags, listed, up, index, touched, served, torn, faults>>

AddIndexEntry ==
    /\ Step({"check", "entry"}) /\ Absent \notin index
    /\ index' = IF Now.op = "entry" THEN index \cup {<<Now.ref, Now.root>>} ELSE index
    /\ Done
    /\ UNCHANGED <<kind, options, marker, saved, disk, tags, listed, up, blobPaths, touched, served, torn, faults>>

\* A step fails: the request ends with the error, or gives up an optional signature.
GiveUp == IF Head(todo).optional THEN todo' = Tail(todo) /\ UNCHANGED served /\ Stay ELSE Abort

\* AddManifest and AddIndexEntry on a layout that was opened without an index.json.
RefuseEntry ==
    /\ Step({"check", "entry"}) /\ Absent \in index
    /\ GiveUp
    /\ UNCHANGED <<kind, options, marker, saved, disk, tags, listed, torn, faults>>

Touch ==
    /\ Step({"touch"})
    /\ touched' = touched \cup {Now.repo}
    /\ Done
    /\ UNCHANGED <<kind, options, marker, saved, disk, tags, listed, up, index, blobPaths, served, torn, faults>>

\* putTag removes the old link, then makes the new one.
putTag ==
    /\ Step({"unlink", "link"})
    /\ LET others == {t \in tags[Now.repo] : t[1] # Now.tag}
       IN tags' = [tags EXCEPT ![Now.repo] = IF Now.op = "unlink" THEN others ELSE others \cup {<<Now.tag, Now.root>>}]
    /\ Done
    /\ UNCHANGED <<kind, options, marker, saved, disk, listed, up, index, blobPaths, touched, served, torn, faults>>

\* writeReferrers reads the manifests; one that does not parse is skipped.
Referrers(repo) ==
    {<<Subject[i], Root[i]>> : i \in {j \in DOMAIN Subject : Subject[j] # None /\ disk[repo][Root[j]] = "whole"}}

\* Editor.Close writes index.json in one step; DistributionWriter.Close regenerates the
\* listings of every repository it has touched from what the repository holds.
Close ==
    /\ Step({"close"})
    /\ saved' = IF kind = "oci" /\ Absent \notin index THEN index ELSE saved
    /\ listed' = [r \in Repos |-> IF r \in touched THEN {<<t[1]>> : t \in tags[r]} \cup Referrers(r) ELSE listed[r]]
    /\ IF Len(todo) > 1 THEN Done /\ UNCHANGED served /\ Stay
       ELSE End(IF served[Len(served)].state = "failing" THEN "error" ELSE "ok")
    /\ UNCHANGED <<kind, options, marker, disk, tags, torn, faults>>

\* What a write leaves behind when it stops halfway: a file cut short at its final path,
\* or a tag without its link.
Torn ==
    IF Now.op \in {"blob", "manifest"} /\ ~Exists(Now.repo, Now.blob)
      THEN \/ disk' = [disk EXCEPT ![Now.repo][Now.blob] = "partial"] /\ torn' = torn \cup {<<Now.repo, Now.blob>>}
           \/ UNCHANGED <<disk, torn>>
      ELSE /\ disk' = disk
           /\ torn' = IF Now.op = "link" THEN torn \cup {<<Now.repo, Now.tag>>} ELSE torn

\* A write fails.
Fail ==
    /\ Step({"blob", "manifest", "link", "close"}) /\ Fault
    /\ Torn
    /\ GiveUp
    /\ UNCHANGED <<kind, options, marker, saved, tags, listed>>

\* The process is killed.
Crash ==
    /\ up /\ Fault
    /\ IF todo # <<>> /\ Head(todo).steps # <<>> THEN Torn ELSE UNCHANGED <<disk, torn>>
    /\ todo' = <<>> /\ Exit
    /\ IF todo # <<>> THEN Answer("error") ELSE UNCHANGED served
    /\ UNCHANGED <<kind, options, marker, saved, tags, listed>>

Writes == SkipGroup \/ WriteBlob \/ AddIndexEntry \/ RefuseEntry \/ Touch \/ putTag \/ Close

Next == Start \/ StartKilled \/ (\E q \in Requests : Take(q)) \/ Writes \/ Fail \/ Crash

Spec == Init /\ [][Next]_vars /\ WF_vars(Start \/ Writes)

------------------------------------------------------------------------------
(* Correctness. *)

TypeOK ==
    /\ disk \in [Repos -> [Blobs -> {"absent", "partial", "whole"}]]
    /\ \A r \in Repos : \A b \in Blobs : disk[r][b] = "partial" => torn # {}
    /\ touched \subseteq Repos /\ faults \in 0..MaxFaults
    /\ Absent \in saved => saved = {Absent}

\* The images the layout names: the entries of index.json, or the links of a tree.
Images == DOMAIN Root
Named(r) == {i \in Images : \/ r = Layout /\ \E e \in saved \ {Absent} : e[2] = Root[i]
                            \/ \E t \in tags[r] : t[2] = Root[i]}
Parts(i) == {Root[i]} \cup ToSet(FlattenSeq(Children[i]))

\* Nothing a reader of the directory can be led to is missing or cut short, at any moment:
\* "a crash mid-edit leaves at most orphan blobs, never a corrupt index" (Editor).
NeverCorrupt == \A r \in Repos : \A i \in Named(r) : \A b \in Parts(i) : disk[r][b] = "whole"

\* A blob whose writing was interrupted, in any repository, is the only one that may be cut
\* short where the directory names it, and no blob is missing there.
OnlyTornIsCorrupt ==
    \A r \in Repos : \A i \in Named(r) : \A b \in Parts(i) :
        /\ disk[r][b] # "absent"
        /\ disk[r][b] = "partial" => \E s \in Repos : <<s, b>> \in torn

\* A request that was answered with success is there for good: its references resolve to
\* its images, or to what a later request made of the same tag, they are listed, and so
\* are the signatures of what had to be signed.
OkSignatures(op) ==
    op.cmd = "push" /\ op.sign = "yes" =>
      \A s \in Subjects(op) :
        IF kind = "oci" THEN <<<<NoRepo, "">>, Root[Signature[s]]>> \in saved
        ELSE \/ <<s, Root[Signature[s]]>> \in listed[Target(op)]
             \/ <<Target(op), Root[Signature[s]]>> \in torn

Captured(op, i) ==
    \A ref \in Refs(op) :
      IF kind = "oci" THEN <<ref, Root[op.image]>> \in saved
      ELSE \/ <<ref[1], ref[2]>> \in torn
           \/ /\ <<ref[2]>> \in listed[ref[1]]
              /\ \/ <<ref[2], Root[op.image]>> \in tags[ref[1]]
                 \/ \E j \in i+1..Len(served) : \E o \in ToSet(served[j].request) : ref \in Refs(o)

SuccessIsDurable ==
    \A i \in DOMAIN served : served[i].state = "ok" =>
        \A op \in ToSet(served[i].request) : Captured(op, i) /\ OkSignatures(op)

\* What the directory holds is what was asked for: complete but for interrupted files, and
\* durable once it was reported.
SinkIsFaithful == TypeOK /\ OnlyTornIsCorrupt /\ SuccessIsDurable
=============================================================================
