--------------------------- MODULE DeployMetadata ---------------------------
(***************************************************************************)
(* img deploy-metadata and img deploy-merge (cmd/deploymetadata): what a   *)
(* deployment is to do is written down for each image, and the files of    *)
(* several images are merged into one.                                     *)
(*                                                                         *)
(* A job holds the flags and the files of one deploy-metadata: its root,   *)
(* its manifests ({} for a gap), its referrers, its push or load target,   *)
(* the tags of its children (tagFiles), how it is signed.  What may fail   *)
(* yields {} or {result}.                                                  *)
(***************************************************************************)
EXTENDS Integers, Sequences, FiniteSets

LOCAL INSTANCE SequencesExt

CONSTANTS
    Jobs,       \* sequences of jobs whose files are merged
    Filters,    \* --operation: sets of kinds, {} keeps every operation
    BadNames,   \* image names that name.ParseReference refuses
    MaxPaths    \* how many paths fit the 1 MiB that a line of hints may have

VARIABLES
    jobs, kinds,
    written,   \* the deploy manifests
    merged,    \* what deploy-merge has put together
    hints,     \* the layer hints of the jobs, then those of the merged deployment
    phase      \* "write", "hints", "merge", "done" or "failed"

The(s) == CHOOSE x \in s : TRUE

-----------------------------------------------------------------------------
(* deploy-metadata *)

\* DeployMetadataProcess: what the flags must be.
FlagsFit(j) ==
    /\ j.kind \in {"manifest", "index"}
    /\ DOMAIN j.tagFiles # {} => j.kind = "index"
    /\ j.strategy \in {"eager", "lazy", "cas_registry", "bes"}

\* WriteMetadata: the manifests as the operation lists them, and a gap as it is.
ManifestsOf(j) ==
    [i \in DOMAIN j.manifests |->
        IF j.manifests[i] = {} THEN [digest |-> "", config |-> "", layers |-> <<>>] ELSE The(j.manifests[i])]

\* parseDestinationFile, or else the configuration file.
Destination(j) ==
    LET t == IF j.destination # {} THEN The(j.destination) ELSE [registry |-> j.registry, repository |-> j.repository]
    IN  IF t.registry = "" \/ t.repository = "" THEN {} ELSE {t}

checkCrossMountSource(j, target, source) ==
    IF target = source.registry /\ j.mountStrategy \in {"same_registry", "cross_registry"}
    THEN {[registry |-> "", repository |-> source.repository]}
    ELSE IF j.mountStrategy = "cross_registry" THEN {source} ELSE {}

\* pickCrossMountSource: the pushes of another deployment, then the registries
\* the base image was pulled from.
pickCrossMountSource(j, target) ==
    LET Fits(i) == checkCrossMountSource(j, target, j.mountFrom[i]) # {}
        first == {i \in DOMAIN j.mountFrom : Fits(i) /\ \A k \in 1 .. i - 1 : ~Fits(k)}
    IN  IF first = {} THEN {} ELSE checkCrossMountSource(j, target, j.mountFrom[The(first)])

Operation(j, command, root, manifests, target, tags) ==
    [command |-> command, root |-> root, manifests |-> manifests, target |-> target, tags |-> tags,
     sign |-> {}, referrer |-> FALSE, mount |-> {}, dedup |-> ""]

pushOperation(j, target) ==
    [Operation(j, "push", j.root, ManifestsOf(j), target, j.tags) EXCEPT
        !.mount = pickCrossMountSource(j, target.registry), !.dedup = j.dedup,
        !.sign = IF j.sign = "" THEN {} ELSE {[setting |-> j.sign, targets |-> j.signTargets]}]

\* loadOperation: registry and repository together or neither, and names that a
\* daemon can resolve.
loadOperation(j) ==
    IF j.daemon = "" \/ (j.registry = "") # (j.repository = "") \/ j.tags \cap BadNames # {} THEN {}
    ELSE {Operation(j, "load", j.root, ManifestsOf(j), [registry |-> j.registry, repository |-> j.repository], j.tags)}

\* dedupeNonEmpty, as a set.
dedupeNonEmpty(tags) == tags \ {""}

TagFilesFit(j) ==
    /\ \A i \in DOMAIN j.tagFiles : i \in DOMAIN j.manifests /\ j.manifests[i] # {}
    /\ \A i, k \in DOMAIN j.tagFiles :
          dedupeNonEmpty(j.tagFiles[i]) \cap dedupeNonEmpty(j.tagFiles[k]) # {} =>
              The(j.manifests[i]).digest = The(j.manifests[k]).digest

registryTagOperations(j, target) ==
    IF ~TagFilesFit(j) THEN {}
    ELSE {FlattenSeq([i \in DOMAIN j.manifests |->
            IF i \in DOMAIN j.tagFiles /\ dedupeNonEmpty(j.tagFiles[i]) # {}
            THEN <<[Operation(j, "registry_tag", The(j.manifests[i]).digest, <<>>, target, dedupeNonEmpty(j.tagFiles[i]))
                       EXCEPT !.dedup = j.dedup]>>
            ELSE <<>>])}

collectKnownDigests(j) ==
    {j.root} \cup UNION {LET m == ManifestsOf(j)[i]
                         IN  {m.digest, m.config} \cup {m.layers[k] : k \in DOMAIN m.layers} : i \in DOMAIN j.manifests}

\* validateSubject: there is a subject, it has a digest, and the image has it.
validateSubject(j, r) == r.subject # {} /\ The(r.subject) # "" /\ The(r.subject) \in collectKnownDigests(j)

\* processReferrers: the target of the image, no tags, signed when the targets of
\* the image say so.
processReferrers(j, target) ==
    IF \E i \in DOMAIN j.referrers : j.referrers[i].kind \notin {"manifest", "index"} \/ ~validateSubject(j, j.referrers[i])
    THEN {}
    ELSE {[i \in DOMAIN j.referrers |->
             [Operation(j, "push", j.referrers[i].root, j.referrers[i].manifests, target, {}) EXCEPT
                 !.referrer = TRUE,
                 !.sign = IF j.sign # "" /\ j.signTargets \cap {"referrers", "all"} # {}
                          THEN {[setting |-> j.sign, targets |-> {}]} ELSE {}]]}

NoSettings == [blobRepository |-> "", forbid |-> FALSE, sign |-> ""]

\* WriteMetadata
WriteMetadata(j) ==
    IF ~FlagsFit(j) THEN {}
    ELSE IF j.command = "load"
    THEN {[operations |-> <<op>>, settings |-> NoSettings] : op \in loadOperation(j)}
    ELSE IF j.command # "push" THEN {}
    ELSE UNION {{[operations |-> <<pushOperation(j, target)>> \o tagged \o refs,
                  settings |-> [blobRepository |-> j.blobRepository, forbid |-> j.forbid, sign |-> j.defaultSign]] :
                    tagged \in registryTagOperations(j, target), refs \in processReferrers(j, target)} :
                target \in Destination(j)}

-----------------------------------------------------------------------------
(* Layer hints: the paths a layer may be found at, by its digest *)

\* processLayerHints: pairs of a path and the digest in the metadata of the layer.
processLayerHints(pairs) ==
    IF \E x \in pairs : x[2] = "" THEN {}
    ELSE {[d \in {x[2] : x \in pairs} |-> {x[1] : x \in {y \in pairs : y[2] = d}}]}

\* A bufio.Scanner gives up on a line that does not fit its buffer.
Readable(file) == \A d \in DOMAIN file : Cardinality(file[d]) <= MaxPaths

\* mergeLayerHintsFiles, readLayerHintsOutput
mergeLayerHintsFiles(files) ==
    IF \E i \in DOMAIN files : ~Readable(files[i]) THEN {}
    ELSE {[d \in UNION {DOMAIN files[i] : i \in DOMAIN files} |->
             UNION {files[i][d] : i \in {k \in DOMAIN files : d \in DOMAIN files[k]}}]}

\* parseLayerHints: a deployment whose hints cannot be read has none.
parseLayerHints(file) == IF Readable(file) THEN file ELSE <<>>

-----------------------------------------------------------------------------
(* deploy-merge *)

MetadataInit ==
    /\ jobs \in Jobs /\ kinds \in Filters
    /\ written = <<>> /\ hints = <<>>
    /\ merged = [operations |-> <<>>, settings |-> NoSettings]
    /\ phase = "write"

Write ==
    /\ phase = "write"
    /\ LET j == jobs[Len(written) + 1]
           out == WriteMetadata(j)  file == processLayerHints(j.hints) IN
          IF out = {} \/ file = {} THEN phase' = "failed" /\ UNCHANGED <<written, hints>>
          ELSE /\ written' = Append(written, The(out)) /\ hints' = Append(hints, The(file))
               /\ phase' = IF Len(written) + 1 = Len(jobs) THEN "hints" ELSE "write"
    /\ UNCHANGED <<jobs, kinds, merged>>

\* MergeProcess: the hints go first.
MergeHints ==
    /\ phase = "hints"
    /\ LET file == mergeLayerHintsFiles(hints) IN
          IF file = {} THEN phase' = "failed" /\ UNCHANGED hints
          ELSE phase' = "merge" /\ hints' = The(file)
    /\ UNCHANGED <<jobs, kinds, written, merged>>

\* Operations that are not known are always kept.
keepOperation(op) ==
    IF op.command = "load" THEN "load" \in kinds
    ELSE IF op.command \in {"push", "registry_tag"} THEN "push" \in kinds ELSE TRUE

Agree(a, b) == a = "" \/ b = "" \/ a = b
Either(a, b) == IF b # "" THEN b ELSE a

MergeSettings(old, new) ==
    [blobRepository |-> Either(old.blobRepository, new.blobRepository),
     forbid |-> old.forbid \/ new.forbid, sign |-> Either(old.sign, new.sign)]

\* MergeDeployManifests, one file at a time: settings that differ are an error.
MergeNext ==
    /\ phase = "merge" /\ written # <<>>
    /\ LET new == Head(written)  old == merged.settings IN
          IF Agree(old.blobRepository, new.settings.blobRepository) /\ Agree(old.sign, new.settings.sign)
          THEN /\ merged' = [operations |-> merged.operations \o
                                 (IF kinds = {} THEN new.operations ELSE SelectSeq(new.operations, keepOperation)),
                             settings |-> MergeSettings(old, new.settings)]
               /\ written' = Tail(written)
               /\ phase' = IF Len(written) = 1 THEN "done" ELSE "merge"
          ELSE phase' = "failed" /\ UNCHANGED <<merged, written>>
    /\ UNCHANGED <<jobs, kinds, hints>>

MetadataNext == Write \/ MergeHints \/ MergeNext

-----------------------------------------------------------------------------
MetadataTypeOK ==
    /\ phase \in {"write", "hints", "merge", "done", "failed"}
    /\ Len(written) <= Len(jobs)

Operations == merged.operations
Digests(op) == {op.root} \cup {op.manifests[i].digest : i \in DOMAIN op.manifests}
                         \cup {op.manifests[i].config : i \in DOMAIN op.manifests}
                         \cup UNION {{op.manifests[i].layers[k] : k \in DOMAIN op.manifests[i].layers} : i \in DOMAIN op.manifests}

\* "Tags are written to the same repository as the push operation that created the
\* manifest": in the merged deployment too, whatever kinds it keeps, a tag and a
\* referrer come after the push of what they are about, to the same place.
PushesComeFirst ==
    \A i \in DOMAIN Operations :
        /\ Operations[i].command = "registry_tag" =>
              \E k \in 1 .. i - 1 : Operations[k].command = "push" /\ Operations[k].target = Operations[i].target /\ Operations[i].root \in Digests(Operations[k])
        /\ Operations[i].referrer =>
              \E k \in 1 .. i - 1 : ~Operations[k].referrer /\ Operations[k].command = "push" /\ Operations[k].target = Operations[i].target

\* "collisions across distinct children are a build error".
ChildTagsAreApart ==
    \A m \in {written[i] : i \in DOMAIN written} : \A a, b \in {m.operations[i] : i \in DOMAIN m.operations} :
        a.command = "registry_tag" /\ b.command = "registry_tag" /\ a.tags \cap b.tags # {} => a.root = b.root

\* "silently re-upload layers that forbid_layer_push was meant to protect": no
\* order of the files lets a guard, the repository of the blobs or the setting to
\* sign with go missing, and no operation of a kind that is kept is lost.
MergeLosesNothing ==
    phase = "done" =>
        /\ \A i \in DOMAIN jobs : jobs[i].command = "push" =>
              /\ jobs[i].forbid => merged.settings.forbid
              /\ jobs[i].blobRepository \in {"", merged.settings.blobRepository}
              /\ jobs[i].defaultSign \in {"", merged.settings.sign}
              /\ kinds = {} \/ "push" \in kinds =>
                    \A r \in {jobs[i].root} \cup {jobs[i].referrers[k].root : k \in DOMAIN jobs[i].referrers} :
                        \E o \in DOMAIN Operations : Operations[o].command = "push" /\ Operations[o].root = r
        /\ \A i \in DOMAIN jobs : jobs[i].command = "load" /\ (kinds = {} \/ "load" \in kinds) =>
              \E o \in DOMAIN Operations : Operations[o].command = "load" /\ Operations[o].root = jobs[i].root

\* The deployment knows every path of a layer that one of its parts knew, unless
\* they no longer fit a line together.
HintsAreComplete ==
    phase \in {"merge", "done"} /\ Readable(hints) =>
        \A i \in DOMAIN jobs : \A x \in jobs[i].hints :
            x[2] \in DOMAIN parseLayerHints(hints) /\ x[1] \in parseLayerHints(hints)[x[2]]

MetadataIsSound == MetadataTypeOK /\ HintsAreComplete /\ PushesComeFirst /\ ChildTagsAreApart /\ MergeLosesNothing
=============================================================================
