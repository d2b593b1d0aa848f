----------------------------- MODULE OCILayout -----------------------------
(***************************************************************************)
(* An OCI image layout written by pkg/ocilayout (engine.go, builder.go,    *)
(* format.go) for img oci-layout, docker-save, sparse-oci-layout and the   *)
(* tar sinks of the deploy command, and read back by img                   *)
(* manifest-from-oci-layout, index-from-oci-layout and                     *)
(* oci-layout-metadata.                                                    *)
(*                                                                         *)
(* Manifests, indexes, configs and layers are named by their digests.  A   *)
(* descriptor is [digest, media, platform, ref]: platform is {} or {p},    *)
(* ref the ref.name annotation.                                            *)
(***************************************************************************)
EXTENDS Integers, Sequences, FiniteSets

LOCAL INSTANCE SequencesExt

CONSTANTS
    ManifestOf, \* manifest -> [config, layers]
    ConfigOf,   \* config -> [os, arch, variant, history]
    IndexOf,    \* index -> sequence of descriptors
    MediaOf,    \* layer -> media type
    Flags,      \* command lines of the three assembling commands
    Loads,      \* [index, manifests, tags, filter]: what the loader streams to a daemon
    Sunk,       \* [docker, images]: what the deploy command captures in a tar sink
    Requests    \* [tool, platforms, media]: command lines of the reading tools

VARIABLES
    command,  \* what the Builder was given: [style, docker, sparse, tar, manifests,
              \* roots, rootIndex, files, cstreams, allowMissing, tags, repoTags, filter]
    layout,   \* [files, blobs]: what is in the output
    unwritten,\* the entries of the plan still to be written
    missing,  \* the layers MissingBlobsError names
    request,
    source,   \* the descriptors the converting tool goes by
    todo,     \* the manifests it has not converted
    out,      \* manifest number -> [manifest, config, layers, metadata, platform]
    result,   \* the descriptors of the index it writes, in their order
    stage

layoutVars == <<command, layout, unwritten, missing, request, source, todo, out, result, stage>>

Descriptor(digest, media, ref) == [digest |-> digest, media |-> media, platform |-> {}, ref |-> ref]

-----------------------------------------------------------------------------
(* What the commands give the Builder *)

NewBuilder(style) ==
    [style |-> style, docker |-> FALSE, sparse |-> FALSE, tar |-> FALSE, manifests |-> <<>>,
     roots |-> <<>>, rootIndex |-> "", files |-> {}, cstreams |-> {}, allowMissing |-> FALSE,
     tags |-> <<>>, repoTags |-> <<>>, filter |-> <<>>]

\* The flags the commands accept: one manifest with its config, or an index with a
\* config for every manifest.
Accepted(f) ==
    /\ f.format \in {"directory", "tar"}
    /\ IF f.index # ""
       THEN ~f.config /\ f.manifest = "" /\ f.configs = Len(f.manifests) /\ f.manifests # <<>>
       ELSE f.manifest # "" /\ f.config /\ f.manifests = <<>> /\ f.configs = 0

\* The Builder's options the commands share.
Assemble(f, single, multi) ==
    [NewBuilder(IF f.index # "" THEN multi ELSE single) EXCEPT
        !.tar = (f.format = "tar"), !.rootIndex = f.index,
        !.manifests = IF f.index # "" THEN f.manifests ELSE <<f.manifest>>,
        !.files = f.files, !.allowMissing = f.allowMissing]

OCILayoutProcess(f) == {Assemble(g, "clean", "verbatim") : g \in {h \in {f} : Accepted(h)}}

SparseOCILayoutProcess(f) ==
    {[Assemble(g, "rootDescriptor", "rootDescriptor") EXCEPT !.sparse = TRUE, !.cstreams = g.cstreams] :
        g \in {h \in {f} : Accepted(h)}}

\* resolveRepoTags: the --repo-tag flags, else the names of the configuration file; an
\* image without a name gets one in manifest.json only.
ociTags(f) == IF f.repoTags # <<>> THEN f.repoTags ELSE f.configTags
resolveRepoTags(f) == IF ociTags(f) # <<>> THEN ociTags(f) ELSE <<"image:latest">>

DockerSaveProcess(f) ==
    {[Assemble(g, "annotated", "wrapping") EXCEPT
        !.docker = TRUE, !.tags = ociTags(g), !.repoTags = resolveRepoTags(g)] :
        g \in {h \in {f} : Accepted(h)}}

\* streamTar of the loader: every blob comes from the VFS.
LoadTar(l) ==
    [NewBuilder(IF l.index # "" THEN "wrapping" ELSE "annotated") EXCEPT
        !.docker = TRUE, !.tar = TRUE, !.rootIndex = l.index, !.manifests = l.manifests,
        !.files = DOMAIN MediaOf, !.tags = l.tags, !.repoTags = l.tags, !.filter = l.filter]

\* indexAnnotationRefs: a deployed image without tags goes by its repository.
indexAnnotationRefs(image) ==
    IF image.refs # <<>> THEN image.refs
    ELSE IF image.fallback /\ image.repository # "" THEN <<image.repository>> ELSE <<>>

\* dockerRepoTags: the first names of a root that is not an index, else of any root.
dockerRepoTags(images) ==
    LET alone == SelectSeq(images, LAMBDA r : ~r.isIndex /\ r.refs # <<>>)
        some == SelectSeq(images, LAMBDA r : r.refs # <<>>)
    IN IF alone # <<>> THEN alone[1].refs ELSE IF some # <<>> THEN some[1].refs ELSE <<>>

TarSink(s) ==
    [NewBuilder("multiRoot") EXCEPT
        !.docker = s.docker, !.tar = TRUE, !.files = DOMAIN MediaOf,
        !.roots = [i \in DOMAIN s.images |->
            [digest |-> s.images[i].digest, isIndex |-> s.images[i].isIndex,
             tags |-> indexAnnotationRefs(s.images[i]), refs |-> s.images[i].refs,
             children |-> s.images[i].children]],
        !.repoTags = IF s.docker THEN dockerRepoTags(s.images) ELSE <<>>]

ProcessOf(f) ==
    IF f.tool = "oci-layout" THEN OCILayoutProcess(f)
    ELSE IF f.tool = "docker-save" THEN DockerSaveProcess(f) ELSE SparseOCILayoutProcess(f)

Commands ==
    UNION {ProcessOf(f) : f \in Flags} \cup {LoadTar(l) : l \in Loads} \cup {TarSink(s) : s \in Sunk}

-----------------------------------------------------------------------------
(* engine.go: the plan *)

\* DescriptorsForTags: one descriptor per tag, one without a name when there is none.
DescriptorsForTags(tags, media, digest) ==
    IF tags = <<>> THEN <<Descriptor(digest, media, "")>>
    ELSE [i \in DOMAIN tags |-> Descriptor(digest, media, tags[i])]

needsRootIndex(c) == c.style \in {"verbatim", "wrapping"}
indexMode(c) == needsRootIndex(c) \/ (c.style = "rootDescriptor" /\ c.rootIndex # "")

\* includedFromIndex: the manifests the filter keeps, all of them without one.
includedFromIndex(c) ==
    IF c.filter # <<>> THEN c.filter[1].included ELSE [i \in DOMAIN c.manifests |-> i]
defaultManifest(c) ==
    IF indexMode(c) /\ c.filter # <<>> THEN c.manifests[c.filter[1].default] ELSE c.manifests[1]

\* The manifests of the plan in the order buildPlan adds them.
Children(c) ==
    IF c.style = "multiRoot" THEN FlattenSeq([i \in DOMAIN c.roots |-> c.roots[i].children])
    ELSE IF ~indexMode(c) THEN <<c.manifests[1]>>
    ELSE IF c.style = "rootDescriptor" THEN c.manifests
    ELSE [i \in DOMAIN includedFromIndex(c) |-> c.manifests[includedFromIndex(c)[i]]]

\* The index blobs the root file refers to.
Nested(c) ==
    IF c.style = "multiRoot" THEN {r.digest : r \in {s \in Range(c.roots) : s.isIndex}}
    ELSE {i \in {c.rootIndex} : c.style = "wrapping" \/ (c.style = "rootDescriptor" /\ indexMode(c))}

\* A descriptor with the digest and the name of an earlier one is left out.
Unique(descs) ==
    LET Is(i, j) == descs[i].digest = descs[j].digest /\ descs[i].ref = descs[j].ref
        kept == SelectSeq([i \in DOMAIN descs |-> i], LAMBDA i : \A j \in 1..(i - 1) : ~Is(i, j))
    IN [i \in DOMAIN kept |-> descs[kept[i]]]

RootFile(c) ==
    IF c.style = "clean" \/ (c.style = "rootDescriptor" /\ ~indexMode(c))
    THEN <<Descriptor(c.manifests[1], "manifest", "")>>
    ELSE IF c.style = "annotated" THEN DescriptorsForTags(c.tags, "manifest", c.manifests[1])
    ELSE IF c.style = "verbatim" THEN IndexOf[c.rootIndex]
    ELSE IF c.style = "wrapping" THEN DescriptorsForTags(c.tags, "index", c.rootIndex)
    ELSE IF c.style = "rootDescriptor" THEN <<Descriptor(c.rootIndex, "index", "")>>
    ELSE Unique(FlattenSeq([i \in DOMAIN c.roots |->
            DescriptorsForTags(c.roots[i].tags,
                IF c.roots[i].isIndex THEN "index" ELSE "manifest", c.roots[i].digest)]))

\* firstSingleArchManifest: a manifest root before the first child of an index.
firstSingleArchManifest(roots) ==
    LET alone == SelectSeq(roots, LAMBDA r : ~r.isIndex /\ r.children # <<>>)
        some == SelectSeq(roots, LAMBDA r : r.children # <<>>)
    IN IF alone # <<>> THEN {alone[1].children[1]}
       ELSE IF some # <<>> THEN {some[1].children[1]} ELSE {}

DockerManifest(c) ==
    IF ~c.docker THEN {}
    ELSE IF c.style = "multiRoot" THEN firstSingleArchManifest(c.roots)
    ELSE {defaultManifest(c)}

LayersOf(m) == Range(ManifestOf[m].layers)

\* addManifestBlobs: a sparse layout has a descriptor, and maybe a compact stream, in
\* the place of a layer.
addManifestBlobs(c, m) ==
    {<<"blob", m>>, <<"blob", ManifestOf[m].config>>}
    \cup IF c.sparse
         THEN {<<"descriptor", l>> : l \in LayersOf(m)} \cup {<<"cstream", l>> : l \in LayersOf(m) \cap c.cstreams}
         ELSE {<<"blob", l>> : l \in LayersOf(m) \cap c.files}

BlobEntries(c) ==
    {<<"blob", i>> : i \in Nested(c)} \cup UNION {addManifestBlobs(c, m) : m \in Range(Children(c))}
MissingLayers(c) ==
    IF c.sparse \/ c.allowMissing THEN {}
    ELSE UNION {LayersOf(m) : m \in Range(Children(c))} \ c.files

Converting == <<request, source, todo, out, result>>

\* emit: a missing blob is noticed before anything is written.  What else it refuses
\* (a Docker manifest.json in a sparse layout, no root index, no manifest) none of the
\* commands asks for.
BuildPlan ==
    /\ stage = "plan"
    /\ missing' = MissingLayers(command)
    /\ stage' = IF missing' = {} THEN "write" ELSE "failed"
    /\ unwritten' = {<<"file", "marker">>, <<"file", "root">>} \cup BlobEntries(command)
            \cup {<<"file", "manifest.json">> : m \in DockerManifest(command)}
    /\ UNCHANGED <<command, layout, Converting>>

\* write: the files come before the blobs, whose order is that of their digests.
WriteEntry ==
    /\ stage = "write"
    /\ \E e \in unwritten :
        /\ e[1] # "file" => \A f \in unwritten : f[1] # "file"
        /\ layout' = layout \cup {e} /\ unwritten' = unwritten \ {e}
    /\ UNCHANGED <<command, missing, stage, Converting>>

\* WriteTar removes a partial tar, WriteDir leaves what is there.
WriteFails ==
    /\ stage = "write" /\ unwritten # {}
    /\ stage' = "failed"
    /\ layout' = IF command.tar THEN {} ELSE layout
    /\ UNCHANGED <<command, missing, unwritten, Converting>>

Close ==
    /\ stage = "write" /\ unwritten = {}
    /\ stage' = "written"
    /\ UNCHANGED <<command, layout, missing, unwritten, Converting>>

-----------------------------------------------------------------------------
(* The tools that read a layout *)

\* arm64 without a variant is v8.
Normal(p) == IF p.arch = "arm64" /\ p.variant = "" THEN [p EXCEPT !.variant = "v8"] ELSE p
IsPlatform(desc, p) == \E d \in desc.platform : Normal(d) = Normal(p)

HasBlob(digest) == <<"blob", digest>> \in layout

\* findManifestForPlatform and the check that follows it.
FindManifest(descs, p) ==
    LET fits == SelectSeq(descs, LAMBDA d : IsPlatform(d, p))
    IN IF fits # <<>> THEN {fits[1]}
       ELSE IF Len(descs) = 1 /\ descs[1].platform = {} THEN {descs[1]} ELSE {}

\* The index below the root, when the root's first entry is one; {} when unreadable.
NestedIndex(descs) ==
    IF descs # <<>> /\ descs[1].media = "index"
    THEN {IndexOf[i] : i \in {j \in {descs[1].digest} : HasBlob(j)}}
    ELSE {descs}

\* collectManifests, for the two levels a layout has.
Collected(descs) ==
    IF \E i \in DOMAIN descs : descs[i].media = "index" /\ ~HasBlob(descs[i].digest) THEN {}
    ELSE {FlattenSeq([i \in DOMAIN descs |->
             IF descs[i].media = "index" THEN IndexOf[descs[i].digest] ELSE <<descs[i]>>])}

\* What a request takes from the root file, as {} when it is refused.
SourceOf(r, root) ==
    IF r.tool = "manifest" THEN {<<d>> : d \in FindManifest(root, r.platforms[1])}
    ELSE IF r.tool = "index"
    THEN {descs \in NestedIndex(root) :
            /\ Len(descs) = Len(r.platforms)
            /\ \A i \in DOMAIN descs : IsPlatform(descs[i], r.platforms[i])}
    ELSE {descs \in Collected(root) : descs # <<>>}

Request(r) ==
    /\ stage = "written" /\ <<"file", "root">> \in layout /\ ~command.sparse
    /\ request' = r
    /\ LET found == SourceOf(r, RootFile(command))
       IN IF found = {} THEN stage' = "refused" /\ UNCHANGED <<source, todo>>
          ELSE /\ source' = CHOOSE d \in found : TRUE
               /\ todo' = DOMAIN source' /\ stage' = "convert"
    /\ UNCHANGED <<command, layout, unwritten, missing, out, result>>

\* SplitHistoryPerLayer, by the numbers of the entries: an entry without a layer goes
\* with the next one that has one, the last ones with the last layer that got any.
SplitHistoryPerLayer(history, n) ==
    LET full == {i \in DOMAIN history : ~history[i].empty}
        used == IF Cardinality(full) < n THEN Cardinality(full) ELSE n
        Ordinal(i) == Cardinality({j \in full : j < i}) + 1
        LayerAt(i) == IF \E j \in full : j >= i THEN Ordinal(i)
                      ELSE IF used = 0 THEN 1 ELSE used
    IN [l \in 1..n |-> SelectSeq([i \in DOMAIN history |-> i], LAMBDA i : LayerAt(i) = l)]

\* platformFor: what the descriptor says goes before what the config says.
platformFor(desc, config) ==
    LET says == IF desc.platform = {} THEN config ELSE CHOOSE p \in desc.platform : TRUE
        Or(a, b) == IF a # "" THEN a ELSE b
    IN [os |-> Or(says.os, config.os), arch |-> Or(says.arch, config.arch),
        variant |-> Or(says.variant, config.variant)]

\* processManifest: oci-layout-metadata passes over layers that are not tars.
processManifest(m) == \A l \in Range(m.layers) : MediaOf[l] # "other" => HasBlob(l)

\* processOCILayout and convertManifest: the platform and the media types of the
\* layers are the ones the rule declared, and every layer is copied.
Convertible(r, i, m) ==
    LET config == ConfigOf[m.config]
    IN /\ config.os = r.platforms[i].os /\ config.arch = r.platforms[i].arch
       /\ r.media[i] = [j \in DOMAIN m.layers |-> MediaOf[m.layers[j]]]
       /\ \A l \in Range(m.layers) : HasBlob(l)

\* A manifest read and copied with its config and its layers, {} on an error.
ConvertedManifest(r, i) ==
    LET desc == source[i]
        m == ManifestOf[desc.digest]
        config == ConfigOf[m.config]
    IN {[manifest |-> desc.digest, config |-> m.config, layers |-> m.layers,
         history |-> SplitHistoryPerLayer(config.history, Len(m.layers)),
         platform |-> IF r.tool = "metadata" THEN platformFor(desc, config) ELSE Normal(r.platforms[i]),
         complete |-> \A l \in Range(m.layers) : MediaOf[l] # "other"] :
        x \in {y \in {1} :
            /\ desc.digest \in DOMAIN ManifestOf /\ HasBlob(desc.digest) /\ HasBlob(m.config)
            /\ IF r.tool = "metadata" THEN processManifest(m) ELSE Convertible(r, i, m)}}

\* The manifests are converted in the order in which Go ranges over the map of the
\* --manifest flags, which is any order; oci-layout-metadata follows the layout.
Convert(i) ==
    /\ stage = "convert" /\ i \in todo
    /\ request.tool = "metadata" => \A j \in todo : i <= j
    /\ LET made == ConvertedManifest(request, i)
       IN IF made = {} THEN stage' = "refused" /\ UNCHANGED <<todo, out, result>>
          ELSE /\ out' = out \cup {<<i, o>> : o \in made}
               /\ result' = result \o [j \in 1..1 |->
                    [digest |-> source[i].digest, media |-> source[i].media,
                     platform |-> {o.platform : o \in made}, ref |-> ""]]
               /\ todo' = todo \ {i}
               /\ stage' = IF todo' = {} THEN "converted" ELSE stage
    /\ UNCHANGED <<command, layout, unwritten, missing, request, source>>

NoRequest == [tool |-> "none", platforms |-> <<>>, media |-> <<>>]
LayoutInit ==
    /\ command \in Commands /\ layout = {} /\ unwritten = {} /\ missing = {}
    /\ request = NoRequest /\ source = <<>> /\ todo = {} /\ out = {} /\ result = <<>>
    /\ stage = "plan"

LayoutNext ==
    \/ BuildPlan \/ WriteEntry \/ WriteFails \/ Close
    \/ \E r \in Requests : Request(r)
    \/ \E i \in todo : Convert(i)

-----------------------------------------------------------------------------
(* Properties *)

Whole == stage \in {"written", "convert", "converted", "refused"}

LayoutTypeOK ==
    /\ request \in Requests \cup {NoRequest}
    /\ \A e \in layout \cup unwritten : e[1] \in {"file", "blob", "descriptor", "cstream"}
    /\ stage \in {"plan", "write", "written", "failed", "convert", "converted", "refused"}

\* A finished layout holds everything its root file leads to: the indexes and manifests
\* the root and the indexes name (those the platform filter kept), their configs, and
\* their layers or what a sparse layout keeps of them.  A layer is absent only where
\* --allow-missing-blobs was given and no file was.  engine.go, buildPlan.
LayoutIsClosed ==
    Whole => LET c == command
                 named == {d.digest : d \in Range(RootFile(c))}
                 indexes == named \cap DOMAIN IndexOf
                 below == UNION {{d.digest : d \in Range(IndexOf[i])} : i \in indexes}
                 manifests == (named \cup below) \cap DOMAIN ManifestOf
             IN /\ \A i \in indexes : HasBlob(i)
                /\ \A m \in manifests : HasBlob(m) \/ c.filter # <<>>
                /\ \A m \in {n \in manifests : HasBlob(n)} :
                     /\ HasBlob(ManifestOf[m].config)
                     /\ \A l \in LayersOf(m) :
                          \/ HasBlob(l) /\ ~c.sparse
                          \/ <<"descriptor", l>> \in layout /\ c.sparse
                          \/ c.allowMissing /\ l \notin c.files
                /\ \A m \in DockerManifest(c) : HasBlob(m) /\ HasBlob(ManifestOf[m].config)

\* A command that fails leaves no tar behind, and one that lacks a layer leaves nothing
\* at all and names every layer it lacks.  builder.go WriteTar, engine.go emit.
FailureLeavesNoLayout ==
    stage = "failed" =>
        /\ command.tar => layout = {}
        /\ missing # {} => /\ layout = {}
                          /\ \A m \in Range(Children(command)) : LayersOf(m) \ command.files \subseteq missing

\* What is converted out of a layout is the image that went into it: the manifest and
\* its layers unchanged, for the platform its config names, with no history entry lost
\* or doubled when the config has one entry per layer, in the order of the config.
\* An index refers to exactly the manifests of the layout.
ConversionIsFaithful ==
    stage = "converted" =>
        /\ \A e \in out :
            LET o == e[2]
                config == ConfigOf[o.config]
                wellFormed == Cardinality({i \in DOMAIN config.history : ~config.history[i].empty})
                                <= Len(o.layers)
            IN /\ o.config = ManifestOf[o.manifest].config /\ o.layers = ManifestOf[o.manifest].layers
               /\ o.platform.os = config.os /\ o.platform.arch = config.arch
               /\ wellFormed /\ o.layers # <<>> =>
                    FlattenSeq(o.history) = [i \in DOMAIN config.history |-> i]
        /\ {d.digest : d \in Range(result)} = {d.digest : d \in Range(source)}
        /\ request.tool = "index" => Len(result) = Len(request.platforms)

LayoutsAreConverted == LayoutIsClosed /\ FailureLeavesNoLayout /\ ConversionIsFaithful

=============================================================================
