----------------------------- MODULE BlobSources -----------------------------
(***************************************************************************)
(* Where a deploy takes the bytes of its blobs from (pkg/deployvfs): a     *)
(* Builder is given sources, Build chooses one for every blob of the       *)
(* manifest's operations, and the VFS opens the chosen one when the bytes  *)
(* are wanted.  The worker clones one base builder for each request, and   *)
(* its requests run concurrently.                                          *)
(*                                                                         *)
(* What is on disk and in the caches is the set `there' of the triples     *)
(* <<place, at, blob>>: `at' is the layout, or the operation whose         *)
(* runfiles these are, or 0.  It changes while the deploy runs.            *)
(***************************************************************************)
EXTENDS Naturals, Sequences, FiniteSets, SequencesExt

CONSTANTS
    Requests,     \* the requests
    Request,      \* request -> [ops, layouts, specs, mounts, mountOnly, forbid]
    Base,         \* the base builder
    Upstream,     \* the layers that record the registries they were pulled from
    Refs,         \* layer -> the blobs its compact stream refers to
    Initially,    \* what is there at first
    MaxChanges    \* bound: how many blobs come or go

VARIABLES
    there, changes,
    base,       \* the builder that is cloned
    pc, b,      \* request -> where it is, and its builder
    vfs,        \* request -> what it built
    reads       \* what was opened last, and with what result

vars == <<there, changes, base, pc, b, vfs, reads>>

Files == {"layouts", "explicit", "runfiles", "runfilesLayout", "hints", "disk"}
Streams == {"explicitStream", "layoutStream", "runfilesStream"}
Location(place) ==
    CASE place \in Files -> "file" [] place \in Streams -> "compact_stream"
      [] place = "cas" -> "remote_cache" [] OTHER -> place

NoVFS == [blobs |-> <<>>, manifests |-> <<>>, hints |-> {}, tried |-> {}]

-----------------------------------------------------------------------------
\* The builder.

\* WithLayer: a spec names a file, and perhaps the digest of the layer.  The file is
\* a compact stream, which may hold that digest itself, or the layer.
WithLayer(c, spec) ==
    LET digest == IF spec.digest # "" THEN spec.digest
                  ELSE IF spec.stream THEN spec.embedded ELSE spec.content
    IN  IF c.error THEN c
        ELSE IF \/ ~spec.exists
                \/ spec.stream /\ digest = ""
                \/ spec.stream /\ spec.digest # "" /\ spec.embedded \notin {"", spec.digest}
             THEN [c EXCEPT !.error = TRUE]
        ELSE IF spec.stream THEN [c EXCEPT !.streams = @ \cup {digest}]
                            ELSE [c EXCEPT !.explicit = @ \cup {digest}]

\* Clone, and what a request adds to its clone.
Configure(c, r) ==
    FoldLeft(WithLayer,
             [c EXCEPT !.layouts = @ \cup Request[r].layouts,
                       !.mounts = @ \cup Request[r].mounts],
             Request[r].specs)


Clone(r) ==
    /\ pc[r] = "start"
    /\ b' = [b EXCEPT ![r] = Configure(base, r)]
    /\ pc' = [pc EXCEPT ![r] = "build"]
    /\ UNCHANGED <<there, changes, base, vfs, reads>>

-----------------------------------------------------------------------------
\* Build.

\* The sources of a layer, and of a manifest or config, in the order they are tried.
layerSources ==
    <<"layouts", "explicit", "runfiles", "explicitStream", "layoutStream",
      "runfilesStream", "registry", "hints", "disk", "cas">>
manifestSources == <<"layouts", "runfilesLayout", "disk", "cas">>

\* Where a source would have the blob: a layout, the runfiles of the operation, or 0.
Places(c, place, i) ==
    CASE place \in {"layouts", "layoutStream"} -> c.layouts
      [] place \in {"runfiles", "runfilesLayout", "runfilesStream"} -> {i}
      [] OTHER -> {0}

\* Whether a source says that it has the blob: the registry is not asked, and the
\* remote cache is believed to have it when it cannot be asked.
Has(c, i, blob, down, place) ==
    CASE place = "registry" -> blob \in Upstream
      [] place = "cas" -> c.cas /\ (down \/ <<"cas", 0, blob>> \in there)
      [] OTHER ->
            /\ place = "explicit" => blob \in c.explicit
            /\ place = "explicitStream" => blob \in c.streams
            /\ place = "disk" => c.disk
            /\ place = "hints" => c.hints
            /\ \E at \in Places(c, place, i) : <<place, at, blob>> \in there

Entry(c, i, place, blob) ==
    [place |-> place,
     at |-> IF \E at \in Places(c, place, i) : <<place, at, blob>> \in there
            THEN CHOOSE at \in Places(c, place, i) : <<place, at, blob>> \in there ELSE 0,
     casDir |-> \/ place = "layoutStream"
                \/ place = "runfilesStream" /\ \E x \in there : x[1] = "inputfilecas" /\ x[2] = i]

\* The first source that has it; "" if none does.
Choice(c, i, sources, blob, down) ==
    LET has(place) == Has(c, i, blob, down, place)
        found == SelectSeq(sources, has)
    IN  IF found = <<>> THEN [place |-> "", at |-> 0, casDir |-> FALSE]
                        ELSE Entry(c, i, Head(found), blob)

stubBlob == [place |-> "stub", at |-> 0, casDir |-> FALSE]

resolveManifestBlob(c, i, blob, down) == Choice(c, i, manifestSources, blob, down)

\* layerBlob: without a source, a stub where the bytes will not be needed.
layerBlob(c, i, strategy, blob, down) ==
    LET entry == Choice(c, i, layerSources, blob, down)
    IN  IF entry.place # "" THEN entry
        ELSE IF blob \in c.mounts \/ strategy \in {"cas_registry", "bes"} THEN stubBlob
        ELSE entry

\* Which of two entries for one layer is kept: file > (registry == remote_cache) > stub.
Better(existing, new) ==
    IF Location(existing.place) = "file" THEN existing
    ELSE IF Location(new.place) = "file" THEN new
    ELSE IF existing.place = "stub" /\ new.place # "stub" THEN new
    ELSE existing

Put(map, key, value) ==
    [k \in DOMAIN map \cup {key} |-> IF k = key THEN value ELSE map[k]]

\* ingest, for the operation with index i.
Ingest(c, down, acc, i, op) ==
    LET AddLayer(a, blob) ==
            LET entry == layerBlob(c, i, op.strategy, blob, down)
                blobs == Put(a.blobs, blob, IF blob \in DOMAIN a.blobs
                                            THEN Better(a.blobs[blob], entry) ELSE entry)
            IN  [a EXCEPT !.blobs = blobs,
                          !.hints = IF op.hint THEN @ \cup {blob} ELSE @,
                          !.tried = @ \cup {<<blob, entry.place>>}]
        start == [acc EXCEPT
                    !.manifests = Put(@, op.manifest, resolveManifestBlob(c, i, op.manifest, down)),
                    !.blobs = Put(@, op.config, resolveManifestBlob(c, i, op.config, down))]
    IN  IF op.command \notin {"push", "load"} \/ op.strategy = "bes" THEN acc
        ELSE FoldLeft(AddLayer, start, op.layers)

Built(c, r, down) ==
    LET Step(acc, i) == Ingest(c, down, acc, i, Request[r].ops[i])
        all == FoldLeft(Step, NoVFS, [i \in 1..Len(Request[r].ops) |-> i])
    IN  [all EXCEPT !.hints = @ \cup c.mounts]

\* Build fails on a bad --layer, and on a layer without a source.
Build(r, down) ==
    LET v == Built(b[r], r, down)
    IN  /\ pc[r] = "build"
        /\ IF b[r].error \/ \E x \in v.tried : x[2] = ""
           THEN pc' = [pc EXCEPT ![r] = "failed"] /\ UNCHANGED vfs
           ELSE pc' = [pc EXCEPT ![r] = "built"] /\ vfs' = [vfs EXCEPT ![r] = v]
        /\ UNCHANGED <<there, changes, base, b, reads>>

-----------------------------------------------------------------------------
\* The VFS.

\* casDirStore.ReaderForBlob: the directory that came with the stream, the disk
\* cache, the remote cache.
ReaderForBlob(c, entry, ref) ==
    \/ entry.casDir /\ entry.place = "layoutStream" /\ <<"layouts", entry.at, ref>> \in there
    \/ entry.casDir /\ entry.place = "runfilesStream" /\ <<"inputfilecas", entry.at, ref>> \in there
    \/ c.disk /\ <<"disk", 0, ref>> \in there
    \/ c.cas /\ <<"cas", 0, ref>> \in there

\* The Opener of an entry, read to the end: the blob, or an error.
Opens(c, entry, blob) ==
    /\ entry.place \notin {"", "stub"}
    /\ <<entry.place, entry.at, blob>> \in there
    /\ entry.place \in Streams => \A ref \in Refs[blob] : ReaderForBlob(c, entry, ref)

Read(r, blob, how, ok) ==
    /\ reads' = {[request |-> r, blob |-> blob, how |-> how, ok |-> ok]}
    /\ UNCHANGED <<there, changes, base, pc, b, vfs>>

\* noUploadLayer: the bytes of a mount-only layer, and of any layer when layer pushes are
\* forbidden, are never served.
uploadForbidden(r, blob) == Request[r].forbid \/ blob \in Request[r].mountOnly

\* Layer: a layer with a hint is mounted by the registry, which then asks for no bytes.
Layer(r, blob) ==
    /\ pc[r] = "built" /\ blob \in DOMAIN vfs[r].blobs
    /\ \/ Read(r, blob, "upload",
               /\ ~uploadForbidden(r, blob)
               /\ Opens(b[r], vfs[r].blobs[blob], blob))
       \/ /\ blob \in vfs[r].hints \cup Request[r].mountOnly
          /\ Read(r, blob, "mount", TRUE)

\* RawLayer, of the VFS itself and not of its view.
RawLayer(r, blob) ==
    /\ pc[r] = "built" /\ blob \in DOMAIN vfs[r].blobs
    /\ Read(r, blob, "raw", Opens(b[r], vfs[r].blobs[blob], blob))

\* newImage and newIndex: a manifest that cannot be read fails the deploy.
ManifestBlob(r, blob) ==
    /\ pc[r] = "built" /\ blob \in DOMAIN vfs[r].manifests
    /\ Read(r, blob, "manifest", Opens(b[r], vfs[r].manifests[blob], blob))

\* A blob is evicted or deleted.
Vanish(x) ==
    /\ changes < MaxChanges /\ x \in there
    /\ there' = there \ {x} /\ changes' = changes + 1
    /\ UNCHANGED <<base, pc, b, vfs, reads>>

Init ==
    /\ there = Initially /\ changes = 0
    /\ base = Base
    /\ pc = [r \in Requests |-> "start"]
    /\ b = [r \in Requests |-> Base]
    /\ vfs = [r \in Requests |-> NoVFS]
    /\ reads = {}

Next ==
    \/ \E r \in Requests : Clone(r) \/ \E down \in BOOLEAN : Build(r, down)
    \/ \E r \in Requests, blob \in DOMAIN Refs : Layer(r, blob) \/ RawLayer(r, blob)
    \/ \E r \in Requests : \E i \in 1..Len(Request[r].ops) :
          ManifestBlob(r, Request[r].ops[i].manifest) \/ RawLayer(r, Request[r].ops[i].config)
    \/ \E x \in there : Vanish(x)

Spec == Init /\ [][Next]_vars

-----------------------------------------------------------------------------
TypeOK ==
    /\ there \subseteq Initially /\ changes \in 0..MaxChanges
    /\ pc \in [Requests -> {"start", "build", "built", "failed"}]
    /\ \A r \in Requests : DOMAIN b[r] = DOMAIN Base /\ DOMAIN vfs[r] = DOMAIN NoVFS
    /\ \A x \in reads : x.request \in Requests /\ x.ok \in BOOLEAN

\* No later operation of a manifest takes a layer to a worse source than an earlier
\* one found, nor leaves it at a stub that another could replace (ingest).
SourceIsBest ==
    \A r \in Requests : \A x \in vfs[r].tried :
        LET place == vfs[r].blobs[x[1]].place
        IN  /\ Location(x[2]) = "file" => Location(place) = "file"
            /\ x[2] # "stub" => place # "stub"

\* A layer whose bytes must not be uploaded is not uploaded, though the same VFS
\* serves them to the deploy's own upload; and a source that was checked when the VFS
\* was built fails only if it changed since: then there is no other source.
ReadsAreSound ==
    /\ \A x \in reads : x.how = "upload" /\ x.ok =>
          ~Request[x.request].forbid /\ x.blob \notin Request[x.request].mountOnly
    /\ \A x \in reads : x.how = "raw" /\ ~x.ok /\ changes = 0 =>
          Location(vfs[x.request].blobs[x.blob].place) # "file"

\* A request sees the layers of its own command line and of the worker's, never those
\* of another request (Clone).
RequestsAreApart ==
    \A r \in Requests :
        /\ b[r].explicit \cup b[r].streams \subseteq
              Base.explicit \cup Base.streams
                  \cup {spec.digest : spec \in ToSet(Request[r].specs)}
                  \cup {spec.content : spec \in ToSet(Request[r].specs)}
        /\ b[r].layouts \subseteq Base.layouts \cup Request[r].layouts

==============================================================================
