------------------------------- MODULE TarLayer -------------------------------
(***************************************************************************)
(* "img layer": the tar file of a layer, written one operation at a time   *)
(* into a tar with a content-addressed store in it (pkg/tarcas through     *)
(* pkg/tree), and the compact stream that an observer writes beside it and *)
(* from which a deploy rebuilds the same bytes (pkg/compactstream).        *)
(*                                                                         *)
(* A path is the sequence of its components.  A byte is a tuple that says  *)
(* where it comes from, a header fills one tar block of Block bytes, and a *)
(* content is named by its digest.  The writer is the record w; an         *)
(* operation of the layer tool maps it to the next writer.                 *)
(***************************************************************************)
EXTENDS Integers, Sequences, SequencesExt, FiniteSets

CONSTANTS
    Ops,          \* the operations a layer may be made of
    MaxOps,       \* bound: how many of them one layer has
    Options,      \* the command lines
    Sizes         \* the contents and their sizes in bytes, as a function

VARIABLES
    w,        \* the tar writer, its compact stream included
    asked,    \* the operations so far
    options,  \* the command line
    exit      \* "writing", "ok" or "failed"

vars == <<w, asked, options, exit>>

Block == 2
NumCPU == 300
Contents == DOMAIN Sizes
Empty == CHOOSE c \in Contents : Sizes[c] = 0

NewStream == [bytes |-> <<>>, refs |-> <<>>, offset |-> 0]
New == [tar |-> <<>>, deferred |-> <<>>, closed |-> FALSE, dirs |-> {},
        firstBlob |-> <<>>, firstNode |-> <<>>, firstTree |-> <<>>,
        stream |-> NewStream]

-----------------------------------------------------------------------------
\* Bytes.

HeaderBytes(e) == [k \in 1..Block |-> <<e.type, e.name \o <<"->">> \o e.link, k>>]
ContentBytes(c) == [k \in 1..Sizes[c] |-> <<c, <<>>, k>>]

tarBlockPadding(size) ==
    [k \in 1..((Block - (size % Block)) % Block) |-> <<"pad", <<>>, 0>>]

EntryBytes(e) ==
    HeaderBytes(e) \o
        IF e.type = "reg" THEN ContentBytes(e.content) \o tarBlockPadding(Sizes[e.content])
                          ELSE <<>>

TarBytes(tar) == FlattenSeq([i \in 1..Len(tar) |-> EntryBytes(tar[i])])

-----------------------------------------------------------------------------
\* The compact stream: compactStreamObserver and compactstream.Writer.

WriteStreamBytes(s, bytes) ==
    [s EXCEPT !.bytes = @ \o bytes, !.offset = @ + Len(bytes)]

WriteCASRef(s, c) ==
    [s EXCEPT !.refs = Append(@, [offset |-> s.offset, digest |-> c, size |-> Sizes[c]]),
              !.offset = @ + Sizes[c]]

BeginEntry(s, e) ==
    LET s1 == WriteStreamBytes(s, HeaderBytes(e))
    IN  IF e.type = "reg" /\ Sizes[e.content] > 0 /\ Sizes[e.content] < options.inline
        THEN WriteStreamBytes(s1, ContentBytes(e.content)) ELSE s1

EndEntry(s, e) ==
    IF e.type # "reg" \/ Sizes[e.content] = 0 THEN s
    ELSE WriteStreamBytes(IF Sizes[e.content] < options.inline THEN s
                                                               ELSE WriteCASRef(s, e.content),
                          tarBlockPadding(Sizes[e.content]))

\* Up to n bytes after the first at ones.
Take(bytes, at, n) == SubSeq(bytes, at + 1, Min({at + n, Len(bytes)}))

\* readRefTable: a table that is not sorted, or overlaps, is refused.
readRefTable(s) ==
    IF \A i \in 2..Len(s.refs) : s.refs[i].offset >= s.refs[i-1].offset + s.refs[i-1].size
    THEN s.refs ELSE <<>>

\* writeReconstructed: the bytes of the stream, with each blob at its offset.
writeReconstructed(s, store) ==
    LET Next1(acc, r) ==
            LET gap == r.offset - Len(acc.out)
            IN  [out |-> acc.out \o Take(s.bytes, acc.pos, gap) \o store[r.digest],
                 pos |-> acc.pos + gap]
        last == FoldLeft(Next1, [out |-> <<>>, pos |-> 0], readRefTable(s))
    IN  last.out \o SubSeq(s.bytes, last.pos + 1, Len(s.bytes))

\* ReconstructingReader.Read with a buffer of one or more bytes, as often as it
\* takes: the state is what was read, the position in the stream, the next
\* reference, and what is left of the blob that is open.
ReadOnce(s, store, r, buffer) ==
    LET refs == readRefTable(s)
        pos  == Len(r.out)
        here == r.ref <= Len(refs) /\ refs[r.ref].offset = pos
        gap  == IF r.ref <= Len(refs) THEN refs[r.ref].offset - pos ELSE buffer
        want == IF gap < buffer THEN gap ELSE buffer
        got  == Take(s.bytes, r.pos, want)
        blob == IF r.blob # <<>> THEN r.blob ELSE store[refs[r.ref].digest]
    IN  IF r.blob # <<>> \/ here
        THEN [r EXCEPT !.out = @ \o Take(blob, 0, buffer),
                       !.blob = SubSeq(blob, buffer + 1, Len(blob)),
                       !.ref = IF r.blob = <<>> THEN @ + 1 ELSE @]
        ELSE [r EXCEPT !.out = @ \o got, !.pos = @ + Len(got)]

ReconstructingReader(s, store, buffer) ==
    LET start == [out |-> <<>>, pos |-> 0, ref |-> 1, blob |-> <<>>]
        Step(r, i) == ReadOnce(s, store, r, buffer)
    IN  FoldLeft(Step, start, [i \in 1..s.offset |-> i]).out

\* The blob store, and NullBlobStore: as many zeros.
BlobStore == [c \in DOMAIN Sizes |-> ContentBytes(c)]
NullBlobStore == [c \in DOMAIN Sizes |-> [k \in 1..Sizes[c] |-> <<"nul", <<>>, 0>>]]

-----------------------------------------------------------------------------
\* The compressor, as the build chose it and as a reconstruction chooses it
\* again from the header of the compact stream.

\* A negative flag stands for "nproc", and 0 for one that is no number.
resolveCompressorJobs(flag) == IF flag < 0 THEN NumCPU ELSE flag

recordedCompressorJobs(flag) ==
    LET jobs == resolveCompressorJobs(flag)
    IN  IF jobs <= 1 THEN 1 ELSE IF jobs > 255 THEN 255 ELSE jobs

TarAppenderFactory(algorithm, seekable, jobs) ==
    IF algorithm = "none" THEN (IF seekable THEN <<"unsupported">> ELSE <<"nop">>)
    ELSE IF seekable THEN <<"estargz", algorithm>>
    ELSE IF algorithm = "gzip" /\ jobs > 1 THEN <<"pgzip">>
    ELSE <<algorithm>>

BuildCompressor ==
    TarAppenderFactory(options.format, options.estargz, resolveCompressorJobs(options.jobs))

\* Reconstruct: an uncompressed layer is streamed as it is.
ReconstructCompressor ==
    IF options.format = "none" THEN <<"nop">>
    ELSE TarAppenderFactory(options.format, options.estargz, recordedCompressorJobs(options.jobs))

-----------------------------------------------------------------------------
\* pkg/tarcas.

Entry(type, name, link, content, meta) ==
    [type |-> type, name |-> name, link |-> link, content |-> content, meta |-> meta]

notifyEntry(cas, e) ==
    [cas EXCEPT !.tar = Append(@, e), !.stream = EndEntry(BeginEntry(@, e), e)]

Parents(name) == [i \in 1..(Len(name) - 1) |-> SubSeq(name, 1, i)]

\* writeHeaderAndData: the parents that nothing described yet, then the entry.
writeHeaderAndData(cas, e) ==
    LET missing == IF options.parents THEN SelectSeq(Parents(e.name), LAMBDA d : d \notin cas.dirs)
                                      ELSE <<>>
        dirs    == [i \in 1..Len(missing) |-> Entry("dir", missing[i], <<>>, Empty, "plain")]
    IN  FoldLeft(notifyEntry, [cas EXCEPT !.dirs = @ \cup ToSet(missing)], Append(dirs, e))

\* writeHeaderOrDefer, in the CASFirst structure the layer tool uses.
writeHeaderOrDefer(cas, e) ==
    LET cas1 == IF e.type = "dir" THEN [cas EXCEPT !.dirs = @ \cup {e.name}] ELSE cas
    IN  IF e.type # "reg" /\ ~cas1.closed THEN [cas1 EXCEPT !.deferred = Append(@, e)]
                                         ELSE writeHeaderAndData(cas1, e)

\* The path under which a key was first stored, or <<>>.
First(stored, key) ==
    LET hits == SelectSeq(stored, LAMBDA s : s.key = key)
    IN  IF hits = <<>> THEN <<>> ELSE hits[1].path

storeKnownHashAndSize(cas, c, path) ==
    IF First(cas.firstBlob, c) # <<>> THEN cas
    ELSE [writeHeaderAndData(cas, Entry("reg", path, <<>>, c, "plain"))
              EXCEPT !.firstBlob = Append(@, [key |-> c, path |-> path])]

\* The key of a node is its normalised header without the name, and its content.
storeNodeKnownHash(cas, c, path, meta) ==
    IF First(cas.firstNode, <<c, meta>>) # <<>> THEN cas
    ELSE [writeHeaderAndData(cas, Entry("reg", path, <<>>, c, meta))
              EXCEPT !.firstNode = Append(@, [key |-> <<c, meta>>, path |-> path])]

isBlobTarHeader(meta) == meta = "plain"


WriteRegularDeduplicated(cas, c, path, meta) ==
    LET cas1 == IF isBlobTarHeader(meta) THEN storeKnownHashAndSize(cas, c, path)
                                         ELSE storeNodeKnownHash(cas, c, path, meta)
        link == IF isBlobTarHeader(meta) THEN First(cas1.firstBlob, c)
                                         ELSE First(cas1.firstNode, <<c, meta>>)
    IN  IF link = path THEN cas1
        ELSE writeHeaderOrDefer(cas1, Entry("link", path, link, Empty, meta))

\* treeHasher.Build: the hash of a tree is made of its files' names and digests.
TreeHash(files) == ToSet(files)

\* StoreTreeKnownHash: the directory and its files, links to files stored earlier
\* written at once.
StoreTree(cas, path, files) ==
    LET StoreFile(acc, f) ==
            LET name == path \o f.name
                acc1 == storeKnownHashAndSize(acc, f.content, name)
                link == First(acc1.firstBlob, f.content)
            IN  IF link = name THEN acc1
                ELSE writeHeaderAndData(acc1, Entry("link", name, link, Empty, "plain"))
        root == writeHeaderAndData(cas, Entry("dir", path, <<>>, Empty, "plain"))
    IN  [FoldLeft(StoreFile, root, files)
            EXCEPT !.firstTree = Append(@, [key |-> TreeHash(files), path |-> path])]

-----------------------------------------------------------------------------
\* pkg/contentmanifest: the hashes of the layer in three sections, each at the
\* next record, behind a header with their offsets and sizes.  A hash has one
\* unit here and a record Record units.

Record == 4
RoundUp(n) == IF n % Record = 0 THEN n ELSE n + Record - (n % Record)

exportInto(blobs, nodes, trees) ==
    LET offsetBlobs == Record
        offsetNodes == RoundUp(offsetBlobs + Len(blobs))
        offsetTrees == RoundUp(offsetNodes + Len(nodes))
        At(section, offset, i) == section[i - offset]
    IN  [toc  |-> <<<<offsetBlobs, Len(blobs)>>, <<offsetNodes, Len(nodes)>>,
                    <<offsetTrees, Len(trees)>>>>,
         data |-> [i \in 1..(offsetTrees + Len(trees)) |->
                    IF i > offsetTrees THEN At(trees, offsetTrees, i)
                    ELSE IF i > offsetNodes /\ i <= offsetNodes + Len(nodes)
                         THEN At(nodes, offsetNodes, i)
                    ELSE IF i > offsetBlobs /\ i <= offsetBlobs + Len(blobs)
                         THEN At(blobs, offsetBlobs, i)
                    ELSE <<>>]]

\* BlobHashes, NodeHashes and TreeHashes: the section the header names.
readHashes(file, section) ==
    SubSeq(file.data, file.toc[section][1] + 1, file.toc[section][1] + file.toc[section][2])

-----------------------------------------------------------------------------
\* pkg/tree.Recorder and the layer command.

\* relativeSymlinkTarget: up from the link's directory, then down, with the
\* prefix they share left out.
relativeSymlinkTarget(target, link) ==
    LET source == Front(link)
        differ == {i \in 1..Len(source) : i <= Len(target) /\ source[i] # target[i]}
        common == IF differ = {} THEN 0 ELSE (CHOOSE i \in differ : \A j \in differ : i <= j) - 1
    IN  IF source = <<>> THEN target
        ELSE [i \in 1..(Len(source) - common) |-> ".."] \o SubSeq(target, common + 1, Len(target))

Tree(cas, path, files) ==
    LET base == First(cas.firstTree, TreeHash(files))
    IN  IF options.trees /\ base # <<>>
        THEN writeHeaderOrDefer(cas, Entry("symlink", path, relativeSymlinkTarget(base, path),
                                           Empty, "plain"))
        ELSE StoreTree(cas, path, files)

\* LayerMetadata.ApplyToHeader: an override replaces a default.
ApplyToHeader(path) ==
    IF path \in options.overrides THEN "override" ELSE IF options.defaults THEN "default" ELSE "plain"

\* What an operation does: a file from disk, an entry of an imported tar or of a
\* base metadata stream, a tree artifact, a symlink, an empty file.
Apply(cas, op) ==
    CASE op.kind = "file"    -> WriteRegularDeduplicated(cas, op.content, op.path, ApplyToHeader(op.path))
      [] op.kind = "entry"   -> WriteRegularDeduplicated(cas, op.content, op.path, op.meta)
      [] op.kind = "tree"    -> Tree(cas, op.path, op.files)
      [] op.kind = "symlink" -> writeHeaderOrDefer(cas, Entry("symlink", op.path, op.target, Empty, "plain"))
      [] op.kind = "dir"     -> writeHeaderOrDefer(cas, Entry("dir", op.path, <<>>, Empty, op.meta))
      [] op.kind = "empty"   -> writeHeaderOrDefer(cas, Entry("reg", op.path, <<>>, Empty,
                                                              ApplyToHeader(op.path)))

Close(cas) ==
    FoldLeft(writeHeaderOrDefer, [cas EXCEPT !.closed = TRUE], cas.deferred)

\* VerifyAllFileMetadataUsed.
AllMetadataUsed ==
    \A p \in options.overrides : \E i \in 1..Len(asked) :
        asked[i].path = p /\ asked[i].kind \in {"file", "empty"}

Init ==
    /\ options \in Options
    /\ w = New
    /\ asked = <<>>
    /\ exit = "writing"

Write ==
    /\ exit = "writing" /\ Len(asked) < MaxOps
    /\ \E op \in Ops : w' = Apply(w, op) /\ asked' = Append(asked, op)
    /\ UNCHANGED <<options, exit>>

\* The end of handleLayerState: the deferred closure closes the tar and the
\* compact stream whether or not writeLayer failed.
Finish ==
    /\ exit = "writing"
    /\ w' = Close(w)
    /\ exit' \in IF AllMetadataUsed THEN {"ok", "failed"} ELSE {"failed"}
    /\ UNCHANGED <<asked, options>>

Next == Write \/ Finish

Spec == Init /\ [][Next]_vars

-----------------------------------------------------------------------------
\* What the layer is once it is unpacked.

Unpack1(fs, e) ==
    IF e.type # "link" THEN (e.name :> e) @@ fs
    ELSE IF e.link \in DOMAIN fs THEN (e.name :> fs[e.link]) @@ fs ELSE fs

Unpack(tar) == FoldLeft(Unpack1, <<>>, tar)

\* Where a relative link leads.
Normal(path) ==
    FoldLeft(LAMBDA acc, c : IF c = ".." THEN (IF acc = <<>> THEN acc ELSE Front(acc))
                                         ELSE Append(acc, c),
             <<>>, path)

Follow(fs, path) ==
    LET links == {i \in 1..(Len(path) - 1) :
                    SubSeq(path, 1, i) \in DOMAIN fs /\ fs[SubSeq(path, 1, i)].type = "symlink"}
    IN  IF path \in DOMAIN fs \/ links = {} THEN path
        ELSE LET i == CHOOSE j \in links : TRUE
             IN  Normal(SubSeq(path, 1, i - 1) \o fs[SubSeq(path, 1, i)].link)
                    \o SubSeq(path, i + 1, Len(path))

\* The regular files and the links an operation asks for.
Wanted(op) ==
    CASE op.kind = "tree"    -> {<<op.path \o f.name, "reg", f.content, "plain">> : f \in ToSet(op.files)}
      [] op.kind = "file"    -> {<<op.path, "reg", op.content, ApplyToHeader(op.path)>>}
      [] op.kind = "entry"   -> {<<op.path, "reg", op.content, op.meta>>}
      [] op.kind = "empty"   -> {<<op.path, "reg", Empty, ApplyToHeader(op.path)>>}
      [] op.kind = "symlink" -> {<<op.path, "symlink", Empty, "plain">>}
      [] op.kind = "dir"     -> {<<op.path, "dir", Empty, op.meta>>}

Holds(fs, f) ==
    LET p == Follow(fs, f[1])
    IN  p \in DOMAIN fs /\ <<fs[p].type, fs[p].content, fs[p].meta>> = <<f[2], f[3], f[4]>>

\* No two operations write the same path, and none writes beneath a path that
\* another one makes something else than a directory.
Unambiguous(ops) ==
    \A i, j \in 1..Len(ops) : i # j =>
        /\ ~ IsPrefix(ops[i].path, ops[j].path) \/ (ops[i].kind = "dir" /\ ops[i].path # ops[j].path)

TypeOK ==
    /\ options \in Options
    /\ exit \in {"writing", "ok", "failed"}
    /\ \A i \in 1..Len(w.tar) : w.tar[i].type \in {"reg", "dir", "symlink", "link"}
    /\ Len(asked) \in 0..MaxOps
    /\ ToSet(asked) \subseteq Ops
    /\ w.stream.offset = Len(TarBytes(w.tar))


\* What was recorded beside the tar gives the tar back: the compact stream read
\* in one go and through buffers of any size, with the compressor the build used,
\* and the structure alone when the blobs are gone; and the content manifest gives
\* back the hashes (observer.go:40, writer.go:123, reader.go:206, reader.go:332,
\* contentmanifest.go:213).
RecordsAreFaithful ==
    exit # "writing" =>
        /\ writeReconstructed(w.stream, BlobStore) = TarBytes(w.tar)
        /\ \A buffer \in 1..3 :
              ReconstructingReader(w.stream, BlobStore, buffer) = TarBytes(w.tar)
        /\ Len(writeReconstructed(w.stream, NullBlobStore)) = Len(TarBytes(w.tar))
        /\ BuildCompressor = ReconstructCompressor
        /\ LET Keys(stored) == [i \in 1..Len(stored) |-> <<stored[i].path>>]
               sections == <<Keys(w.firstBlob), Keys(w.firstNode), Keys(w.firstTree)>>
               file == exportInto(sections[1], sections[2], sections[3])
           IN  \A k \in 1..3 : readHashes(file, k) = sections[k]

=============================================================================
