----------------------------- MODULE ErofsImage -----------------------------
(***************************************************************************)
(* Where an EROFS image of pkg/go-erofs keeps its inodes, directory        *)
(* entries and payloads, as its writer plans them (layout.go), as it emits *)
(* them (writer.go, prepare.go) and as the reader finds them (erofs.go).   *)
(*                                                                         *)
(* An image is the sequence of its inodes in the order of the walk, the    *)
(* root first.  Every operator here computes byte addresses and lengths as *)
(* the code does; the bytes themselves are left out, except that names are *)
(* numbers in their sort order and physical blocks are numbers.  The sizes *)
(* of the on-disk structures are the format's.                             *)
(***************************************************************************)
EXTENDS Integers, Sequences, FiniteSets, SequencesExt

CONSTANTS
  BlockSize,   \* of the image, a power of two
  MaxCount,    \* the blocks one chunk may span (65535)
  Inodes,      \* the inodes an image is made of
  MaxInodes,   \* how many of them, the root included
  Options,     \* of the Writer: [dataFirst, devices, threshold]
  Ranges,      \* the data ranges of a file in a device
  MaxRanges    \* how many of them

VARIABLES
  options,     \* the Writer's
  inodes,      \* the inodes of the image, the root first
  ranges,      \* the ranges of a metadata-only file
  plan,        \* planLayout's: the NID and the layout of each inode
  area,        \* the sizes of the metadata (bytes) and of the data (blocks)
  placed,      \* the blocks and the extents of the payloads
  emitted      \* where each inode, its trailer and its payload went out

imageVars == <<options, inodes, ranges, plan, area, placed, emitted>>

Hole == -1            \* holeOffset, and the block of a hole

Compact == 32         \* SizeInodeCompact, and the unit of a NID
Extended == 64        \* SizeInodeExtended
Dirent == 12          \* SizeDirent
ChunkIndex == 8       \* SizeChunkIndex
XattrHeader == 12     \* SizeXattrBodyHeader
XattrEntry == 4       \* SizeXattrEntry
SuperBlockEnd == 1152 \* SuperBlockOffset + SizeSuperBlock
DeviceSlot == 128     \* SizeDeviceSlot

Up(n, unit) == ((n + unit - 1) \div unit) * unit
Blocks(n) == Up(n, BlockSize) \div BlockSize
Total(f(_), s) == FoldLeft(LAMBDA n, x : n + f(x), 0, s)

-----------------------------------------------------------------------------
(* Directories. *)

\* A name is its rank in the sort order and its length; "." and ".." are entries too.
NameLength(n) == n.length

\* How many of the names from the first on fit into one block, at least one.
FitInBlock(names) ==
  LET fits == {k \in 1 .. Len(names) :
                 k * Dirent + Total(NameLength, SubSeq(names, 1, k)) <= BlockSize}
  IN IF fits = {} THEN 1 ELSE CHOOSE k \in fits : \A j \in fits : j <= k

RECURSIVE direntBlocks(_)
direntBlocks(names) ==
  IF names = <<>> THEN <<>>
  ELSE <<SubSeq(names, 1, FitInBlock(names))>>
       \o direntBlocks(SubSeq(names, FitInBlock(names) + 1, Len(names)))

BlockUsed(block) == Len(block) * Dirent + Total(NameLength, block)

\* direntDataSize: every block but the last is padded.
direntDataSize(names) ==
  LET bs == direntBlocks(names)
  IN FoldLeft(LAMBDA n, k : n + (IF k < Len(bs) THEN Up(BlockUsed(bs[k]), BlockSize)
                                 ELSE BlockUsed(bs[k])),
              0, [k \in 1 .. Len(bs) |-> k])

\* writeDirents: a block's headers with their name offsets, and the names; what follows
\* the names is zero up to the end of the block.
writeDirents(names) ==
  [b \in 1 .. Len(direntBlocks(names)) |->
     LET block == direntBlocks(names)[b]
     IN [i \in 1 .. Len(block) |->
           [nid |-> block[i].nid, name |-> block[i],
            nameOff |-> Len(block) * Dirent + Total(NameLength, SubSeq(block, 1, i - 1))]]]

\* The entries the reader sees in a block: as many as the first name offset says, each
\* name up to the next one's offset, the last one up to the first zero.
blockDirents(block, used) ==
  [i \in 1 .. (block[1].nameOff \div Dirent) |->
     [nid |-> block[i].nid, rank |-> block[i].name.rank, dot |-> block[i].name.dot,
      length |-> IF i < block[1].nameOff \div Dirent
                 THEN block[i + 1].nameOff - block[i].nameOff
                 ELSE used - block[i].nameOff]]

Seen(names) ==
  LET bs == writeDirents(names)
  IN [b \in 1 .. Len(bs) |-> blockDirents(bs[b], BlockUsed(direntBlocks(names)[b]))]

NameLists == {e.names : e \in Inodes}
Directory == [names \in NameLists |-> Seen(names)]

\* lookupBlock: binary search among the entries lo .. hi - 1 of a block; 0 is not found.
RECURSIVE lookupBlock(_, _, _, _)
lookupBlock(block, rank, lo, hi) ==
  IF lo >= hi THEN 0
  ELSE LET mid == lo + (hi - lo) \div 2
       IN IF block[mid + 1].rank = rank THEN block[mid + 1].nid
          ELSE IF block[mid + 1].rank < rank THEN lookupBlock(block, rank, mid + 1, hi)
          ELSE lookupBlock(block, rank, lo, mid)

\* lookup: the last block whose first name is not beyond the target.
RECURSIVE lookupFrom(_, _, _, _, _)
lookupFrom(blocks, rank, lo, hi, last) ==
  IF lo >= hi THEN IF last = 0 THEN 0 ELSE lookupBlock(blocks[last], rank, 0, Len(blocks[last]))
  ELSE LET mid == lo + (hi - lo) \div 2
       IN IF blocks[mid + 1][1].rank <= rank
          THEN lookupFrom(blocks, rank, mid + 1, hi, mid + 1)
          ELSE lookupFrom(blocks, rank, lo, mid, last)

lookupEntry(blocks, rank) == lookupFrom(blocks, rank, 0, Len(blocks), 0)

\* ReadDir(n), resumed in block bn after `consumed` of its entries: it stops when it has
\* n entries, the dot entries not counted, or at the end; n = 0 reads to the end.
RECURSIVE readDir(_, _, _, _, _)
readDir(blocks, n, bn, consumed, ents) ==
  IF bn > Len(blocks) THEN [ents |-> ents, bn |-> bn, consumed |-> 0]
  ELSE LET fresh == SelectSeq([i \in 1 .. Len(blocks[bn]) |-> i],
                              LAMBDA i : i > consumed /\ ~blocks[bn][i].dot)
           need == n - Len(ents)
       IN IF n > 0 /\ Len(fresh) >= need
          THEN [ents |-> ents \o [i \in 1 .. need |-> blocks[bn][fresh[i]]],
                bn |-> IF fresh[need] = Len(blocks[bn]) THEN bn + 1 ELSE bn,
                consumed |-> IF fresh[need] = Len(blocks[bn]) THEN 0 ELSE fresh[need]]
          ELSE readDir(blocks, n, bn + 1, 0, ents \o [i \in DOMAIN fresh |-> blocks[bn][fresh[i]]])

RECURSIVE ReadDirBatches(_, _, _, _)
ReadDirBatches(blocks, n, bn, consumed) ==
  IF bn > Len(blocks) THEN <<>>
  ELSE LET r == readDir(blocks, n, bn, consumed, <<>>)
       IN r.ents \o ReadDirBatches(blocks, n, r.bn, r.consumed)

\* A directory reads back as it was written: listing it, at once or in batches, gives every
\* name once with its inode, in order and at its full length, and looking a name up by
\* bisection finds exactly the names it has, whatever blocks they fell into.
DirectoryReadsBack(names, blocks) ==
  /\ LET wanted == SelectSeq(names, LAMBDA x : ~x.dot)
     IN \A n \in 0 .. 2 :
          LET listed == ReadDirBatches(blocks, n, 1, 0)
          IN [i \in DOMAIN listed |-> <<listed[i].nid, listed[i].length>>]
               = [i \in DOMAIN wanted |-> <<wanted[i].nid, wanted[i].length>>]
  /\ \A r \in 0 .. Len(names) + 1 :
       LET named == {n \in ToSet(names) : n.rank = r}
       IN lookupEntry(blocks, r) = IF named = {} THEN 0 ELSE (CHOOSE n \in named : TRUE).nid

-----------------------------------------------------------------------------
(* The plan: planLayout. *)

\* An inode: kind, whether its fields fit a compact one, its xattrs as lengths, the size of
\* its payload (a symlink's target length), its names (a directory), its chunks, whether it
\* shares another's payload (share, a position) and whether another shares its own (shared).
xattrEntrySize(x) == Up(XattrEntry + x.name + x.value, 4)
calcXattrSize(e) == IF e.xattrs = <<>> THEN 0 ELSE XattrHeader + Total(xattrEntrySize, e.xattrs)

inodeCoreSize(e) == IF e.compact THEN Compact ELSE Extended
HeaderSize(e) == inodeCoreSize(e) + calcXattrSize(e)

\* What follows the header when the payload is inline; what lies out of line otherwise:
\* of a directory, its entries.
DirSizes == [names \in NameLists |-> direntDataSize(names)]
Sized(e) == IF e.kind = "dir" THEN [e EXCEPT !.size = DirSizes[e.names]] ELSE e
PayloadSize(e) == e.size

ChunkBits == FoldLeft(LAMBDA b, k : IF BlockSize * 2 ^ b < 4096 THEN b + 1 ELSE b, 0, <<1, 2, 3>>)
minChunkBits(size) ==
  CHOOSE b \in ChunkBits .. 31 : (BlockSize * 2 ^ b >= size \/ b = 31)
                                /\ \A c \in ChunkBits .. b - 1 : BlockSize * 2 ^ c < size
EntryChunkSize(e) == BlockSize * 2 ^ (IF e.contiguous THEN minChunkBits(e.size) ELSE ChunkBits)
ChunkCount(e) == (e.size + EntryChunkSize(e) - 1) \div EntryChunkSize(e)

mayInline(e, threshold) ==
  ~e.shared /\ (threshold = 0 \/ (threshold > 0 /\ e.size < threshold))

Chunked(e) == e.kind = "file" /\ e.share = 0 /\ (e.chunks # <<>> \/ e.metadataOnly)

\* The layout chosen for an inode whose header would start at off.
ChooseLayout(e, off, threshold) ==
  LET fits == ((off + HeaderSize(e)) % BlockSize) + PayloadSize(e) <= BlockSize
  IN IF Chunked(e) THEN "chunks"
     ELSE IF PayloadSize(e) = 0 \/ ~fits THEN "plain"
     ELSE IF e.kind # "file" THEN "inline"
     ELSE IF e.share = 0 /\ mayInline(e, threshold) /\ e.size <= BlockSize - HeaderSize(e)
     THEN "inline" ELSE "plain"

calcTrailingSize(e, layout) ==
  IF layout = "chunks" THEN ChunkCount(e) * ChunkIndex
  ELSE IF layout = "inline" THEN PayloadSize(e) ELSE 0

chunkIndexPad(e, layout) ==
  IF layout = "chunks" /\ calcTrailingSize(e, layout) > 0
  THEN Up(HeaderSize(e), ChunkIndex) - HeaderSize(e) ELSE 0

InodeSize(e, layout) ==
  Up(HeaderSize(e) + chunkIndexPad(e, layout) + calcTrailingSize(e, layout), Compact)

\* One inode: its core must not cross a block, and neither must what is inline in it.  Its
\* size is settled before it is moved to the next block.
PlanInodeUnmoved(e, off, threshold) ==
  LET layout == ChooseLayout(e, off, threshold)
  IN [nid |-> off \div Compact, layout |-> layout, next |-> off + InodeSize(e, layout)]
PlanInode(e, off, threshold) ==
  LET first == ChooseLayout(e, off, threshold)
      at == IF (off % BlockSize) + inodeCoreSize(e) > BlockSize THEN Up(off, BlockSize) ELSE off
      crosses == (at % BlockSize) + HeaderSize(e) + calcTrailingSize(e, first) > BlockSize
      layout == IF first = "inline" /\ crosses THEN "plain" ELSE first
  IN [nid |-> at \div Compact, layout |-> layout, next |-> at + InodeSize(e, layout)]

planLayout(es, threshold) ==
  FoldLeft(LAMBDA out, e :
             Append(out, PlanInode(e, IF out = <<>> THEN 0 ELSE out[Len(out)].next, threshold)),
           <<>>, es)

sbAreaBlocks(devices) == Blocks(SuperBlockEnd + devices * DeviceSlot)

metadataBytes(es) ==
  FoldLeft(LAMBDA off, i : (IF off < plan[i].nid * Compact THEN plan[i].nid * Compact ELSE off)
                           + InodeSize(es[i], plan[i].layout),
           0, [i \in 1 .. Len(es) |-> i])

\* The out-of-line payload of an inode: none when it is shared from another.
flatPlainDataSize(e, layout) ==
  IF layout = "plain" /\ e.share = 0 THEN PayloadSize(e) ELSE 0
DataBlocks(es) ==
  FoldLeft(LAMBDA n, i : n + Blocks(flatPlainDataSize(es[i], plan[i].layout)), 0, [i \in 1 .. Len(es) |-> i])

\* assignDataBlocks and resolveSharedData, with data before or after the metadata.
DataStart(o) ==
  sbAreaBlocks(o.devices) + (IF o.dataFirst THEN 0 ELSE Blocks(area.metadata))
assignDataBlocks(es, o) ==
  LET size == [i \in DOMAIN es |-> flatPlainDataSize(es[i], plan[i].layout)]
      before(i) == FoldLeft(LAMBDA n, j : n + Blocks(size[j]), DataStart(o), [j \in 1 .. i - 1 |-> j])
      own == [i \in DOMAIN es |-> IF size[i] > 0 THEN before(i) ELSE 0]
  IN [i \in DOMAIN es |-> IF es[i].share = 0 THEN own[i] ELSE own[es[i].share]]
MetaBlkAddr(o) == sbAreaBlocks(o.devices) + (IF o.dataFirst THEN area.data ELSE 0)
ImageSize(o) == (sbAreaBlocks(o.devices) + Blocks(area.metadata) + area.data) * BlockSize

\* Prepare's extents: the out-of-line payloads in order, each with its padding.
buildExtents(es, addr) ==
  LET size == [i \in DOMAIN es |-> flatPlainDataSize(es[i], plan[i].layout)]
      own == SelectSeq([i \in 1 .. Len(es) |-> i], LAMBDA i : size[i] > 0)
  IN [k \in DOMAIN own |->
        [offset |-> addr[own[k]] * BlockSize, size |-> size[own[k]],
         pad |-> Up(size[own[k]], BlockSize) - size[own[k]]]]

-----------------------------------------------------------------------------
(* What is emitted: writeMetadataInodes and writeDataBlocks. *)

\* For every inode, the offset in the metadata area at which it and its trailer went out.
writeMetadataInodes(es) ==
  FoldLeft(LAMBDA out, i :
             LET end == IF out = <<>> THEN 0 ELSE out[Len(out)].next
                 at == IF plan[i].nid * Compact > end THEN plan[i].nid * Compact ELSE end
                 layout == plan[i].layout
                 trailer == at + HeaderSize(es[i]) + chunkIndexPad(es[i], layout)
                 whole == HeaderSize(es[i]) + chunkIndexPad(es[i], layout) + calcTrailingSize(es[i], layout)
             IN Append(out, [at |-> at, trailer |-> trailer,
                             next |-> trailer + calcTrailingSize(es[i], layout) + Up(whole, Compact) - whole]),
           <<>>, [i \in 1 .. Len(es) |-> i])

\* For every inode, the address at which its out-of-line payload went out, in order.
writeDataBlocks(es, o) ==
  FoldLeft(LAMBDA out, i :
             Append(out, IF i = 1 THEN DataStart(o) * BlockSize
                         ELSE out[i - 1] + Up(flatPlainDataSize(es[i - 1], plan[i - 1].layout), BlockSize)),
           <<>>, [i \in 1 .. Len(es) |-> i])

-----------------------------------------------------------------------------
(* What the reader finds: readInfo and loadBlock. *)

xattrCount(size) == IF size = 0 THEN 0 ELSE (size - XattrHeader) \div XattrEntry + 1
XattrSizeRead(count) == IF count = 0 THEN 0 ELSE (count - 1) * XattrEntry + XattrHeader

\* The address of an inode, and what follows its header and xattrs.
InodeAddr(i) == MetaBlkAddr(options) * BlockSize + plan[i].nid * Compact
FlatDataAddr(i) ==
  InodeAddr(i) + inodeCoreSize(inodes[i]) + XattrSizeRead(xattrCount(calcXattrSize(inodes[i])))

\* readInfo reads the rest of the inode's block, but never less than an extended inode.
readInfo(i) ==
  LET addr == InodeAddr(i)
      rest == BlockSize - (addr % BlockSize)
  IN addr + (IF rest < Extended THEN Extended ELSE rest) <= ImageSize(options)

\* loadBlock: the address of block bn of a payload, or -1 for an error.
loadBlock(i, bn) ==
  LET size == PayloadSize(inodes[i])
      last == bn = Blocks(size) - 1
      tail == FlatDataAddr(i)
  IN IF plan[i].layout = "plain" \/ ~last
     THEN (placed.addr[i] + bn) * BlockSize
     ELSE IF (tail % BlockSize) + (size - bn * BlockSize) > BlockSize THEN -1 ELSE tail

-----------------------------------------------------------------------------
(* Chunks: files whose blocks lie in a device. *)

RangesAreValid(rs, size) ==
  /\ size = FoldLeft(LAMBDA n, r : n + r.size, 0, rs)
  /\ \A i \in DOMAIN rs : rs[i].size > 0 /\ (rs[i].offset = Hole \/ rs[i].offset % BlockSize = 0)
  /\ \A i \in 1 .. Len(rs) - 1 : rs[i].size % BlockSize = 0

\* The chunks of one range: a chunk spans at most MaxCount blocks.
rangeChunks(r) ==
  LET n == Blocks(r.size)
      start == IF r.offset = Hole THEN Hole ELSE r.offset \div BlockSize
  IN [k \in 1 .. (n + MaxCount - 1) \div MaxCount |->
        [block |-> IF start = Hole THEN Hole ELSE start + (k - 1) * MaxCount,
         count |-> IF k * MaxCount <= n THEN MaxCount ELSE n - (k - 1) * MaxCount]]

chunksFromRanges(rs) == FlattenSeq([i \in DOMAIN rs |-> rangeChunks(rs[i])])

\* Step `off` blocks into the chunks from ci on.
RECURSIVE Advance(_, _, _)
Advance(chunks, ci, off) ==
  IF ci <= Len(chunks) /\ off >= chunks[ci].count
  THEN Advance(chunks, ci + 1, off - chunks[ci].count) ELSE [ci |-> ci, off |-> off]

\* writeChunkIndexes: one index for every logical chunk, null beyond the last one given.
RECURSIVE writeChunkIndexes(_, _, _, _, _)
writeChunkIndexes(chunks, n, perChunk, ci, off) ==
  IF n = 0 THEN <<>>
  ELSE LET null == ci > Len(chunks) \/ chunks[ci].block = Hole
           next == Advance(chunks, ci, off + perChunk)
       IN <<IF null THEN Hole ELSE chunks[ci].block + off>>
          \o writeChunkIndexes(chunks, n - 1, perChunk, next.ci, next.off)

Indexes(e) ==
  writeChunkIndexes(e.chunks, ChunkCount(e), EntryChunkSize(e) \div BlockSize, 1, 0)

\* loadBlock of a chunked file: the block in the device, or a hole.
loadChunkBlock(e, indexes, bn) ==
  LET cn == (bn * BlockSize) \div EntryChunkSize(e)
      start == indexes[cn + 1]
  IN IF start = Hole THEN Hole ELSE start + bn - cn * (EntryChunkSize(e) \div BlockSize)

\* buildChunkDataRanges: the ranges the reader reports, adjacent ones joined.
buildChunkDataRanges(e, indexes) ==
  LET cs == EntryChunkSize(e)
      size(i) == IF i = ChunkCount(e) THEN e.size - (i - 1) * cs ELSE cs
      join(rs, i) ==
        LET at == IF indexes[i] = Hole THEN Hole ELSE indexes[i] * BlockSize
            prev == IF rs = <<>> THEN [offset |-> Hole, size |-> 0] ELSE rs[Len(rs)]
            joins == /\ rs # <<>>
                     /\ IF at = Hole THEN prev.offset = Hole
                        ELSE prev.offset # Hole /\ prev.offset + prev.size = at
        IN IF joins THEN [rs EXCEPT ![Len(rs)].size = prev.size + size(i)]
           ELSE Append(rs, [offset |-> at, size |-> size(i)])
  IN FoldLeft(join, <<>>, [i \in 1 .. ChunkCount(e) |-> i])

\* The block in the device that ranges give to block bn of the file.
RECURSIVE RangeBlock(_, _)
RangeBlock(rs, bn) ==
  IF bn < Blocks(rs[1].size)
  THEN IF rs[1].offset = Hole THEN Hole ELSE rs[1].offset \div BlockSize + bn
  ELSE RangeBlock(Tail(rs), bn - Blocks(rs[1].size))

\* The entry of a file copied from ranges.
RangeEntry(rs, size) ==
  [kind |-> "file", chunks |-> chunksFromRanges(rs), size |-> size, contiguous |-> FALSE]
FileOf(e) ==
  LET indexes == Indexes(e) IN [entry |-> e, indexes |-> indexes, reported |-> buildChunkDataRanges(e, indexes)]

-----------------------------------------------------------------------------
(* Properties of a whole image. *)

\* A compact inode that ends the image is read past its end.
EndsTheImage(i) == inodes[i].compact /\ InodeAddr(i) + Compact = ImageSize(options)

InodeIsRead(i) ==
  LET base == MetaBlkAddr(options) * BlockSize
      source == IF inodes[i].share = 0 THEN i ELSE inodes[i].share
  IN /\ base + emitted.meta[i].at = InodeAddr(i)
     /\ (emitted.meta[i].at % BlockSize) + inodeCoreSize(inodes[i]) <= BlockSize
     /\ ~EndsTheImage(i) => readInfo(i)
     /\ plan[i].layout = "chunks" => base + emitted.meta[i].trailer = Up(FlatDataAddr(i), ChunkIndex)
     /\ plan[i].layout # "chunks" => \A bn \in 0 .. Blocks(PayloadSize(inodes[i])) - 1 :
          loadBlock(i, bn) = IF plan[i].layout = "inline" THEN base + emitted.meta[i].trailer
                             ELSE emitted.data[source] + bn * BlockSize

ExtentsTile ==
  LET ext == placed.extents
      end(e) == e.offset + e.size + e.pad
  IN /\ \A k \in DOMAIN ext :
          /\ ext[k].offset = IF k = 1 THEN DataStart(options) * BlockSize ELSE end(ext[k - 1])
          /\ ext[k].offset % BlockSize = 0
     /\ ext # <<>> => end(ext[Len(ext)]) = IF options.dataFirst THEN MetaBlkAddr(options) * BlockSize
                                           ELSE ImageSize(options)

ImageIsRead ==
  /\ \A i \in DOMAIN inodes : InodeIsRead(i)
  /\ emitted.meta[Len(inodes)].next <= area.metadata
  /\ ExtentsTile

\* A file given by ranges of a device reads, block by block, from where the ranges say, and
\* the reader reports ranges that say the same.
RangesAreRead(rs, file) ==
  \A bn \in 0 .. Blocks(file.entry.size) - 1 :
    /\ loadChunkBlock(file.entry, file.indexes, bn) = RangeBlock(rs, bn)
    /\ RangeBlock(file.reported, bn) = RangeBlock(rs, bn)

-----------------------------------------------------------------------------
(* A Writer: inodes are added one after the other, and the ranges of one file; then *)
(* Prepare plans the image, step by step, and it is written.                          *)

ImageInit ==
  /\ options \in Options
  /\ inodes \in {<<Sized(e)>> : e \in {x \in Inodes : x.kind = "dir"}}
  /\ ranges = <<>> /\ plan = <<>> /\ area = <<>> /\ placed = <<>> /\ emitted = <<>>

AddInode(e) ==
  /\ Len(inodes) < MaxInodes /\ ranges = <<>> /\ plan = <<>>
  /\ e.share # 0 => e.share <= Len(inodes) /\ inodes[e.share].shared /\ inodes[e.share].size = e.size
  /\ inodes' = Append(inodes, Sized(e))
  /\ UNCHANGED <<options, ranges, plan, area, placed, emitted>>

AddRange(r) ==
  /\ Len(ranges) < MaxRanges /\ Len(inodes) = 1 /\ plan = <<>>
  /\ ranges' = Append(ranges, r)
  /\ UNCHANGED <<options, inodes, plan, area, placed, emitted>>

Plan ==
  /\ plan = <<>>
  /\ plan' = planLayout(inodes, options.threshold)
  /\ UNCHANGED <<options, inodes, ranges, area, placed, emitted>>

Measure ==
  /\ plan # <<>> /\ area = <<>>
  /\ area' = [metadata |-> metadataBytes(inodes), data |-> DataBlocks(inodes)]
  /\ UNCHANGED <<options, inodes, ranges, plan, placed, emitted>>

Place ==
  /\ area # <<>> /\ placed = <<>>
  /\ LET addr == assignDataBlocks(inodes, options)
     IN  placed' = [addr |-> addr, extents |-> buildExtents(inodes, addr)]
  /\ UNCHANGED <<options, inodes, ranges, plan, area, emitted>>

Emit ==
  /\ placed # <<>> /\ emitted = <<>>
  /\ LET size == FoldLeft(LAMBDA n, r : n + r.size, 0, ranges) IN
       emitted' = [meta |-> writeMetadataInodes(inodes), data |-> writeDataBlocks(inodes, options),
                   root |-> Directory[inodes[1].names],
                   file |-> IF ranges # <<>> /\ RangesAreValid(ranges, size) THEN FileOf(RangeEntry(ranges, size)) ELSE <<>>]
  /\ UNCHANGED <<options, inodes, ranges, plan, area, placed>>

ImageNext == \/ \E e \in Inodes : AddInode(e)
             \/ \E r \in Ranges : AddRange(r)
             \/ Plan \/ Measure \/ Place \/ Emit

ImageTypeOK ==
  /\ options \in Options
  /\ Len(inodes) \in 1 .. MaxInodes
  /\ ranges \in Seq(Ranges) /\ Len(ranges) <= MaxRanges
  /\ plan = <<>> \/ DOMAIN plan = DOMAIN inodes

\* The image the Writer emits is the image the reader reads: every inode is where its
\* number says, in one block; every name of a directory is found and listed; every block of
\* a payload is found at the address it was written to, in the image or in the device; and
\* the extents with their padding tile the data area.  (layout.go, writer.go, erofs.go)
ImageReadsBack ==
  emitted # <<>> =>
    /\ ImageIsRead
    /\ Len(inodes) = 1 => DirectoryReadsBack(inodes[1].names, emitted.root)
    /\ emitted.file # <<>> => RangesAreRead(ranges, emitted.file)

=============================================================================
