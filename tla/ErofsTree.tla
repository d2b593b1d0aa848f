------------------------------ MODULE ErofsTree ------------------------------
(***************************************************************************)
(* The tree an EROFS image is built from: the Writer of pkg/go-erofs.      *)
(*                                                                         *)
(* A Writer is driven by one caller.  The calls of one run are drawn from  *)
(* Ops; each is applied to the Writer's state w as the method applies it:  *)
(* entries are objects that keep their identity when they are overwritten  *)
(* or removed, byPath names the live ones, and hard links and shared       *)
(* payloads are pointers between entries, counted at their target.  The    *)
(* last call, Close or Prepare, converts the tree reachable from the root  *)
(* into the inodes and directory entries of the image; WriteTo then emits  *)
(* what Prepare planned, whatever happened in between.                     *)
(*                                                                         *)
(* A path is a sequence of names, a permission is a token and a payload is *)
(* a sequence of tokens.  How inodes and payloads are placed in the image  *)
(* is the subject of ErofsImage.                                           *)
(***************************************************************************)
EXTENDS Integers, Sequences, FiniteSets, SequencesExt

CONSTANTS
  Ops,        \* the calls the caller may make
  MaxOps,     \* how many of them one run makes
  Options,    \* the options a Writer may be created with
  BlockSize   \* the block size, in payload tokens

VARIABLES w, image, calls

treeVars == <<w, image, calls>>

NoImage == [inodes |-> {}, names |-> {}]

\* An entry as the Writer's methods make it: never removed, nothing pointing at it.
Entry(p, kind, perm) ==
  [path |-> p, kind |-> kind, perm |-> perm, parent |-> 0, data |-> <<>>,
   from |-> 0, size |-> 0, link |-> 0, extraLinks |-> 0, share |-> 0,
   shareRefs |-> 0, nlink |-> 0, chunked |-> FALSE, removed |-> FALSE,
   synthesized |-> FALSE]

Root == 1

\* Create and NewWriter; with a data file the write offset starts at its end.
newWriter(o) ==
  [opts |-> o, stage |-> "open", ok |-> TRUE, file |-> 0,
   ents |-> <<Entry(<<>>, "dir", "default")>>, byPath |-> <<>> :> Root,
   bytes |-> [i \in 1 .. o.start |-> 0]]

Has(v, p) == p \in DOMAIN v.byPath
At(v, p) == v.ents[v.byPath[p]]
Ids(v) == 1 .. Len(v.ents)
Fail(v) == [v EXCEPT !.ok = FALSE]
Open(v) == v.stage = "open"

addChild(v, e) ==
  LET up == IF Has(v, Front(e.path)) THEN v.byPath[Front(e.path)] ELSE Root
  IN [v EXCEPT !.ents = Append(@, [e EXCEPT !.parent = up]),
               !.byPath = (e.path :> Len(v.ents) + 1) @@ @]

\* A directory nobody described: the hook copies its nearest ancestor.
synthesizedDir(v, p, ancestor) ==
  [Entry(p, "dir", IF v.opts.hook THEN v.ents[ancestor].perm ELSE "default")
     EXCEPT !.synthesized = TRUE]

\* The directories above name that are missing, below the nearest one that exists.
ensureParent(v, name) ==
  LET above == [n \in 1 .. Len(name) - 1 |-> SubSeq(name, 1, n)]
      known == {n \in DOMAIN above : Has(v, above[n])} \cup {0}
      first == (CHOOSE n \in known : \A m \in known : m <= n) + 1
  IN FoldLeft(LAMBDA u, p : addChild(u, synthesizedDir(u, p,
                IF Has(u, Front(p)) THEN u.byPath[Front(p)] ELSE Root)),
              v, SubSeq(above, first, Len(above)))

\* checkPath, ensureParent and addChild: how every new entry is registered.
Register(v, e) ==
  IF e.path = <<>> \/ ~Open(v) \/ Has(v, e.path)
  THEN Fail(v) ELSE addChild(ensureParent(v, e.path), e)

resolveHardlink(v, id) == IF v.ents[id].link = 0 THEN id ELSE v.ents[id].link

\* Create opens a file at the current end of the spool or data file.
CreateFile(v, name) ==
  LET u == Register(v, [Entry(name, "file", "default") EXCEPT !.from = Len(v.bytes)])
  IN IF u.ok THEN [u EXCEPT !.file = Len(u.ents)] ELSE u

\* One Write; every byte bears the number of the entry it is written for.
WriteFile(v) == [v EXCEPT !.bytes = Append(@, v.file), !.ents[v.file].size = @ + 1]

Blocks(n) == (n + BlockSize - 1) \div BlockSize

\* File.Close: a data file is padded to a block, and the entry gets its chunks.
CloseFile(v) ==
  LET e == v.ents[v.file]
      pad == IF v.opts.dataFile /\ e.size > 0
             THEN Blocks(Len(v.bytes)) * BlockSize - Len(v.bytes) ELSE 0
  IN [v EXCEPT !.file = 0, !.bytes = @ \o [i \in 1 .. pad |-> 0],
               !.ents[v.file].chunked = v.opts.dataFile /\ e.size > 0,
               !.ents[v.file].from = IF v.opts.dataFile
                 THEN (@ \div BlockSize) * BlockSize ELSE @]

AddFile(v, name, data) ==
  Register(v, [Entry(name, "file", "default") EXCEPT !.data = data, !.size = Len(data)])

MkdirSynthesized(v, name) ==
  IF Has(v, name) THEN v ELSE IF ~Open(v) THEN Fail(v)
  ELSE LET u == ensureParent(v, name) IN addChild(u, synthesizedDir(u, name, u.byPath[Front(name)]))

\* An existing directory is described again in place; the root is always one.
Mkdir(v, name, perm) ==
  IF name = <<>> THEN [v EXCEPT !.ents[Root].perm = perm]
  ELSE IF ~Has(v, name) THEN Register(v, Entry(name, "dir", perm))
  ELSE IF ~Open(v) \/ At(v, name).kind # "dir" THEN Fail(v)
  ELSE [v EXCEPT !.ents[v.byPath[name]].perm = perm, !.ents[v.byPath[name]].synthesized = FALSE]

Symlink(v, name, target) == Register(v, [Entry(name, "symlink", "default") EXCEPT !.data = target])
Mknod(v, name) == Register(v, Entry(name, "device", "default"))

\* Chmod, Chown, Chtimes, Setxattr and SetToken change the entry itself.
Chmod(v, name, perm) ==
  IF Has(v, name) THEN [v EXCEPT !.ents[v.byPath[name]].perm = perm] ELSE Fail(v)
SetNlink(v, name, n) ==
  IF Has(v, name) THEN [v EXCEPT !.ents[v.byPath[name]].nlink = n] ELSE Fail(v)


\* Link's target is the inode behind the old name.
Link(v, old, name) ==
  IF ~Open(v) \/ ~Has(v, old) THEN Fail(v)
  ELSE LET t == resolveHardlink(v, v.byPath[old])
           u == Register(v, [Entry(name, v.ents[t].kind, v.ents[t].perm)
                               EXCEPT !.link = t, !.size = v.ents[t].size])
       IN IF v.ents[t].kind = "dir" \/ ~u.ok THEN Fail(v)
          ELSE [u EXCEPT !.ents[t].extraLinks = @ + 1]

\* Both names are followed to their inodes, the source to the payload it shares.
ShareData(v, src, dst) ==
  IF ~Open(v) \/ ~Has(v, src) \/ ~Has(v, dst) THEN Fail(v)
  ELSE LET s0 == resolveHardlink(v, v.byPath[src])
           s == IF v.ents[s0].share = 0 THEN s0 ELSE v.ents[s0].share
           d == resolveHardlink(v, v.byPath[dst])
       IN IF s = d \/ v.ents[s].kind # "file" \/ v.ents[d].kind # "file"
             \/ v.ents[s].size = 0 \/ v.ents[s].chunked
          THEN Fail(v)
          ELSE [v EXCEPT !.ents[s].shareRefs = @ + 1, !.ents[d].share = s,
                         !.ents[d].size = v.ents[s].size, !.ents[d].data = <<>>,
                         !.ents[d].chunked = FALSE]

checkUnreferenced(v, id) == v.ents[id].extraLinks = 0 /\ v.ents[id].shareRefs = 0

Children(v, id) == {c \in Ids(v) : v.ents[c].parent = id /\ ~v.ents[c].removed}

\* The live entries below an entry.  A child is always younger than its parent.
Subtree(v, id) ==
  FoldLeft(LAMBDA s, c : IF ~v.ents[c].removed /\ v.ents[c].parent \in s
                            /\ (v.ents[c].parent = id \/ v.ents[v.ents[c].parent].kind = "dir")
                         THEN s \cup {c} ELSE s,
           {id}, [i \in 1 .. Len(v.ents) |-> i]) \ {id}

\* remove and removeSubtree: the entries stay, flagged, for those that point at them.
Discard(v, ids) ==
  LET paths == {v.ents[i].path : i \in ids}
  IN [v EXCEPT !.ents = [i \in Ids(v) |-> IF i \in ids THEN [@[i] EXCEPT !.removed = TRUE] ELSE @[i]],
               !.byPath = [p \in DOMAIN @ \ paths |-> @[p]]]
remove(v, p) ==
  IF ~Has(v, p) THEN v
  ELSE LET id == v.byPath[p]
       IN Discard(v, {id} \cup (IF v.ents[id].kind = "dir" THEN Subtree(v, id) ELSE {}))
removeChildren(v, p) == IF Has(v, p) THEN Discard(v, Subtree(v, v.byPath[p])) ELSE v

\* Remove looks for references to the entry and to its direct children.
RemoveEntry(v, name) ==
  IF ~Open(v) \/ name = <<>> \/ ~Has(v, name) THEN Fail(v)
  ELSE LET id == v.byPath[name]
           e == v.ents[id]
           checked == {id} \cup (IF e.kind = "dir" THEN Children(v, id) ELSE {})
           u == IF e.link = 0 THEN v ELSE [v EXCEPT !.ents[e.link].extraLinks = @ - 1]
           x == IF e.share = 0 THEN u ELSE [u EXCEPT !.ents[e.share].shareRefs = @ - 1]
       IN IF \E c \in checked : ~checkUnreferenced(v, c) THEN Fail(v) ELSE remove(x, name)

\* add: an entry that exists is overwritten in place and keeps its tree linkage and,
\* unless it is copied from an image, the counts of what points at it.
add(v, s, fromImage, metadataOnly) ==
  LET fresh == [Entry(s.path, s.kind, s.perm) EXCEPT
                  !.data = s.data, !.size = IF s.kind = "file" THEN Len(s.data) ELSE 0,
                  !.nlink = s.nlink, !.chunked = metadataOnly]
      old == At(v, s.path)
      over == [fresh EXCEPT !.parent = old.parent,
                 !.extraLinks = IF fromImage THEN 0 ELSE old.extraLinks,
                 !.shareRefs = IF fromImage THEN 0 ELSE old.shareRefs]
  IN IF s.path = <<>> THEN [v EXCEPT !.ents[Root].perm = s.perm, !.ents[Root].nlink = s.nlink]
     ELSE IF Has(v, s.path) THEN [v EXCEPT !.ents[v.byPath[s.path]] = over]
     ELSE addChild(IF fromImage THEN v ELSE ensureParent(v, s.path), fresh)

\* CopyFrom walks its source once, whiteouts and entries in the order of the walk.
CopyFrom(v, o) ==
  FoldLeft(LAMBDA u, s :
             IF o.merge /\ s.kind = "whiteout" THEN remove(u, s.path)
             ELSE IF o.merge /\ s.kind = "opaque" THEN removeChildren(u, s.path)
             ELSE add(u, s, o.image, o.metadataOnly),
           v, o.source)

-----------------------------------------------------------------------------
(* The image. *)

\* The entries buildErofsTree reaches: breadth first from the root, through directories.
Converted(v) == {Root} \cup Subtree(v, Root)

\* The payload an inode's data blocks, chunks or symlink target hold.
Payload(v, id) ==
  LET e == v.ents[id]
      d == IF e.share # 0 THEN v.ents[e.share] ELSE e
  IN IF d.kind = "symlink" \/ d.data # <<>> THEN d.data
     ELSE SubSeq(v.bytes, d.from + 1, d.from + d.size)

fsToErofs(v, id) ==
  LET e == v.ents[id]
      dirs == {c \in Children(v, id) : v.ents[c].kind = "dir"}
  IN [id |-> id, kind |-> e.kind, perm |-> e.perm, payload |-> Payload(v, id),
      nlink |-> IF e.nlink # 0 THEN e.nlink
                ELSE IF e.kind = "dir" THEN 2 + Cardinality(dirs) ELSE 1 + e.extraLinks]

\* A pointer to an entry that is not converted fails the conversion, and so does a
\* shared payload that has become chunk based.
Dangling(v) ==
  \E i \in Converted(v) :
    \/ \E t \in {v.ents[i].link, v.ents[i].share} \ {0} : t \notin Converted(v)
    \/ v.ents[i].share # 0 /\ v.ents[v.ents[i].share].chunked

buildErofsTree(v) ==
  [inodes |-> {fsToErofs(v, i) : i \in {j \in Converted(v) : v.ents[j].link = 0}},
   names |-> {<<v.ents[i].path, resolveHardlink(v, i)>> : i \in Converted(v)}]

-----------------------------------------------------------------------------
(* The caller. *)

\* One method call.  A file is written to while it is the one that is open.
Apply(v, o) ==
  CASE o.do = "create" -> CreateFile(v, o.name)
    [] o.do = "write" -> WriteFile(v)
    [] o.do = "closefile" -> CloseFile(v)
    [] o.do = "addfile" -> AddFile(v, o.name, o.data)
    [] o.do = "mkdirsynthesized" -> MkdirSynthesized(v, o.name)
    [] o.do = "mkdir" -> Mkdir(v, o.name, o.perm)
    [] o.do = "symlink" -> Symlink(v, o.name, o.data)
    [] o.do = "mknod" -> Mknod(v, o.name)
    [] o.do = "chmod" -> Chmod(v, o.name, o.perm)
    [] o.do = "nlink" -> SetNlink(v, o.name, o.n)
    [] o.do = "link" -> Link(v, o.old, o.name)
    [] o.do = "share" -> ShareData(v, o.old, o.name)
    [] o.do = "remove" -> RemoveEntry(v, o.name)
    [] o.do = "copy" -> CopyFrom(v, o)

TreeInit ==
  /\ w \in {newWriter(o) : o \in Options}
  /\ image = NoImage
  /\ calls = 0

\* The files of one Writer are written one after the other.
Call(o) ==
  /\ calls < MaxOps /\ w.stage \in {"open", "prepared"}
  /\ IF o.do \in {"write", "closefile"} THEN w.file # 0 ELSE w.file = 0
  /\ w' = Apply([w EXCEPT !.ok = TRUE], o)
  /\ calls' = calls + 1
  /\ UNCHANGED image

\* Close and Prepare convert the tree; what Prepare planned is not planned again.
Finalize ==
  /\ w.stage = "open" /\ w.file = 0
  /\ w' = [w EXCEPT !.stage = IF Dangling(w) THEN "failed"
                              ELSE IF w.opts.prepare THEN "prepared" ELSE "closed"]
  /\ image' = IF Dangling(w) THEN NoImage ELSE buildErofsTree(w)
  /\ UNCHANGED calls

WriteTo ==
  /\ w.stage = "prepared" /\ w.file = 0
  /\ w' = [w EXCEPT !.stage = "closed"]
  /\ UNCHANGED <<image, calls>>

TreeNext == (\E o \in Ops : Call(o)) \/ Finalize \/ WriteTo

-----------------------------------------------------------------------------
(* Properties. *)

\* A name is in the tree when every name above it is a directory.
InTree(v, p) ==
  Has(v, p) /\ \A n \in 0 .. Len(p) - 1 : Has(v, SubSeq(p, 1, n)) /\ At(v, SubSeq(p, 1, n)).kind = "dir"

\* Nothing was ever registered below an entry that is not a directory.
BelowDirectories(v) == \A i \in Ids(v) \ {Root} : v.ents[v.ents[i].parent].kind = "dir"

NamesOf(img, id) == {n \in img.names : n[2] = id}

\* No name of a hard-linked inode was overwritten or went away with its directory.
LinksUntouched(v) ==
  \A t \in Ids(v) : v.ents[t].extraLinks = Cardinality({i \in Ids(v) : v.ents[i].link = t /\ ~v.ents[i].removed})


=============================================================================
