----------------------------- MODULE LayerTree -----------------------------
(***************************************************************************)
(* The mtree of an image (pkg/mtree/mtree.go): the entries of the layers   *)
(* are collected in order and, for the layout                              *)
(* oci_layer_filesystem_applied_changeset, applied to an in-memory tree.   *)
(*                                                                         *)
(* A path is a sequence of names.  An entry is [path, kind, target, input]:*)
(* kind is "file", "dir", "link" (a hardlink to target), "whiteout" of the *)
(* path or "opaque" for the directory at the path, input the layer.  A     *)
(* node of the tree names the entry its keywords come from, 0 for a        *)
(* synthesized directory.  Next to the tree goes the filesystem the OCI    *)
(* rules for layers give.                                                  *)
(***************************************************************************)
EXTENDS Integers, Sequences, FiniteSets

CONSTANTS
    Entries,    \* the [path, kind, target] an entry may be
    MaxEntries,
    MaxInputs

VARIABLES
    collected, \* the entries so far
    input,     \* the layer being read
    tree,      \* path -> [entry, dir, source], with what lies below a node that was a
               \* directory once
    fs         \* path -> [from, dir, source]: the filesystem of the layers so far, from
               \* being the entry with the content

treeVars == <<collected, input, tree, fs>>

Prefixes(p) == {SubSeq(p, 1, n) : n \in 1..(Len(p) - 1)}
Below(p, q) == Len(q) > Len(p) /\ SubSeq(q, 1, Len(p)) = p
Under(p, q) == p = q \/ Below(p, q)
Without(f, paths) == [q \in DOMAIN f \ paths |-> f[q]]
Put(f, p, node) == [q \in DOMAIN f \cup {p} |-> IF q = p THEN node ELSE f[q]]

-----------------------------------------------------------------------------
(* mtree.go *)

\* ensureDir: a missing directory is synthesized; what is no directory becomes one and
\* loses what it had below it.
ensureDir(t, dirs, layer) ==
    LET converted == {d \in dirs \cap DOMAIN t : ~t[d].dir}
        lost == {q \in DOMAIN t : \E d \in converted : Below(d, q)}
        made == converted \cup (dirs \ DOMAIN t) \cup (lost \cap dirs)
        kept == Without(t, lost)
    IN [q \in DOMAIN kept \cup made |->
            IF q \in made THEN [entry |-> 0, dir |-> TRUE, source |-> layer] ELSE kept[q]]

\* removeLowerLayerEntries below dir: what lower layers put there goes, but for the
\* directories above an entry that stays.
removeLowerLayerEntries(t, dir, layer) ==
    Without(t, {q \in DOMAIN t : Below(dir, q) /\ \A r \in DOMAIN t : Under(q, r) => t[r].source < layer})

\* One entry of writeChangeset.
Apply(t, e, i) ==
    LET parents == ensureDir(t, Prefixes(e.path), e.input)
        dir == ensureDir(t, Prefixes(e.path) \cup {e.path}, e.input)
    IN IF e.kind = "opaque" THEN removeLowerLayerEntries(dir, e.path, e.input)
       ELSE IF e.kind = "whiteout"
       THEN Without(parents, {q \in DOMAIN parents : Under(e.path, q)})
       ELSE Put(parents, e.path, [entry |-> i, dir |-> e.kind = "dir", source |-> e.input])

\* collectNodes: what is below a node that is no directory is not listed.
Listed(t) == {q \in DOMAIN t : \A p \in Prefixes(q) : t[p].dir}

\* groupHardlinks: the last file of any layer under the name is what a link is a copy
\* of; a link without one is rendered from its own header.
materialize(i) ==
    LET files == {j \in DOMAIN collected :
                    collected[j].kind = "file" /\ collected[j].path = collected[i].target}
    IN IF i = 0 \/ collected[i].kind # "link" \/ files = {} THEN i
       ELSE CHOOSE j \in files : \A k \in files : k <= j

-----------------------------------------------------------------------------
(* The OCI rules: a layer's whiteouts hide what the layers below it have, an entry *)
(* replaces what was there, and a link shares the file its target is at that time. *)

Hide(f, paths, layer) ==
    Without(f, {q \in paths : \A r \in DOMAIN f : Under(q, r) => f[r].source < layer})
MakeDirs(f, dirs, layer) ==
    LET files == {d \in dirs \cap DOMAIN f : ~f[d].dir}
        made == files \cup (dirs \ DOMAIN f)
    IN [q \in DOMAIN f \cup made |->
            IF q \in made THEN [from |-> 0, dir |-> TRUE, source |-> layer] ELSE f[q]]
Extract(f, e, i) ==
    LET parents == MakeDirs(f, Prefixes(e.path), e.input)
        dir == MakeDirs(f, Prefixes(e.path) \cup {e.path}, e.input)
        cleared == IF e.kind = "dir" THEN parents
                   ELSE Without(parents, {q \in DOMAIN parents : Below(e.path, q)})
    IN IF e.kind = "opaque" THEN Hide(dir, {q \in DOMAIN dir : Below(e.path, q)}, e.input)
       ELSE IF e.kind = "whiteout" THEN Hide(parents, {q \in DOMAIN parents : Under(e.path, q)}, e.input)
       ELSE Put(cleared, e.path,
                [from |-> IF e.kind = "link" THEN f[e.target].from ELSE i,
                 dir |-> e.kind = "dir", source |-> e.input])

-----------------------------------------------------------------------------
\* The next entry of the layer, collected and applied.  A link is to a file there is.
NextEntry(e) ==
    LET entry == [path |-> e.path, kind |-> e.kind, target |-> e.target, input |-> input]
        i == Len(collected) + 1
    IN /\ Len(collected) < MaxEntries
       /\ e.kind = "link" => e.target \in DOMAIN fs /\ ~fs[e.target].dir
       /\ collected' = Append(collected, entry)
       /\ tree' = Apply(tree, entry, i)
       /\ fs' = Extract(fs, entry, i)
       /\ UNCHANGED input

NextInput ==
    /\ input < MaxInputs /\ collected # <<>> /\ collected[Len(collected)].input = input
    /\ input' = input + 1
    /\ UNCHANGED <<collected, tree, fs>>

MtreeInit == collected = <<>> /\ input = 1 /\ tree = <<>> /\ fs = <<>>
MtreeNext == NextInput \/ \E e \in Entries : NextEntry(e)

-----------------------------------------------------------------------------
MtreeTypeOK ==
    /\ input \in 1..MaxInputs /\ Len(collected) <= MaxEntries
    /\ \A q \in DOMAIN tree : tree[q].entry \in 0..Len(collected) /\ tree[q].source \in 1..input

\* The layers the mtree is right about: no whiteout comes after an entry of its own
\* layer it would hide, no directory takes the place of a file that took the place of a
\* directory, and a link's target is written once, before the link.
At(i, j) == collected[i].path = collected[j].path
SpecifiedLayers ==
    /\ \A i, j \in DOMAIN collected :
        collected[j].kind = "whiteout" /\ collected[i].input = collected[j].input /\ i < j
            => ~Under(collected[j].path, collected[i].path)
    /\ \A i, j, k \in DOMAIN collected :
        i < j /\ j < k /\ At(j, k) /\ Below(collected[j].path, collected[i].path)
            => collected[j].kind \notin {"file", "link"} \/ collected[k].kind # "dir"
    /\ \A i, j \in DOMAIN collected :
        collected[j].kind = "link" /\ collected[i].path = collected[j].target => i < j
    /\ \A i, j, k \in DOMAIN collected :
        collected[k].kind = "link" /\ collected[i].path = collected[k].target /\ At(i, j) => i = j

\* The mtree lists the filesystem the layers make: the same paths, the same
\* directories, and every file with the metadata of the entry that wrote its content.
\* mtree.go: "applies every input (tar and mtree) to an in-memory filesystem as an OCI
\* changeset".
AsApplied ==
    /\ Listed(tree) = DOMAIN fs
    /\ \A q \in Listed(tree) : tree[q].dir = fs[q].dir /\ materialize(tree[q].entry) = fs[q].from
ChangesetIsApplied == SpecifiedLayers => AsApplied
=============================================================================
