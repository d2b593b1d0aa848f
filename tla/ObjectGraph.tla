---------------------------- MODULE ObjectGraph ----------------------------
(***************************************************************************)
(* The objects a registry holds and what they reference:                   *)
(* pkg/registry/store.go, and the edges a sweep follows in                 *)
(* pkg/registry/collector.go.                                              *)
(*                                                                         *)
(* A member of Manifests stands for a repository and a digest, so two      *)
(* manifests that reference each other are in one repository.  Blobs are   *)
(* keyed by digest alone, as in the code.                                  *)
(***************************************************************************)
EXTENDS FiniteSets

CONSTANTS
    Manifests,   \* manifest keys
    Blobs,       \* blob digests
    Header,      \* the kind the Content-Type a client pushes a manifest with says
    MediaType,   \* the kind the manifest's own mediaType says
    Lists,       \* the manifests named in its "manifests" field
    Layers,      \* the blobs it names as config, layers or other descriptors
    Subject,     \* the manifest it declares as its subject, or NoManifest
    NoManifest

Kinds == {"other", "manifest", "index"}

ASSUME GraphAssumption ==
    /\ IsFiniteSet(Manifests)
    /\ NoManifest \notin Manifests
    /\ Header \in [Manifests -> Kinds]
    /\ MediaType \in [Manifests -> Kinds]
    /\ Lists \in [Manifests -> SUBSET Manifests]
    /\ Layers \in [Manifests -> SUBSET Blobs]
    /\ Subject \in [Manifests -> Manifests \cup {NoManifest}]

\* Faulty variant of Kind: believes the Content-Type before the content.
KindByHeader(m) == IF Header[m] # "other" THEN Header[m] ELSE MediaType[m]

\* kindOf: the manifest's own media type, then its shape, then the header.
Kind(m) ==
    IF MediaType[m] # "other" THEN MediaType[m]
    ELSE IF Lists[m] # {} THEN "index"
    ELSE IF Layers[m] # {} THEN "manifest"
    ELSE Header[m]

\* parseReferences: the child manifests, only an index has them.
Children(m) == IF Kind(m) = "index" THEN Lists[m] ELSE {}

\* parseReferences: the blobs.  A body read as the wrong kind yields nothing.
BlobsOf(m) == IF Kind(m) = "index" \/ Lists[m] = {} THEN Layers[m] ELSE {}

\* Faulty variant of Referrers: the subject edge is not inverted.
ReferrersIgnored(graph, m) == {}

\* The inverse of the subject edge among the manifests of graph.
Referrers(graph, m) == {r \in graph : Subject[r] = m}

\* What marking m adds to the worklist.
Successors(graph, m) == Children(m) \cup Referrers(graph, m)

\* A set of manifests of graph that marking would not extend.
Closed(graph, S) ==
    \A m \in S : \A n \in Successors(graph, m) : n \in graph => n \in S

\* The manifests of graph that are reachable from roots: the least closed set
\* that has every root the graph holds.
Reachable(graph, roots) ==
    {m \in graph : \A S \in SUBSET graph :
        (roots \cap graph \subseteq S /\ Closed(graph, S)) => m \in S}
=============================================================================
