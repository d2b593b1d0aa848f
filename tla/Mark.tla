------------------------------- MODULE Mark -------------------------------
(***************************************************************************)
(* The mark loop of markLocked, pkg/registry/collector.go: a stack of      *)
(* manifests still to visit and the set of those already marked.  The      *)
(* graph may have cycles, and roots and edges may name manifests it does   *)
(* not hold.  Proved at the end: the loop marks exactly the reachable      *)
(* manifests, for every graph.                                             *)
(***************************************************************************)
EXTENDS ObjectGraph, Naturals, Sequences, FiniteSetTheorems, TLAPS

VARIABLES
    graph,      \* the manifests the store held when the sweep looked
    roots,      \* the manifests the loop started from
    worklist,   \* manifests still to visit
    seen        \* live.manifests

vars == <<graph, roots, worklist, seen>>

\* The orders a Go map or slice may yield the members of a set in.
Orders(S) == {o \in [1..Cardinality(S) -> S] : \A x \in S : \E i \in DOMAIN o : o[i] = x}

\* Mark key: remember it, then push its children and its referrers.
Visit(key, rest) ==
    \E children \in Orders(Children(key)), referrers \in Orders(Referrers(graph, key)) :
        /\ seen' = seen \cup {key}
        /\ worklist' = rest \o children \o referrers

\* Faulty variant of Step: marks what the store does not hold.
StepMarksDangling ==
    /\ worklist # << >>
    /\ LET key  == worklist[Len(worklist)]
           rest == SubSeq(worklist, 1, Len(worklist) - 1)
       IN IF key \in seen
          THEN worklist' = rest /\ UNCHANGED seen
          ELSE Visit(key, rest)
    /\ UNCHANGED <<graph, roots>>

\* One iteration of the loop.
Step ==
    /\ worklist # << >>
    /\ LET key  == worklist[Len(worklist)]
           rest == SubSeq(worklist, 1, Len(worklist) - 1)
       IN IF key \in seen \/ key \notin graph
          THEN worklist' = rest /\ UNCHANGED seen
          ELSE Visit(key, rest)
    /\ UNCHANGED <<graph, roots>>

Init ==
    /\ graph \in SUBSET Manifests
    /\ roots \in SUBSET Manifests
    /\ worklist \in Orders(roots)
    /\ seen = {}

Next == Step

\* The loop is one goroutine that runs until the worklist is empty.
Spec == Init /\ [][Next]_vars /\ WF_vars(Next)

-----------------------------------------------------------------------------
Elements(s) == {s[i] : i \in DOMAIN s}

Pending == Elements(worklist)

\* The state of the loop is well formed.
TypeOK ==
    /\ graph \subseteq Manifests
    /\ roots \subseteq Manifests
    /\ worklist \in Seq(Manifests)
    /\ seen \subseteq Manifests

\* The loop is never ahead of or behind its goal: it has marked and will mark
\* nothing unreachable, and every root and every edge it has not followed yet is
\* on the worklist.
MarkInProgress ==
    /\ seen \cup (Pending \cap graph) \subseteq Reachable(graph, roots)
    /\ roots \cap graph \subseteq seen \cup Pending
    /\ \A m \in seen : \A n \in Successors(graph, m) : n \in graph => n \in seen \cup Pending

\* When the loop ends it has marked exactly the manifests reachable from the
\* roots over child and referrer edges: what the sweep keeps.
MarksExactlyReachable ==
    worklist = << >> => seen = Reachable(graph, roots)

-----------------------------------------------------------------------------
(* Proofs *)

\* Reachable(graph, roots) has the roots the graph holds and nothing outside it.
LEMMA ReachableHasRoots ==
    ASSUME NEW G, NEW R
    PROVE  /\ Reachable(G, R) \subseteq G
           /\ R \cap G \subseteq Reachable(G, R)
  BY DEF Reachable

\* Reachable(graph, roots) is closed under child and referrer edges.
LEMMA ReachableIsClosed ==
    ASSUME NEW G, NEW R
    PROVE  Closed(G, Reachable(G, R))
<1> SUFFICES ASSUME NEW m \in Reachable(G, R), NEW n \in Successors(G, m), n \in G
             PROVE  n \in Reachable(G, R)
  BY DEF Closed
<1>1. SUFFICES ASSUME NEW S \in SUBSET G, R \cap G \subseteq S, Closed(G, S)
               PROVE  n \in S
  BY DEF Reachable
<1>2. m \in S
  BY <1>1 DEF Reachable
<1> QED
  BY <1>1, <1>2 DEF Closed

\* Reachable(graph, roots) is the least such set.
LEMMA ReachableIsLeast ==
    ASSUME NEW G, NEW R, NEW S \in SUBSET G, R \cap G \subseteq S, Closed(G, S)
    PROVE  Reachable(G, R) \subseteq S
  BY DEF Reachable

\* The elements of a concatenation are the elements of its parts.
LEMMA ElementsOfConcat ==
    ASSUME NEW T, NEW s \in Seq(T), NEW t \in Seq(T)
    PROVE  /\ s \o t \in Seq(T)
           /\ Elements(s \o t) = Elements(s) \cup Elements(t)
<1>1. s \o t \in Seq(T) /\ Len(s \o t) = Len(s) + Len(t)
  OBVIOUS
<1>2. \A i \in 1..Len(s) : (s \o t)[i] = s[i]
  OBVIOUS
<1>3. \A i \in 1..Len(t) : (s \o t)[Len(s) + i] = t[i]
  OBVIOUS
<1>4. DOMAIN s = 1..Len(s) /\ DOMAIN t = 1..Len(t) /\ DOMAIN (s \o t) = 1..(Len(s) + Len(t))
  BY <1>1
<1>5. ASSUME NEW i \in DOMAIN (s \o t)
      PROVE  (s \o t)[i] \in {s[j] : j \in DOMAIN s} \cup {t[j] : j \in DOMAIN t}
  <2>1. CASE i <= Len(s)
    <3>1. i \in DOMAIN s /\ (s \o t)[i] = s[i]
      BY <1>2, <1>4, <2>1
    <3> QED
      BY <3>1
  <2>2. CASE ~(i <= Len(s))
    <3>1. i - Len(s) \in DOMAIN t /\ Len(s) + (i - Len(s)) = i
      BY <1>4, <2>2
    <3>2. (s \o t)[i] = t[i - Len(s)]
      BY <1>3, <1>4, <3>1
    <3> QED
      BY <3>1, <3>2
  <2> QED
    BY <2>1, <2>2
<1>6. ASSUME NEW i \in DOMAIN s
      PROVE  s[i] \in {(s \o t)[j] : j \in DOMAIN (s \o t)}
  <2>1. i \in DOMAIN (s \o t) /\ (s \o t)[i] = s[i]
    BY <1>2, <1>4
  <2> QED
    BY <2>1
<1>7. ASSUME NEW i \in DOMAIN t
      PROVE  t[i] \in {(s \o t)[j] : j \in DOMAIN (s \o t)}
  <2>1. Len(s) + i \in DOMAIN (s \o t) /\ (s \o t)[Len(s) + i] = t[i]
    BY <1>3, <1>4
  <2> QED
    BY <2>1
<1> QED
  BY <1>1, <1>5, <1>6, <1>7 DEF Elements

\* Popping the last element leaves a sequence, and every other element.
LEMMA ElementsOfPop ==
    ASSUME NEW T, NEW s \in Seq(T), s # << >>
    PROVE  LET key  == s[Len(s)]
               rest == SubSeq(s, 1, Len(s) - 1)
           IN  /\ key \in T
               /\ rest \in Seq(T)
               /\ Elements(s) = Elements(rest) \cup {key}
<1> DEFINE key  == s[Len(s)]
           rest == SubSeq(s, 1, Len(s) - 1)
<1>1. Len(s) \in Nat \ {0} /\ DOMAIN s = 1..Len(s)
  OBVIOUS
<1>2. key \in T
  BY <1>1
<1>3. rest \in Seq(T) /\ Len(rest) = Len(s) - 1
  BY <1>1
<1>4. \A i \in 1..(Len(s) - 1) : rest[i] = s[i]
  BY <1>1
<1>5. DOMAIN rest = 1..(Len(s) - 1)
  BY <1>1, <1>3
<1>6. \A i \in DOMAIN s : i = Len(s) \/ i \in DOMAIN rest
  BY <1>1, <1>5
<1>7. \A i \in DOMAIN rest : i \in DOMAIN s /\ rest[i] = s[i]
  BY <1>1, <1>4, <1>5
<1>8. Len(s) \in DOMAIN s
  BY <1>1
<1> HIDE DEF key, rest
<1>9. Elements(s) = Elements(rest) \cup {s[Len(s)]}
  BY <1>6, <1>7, <1>8 DEF Elements
<1> QED
  BY <1>2, <1>3, <1>9 DEF key, rest

\* An ordering of a set of manifests is a sequence with exactly its members.
LEMMA OrdersFacts ==
    ASSUME NEW S \in SUBSET Manifests, Cardinality(S) \in Nat, NEW o \in Orders(S)
    PROVE  o \in Seq(Manifests) /\ Elements(o) = S
<1>1. o \in [1..Cardinality(S) -> S] /\ \A x \in S : \E i \in DOMAIN o : o[i] = x
  BY DEF Orders
<1>2. o \in Seq(S)
  BY <1>1
<1>3. o \in Seq(Manifests)
  BY <1>2
<1> QED
  BY <1>1, <1>3 DEF Elements

\* The sets the loop orders are sets of manifests.
LEMMA SuccessorTypes ==
    ASSUME NEW G \in SUBSET Manifests, NEW m \in Manifests
    PROVE  /\ Children(m) \in SUBSET Manifests
           /\ Referrers(G, m) \in SUBSET Manifests
  BY GraphAssumption DEF Children, Referrers

\* Every set of manifests has a cardinality.
LEMMA SubsetCardinality ==
    ASSUME NEW S \in SUBSET Manifests
    PROVE  Cardinality(S) \in Nat
  BY GraphAssumption, FS_Subset, FS_CardinalityType

Inv == TypeOK /\ MarkInProgress

\* The loop starts with the roots on the worklist.
LEMMA InitInv == Init => Inv
<1> SUFFICES ASSUME Init PROVE Inv
  OBVIOUS
<1>1. roots \in SUBSET Manifests /\ worklist \in Orders(roots) /\ seen = {} /\ graph \subseteq Manifests
  BY DEF Init
<1>2. worklist \in Seq(Manifests) /\ Pending = roots
  BY <1>1, SubsetCardinality, OrdersFacts DEF Pending
<1> QED
  BY <1>1, <1>2, ReachableHasRoots DEF Inv, TypeOK, MarkInProgress

\* An iteration keeps what is marked reachable, and what is not followed pending.
LEMMA StepInv == Inv /\ [Next]_vars => Inv'
<1> SUFFICES ASSUME Inv, [Next]_vars PROVE Inv'
  OBVIOUS
<1>1. CASE UNCHANGED vars
  BY <1>1 DEF Inv, TypeOK, MarkInProgress, Pending, vars
<1>2. CASE Step
  <2> DEFINE key  == worklist[Len(worklist)]
             rest == SubSeq(worklist, 1, Len(worklist) - 1)
             Rest == Elements(rest)
  <2>1. worklist \in Seq(Manifests) /\ worklist # << >> /\ graph \in SUBSET Manifests
    BY <1>2 DEF Step, Inv, TypeOK
  <2>2. key \in Manifests /\ rest \in Seq(Manifests) /\ Pending = Rest \cup {key}
    BY <2>1, ElementsOfPop DEF Pending
  <2>3. UNCHANGED <<graph, roots>>
    BY <1>2 DEF Step
  <2>4. (worklist' = rest /\ seen' = seen /\ (key \in seen \/ key \notin graph))
        \/ (key \notin seen /\ key \in graph /\ Visit(key, rest))
    BY <1>2 DEF Step
  <2> HIDE DEF key, rest
  <2>5. CASE worklist' = rest /\ seen' = seen /\ (key \in seen \/ key \notin graph)
    <3>1. Pending' = Rest
      BY <2>5 DEF Pending
    <3>2. TypeOK'
      BY <2>2, <2>3, <2>5 DEF Inv, TypeOK
    <3>3. MarkInProgress'
      <4>1. (seen \cup (Pending \cap graph) \subseteq Reachable(graph, roots))'
        BY <2>2, <2>3, <2>5, <3>1 DEF Inv, MarkInProgress
      <4>2. (roots \cap graph \subseteq seen \cup Pending)'
        BY <2>2, <2>3, <2>5, <3>1 DEF Inv, MarkInProgress
      <4>3. ASSUME NEW m \in seen', NEW n \in Successors(graph', m), n \in graph'
            PROVE  n \in seen' \cup Pending'
        BY <2>2, <2>3, <2>5, <3>1, <4>3 DEF Inv, MarkInProgress
      <4> QED
        BY <4>1, <4>2, <4>3 DEF MarkInProgress
    <3> QED
      BY <3>2, <3>3 DEF Inv
  <2>6. CASE key \notin seen /\ key \in graph /\ Visit(key, rest)
    <3>1. PICK children \in Orders(Children(key)), referrers \in Orders(Referrers(graph, key)) :
             seen' = seen \cup {key} /\ worklist' = rest \o children \o referrers
      BY <2>6 DEF Visit
    <3>2. /\ children \in Seq(Manifests) /\ Elements(children) = Children(key)
          /\ referrers \in Seq(Manifests)
          /\ Elements(referrers) = Referrers(graph, key)
      BY <2>1, <2>2, SuccessorTypes, SubsetCardinality, OrdersFacts
    <3> DEFINE mid == rest \o children
    <3>3. mid \in Seq(Manifests) /\ Elements(mid) = Rest \cup Children(key)
      BY <2>2, <3>2, ElementsOfConcat
    <3> HIDE DEF mid
    <3>4. /\ mid \o referrers \in Seq(Manifests)
          /\ Elements(mid \o referrers) = Rest \cup Children(key) \cup Referrers(graph, key)
      BY <3>2, <3>3, ElementsOfConcat
    <3>5. worklist' = mid \o referrers
      BY <3>1 DEF mid
    <3>6. worklist' \in Seq(Manifests) /\ Pending' = Rest \cup Successors(graph, key)
      BY <3>4, <3>5 DEF Pending, Successors
    <3>7. TypeOK'
      BY <2>2, <2>3, <3>1, <3>6 DEF Inv, TypeOK
    <3>8. key \in Reachable(graph, roots)
      BY <2>2, <2>6 DEF Inv, MarkInProgress
    <3>9. \A n \in Successors(graph, key) : n \in graph => n \in Reachable(graph, roots)
      BY <3>8, ReachableIsClosed DEF Closed
    <3>10. MarkInProgress'
      <4>1. (seen \cup (Pending \cap graph) \subseteq Reachable(graph, roots))'
        BY <2>2, <2>3, <3>1, <3>6, <3>8, <3>9 DEF Inv, MarkInProgress
      <4>2. (roots \cap graph \subseteq seen \cup Pending)'
        BY <2>2, <2>3, <3>1, <3>6 DEF Inv, MarkInProgress
      <4>3. ASSUME NEW m \in seen', NEW n \in Successors(graph', m), n \in graph'
            PROVE  n \in seen' \cup Pending'
        BY <2>2, <2>3, <3>1, <3>6, <4>3 DEF Inv, MarkInProgress
      <4> QED
        BY <4>1, <4>2, <4>3 DEF MarkInProgress
    <3> QED
      BY <3>7, <3>10 DEF Inv
  <2> QED
    BY <2>4, <2>5, <2>6
<1> QED
  BY <1>1, <1>2 DEF Next

\* The loop of markLocked keeps its bookkeeping: what is marked is reachable,
\* and what is reachable is marked or will be reached from the worklist.
THEOREM MarkInvariant == Spec => []Inv
<1> QED
  BY InitInv, StepInv, PTL DEF Spec

\* markLocked computes reachability: when the worklist is empty, the marked
\* manifests are exactly those reachable from the roots over child and referrer
\* edges, for every graph, with cycles and with edges to manifests not held.
THEOREM MarkIsExact == Spec => []MarksExactlyReachable
<1>1. Inv => MarksExactlyReachable
  <2> SUFFICES ASSUME Inv, worklist = << >> PROVE seen = Reachable(graph, roots)
    BY DEF MarksExactlyReachable
  <2>1. Pending = {}
    BY DEF Pending, Elements
  <2>2. seen \in SUBSET graph
    BY <2>1, ReachableHasRoots DEF Inv, MarkInProgress
  <2>3. roots \cap graph \subseteq seen /\ Closed(graph, seen)
    BY <2>1 DEF Inv, MarkInProgress, Closed
  <2>4. Reachable(graph, roots) \subseteq seen
    BY <2>2, <2>3, ReachableIsLeast
  <2> QED
    BY <2>4 DEF Inv, MarkInProgress
<1> QED
  BY <1>1, MarkInvariant, PTL
=============================================================================
