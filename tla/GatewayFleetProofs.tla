------------------------- MODULE GatewayFleetProofs -------------------------
(***************************************************************************)
(* Proofs about GatewayFleet for every number of instances, clients, blobs *)
(* and every depth, batch size and lag.                                    *)
(***************************************************************************)
EXTENDS GatewayFleetSteps, FiniteSetTheorems, FunctionTheorems, WellFoundedInduction

-----------------------------------------------------------------------------
(***************************************************************************)
(* Induction, without an operator as a parameter: over the sets of numbers *)
(* that have a property.                                                   *)
(***************************************************************************)

\* Every nonempty set of natural numbers has a least element.
LEMMA LeastNumber ==
    ASSUME NEW T \in SUBSET Nat, T # {}
    PROVE  \E x \in T : \A y \in T : x <= y
<1> DEFINE R == OpToRel(<, Nat)
<1>1. IsWellFoundedOn(R, Nat)
  BY Zenon, NatLessThanWellFounded
<1>2. \A x, y \in Nat : <<y, x>> \in R <=> y < x
  BY Zenon DEF OpToRel
<1> HIDE DEF R
<1>3. PICK x \in T : \A y \in T : ~(<<y, x>> \in R)
  BY Zenon, <1>1, WFMin
<1>4. \A y \in T : ~(y < x)
  BY Zenon, <1>2, <1>3
<1> QED
  BY <1>3, <1>4

\* A set that holds 0 and, with a number below N, the next one, holds 0 .. N.
LEMMA UpTo ==
    ASSUME NEW N \in Nat, NEW S, 0 \in S,
           \A n \in Nat : n < N /\ n \in S => n + 1 \in S
    PROVE  \A n \in 0 .. N : n \in S
<1> DEFINE T == {n \in 0 .. N : n \notin S}
<1> SUFFICES ASSUME T # {}
             PROVE  FALSE
  BY Zenon
<1>1. T \in SUBSET Nat
  OBVIOUS
<1>2. PICK x \in T : \A y \in T : x <= y
  BY Zenon, <1>1, LeastNumber
<1>3. x \in Nat /\ x # 0 /\ x <= N /\ x \notin S
  OBVIOUS
<1>4. x - 1 \in Nat /\ x - 1 < N /\ x - 1 \notin T /\ (x - 1) + 1 = x
  BY <1>2, <1>3
<1>5. x - 1 \in S
  BY <1>3, <1>4
<1> QED
  BY Zenon, <1>3, <1>4, <1>5

\* The values v goes through when it is changed N times.
Runs(V, v, N, step) ==
    {f \in [0 .. N -> V] : f[0] = v /\ \A n \in 1 .. N : f[n] = step[<<f[n - 1], n>>]}

\* A value can be changed step by step, any number of times.
LEMMA StepByStep ==
    ASSUME NEW V, NEW v \in V, NEW N \in Nat, NEW step \in [V \X (1 .. N) -> V]
    PROVE  Runs(V, v, N, step) # {}
<1> DEFINE Run(k) == {f \in [0 .. k -> V] :
                         f[0] = v /\ \A n \in 1 .. k : f[n] = step[<<f[n - 1], n>>]}
           S == {k \in 0 .. N : Run(k) # {}}
<1>1. 0 \in S
  <2>1. [n \in 0 .. 0 |-> v] \in Run(0)
    OBVIOUS
  <2> QED
    BY <2>1
<1>2. ASSUME NEW k \in Nat, k < N, k \in S
      PROVE  k + 1 \in S
  <2>1. PICK f : f \in Run(k)
    BY Zenon, <1>2
  <2> DEFINE x == step[<<f[k], k + 1>>]
             h == [n \in 0 .. k + 1 |-> IF n = k + 1 THEN x ELSE f[n]]
  <2>2. f \in [0 .. k -> V] /\ f[0] = v /\ \A n \in 1 .. k : f[n] = step[<<f[n - 1], n>>]
    BY Zenon, <2>1
  <2>3. f[k] \in V /\ k + 1 \in 1 .. N
    BY <1>2, <2>2
  <2>4. x \in V
    BY Zenon, <2>3
  <2> HIDE DEF x
  <2>5. h \in [0 .. k + 1 -> V] /\ h[0] = v
    BY <2>2, <2>4
  <2>6. ASSUME NEW n \in 1 .. k + 1
        PROVE  h[n] = step[<<h[n - 1], n>>]
    <3>1. CASE n = k + 1
      <4>1. h[n] = x /\ h[n - 1] = f[k]
        BY <3>1
      <4> QED
        BY Zenon, <3>1, <4>1 DEF x
    <3>2. CASE n # k + 1
      <4>1. n \in 1 .. k /\ h[n] = f[n] /\ h[n - 1] = f[n - 1]
        BY <3>2
      <4> QED
        BY Zenon, <2>2, <4>1
    <3> QED
      BY Zenon, <3>1, <3>2
  <2>7. h \in Run(k + 1)
    BY Zenon, <2>5, <2>6
  <2>8. k + 1 \in 0 .. N
    BY <1>2
  <2> QED
    BY Zenon, <2>7, <2>8
<1> HIDE DEF S
<1>3. N \in 0 .. N /\ \A n \in 0 .. N : n \in S
  BY <1>1, <1>2, UpTo
<1>4. Run(N) # {}
  BY Zenon, <1>3 DEF S
<1> QED
  BY Zenon, <1>4 DEF Runs

-----------------------------------------------------------------------------
(***************************************************************************)
(* apply and dedupeEvents.                                                 *)
(***************************************************************************)

\* What one event leaves of a cache.
After(entries, e) == [entries EXCEPT ![e.blob] = IF e.deleted THEN 0 ELSE TTL]

LEMMA AfterFacts ==
    ASSUME NEW entries \in Lifetimes, NEW e \in EventType
    PROVE  /\ After(entries, e) \in Lifetimes
           /\ After(entries, e)[e.blob] = IF e.deleted THEN 0 ELSE TTL
           /\ \A b \in Blobs : b # e.blob => After(entries, e)[b] = entries[b]
BY Numbers DEF After, Lifetimes, EventType

\* apply goes through the batch event by event: the function its loop computes.
LEMMA OutcomeSteps ==
    ASSUME NEW entries \in Lifetimes, NEW events \in Seq(EventType)
    PROVE  \E f \in [0 .. Len(events) -> Lifetimes] :
              /\ f[0] = entries
              /\ \A n \in 1 .. Len(events) : f[n] = After(f[n - 1], events[n])
              /\ Outcome(entries, events) = f[Len(events)]
<1> DEFINE N == Len(events)
           step == [x \in Lifetimes \X (1 .. N) |-> After(x[1], events[x[2]])]
           P(f) == f = [n \in 0 .. N |-> IF n = 0 THEN entries ELSE After(f[n - 1], events[n])]
<1>1. N \in Nat /\ \A n \in 1 .. N : events[n] \in EventType
  OBVIOUS
<1>2. step \in [Lifetimes \X (1 .. N) -> Lifetimes]
  <2>1. \A x \in Lifetimes \X (1 .. N) : After(x[1], events[x[2]]) \in Lifetimes
    BY Zenon, <1>1, AfterFacts
  <2> QED
    BY Zenon, <2>1
<1>3. PICK f \in [0 .. N -> Lifetimes] :
         f[0] = entries /\ \A n \in 1 .. N : f[n] = step[<<f[n - 1], n>>]
  <2>1. N \in Nat
    BY Zenon, <1>1
  <2> HIDE DEF step, N
  <2>2. Runs(Lifetimes, entries, N, step) # {}
    BY Zenon, <1>2, <2>1, StepByStep
  <2> QED
    BY Zenon, <2>2 DEF Runs
<1>4. ASSUME NEW n \in 1 .. N
      PROVE  f[n - 1] \in Lifetimes /\ step[<<f[n - 1], n>>] = After(f[n - 1], events[n])
  <2>1. n - 1 \in 0 .. N
    BY <1>1
  <2>2. f[n - 1] \in Lifetimes
    BY Zenon, <1>3, <2>1
  <2> DEFINE x == <<f[n - 1], n>>
  <2>3. x \in Lifetimes \X (1 .. N) /\ x[1] = f[n - 1] /\ x[2] = n
    BY Zenon, <2>2
  <2> HIDE DEF x
  <2>4. step[x] = After(x[1], events[x[2]])
    BY Zenon, <2>3
  <2> QED
    BY ZenonT(40), <2>2, <2>3, <2>4 DEF x
<1>5. \A n \in 1 .. N : f[n] = After(f[n - 1], events[n])
  BY Zenon, <1>3, <1>4
<1> HIDE DEF step
<1>6. P(f)
  <2> DEFINE h == [n \in 0 .. N |-> IF n = 0 THEN entries ELSE After(f[n - 1], events[n])]
  <2>1. ASSUME NEW n \in 0 .. N
        PROVE  f[n] = h[n]
    <3>1. CASE n = 0
      BY Zenon, <1>3, <3>1
    <3>2. CASE n # 0
      <4>1. n \in 1 .. N
        BY <1>1, <3>2
      <4> QED
        BY Zenon, <1>5, <3>2, <4>1
    <3> QED
      BY Zenon, <3>1, <3>2
  <2>2. DOMAIN f = 0 .. N /\ DOMAIN h = 0 .. N /\ f = [n \in 0 .. N |-> f[n]]
    BY Zenon, <1>3
  <2>3. f = h
    BY Zenon, <2>1, <2>2
  <2> QED
    BY Zenon, <2>3
<1> DEFINE F == CHOOSE g : P(g)
<1>7. P(F)
  BY Zenon, <1>6
<1>8. Outcome(entries, events) = F[N]
  BY Zenon DEF Outcome, After
<1> HIDE DEF F
<1>9. DOMAIN F = 0 .. N /\ F[0] = entries /\ \A n \in 1 .. N : F[n] = After(F[n - 1], events[n])
  BY <1>1, <1>7
<1>10. \A n \in 0 .. N : n \in {k \in 0 .. N : F[k] = f[k]}
  <2> DEFINE S == {k \in 0 .. N : F[k] = f[k]}
  <2>1. 0 \in S
    BY <1>1, <1>3, <1>9
  <2>2. ASSUME NEW n \in Nat, n < N, n \in S
        PROVE  n + 1 \in S
    <3>1. n + 1 \in 1 .. N /\ (n + 1) - 1 = n /\ F[n] = f[n]
      BY <1>1, <2>2
    <3>2. F[n + 1] = After(F[n], events[n + 1]) /\ f[n + 1] = After(f[n], events[n + 1])
      BY Zenon, <1>5, <1>9, <3>1
    <3> QED
      BY <3>1, <3>2
  <2> HIDE DEF S
  <2>3. \A n \in 0 .. N : n \in S
    BY ZenonT(40), <1>1, <2>1, <2>2, UpTo
  <2> QED
    BY Zenon, <2>3 DEF S
<1>11. Outcome(entries, events) = f[N]
  BY SMTT(30), <1>1, <1>8, <1>10
<1> QED
  BY ZenonT(40), <1>3, <1>5, <1>11

\* The last event of a blob wins, and a blob without one keeps its entry.
LEMMA OutcomeFacts ==
    ASSUME NEW entries \in Lifetimes, NEW events \in Seq(EventType)
    PROVE  /\ Outcome(entries, events) \in Lifetimes
           /\ \A b \in Blobs :
                 (\A j \in 1 .. Len(events) : events[j].blob # b) =>
                     Outcome(entries, events)[b] = entries[b]
           /\ \A b \in Blobs, i \in 1 .. Len(events) :
                 events[i].blob = b /\ (\A j \in 1 .. Len(events) : j > i => events[j].blob # b) =>
                     Outcome(entries, events)[b] = IF events[i].deleted THEN 0 ELSE TTL
<1> DEFINE N == Len(events)
<1>1. PICK f \in [0 .. N -> Lifetimes] :
         /\ f[0] = entries
         /\ \A n \in 1 .. N : f[n] = After(f[n - 1], events[n])
         /\ Outcome(entries, events) = f[N]
  BY Zenon, OutcomeSteps
<1>2. N \in Nat /\ \A n \in 1 .. N : events[n] \in EventType
  OBVIOUS
<1>3. \A n \in 0 .. N : f[n] \in Lifetimes
  BY Zenon, <1>1
<1>4. ASSUME NEW b \in Blobs, NEW k \in 0 .. N, \A j \in 1 .. N : j > k => events[j].blob # b
      PROVE  f[N][b] = f[k][b]
  <2> DEFINE S == {n \in 0 .. N : n <= k \/ f[n][b] = f[k][b]}
  <2>1. 0 \in S
    BY <1>2
  <2>2. ASSUME NEW n \in Nat, n < N, n \in S
        PROVE  n + 1 \in S
    <3>1. n + 1 \in 1 .. N /\ (n + 1) - 1 = n /\ n \in 0 .. N
      BY <1>2, <2>2
    <3>2. CASE n + 1 <= k
      BY <3>1, <3>2
    <3>3. CASE ~(n + 1 <= k)
      <4>1. n + 1 > k
        BY <3>3
      <4>2. f[n][b] = f[k][b]
        <5>1. n <= k => n = k
          BY <4>1
        <5> QED
          BY ZenonT(40), <2>2, <5>1
      <4>3. events[n + 1].blob # b
        BY ZenonT(40), <1>4, <3>1, <4>1
      <4>4. f[n + 1] = After(f[n], events[n + 1]) /\ f[n] \in Lifetimes /\ events[n + 1] \in EventType
        BY ZenonT(40), <1>1, <1>2, <1>3, <3>1
      <4>5. f[n + 1][b] = f[n][b]
        <5> DEFINE x == f[n]
                   e == events[n + 1]
        <5>1. x \in Lifetimes /\ e \in EventType /\ e.blob # b /\ f[n + 1] = After(x, e)
          BY Zenon, <4>3, <4>4
        <5> HIDE DEF x, e
        <5>2. After(x, e)[b] = x[b]
          BY Zenon, <5>1, AfterFacts
        <5> QED
          BY Zenon, <5>1, <5>2 DEF x
      <4> QED
        BY SMTT(30), <3>1, <4>2, <4>5
    <3> QED
      BY ZenonT(40), <3>2, <3>3
  <2> HIDE DEF S
  <2>3. N \in S
    <3>1. \A n \in 0 .. N : n \in S
      BY Zenon, <1>2, <2>1, <2>2, UpTo
    <3> QED
      BY <1>2, <3>1
  <2>4. N <= k => N = k
    BY <1>2
  <2> QED
    BY Zenon, <2>3, <2>4 DEF S
<1>5. Outcome(entries, events) \in Lifetimes
  BY <1>1, <1>2
<1>6. ASSUME NEW b \in Blobs, \A j \in 1 .. N : events[j].blob # b
      PROVE  f[N][b] = entries[b]
  <2>1. 0 \in 0 .. N
    BY <1>2
  <2>2. f[N][b] = f[0][b]
    BY ZenonT(40), <1>4, <1>6, <2>1
  <2> QED
    BY Zenon, <1>1, <2>2
<1>7. ASSUME NEW b \in Blobs, NEW i \in 1 .. N, events[i].blob = b,
             \A j \in 1 .. N : j > i => events[j].blob # b
      PROVE  f[N][b] = IF events[i].deleted THEN 0 ELSE TTL
  <2>1. i \in 0 .. N /\ i - 1 \in 0 .. N
    BY <1>2
  <2>2. f[N][b] = f[i][b]
    BY ZenonT(40), <1>4, <1>7, <2>1
  <2>3. f[i] = After(f[i - 1], events[i]) /\ f[i - 1] \in Lifetimes /\ events[i] \in EventType
    BY ZenonT(40), <1>1, <1>2, <1>3, <2>1
  <2>4. f[i][b] = IF events[i].deleted THEN 0 ELSE TTL
    <3> DEFINE x == f[i - 1]
               e == events[i]
    <3>1. x \in Lifetimes /\ e \in EventType /\ e.blob = b /\ f[i] = After(x, e)
      BY Zenon, <1>7, <2>3
    <3> HIDE DEF x, e
    <3>2. After(x, e)[b] = IF e.deleted THEN 0 ELSE TTL
      BY Zenon, <3>1, AfterFacts
    <3> QED
      BY ZenonT(40), <3>1, <3>2 DEF e
  <2> QED
    BY ZenonT(40), <2>2, <2>4
<1> QED
  BY <1>1, <1>5, <1>6, <1>7

\* d, of length n, holds the events at the positions keep, each once.
Picked(d, n, events, keep) ==
    \E at \in [1 .. n -> keep] :
        /\ \A m \in 1 .. n : d[m] = events[at[m]]
        /\ \A l, m \in 1 .. n : at[l] = at[m] => l = m
        /\ \A i \in keep : \E m \in 1 .. n : at[m] = i

\* The positions that stay are each picked once.
LEMMA PickFacts ==
    ASSUME NEW events \in Seq(EventType), NEW keep \in SUBSET (1 .. Len(events))
    PROVE  /\ Pick(events, keep) \in Seq(EventType)
           /\ Len(Pick(events, keep)) <= Len(events)
           /\ Picked(Pick(events, keep), Len(Pick(events, keep)), events, keep)
<1> DEFINE N == Len(events)
           K == Cardinality(keep)
           Below(i) == {j \in keep : j <= i}
           rank == [i \in keep |-> Cardinality(Below(i))]
           At(n) == CHOOSE i \in keep : Cardinality(Below(i)) = n
           at == [n \in 1 .. K |-> At(n)]
           D == Pick(events, keep)
<1>1. N \in Nat /\ keep \subseteq Int /\ \A n \in 1 .. N : events[n] \in EventType
  OBVIOUS
<1>2. IsFiniteSet(1 .. N) /\ Cardinality(1 .. N) = N
  <2>1. 1 \in Int /\ N \in Int
    BY <1>1
  <2>2. IsFiniteSet(1 .. N) /\ Cardinality(1 .. N) = IF 1 > N THEN 0 ELSE N - 1 + 1
    BY Zenon, <2>1, FS_Interval
  <2> HIDE DEF N
  <2> QED
    BY <1>1, <2>2
<1>3. IsFiniteSet(keep) /\ K \in Nat /\ K <= N
  BY ZenonT(40), <1>2, FS_Subset, FS_CardinalityType
<1>4. ASSUME NEW i \in keep
      PROVE  Cardinality(Below(i)) \in 1 .. K /\ IsFiniteSet(Below(i))
  <2>1. Below(i) \in SUBSET keep /\ i \in Below(i)
    BY <1>1
  <2>2. IsFiniteSet(Below(i)) /\ Cardinality(Below(i)) <= K
    BY ZenonT(40), <1>3, <2>1, FS_Subset
  <2>3. Cardinality(Below(i)) \in Nat /\ Cardinality(Below(i)) # 0
    BY ZenonT(40), <2>1, <2>2, FS_CardinalityType, FS_EmptySet
  <2> HIDE DEF Below, K
  <2> QED
    BY SMTT(30), <1>3, <2>2, <2>3
<1>5. ASSUME NEW i \in keep, NEW j \in keep, i < j
      PROVE  Cardinality(Below(i)) # Cardinality(Below(j))
  <2>1. (\A x \in keep : x <= i => x <= j) /\ j <= j /\ ~(j <= i)
    BY <1>1, <1>5
  <2>2. Below(i) \in SUBSET Below(j) /\ j \in Below(j) /\ j \notin Below(i)
    BY Zenon, <2>1
  <2> QED
    BY ZenonT(40), <1>4, <2>2, FS_Subset
<1>6. \A i, j \in keep : Cardinality(Below(i)) = Cardinality(Below(j)) => i = j
  <2> HIDE DEF Below
  <2>1. \A i, j \in keep : i < j \/ j < i \/ i = j
    BY <1>1
  <2> QED
    BY Zenon, <1>5, <2>1
<1>7. rank \in [keep -> 1 .. K] /\ \A i \in keep : rank[i] = Cardinality(Below(i))
  BY Zenon, <1>4
<1> HIDE DEF rank
<1>8. \A i, j \in keep : rank[i] = rank[j] => i = j
  BY ZenonT(40), <1>6, <1>7
<1>9. IsFiniteSet(1 .. K) /\ Cardinality(1 .. K) = K
  <2>1. 1 \in Int /\ K \in Int
    BY <1>3
  <2>2. IsFiniteSet(1 .. K) /\ Cardinality(1 .. K) = IF 1 > K THEN 0 ELSE K - 1 + 1
    BY Zenon, <2>1, FS_Interval
  <2> HIDE DEF K
  <2> QED
    BY <1>3, <2>2
<1>10. \A n \in 1 .. K : \E i \in keep : rank[i] = n
  <2> HIDE DEF K
  <2>1. rank \in Injection(keep, 1 .. K)
    BY ZenonT(40), <1>7, <1>8, Fun_IsInj
  <2>2. rank \in Surjection(keep, 1 .. K)
    BY ZenonT(40), <1>9, <2>1, FS_Injection DEF K
  <2> QED
    BY Zenon, <2>2 DEF Surjection
<1>11. ASSUME NEW n \in 1 .. K
       PROVE  at[n] = At(n) /\ at[n] \in keep /\ Cardinality(Below(at[n])) = n
  <2>1. \E i \in keep : Cardinality(Below(i)) = n
    BY Zenon, <1>7, <1>10
  <2>2. At(n) \in keep /\ Cardinality(Below(At(n))) = n
    BY Zenon, <2>1
  <2> HIDE DEF At
  <2> QED
    BY Zenon, <2>2
<1>12. at \in [1 .. K -> keep]
  BY Zenon, <1>11
<1>13. D = [n \in 1 .. K |-> events[At(n)]]
  BY Zenon DEF Pick
<1> HIDE DEF At, at, D, Below
<1>14. \A n \in 1 .. K : events[at[n]] \in EventType
  BY ZenonT(40), <1>1, <1>12
<1>15. D \in Seq(EventType) /\ Len(D) = K /\ \A n \in 1 .. K : D[n] = events[at[n]]
  <2>1. \A n \in 1 .. K : events[At(n)] = events[at[n]]
    BY Zenon, <1>11
  <2>2. \A n \in 1 .. K : events[At(n)] \in EventType
    BY ZenonT(40), <1>14, <2>1
  <2>3. D \in Seq(EventType) /\ Len(D) = K /\ \A n \in 1 .. K : D[n] = events[At(n)]
    BY SMTT(30), <1>3, <1>13, <2>2
  <2> QED
    BY ZenonT(40), <2>1, <2>3
<1>16. \A m, n \in 1 .. K : at[m] = at[n] => m = n
  BY Zenon, <1>11
<1>17. \A i \in keep : \E n \in 1 .. K : at[n] = i
  BY ZenonT(40), <1>4, <1>6, <1>11
<1> HIDE DEF K
<1>18. Len(D) <= N
  BY ZenonT(40), <1>3, <1>15
<1>19. Picked(D, K, events, keep)
  BY ZenonT(40), <1>12, <1>15, <1>16, <1>17 DEF Picked
<1>20. K = Len(D)
  BY Zenon, <1>15
<1> QED
  BY ZenonT(40), <1>15, <1>18, <1>19, <1>20 DEF D
\* Event i is the last one of blob b.
IsLast(events, b, i) ==
    events[i].blob = b /\ \A j \in 1 .. Len(events) : j > i => events[j].blob # b

\* A blob that has events in a batch has a last one.
LEMMA LastEvent ==
    ASSUME NEW events \in Seq(EventType), NEW b, NEW k \in 1 .. Len(events), events[k].blob = b
    PROVE  \E i \in 1 .. Len(events) : IsLast(events, b, i)
<1> DEFINE N == Len(events)
           T == {d \in 0 .. N : \E i \in 1 .. N : d = N - i /\ events[i].blob = b}
<1>1. N \in Nat /\ N - k \in T /\ T \in SUBSET Nat
  OBVIOUS
<1>2. PICK d \in T : \A y \in T : d <= y
  BY ZenonT(40), <1>1, LeastNumber
<1>3. PICK i \in 1 .. N : d = N - i /\ events[i].blob = b
  OBVIOUS
<1>4. ASSUME NEW j \in 1 .. N, j > i, events[j].blob = b
      PROVE  FALSE
  <2>1. N - j \in T
    BY SMTT(30), <1>1, <1>4
  <2>2. d <= N - j
    BY Zenon, <1>2, <2>1
  <2> HIDE DEF T, N
  <2> QED
    BY SMTT(30), <1>1, <1>3, <1>4, <2>2
<1> QED
  BY ZenonT(40), <1>3, <1>4 DEF IsLast

\* Dropping all but the last event of each blob makes no difference to whoever
\* applies the batch.
LEMMA DedupeFacts ==
    ASSUME NEW events \in Seq(EventType)
    PROVE  /\ Dedupe(events) \in Seq(EventType)
           /\ Len(Dedupe(events)) <= Len(events)
           /\ Elements(Dedupe(events)) \subseteq Elements(events)
           /\ \A entries \in Lifetimes :
                 Outcome(entries, Dedupe(events)) = Outcome(entries, events)
<1> DEFINE N == Len(events)
           keep == {i \in 1 .. N : \A j \in i + 1 .. N : events[j].blob # events[i].blob}
           D == Dedupe(events)
           M == Len(D)
<1>1. N \in Nat /\ DOMAIN events = 1 .. N
  OBVIOUS
<1>2. keep \in SUBSET (1 .. N) /\ D = Pick(events, keep)
  BY Zenon, <1>1 DEF Dedupe
<1> HIDE DEF keep, D
<1>3. D \in Seq(EventType) /\ M <= N
  BY ZenonT(40), <1>2, PickFacts
<1>4. PICK at \in [1 .. M -> keep] :
         /\ \A n \in 1 .. M : D[n] = events[at[n]]
         /\ \A m, n \in 1 .. M : at[m] = at[n] => m = n
         /\ \A i \in keep : \E n \in 1 .. M : at[n] = i
  <2>1. Picked(Pick(events, keep), Len(Pick(events, keep)), events, keep)
    BY ZenonT(40), <1>2, PickFacts
  <2>2. Picked(D, M, events, keep)
    BY Zenon, <1>2, <2>1
  <2> QED
    BY Zenon, <2>2 DEF Picked
<1>5. \A n \in 1 .. M : at[n] \in keep /\ at[n] \in 1 .. N
  BY ZenonT(40), <1>2, <1>4
<1>6. M \in Nat /\ DOMAIN D = 1 .. M
  BY <1>3
<1>7. Elements(D) \subseteq Elements(events)
  <2>1. \A n \in 1 .. M : D[n] \in Elements(events)
    BY SMTT(30), <1>1, <1>4, <1>5 DEF Elements
  <2> QED
    BY ZenonT(40), <1>6, <2>1 DEF Elements
<1>8. ASSUME NEW i \in keep, NEW j \in keep, events[i].blob = events[j].blob
      PROVE  i = j
  <2>1. i \in 1 .. N /\ j \in 1 .. N
    BY Zenon, <1>2
  <2>2. ~(i < j)
    BY SMTT(30), <1>1, <1>8, <2>1 DEF keep
  <2>3. ~(j < i)
    BY SMTT(30), <1>1, <1>8, <2>1 DEF keep
  <2> QED
    BY SMTT(30), <2>1, <2>2, <2>3
<1>9. ASSUME NEW entries \in Lifetimes, NEW b \in Blobs
      PROVE  Outcome(entries, D)[b] = Outcome(entries, events)[b]
  <2>1. CASE \A j \in 1 .. N : events[j].blob # b
    <3>1. \A m \in 1 .. M : D[m].blob # b
      BY SMTT(30), <1>4, <1>5, <2>1
    <3>2. Outcome(entries, D)[b] = entries[b]
      BY SMTT(30), <1>3, <3>1, OutcomeFacts
    <3>3. Outcome(entries, events)[b] = entries[b]
      BY <2>1, OutcomeFacts
    <3> QED
      BY ZenonT(40), <3>2, <3>3
  <2>2. ASSUME NEW k \in 1 .. N, events[k].blob = b
        PROVE  Outcome(entries, D)[b] = Outcome(entries, events)[b]
    <3>0. PICK i \in 1 .. N : IsLast(events, b, i)
      BY Zenon, <2>2, LastEvent
    <3>1. events[i].blob = b /\ \A j \in 1 .. N : j > i => events[j].blob # b
      BY Zenon, <3>0 DEF IsLast
    <3>2. i \in keep
      <4>1. \A j \in i + 1 .. N : j \in 1 .. N /\ j > i
        BY <1>1
      <4> QED
        BY Zenon, <3>1, <4>1 DEF keep
    <3>3. PICK n \in 1 .. M : at[n] = i
      BY Zenon, <1>4, <3>2
    <3>4. D[n] = events[i] /\ D[n].blob = b
      BY ZenonT(40), <1>4, <3>1, <3>3
    <3>5. ASSUME NEW m \in 1 .. M, m > n, D[m].blob = b
          PROVE  FALSE
      <4>1. at[m] \in keep /\ events[at[m]].blob = events[i].blob
        BY ZenonT(40), <1>4, <1>5, <3>1, <3>5
      <4>2. at[m] = at[n]
        BY ZenonT(40), <1>8, <3>2, <3>3, <4>1
      <4>3. m = n
        BY ZenonT(40), <1>4, <4>2
      <4> QED
        BY SMTT(30), <1>6, <3>5, <4>3
    <3>6. Outcome(entries, D)[b] = IF D[n].deleted THEN 0 ELSE TTL
      BY SMTT(30), <1>3, <3>4, <3>5, OutcomeFacts
    <3>7. Outcome(entries, events)[b] = IF events[i].deleted THEN 0 ELSE TTL
      BY SMTT(30), <3>1, OutcomeFacts
    <3> QED
      BY ZenonT(40), <3>4, <3>6, <3>7
  <2> QED
    BY ZenonT(40), <2>1, <2>2
<1>10. ASSUME NEW entries \in Lifetimes
       PROVE  Outcome(entries, D) = Outcome(entries, events)
  <2>1. Outcome(entries, D) \in Lifetimes /\ Outcome(entries, events) \in Lifetimes
    BY Zenon, <1>3, OutcomeFacts
  <2>2. \A b \in Blobs : Outcome(entries, D)[b] = Outcome(entries, events)[b]
    BY Zenon, <1>9
  <2> QED
    BY <2>1, <2>2 DEF Lifetimes
<1> QED
  BY Zenon, <1>3, <1>7, <1>10 DEF D

-----------------------------------------------------------------------------
(***************************************************************************)
(* Batches that are made up and applied.                                   *)
(***************************************************************************)

LEMMA FlushInv ==
    ASSUME Inv, NEW g \in Gateways, Flush(g)
    PROVE  Inv'
<1> DEFINE free == {s \in Slots : flights[g][s].todo = {}}
           slot == CHOOSE s \in free : \A t \in free : s <= t
           p == pending[g]
           f == [events |-> Dedupe(p), todo |-> Peers(g)]
<1>1. /\ pending' = [pending EXCEPT ![g] = << >>]
      /\ IF free = {} \/ Peers(g) = {} THEN flights' = flights ELSE flights' = Boarded(flights, g, slot, f)
      /\ UNCHANGED <<upstream, cache, req, queue, warmup, requests, snapshots, gone, erased, purged>>
  BY Zenon DEF Flush, Boarded
<1>2. p \in Seq(EventType) /\ Len(p) <= BatchSize /\ AllFit(p, gone, erased)
  BY Zenon DEF Inv, Shape, Bounded, EventsFit
<1>3. << >> \in Seq(EventType) /\ Len(<< >>) = 0 /\ DOMAIN << >> = {}
  OBVIOUS
<1>4. /\ Dedupe(p) \in Seq(EventType) /\ Len(Dedupe(p)) <= Len(p)
      /\ Elements(Dedupe(p)) \subseteq Elements(p)
  BY ZenonT(40), <1>2, DedupeFacts
<1>5. AllFit(Dedupe(p), gone, erased)
  <2> HIDE DEF p
  <2>1. \A x \in Elements(p) : EventFits(x, gone, erased)
    BY Zenon, <1>2 DEF AllFit, Elements
  <2>2. \A i \in DOMAIN Dedupe(p) : Dedupe(p)[i] \in Elements(Dedupe(p))
    BY Zenon DEF Elements
  <2> QED
    BY ZenonT(40), <1>4, <2>1, <2>2 DEF AllFit
<1>6. /\ f \in FlightType /\ Len(f.events) <= BatchSize /\ f.todo \subseteq Peers(g)
      /\ AllFit(f.events, gone, erased)
  <2> HIDE DEF p
  <2>1. Len(p) \in Nat /\ Len(Dedupe(p)) \in Nat
    BY SMTT(30), <1>2, <1>4
  <2>2. Len(Dedupe(p)) <= BatchSize
    BY SMTT(30), <1>2, <1>4, <2>1, Numbers
  <2> QED
    BY ZenonT(40), <1>4, <1>5, <2>2 DEF FlightType, Peers
<1> HIDE DEF p, f
<1>7. /\ flights' \in [Gateways -> [Slots -> FlightType]]
      /\ \A h \in Gateways, t \in Slots :
            /\ Len(flights'[h][t].events) <= BatchSize /\ flights'[h][t].todo \subseteq Peers(h)
            /\ AllFit(flights'[h][t].events, gone, erased)
  <2>1. CASE free = {} \/ Peers(g) = {}
    <3>1. flights' = flights
      BY ZenonT(40), <1>1, <2>1
    <3> QED
      BY Zenon, <3>1 DEF Inv, Shape, Bounded, EventsFit
  <2>2. CASE ~(free = {} \/ Peers(g) = {})
    <3>1. flights' = Boarded(flights, g, slot, f)
      BY ZenonT(40), <1>1, <2>2
    <3>2. free \in SUBSET Nat /\ free # {}
      BY SMTT(30), <2>2, Numbers DEF Slots
    <3>3. slot \in free
      <4> HIDE DEF free
      <4>1. \E s \in free : \A t \in free : s <= t
        BY ZenonT(40), <3>2, LeastNumber
      <4> QED
        BY Zenon, <4>1
    <3>4. slot \in Slots
      BY ZenonT(40), <3>3
    <3> HIDE DEF slot
    <3> QED
      BY ZenonT(40), <1>6, <3>1, <3>4, FlightFits
  <2> QED
    BY ZenonT(40), <2>1, <2>2
<1> HIDE DEF free, slot
<1>8. Shape'
  <2>1. pending' \in [Gateways -> Seq(EventType)]
    BY ZenonT(40), <1>1, <1>3 DEF Inv, Shape
  <2> QED
    BY ZenonT(40), <1>1, <1>7, <2>1 DEF Inv, Shape
<1>9. ASSUME NEW h \in Gateways
      PROVE  Bounded(h)' /\ EventsFit(h)'
  <2>1. pending'[h] = IF h = g THEN << >> ELSE pending[h]
    BY ZenonT(40), <1>1 DEF Inv, Shape
  <2>2. Bounded(h) /\ EventsFit(h) /\ AllFit(<< >>, gone, erased) /\ 0 <= BatchSize
    BY SMTT(30), <1>3, Numbers DEF Inv, AllFit
  <2>3. Bounded(h)'
    BY ZenonT(40), <1>1, <1>3, <1>7, <2>1, <2>2 DEF Bounded, Reading
  <2>4. EventsFit(h)'
    BY ZenonT(40), <1>1, <1>7, <2>1, <2>2 DEF EventsFit
  <2> QED
    BY ZenonT(40), <2>3, <2>4
<1> QED
  BY ZenonT(40), <1>1, <1>8, <1>9 DEF Inv

\* What a peer remembers after a batch was confirmed when the answer came, at most
\* two ways ago.
LEMMA DeliverInv ==
    ASSUME Inv, NEW g \in Gateways, NEW s \in Slots, NEW p \in Peers(g), Deliver(g, s, p)
    PROVE  Inv'
<1> DEFINE ev == flights[g][s].events
           old == cache[p]
           new == Outcome(old, ev)
<1>1. /\ Sent(g, s, p)
      /\ cache' = [cache EXCEPT ![p] = new]
      /\ UNCHANGED <<upstream, req, queue, pending, warmup, requests, snapshots, gone, erased, purged>>
  BY Zenon DEF Deliver
<1>2. p \in Gateways
  BY Zenon DEF Peers
<1>3. ev \in Seq(EventType) /\ AllFit(ev, gone, erased) /\ old \in Lifetimes
  BY ZenonT(40), <1>2, Types DEF Inv, Shape, EventsFit
<1> HIDE DEF ev, old
<1>4. /\ new \in Lifetimes
      /\ \A b \in Blobs : (\A j \in 1 .. Len(ev) : ev[j].blob # b) => new[b] = old[b]
      /\ \A b \in Blobs, i \in 1 .. Len(ev) :
            ev[i].blob = b /\ (\A j \in 1 .. Len(ev) : j > i => ev[j].blob # b) =>
                new[b] = IF ev[i].deleted THEN 0 ELSE TTL
  BY SMTT(30), <1>3, OutcomeFacts
<1> HIDE DEF new
<1>5. ASSUME NEW b \in Blobs
      PROVE  EntryFits(b, new[b], gone, snapshots)
  <2>1. CASE \A j \in 1 .. Len(ev) : ev[j].blob # b
    <3>1. EntryFits(b, old[b], gone, snapshots)
      BY Zenon, <1>2 DEF Inv, old
    <3> QED
      BY ZenonT(40), <1>4, <2>1, <3>1
  <2>2. CASE \E j \in 1 .. Len(ev) : ev[j].blob = b
    <3>1. PICK i \in 1 .. Len(ev) : IsLast(ev, b, i)
      BY ZenonT(40), <1>3, <2>2, LastEvent
    <3>2. i \in 1 .. Len(ev) /\ ev[i].blob = b /\ \A j \in 1 .. Len(ev) : j > i => ev[j].blob # b
      BY Zenon, <3>1 DEF IsLast
    <3>3. new[b] = IF ev[i].deleted THEN 0 ELSE TTL
      BY ZenonT(40), <1>4, <3>2
    <3>4. EventFits(ev[i], gone, erased) /\ ev[i] \in EventType
      BY SMTT(30), <1>3, <3>2 DEF AllFit
    <3>5. ~ev[i].deleted => gone[b] <= MaxLag + ev[i].age
      BY ZenonT(40), <3>2, <3>4 DEF EventFits
    <3>6. ev[i].age \in 0 .. MaxLag
      BY Zenon, <3>4 DEF EventType
    <3>7. /\ TTL \in Nat /\ MaxLag \in Nat /\ snapshots \in Nat /\ Span(2 + snapshots) \in Nat
          /\ Span(2 + snapshots) >= TTL + MaxLag + MaxLag /\ gone[b] \in Nat
      BY ZenonT(40), Amounts DEF Inv
    <3>8. ~ev[i].deleted => gone[b] + TTL <= Span(2 + snapshots)
      BY SMTT(30), <3>5, <3>6, <3>7
    <3>9. EntryFits(b, 0, gone, snapshots)
      BY DEF EntryFits
    <3>10. CASE ev[i].deleted
      BY ZenonT(40), <3>3, <3>9, <3>10
    <3>11. CASE ~ev[i].deleted
      BY ZenonT(40), <3>3, <3>8, <3>11 DEF EntryFits
    <3> QED
      BY ZenonT(40), <3>10, <3>11
  <2> QED
    BY ZenonT(40), <2>1, <2>2
<1>6. /\ flights' \in [Gateways -> [Slots -> FlightType]]
      /\ \A h \in Gateways, t \in Slots :
            /\ Len(flights'[h][t].events) <= BatchSize /\ flights'[h][t].todo \subseteq Peers(h)
            /\ AllFit(flights'[h][t].events, gone, erased)
  BY ZenonT(40), <1>1, SentFits
<1>7. Shape'
  <2>1. cache' \in [Gateways -> Lifetimes]
    BY ZenonT(40), <1>1, <1>4 DEF Inv, Shape
  <2> QED
    BY ZenonT(40), <1>1, <1>6, <2>1 DEF Inv, Shape
<1>8. ASSUME NEW h \in Gateways
      PROVE  Bounded(h)' /\ EventsFit(h)'
  BY ZenonT(40), <1>1, <1>6 DEF Inv, Bounded, Reading, EventsFit
<1>9. ASSUME NEW h \in Gateways, NEW b \in Blobs
      PROVE  EntryFits(b, cache'[h][b], gone', snapshots')
  <2>1. cache'[h] = IF h = p THEN new ELSE cache[h]
    BY ZenonT(40), <1>1 DEF Inv, Shape
  <2> QED
    BY ZenonT(40), <1>1, <1>5, <2>1 DEF Inv
<1> QED
  BY ZenonT(40), <1>1, <1>7, <1>8, <1>9 DEF Inv

-----------------------------------------------------------------------------
(***************************************************************************)
(* Warm-up.                                                                *)
(***************************************************************************)

\* An instance that reads no donation takes up none of a donor's slots.
LEMMA ReadingShrinks ==
    ASSUME Inv, NEW h \in Gateways, Reading(h)' \subseteq Reading(h)
    PROVE  Cardinality(Reading(h)') <= MaxDonations
<1>1. IsFiniteSet(Reading(h)) /\ Reading(h) \subseteq Gateways
  BY ZenonT(40), FleetAssumption, FS_Subset DEF Reading
<1>2. /\ Cardinality(Reading(h)') <= Cardinality(Reading(h))
      /\ Cardinality(Reading(h)') \in Nat /\ Cardinality(Reading(h)) \in Nat
  <2>1. IsFiniteSet(Reading(h)')
    BY ZenonT(40), <1>1, FS_Subset
  <2> QED
    BY ZenonT(40), <1>1, <2>1, FS_Subset, FS_CardinalityType
<1>3. Cardinality(Reading(h)) <= MaxDonations
  BY Zenon DEF Inv, Bounded
<1> QED
  BY SMTT(30), <1>2, <1>3, Numbers

\* A donation that is over, or has not begun.
LEMMA NoDonationFits ==
    ASSUME NEW w \in {NoDonation, [NoDonation EXCEPT !.stage = "asking"]}
    PROVE  /\ w \in DonationType /\ w.stage # "reading"
           /\ \A b \in Blobs : \A G, n : DonationFits(b, w, G, n)
<1>1. [b \in Blobs |-> 0] \in Lifetimes /\ 0 \in 0 .. MaxLag
  BY Numbers DEF Lifetimes
<1>2. \A b \in Blobs : w.entries[b] = 0
  BY DEF NoDonation
<1>3. w \in DonationType /\ w.stage # "reading"
  BY <1>1 DEF NoDonation, DonationType
<1> QED
  BY SMTT(30), <1>2, <1>3 DEF DonationFits

LEMMA RestartInv ==
    ASSUME Inv, NEW g \in Gateways, Restart(g)
    PROVE  Inv'
<1> DEFINE w == [NoDonation EXCEPT !.stage = "asking"]
           none == [b \in Blobs |-> 0]
           idle == [s \in Slots |-> NoFlight]
<1>1. /\ cache' = [cache EXCEPT ![g] = none]
      /\ req' = [c \in Clients |-> IF req[c].stage # "none" /\ req[c].gateway = g THEN NoRequest ELSE req[c]]
      /\ queue' = [queue EXCEPT ![g] = << >>]
      /\ pending' = [pending EXCEPT ![g] = << >>]
      /\ flights' = [flights EXCEPT ![g] = idle]
      /\ warmup' = [warmup EXCEPT ![g] = w]
      /\ UNCHANGED <<upstream, requests, snapshots, gone, erased, purged>>
  BY Zenon DEF Restart
<1>2. /\ << >> \in Seq(EventType) /\ Len(<< >>) = 0 /\ AllFit(<< >>, gone, erased)
      /\ 0 <= QueueDepth /\ 0 <= BatchSize
  BY Numbers DEF AllFit
<1>3. none \in Lifetimes /\ \A b \in Blobs : none[b] = 0
  BY Numbers DEF Lifetimes
<1>4. /\ w \in DonationType /\ w.stage # "reading"
      /\ \A b \in Blobs : DonationFits(b, w, gone, snapshots)
  BY Zenon, NoDonationFits
<1>5. /\ idle \in [Slots -> FlightType]
      /\ \A s \in Slots : /\ Len(idle[s].events) <= BatchSize /\ idle[s].todo \subseteq Peers(g)
                          /\ AllFit(idle[s].events, gone, erased)
  BY Zenon, NoFlightFits
<1> HIDE DEF w, none, idle
<1>6. Shape'
  <2>1. cache' \in [Gateways -> Lifetimes]
    BY ZenonT(40), <1>1, <1>3 DEF Inv, Shape
  <2>2. req' \in [Clients -> RequestType \cup {NoRequest}]
    BY Zenon, <1>1 DEF Inv, Shape
  <2>3. queue' \in [Gateways -> Seq(EventType)] /\ pending' \in [Gateways -> Seq(EventType)]
    BY ZenonT(40), <1>1, <1>2 DEF Inv, Shape
  <2>4. flights' \in [Gateways -> [Slots -> FlightType]]
    BY ZenonT(40), <1>1, <1>5 DEF Inv, Shape
  <2>5. warmup' \in [Gateways -> DonationType]
    BY ZenonT(40), <1>1, <1>4 DEF Inv, Shape
  <2> QED
    BY ZenonT(40), <1>1, <2>1, <2>2, <2>3, <2>4, <2>5 DEF Inv, Shape
<1>7. ASSUME NEW h \in Gateways
      PROVE  Bounded(h)' /\ EventsFit(h)'
  <2>1. /\ queue'[h] = IF h = g THEN << >> ELSE queue[h]
        /\ pending'[h] = IF h = g THEN << >> ELSE pending[h]
        /\ flights'[h] = IF h = g THEN idle ELSE flights[h]
    BY Zenon, <1>1 DEF Inv, Shape
  <2>2. Bounded(h) /\ EventsFit(h)
    BY Zenon DEF Inv
  <2>3. Reading(h)' \subseteq Reading(h)
    BY ZenonT(40), <1>1, <1>4 DEF Reading, Inv, Shape
  <2>4. Cardinality(Reading(h)') <= MaxDonations
    BY ZenonT(40), <2>3, ReadingShrinks
  <2>5. Cardinality(Reading(h))' = Cardinality(Reading(h)')
    OBVIOUS
  <2>6. Bounded(h)'
    BY ZenonT(40), <1>2, <1>5, <2>1, <2>2, <2>4, <2>5 DEF Bounded
  <2>7. EventsFit(h)'
    BY ZenonT(40), <1>1, <1>2, <1>5, <2>1, <2>2 DEF EventsFit
  <2> QED
    BY ZenonT(40), <2>6, <2>7
<1>8. ASSUME NEW c \in Clients
      PROVE  AnswerFits(req'[c], gone', erased')
  <2>1. req'[c] = NoRequest \/ req'[c] = req[c]
    BY Zenon, <1>1
  <2>2. AnswerFits(NoRequest, gone, erased)
    BY Zenon DEF AnswerFits, NoRequest
  <2> QED
    BY ZenonT(40), <1>1, <2>1, <2>2 DEF Inv
<1>9. ASSUME NEW h \in Gateways, NEW b \in Blobs
      PROVE  /\ EntryFits(b, cache'[h][b], gone', snapshots')
             /\ DonationFits(b, warmup'[h], gone', snapshots')
  <2>1. /\ cache'[h] = IF h = g THEN none ELSE cache[h]
        /\ warmup'[h] = IF h = g THEN w ELSE warmup[h]
    BY ZenonT(40), <1>1 DEF Inv, Shape
  <2>2. EntryFits(b, none[b], gone, snapshots)
    BY <1>3 DEF EntryFits
  <2> QED
    BY ZenonT(40), <1>1, <1>4, <2>1, <2>2 DEF Inv
<1> QED
  BY ZenonT(40), <1>1, <1>6, <1>7, <1>8, <1>9 DEF Inv

LEMMA EndDonationInv ==
    ASSUME Inv, NEW g \in Gateways, EndDonation(g)
    PROVE  Inv'
<1>1. PICK w \in {NoDonation, [NoDonation EXCEPT !.stage = "asking"]} : warmup' = [warmup EXCEPT ![g] = w]
  BY Zenon DEF EndDonation
<1>2. UNCHANGED <<upstream, cache, req, queue, pending, flights, requests, snapshots, gone, erased, purged>>
  BY Zenon DEF EndDonation, replicationVars
<1>3. /\ w \in DonationType /\ w.stage # "reading"
      /\ \A b \in Blobs : DonationFits(b, w, gone, snapshots)
  BY Zenon, NoDonationFits
<1>4. Shape'
  <2>1. warmup' \in [Gateways -> DonationType]
    BY ZenonT(40), <1>1, <1>3 DEF Inv, Shape
  <2> QED
    BY ZenonT(40), <1>2, <2>1 DEF Inv, Shape
<1>5. ASSUME NEW h \in Gateways
      PROVE  Bounded(h)' /\ EventsFit(h)'
  <2>1. Reading(h)' \subseteq Reading(h)
    BY ZenonT(40), <1>1, <1>3 DEF Reading, Inv, Shape
  <2>2. Cardinality(Reading(h)') <= MaxDonations
    BY ZenonT(40), <2>1, ReadingShrinks
  <2>3. Cardinality(Reading(h))' = Cardinality(Reading(h)')
    OBVIOUS
  <2> QED
    BY ZenonT(40), <1>2, <2>2, <2>3 DEF Inv, Bounded, EventsFit
<1>6. ASSUME NEW h \in Gateways, NEW b \in Blobs
      PROVE  DonationFits(b, warmup'[h], gone', snapshots')
  <2>1. warmup'[h] = IF h = g THEN w ELSE warmup[h]
    BY ZenonT(40), <1>1 DEF Inv, Shape
  <2> QED
    BY ZenonT(40), <1>2, <1>3, <2>1 DEF Inv
<1> QED
  BY ZenonT(40), <1>2, <1>4, <1>5, <1>6 DEF Inv

\* A donor hands out what is left of its own entries: one more copy.
LEMMA AskDonorInv ==
    ASSUME Inv, NEW g \in Gateways, NEW d \in Gateways, AskDonor(g, d)
    PROVE  Inv'
<1>1. /\ warmup[g].stage = "asking" /\ d \in Peers(g)
      /\ snapshots < MaxSnapshots /\ snapshots' = snapshots + 1
      /\ Cardinality(Reading(d)) < MaxDonations
      /\ UNCHANGED <<upstream, cache, req, queue, pending, flights, requests, gone, erased, purged>>
  BY Zenon DEF AskDonor, replicationVars
<1>2. PICK hottest \in SUBSET Blobs :
         warmup' = [warmup EXCEPT ![g] =
              [stage |-> "reading", donor |-> {d}, age |-> 0,
               entries |-> [b \in Blobs |-> IF b \in hottest THEN cache[d][b] ELSE 0]]]
  BY Zenon DEF AskDonor
<1> DEFINE l == [b \in Blobs |-> IF b \in hottest THEN cache[d][b] ELSE 0]
           w == [stage |-> "reading", donor |-> {d}, age |-> 0, entries |-> l]
<1>3. warmup' = [warmup EXCEPT ![g] = w]
  BY Zenon, <1>2
<1>4. /\ snapshots \in Nat /\ snapshots' \in Nat /\ snapshots' \in 0 .. MaxSnapshots
      /\ \A b \in Blobs : gone[b] \in Nat /\ cache[d][b] \in 0 .. TTL
      /\ TTL \in Nat /\ MaxLag \in Nat /\ MaxDonations \in Nat
  <2>1. /\ \A b \in Blobs : gone[b] \in Nat /\ cache[d][b] \in 0 .. TTL
        /\ TTL \in Nat /\ MaxLag \in Nat /\ MaxDonations \in Nat /\ snapshots \in Nat
    BY ZenonT(40), Amounts DEF Inv
  <2>2. snapshots' \in Nat /\ snapshots' \in 0 .. MaxSnapshots
    BY SMTT(30), <1>1, <2>1, Numbers
  <2> QED
    BY ZenonT(40), <2>1, <2>2
<1>5. /\ Span(1 + snapshots) \in Nat /\ Span(2 + snapshots) \in Nat
      /\ Span(1 + snapshots') = Span(2 + snapshots)
      /\ Span(2 + snapshots) = Span(1 + snapshots) + MaxLag
      /\ Span(2 + snapshots') >= Span(2 + snapshots) /\ Span(2 + snapshots') \in Nat
  BY ZenonT(40), <1>1, <1>4, SpanFacts
<1>6. l \in Lifetimes /\ \A b \in Blobs : l[b] = 0 \/ l[b] = cache[d][b]
  BY <1>4 DEF Lifetimes
<1> HIDE DEF l
<1>7. w \in DonationType /\ w.stage = "reading" /\ w.donor = {d} /\ w.age = 0 /\ w.entries = l
  BY SMTT(30), <1>4, <1>6 DEF DonationType
<1> HIDE DEF w
<1>8. Shape'
  <2>1. warmup' \in [Gateways -> DonationType]
    BY ZenonT(40), <1>3, <1>7 DEF Inv, Shape
  <2> QED
    BY ZenonT(40), <1>1, <1>4, <2>1 DEF Inv, Shape
<1>9. ASSUME NEW h \in Gateways
      PROVE  Bounded(h)' /\ EventsFit(h)'
  <2>1. \A k \in Gateways : warmup'[k] = IF k = g THEN w ELSE warmup[k]
    BY Zenon, <1>3 DEF Inv, Shape
  <2>2. Cardinality(Reading(h)') <= MaxDonations
    <3>1. CASE h = d
      <4>1. Reading(d)' = Reading(d) \cup {g}
        BY ZenonT(40), <1>1, <1>7, <2>1 DEF Reading
      <4>2. IsFiniteSet(Reading(d))
        BY ZenonT(40), FleetAssumption, FS_Subset DEF Reading
      <4>3. Cardinality(Reading(d)) \in Nat
        BY ZenonT(40), <4>2, FS_CardinalityType
      <4>4. Cardinality(Reading(d) \cup {g}) <= Cardinality(Reading(d)) + 1
        BY SMTT(30), <4>2, <4>3, FS_AddElement
      <4>5. Cardinality(Reading(d) \cup {g}) \in Nat
        BY ZenonT(40), <4>2, FS_AddElement, FS_CardinalityType
      <4>6. Cardinality(Reading(d) \cup {g}) <= MaxDonations
        BY SMTT(30), <1>1, <1>4, <4>3, <4>4, <4>5
      <4> QED
        BY ZenonT(40), <3>1, <4>1, <4>6
    <3>2. CASE h # d
      <4>1. Reading(h)' \subseteq Reading(h)
        BY ZenonT(40), <1>7, <2>1, <3>2 DEF Reading
      <4> QED
        BY ZenonT(40), <4>1, ReadingShrinks
    <3> QED
      BY ZenonT(40), <3>1, <3>2
  <2>3. Cardinality(Reading(h))' = Cardinality(Reading(h)')
    OBVIOUS
  <2> QED
    BY ZenonT(40), <1>1, <2>2, <2>3 DEF Inv, Bounded, EventsFit
<1>10. ASSUME NEW h \in Gateways, NEW b \in Blobs
       PROVE  EntryFits(b, cache'[h][b], gone', snapshots')
  <2>1. EntryFits(b, cache[h][b], gone, snapshots) /\ cache[h][b] \in 0 .. TTL /\ gone[b] \in Nat
    BY ZenonT(40), <1>4, Types DEF Inv
  <2> QED
    BY SMTT(30), <1>1, <1>4, <1>5, <2>1 DEF EntryFits
<1>11. ASSUME NEW h \in Gateways, NEW b \in Blobs
       PROVE  DonationFits(b, warmup'[h], gone', snapshots')
  <2>1. CASE h = g
    <3>1. warmup'[h] = w
      BY ZenonT(40), <1>3, <2>1 DEF Inv, Shape
    <3>2. EntryFits(b, cache[d][b], gone, snapshots) /\ cache[d][b] \in 0 .. TTL /\ gone[b] \in Nat
      BY ZenonT(40), <1>4 DEF Inv
    <3>3. l[b] > 0 => gone[b] + l[b] <= Span(1 + snapshots') + 0
      BY SMTT(30), <1>4, <1>5, <1>6, <3>2 DEF EntryFits
    <3> QED
      BY ZenonT(40), <1>1, <1>7, <3>1, <3>3 DEF DonationFits
  <2>2. CASE h # g
    <3>1. warmup'[h] = warmup[h]
      BY ZenonT(40), <1>3, <2>2 DEF Inv, Shape
    <3>2. DonationFits(b, warmup[h], gone, snapshots)
      BY Zenon DEF Inv
    <3>3. warmup[h].age \in Nat /\ warmup[h].entries[b] \in Nat /\ gone[b] \in Nat
      <4>1. warmup[h] \in DonationType
        BY Zenon DEF Inv, Shape
      <4> QED
        BY SMTT(30), <1>4, <4>1 DEF DonationType, Lifetimes
    <3>4. warmup[h].entries[b] > 0 =>
              warmup[h].stage = "reading" /\ gone[b] + warmup[h].entries[b] <= Span(1 + snapshots') + warmup[h].age
      <4> DEFINE a == warmup[h].age
                 m == warmup[h].entries[b]
      <4>1. m > 0 => warmup[h].stage = "reading" /\ gone[b] + m <= Span(1 + snapshots) + a
        BY ZenonT(40), <3>2 DEF DonationFits
      <4> HIDE DEF a, m
      <4>2. a \in Nat /\ m \in Nat /\ gone[b] \in Nat
        BY ZenonT(40), <3>3 DEF a, m
      <4>3. m > 0 => warmup[h].stage = "reading" /\ gone[b] + m <= Span(1 + snapshots') + a
        BY SMTT(30), <1>4, <1>5, <4>1, <4>2
      <4> QED
        BY Zenon, <4>3 DEF a, m
    <3> QED
      BY ZenonT(40), <1>1, <3>1, <3>4 DEF DonationFits
  <2> QED
    BY ZenonT(40), <2>1, <2>2
<1> QED
  BY ZenonT(40), <1>1, <1>8, <1>9, <1>10, <1>11 DEF Inv

-----------------------------------------------------------------------------
(***************************************************************************)
(* The theorems.                                                           *)
(***************************************************************************)

LEMMA InitInv == Init => Inv
<1> SUFFICES ASSUME Init
             PROVE  Inv
  OBVIOUS
<1>1. TTL \in Nat /\ MaxLag \in Nat /\ Horizon \in Nat /\ MaxSnapshots \in Nat /\ MaxRequests \in Nat
  BY ZenonT(40), Numbers, SpanFacts
<1>2. << >> \in Seq(EventType) /\ Len(<< >>) = 0 /\ DOMAIN << >> = {}
  OBVIOUS
<1>3. [b \in Blobs |-> 0] \in Lifetimes
  BY SMTT(30), <1>1 DEF Lifetimes
<1>4. NoDonation \in DonationType /\ NoFlight \in FlightType
  BY SMTT(30), <1>1, <1>2, <1>3 DEF NoDonation, NoFlight, DonationType, FlightType
<1>5. Shape
  BY SMTT(30), <1>1, <1>2, <1>3, <1>4 DEF Init, Shape
<1>6. ASSUME NEW g \in Gateways
      PROVE  Bounded(g) /\ EventsFit(g)
  <2>1. Reading(g) = {}
    BY Zenon DEF Init, Reading, NoDonation
  <2>2. Cardinality(Reading(g)) <= MaxDonations
    BY SMTT(30), <2>1, Numbers, FS_EmptySet
  <2>3. Len(queue[g]) = 0 /\ Len(pending[g]) = 0 /\ queue[g] = << >> /\ pending[g] = << >>
    BY Zenon DEF Init
  <2>4. \A s \in Slots : flights[g][s].events = << >> /\ flights[g][s].todo = {}
    BY Zenon DEF Init, NoFlight
  <2> QED
    BY SMTT(30), <1>2, <2>2, <2>3, <2>4, Numbers DEF Bounded, EventsFit, AllFit
<1>7. \A c \in Clients : AnswerFits(req[c], gone, erased)
  BY Zenon DEF Init, AnswerFits, NoRequest
<1>8. \A b \in upstream : gone[b] = 0
  BY ZenonT(40) DEF Init
<1>9. ASSUME NEW g \in Gateways, NEW b \in Blobs
      PROVE  EntryFits(b, cache[g][b], gone, snapshots) /\ DonationFits(b, warmup[g], gone, snapshots)
  BY DEF Init, EntryFits, DonationFits, NoDonation
<1> QED
  BY ZenonT(40), <1>5, <1>6, <1>7, <1>8, <1>9 DEF Inv

LEMMA NextInv == Inv /\ [Next]_vars => Inv'
<1> SUFFICES ASSUME Inv, [Next]_vars
             PROVE  Inv'
  OBVIOUS
<1>1. CASE Tick
  BY ZenonT(40), <1>1, TickInv
<1>2. CASE \E b \in Blobs : CollectUpstream(b)
  BY ZenonT(40), <1>2, CollectUpstreamInv
<1>3. CASE \E c \in Clients : Answer(c) \/ Finish(c)
  BY ZenonT(40), <1>3, AnswerInv, FinishInv
<1>4. CASE \E c \in Clients, g \in Gateways, op \in Ops, b \in Blobs : Arrive(c, g, op, b)
  BY ZenonT(40), <1>4, ArriveInv
<1>5. CASE \E g \in Gateways, b \in Blobs : Evict(g, b)
  BY ZenonT(40), <1>5, EvictInv
<1>6. ASSUME NEW g \in Gateways, Replicate(g)
      PROVE  Inv'
  BY ZenonT(40), <1>6, CollectInv, FlushInv, DeliverInv, LoseInv DEF Replicate
<1>7. ASSUME NEW g \in Gateways, WarmUp(g)
      PROVE  Inv'
  BY ZenonT(40), <1>7, RestartInv, AskDonorInv, DonatedInv, EndDonationInv DEF WarmUp
<1>8. CASE UNCHANGED vars
  <2>1. UNCHANGED <<upstream, cache, req, queue, pending, flights, warmup, requests, snapshots, gone, erased, purged>>
    BY ZenonT(40), <1>8 DEF vars, replicationVars
  <2>2. Shape'
    BY ZenonT(40), <2>1 DEF Inv, Shape
  <2>3. ASSUME NEW g \in Gateways
        PROVE  Bounded(g)' /\ EventsFit(g)'
    BY ZenonT(40), <2>1 DEF Inv, Bounded, Reading, EventsFit
  <2> QED
    BY ZenonT(40), <2>1, <2>2, <2>3 DEF Inv
<1> QED
  BY ZenonT(40), <1>1, <1>2, <1>3, <1>4, <1>5, <1>6, <1>7, <1>8 DEF Next

\* Every fact under way, every entry and every donation in the deployment is as
\* young as the ways it took allow, and queues, batches, send slots and donations
\* stay within their limits.
THEOREM GatewayFleetInvariant == Spec => []Inv
BY InitInv, NextInv, PTL DEF Spec

LEMMA InvImpliesTypeOK == Inv => TypeOK
<1> SUFFICES ASSUME Inv
             PROVE  TypeOK
  OBVIOUS
<1>1. ASSUME NEW s \in Seq(EventType)
      PROVE  Elements(s) \subseteq EventType
  BY DEF Elements
<1>2. ASSUME NEW g \in Gateways
      PROVE  /\ IsEvents(queue[g], QueueDepth) /\ IsEvents(pending[g], BatchSize)
             /\ \A s \in Slots : IsEvents(flights[g][s].events, BatchSize) /\ flights[g][s].todo \subseteq Peers(g)
             /\ warmup[g] \in DonationType
             /\ Cardinality(Reading(g)) <= MaxDonations
  <2>1. /\ queue[g] \in Seq(EventType) /\ pending[g] \in Seq(EventType) /\ warmup[g] \in DonationType
        /\ \A s \in Slots : flights[g][s].events \in Seq(EventType)
        /\ Bounded(g)
    BY Zenon, Types DEF Inv, Shape
  <2> QED
    BY ZenonT(40), <1>1, <2>1 DEF IsEvents, Bounded
<1> QED
  BY ZenonT(40), <1>2 DEF Inv, Shape, TypeOK, RequestType, DonationType

\* However many instances copy an entry to each other, by events and by donations,
\* none believes in a blob longer than one TTL after it left the registry, and the
\* time the copies were under way (rememberBlob, apply, cacheEntry.lifetime).
THEOREM CopiesDoNotRestartTheTTL == Spec => []BeliefIsBounded
<1>1. Inv => BeliefIsBounded
  <2> SUFFICES ASSUME Inv
               PROVE  BeliefIsBounded
    OBVIOUS
  <2>1. TypeOK
    BY Zenon, InvImpliesTypeOK
  <2>2. \A g \in Gateways, b \in Blobs : EntryFits(b, cache[g][b], gone, snapshots)
    BY ZenonT(40) DEF Inv
  <2> QED
    BY Zenon, <2>1, <2>2 DEF BeliefIsBounded, EntryFits, Span
<1> QED
  BY <1>1, GatewayFleetInvariant, PTL

\* Instances tell their peers to forget only blobs whose delete the registry has
\* confirmed (forgetDeletedBlob), and dropping all but the last event of a blob
\* from a batch (dedupeEvents) changes nothing for whoever applies it.
THEOREM PeersAreToldTheTruth == Spec => []EventsAreFaithful
<1>1. Inv => EventsAreFaithful
  <2> SUFFICES ASSUME Inv
               PROVE  EventsAreFaithful
    OBVIOUS
  <2>1. ASSUME NEW s, AllFit(s, gone, erased), NEW e \in Elements(s), e.deleted
        PROVE  e.blob \in erased
    BY Zenon, <2>1 DEF AllFit, EventFits, Elements
  <2>2. ASSUME NEW g \in Gateways, NEW e \in UnderWay(g), e.deleted
        PROVE  e.blob \in erased
    <3>1. EventsFit(g)
      BY Zenon DEF Inv
    <3>2. \/ e \in Elements(queue[g]) \/ e \in Elements(pending[g])
          \/ \E s \in Slots : e \in Elements(flights[g][s].events)
      BY Zenon DEF UnderWay
    <3> QED
      BY ZenonT(40), <2>1, <2>2, <3>1, <3>2 DEF EventsFit
  <2>3. ASSUME NEW g \in Gateways, NEW entries \in Lifetimes
        PROVE  Outcome(entries, Dedupe(pending[g])) = Outcome(entries, pending[g])
    <3>1. pending[g] \in Seq(EventType)
      BY Zenon DEF Inv, Shape
    <3> QED
      BY ZenonT(40), <3>1, DedupeFacts
  <2> QED
    BY Zenon, <2>2, <2>3 DEF EventsAreFaithful, DeletionsAreReal, DedupeIsTransparent
<1> QED
  BY <1>1, GatewayFleetInvariant, PTL
=============================================================================
