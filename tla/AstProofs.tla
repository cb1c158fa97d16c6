------------------------------ MODULE AstProofs ----------------------------
(***************************************************************************)
(* Lemmas about the operators that the operations of a tree are made of,   *)
(* and about diff_trees and apply_patch.                                   *)
(***************************************************************************)
EXTENDS AstMerge, FiniteSetTheorems, SequenceTheorems, TLAPS

----------------------------------------------------------------------------
(* Induction and recursion over the naturals in a form in which the        *)
(* provers can cite them, and the last position of a set of positions.     *)

(* Induction over the naturals, for a set: the induction theorems of the   *)
(* library take an operator, which the provers cannot instantiate.         *)
LEMMA SetInduction ==
    ASSUME NEW T, 0 \in T, \A n \in Nat : n \in T => n + 1 \in T
    PROVE  \A n \in Nat : n \in T
<1> SUFFICES ASSUME NEW m \in Nat, m \notin T
             PROVE  FALSE
  OBVIOUS
<1> DEFINE M == {n \in Nat : n \notin T}
           less == OpToRel(<, Nat)
<1>1. IsWellFoundedOn(less, Nat)
  BY NatLessThanWellFounded
<1>2. PICK n \in M : \A k \in M : <<k, n>> \notin less
  <2>1. M \subseteq Nat /\ M # {}
    OBVIOUS
  <2> HIDE DEF M, less
  <2> QED
    BY <1>1, <2>1, WFMin
<1>3. n \in Nat /\ n # 0 /\ n - 1 \in Nat /\ n - 1 \notin M /\ (n - 1) + 1 = n
  <2>1. n \in Nat /\ n # 0
    OBVIOUS
  <2>2. n - 1 \in Nat /\ n - 1 < n /\ (n - 1) + 1 = n
    BY <2>1
  <2>3. <<n - 1, n>> \in less
    BY <2>1, <2>2 DEF OpToRel
  <2> QED
    BY <2>1, <2>2, <2>3, <1>2
<1> QED
  BY <1>3

(* A function on a set can be iterated: what makes a recursive function    *)
(* definition that steps from n to n + 1 mean what it says.                *)
LEMMA IterationExists ==
    ASSUME NEW S, NEW x \in S, NEW F \in [S -> S]
    PROVE  \E f \in [Nat -> S] : f[0] = x /\ \A n \in Nat : f[n + 1] = F[f[n]]
<1> DEFINE upTo(g, n) == /\ g \in [0..n -> S]
                         /\ g[0] = x
                         /\ \A k \in 0..n : k # 0 => g[k] = F[g[k - 1]]
           reached == {n \in Nat : \E g \in [0..n -> S] : upTo(g, n)}
<1>1. \A n \in Nat : n \in reached
  <2>1. 0 \in reached
    <3>1. upTo([k \in 0..0 |-> x], 0)
      OBVIOUS
    <3> QED
      BY <3>1
  <2>2. ASSUME NEW n \in Nat, n \in reached
        PROVE  n + 1 \in reached
    <3>1. PICK g \in [0..n -> S] : upTo(g, n)
      BY <2>2
    <3> DEFINE h == [k \in 0..(n + 1) |-> IF k = n + 1 THEN F[g[n]] ELSE g[k]]
    <3>2. h \in [0..(n + 1) -> S]
      <4>1. F[g[n]] \in S
        BY <3>1
      <4>2. \A k \in 0..(n + 1) : k = n + 1 \/ k \in 0..n
        OBVIOUS
      <4> QED
        BY <4>1, <4>2
    <3>3. h[0] = x
      BY <3>1
    <3>4. ASSUME NEW k \in 0..(n + 1), k # 0
          PROVE  h[k] = F[h[k - 1]]
      <4>1. CASE k = n + 1
        BY <4>1
      <4>2. CASE k # n + 1
        <5>1. k \in 0..n /\ k - 1 \in 0..n
          BY <3>4, <4>2
        <5>2. h[k] = g[k] /\ h[k - 1] = g[k - 1]
          BY <5>1
        <5> QED
          BY <3>1, <3>4, <5>1, <5>2
      <4> QED
        BY <4>1, <4>2
    <3> QED
      BY <3>2, <3>3, <3>4
  <2> HIDE DEF reached
  <2> QED
    BY <2>1, <2>2, SetInduction
<1>2. ASSUME NEW m \in Nat, NEW n \in Nat, m <= n,
             NEW g, NEW h, upTo(g, m), upTo(h, n)
      PROVE  g[m] = h[m]
  <2> DEFINE same == {k \in Nat : k <= m => g[k] = h[k]}
  <2>1. 0 \in same
    BY <1>2
  <2>2. ASSUME NEW k \in Nat, k \in same
        PROVE  k + 1 \in same
    <3> SUFFICES ASSUME k + 1 <= m
                 PROVE  g[k + 1] = h[k + 1]
      OBVIOUS
    <3>1. k + 1 \in 0..m /\ k + 1 \in 0..n /\ k + 1 # 0 /\ (k + 1) - 1 = k /\ k <= m
      BY <1>2
    <3>2. g[k + 1] = F[g[(k + 1) - 1]] /\ h[k + 1] = F[h[(k + 1) - 1]]
      BY <1>2, <3>1
    <3> QED
      BY <2>2, <3>1, <3>2
  <2>3. \A k \in Nat : k \in same
    <3> HIDE DEF same
    <3> QED
      BY <2>1, <2>2, SetInduction
  <2> QED
    BY <2>3
<1> DEFINE g(n) == CHOOSE h \in [0..n -> S] : upTo(h, n)
           f == [n \in Nat |-> g(n)[n]]
<1>3. \A n \in Nat : upTo(g(n), n)
  <2> TAKE n \in Nat
  <2>1. \E h \in [0..n -> S] : upTo(h, n)
    BY <1>1
  <2> HIDE DEF upTo
  <2> QED
    BY <2>1
<1> HIDE DEF g
<1>4. f \in [Nat -> S] /\ f[0] = x
  <2>1. \A n \in Nat : g(n)[n] \in S
    <3> TAKE n \in Nat
    <3>1. n \in 0..n /\ g(n) \in [0..n -> S]
      BY <1>3
    <3> QED
      BY <3>1
  <2>2. g(0)[0] = x
    BY <1>3
  <2> QED
    BY <2>1, <2>2
<1>5. ASSUME NEW n \in Nat
      PROVE  f[n + 1] = F[f[n]]
  <2>1. n + 1 \in Nat /\ n + 1 \in 0..(n + 1) /\ n + 1 # 0 /\ (n + 1) - 1 = n /\ n <= n + 1
    OBVIOUS
  <2>2. upTo(g(n), n) /\ upTo(g(n + 1), n + 1)
    BY <1>3, <2>1
  <2>3. g(n)[n] = g(n + 1)[n]
    BY <1>2, <2>1, <2>2, SMTT(30)
  <2>4. g(n + 1)[n + 1] = F[g(n + 1)[n]]
    BY <2>1, <2>2
  <2> QED
    BY <2>1, <2>3, <2>4
<1> HIDE DEF f
<1> QED
  BY <1>4, <1>5

(* A set of positions of a sequence that is not empty has a last one.      *)
LEMMA MaxOfPositions ==
    ASSUME NEW n \in Nat, NEW I \in SUBSET (1..n), I # {}
    PROVE  Max(I) \in I /\ \A i \in I : i <= Max(I)
<1> DEFINE T == {m \in Nat : \A J \in SUBSET (1..m) :
                                 J # {} => \E i \in J : \A j \in J : i >= j}
<1>1. 0 \in T
  <2>1. \A J \in SUBSET (1..0) : J = {}
    OBVIOUS
  <2> QED
    BY <2>1
<1>2. ASSUME NEW m \in Nat, m \in T
      PROVE  m + 1 \in T
  <2> SUFFICES ASSUME NEW J \in SUBSET (1..(m + 1)), J # {}
               PROVE  \E i \in J : \A j \in J : i >= j
    OBVIOUS
  <2>1. CASE m + 1 \in J
    <3>1. \A j \in J : m + 1 >= j
      OBVIOUS
    <3> QED
      BY <2>1, <3>1
  <2>2. CASE m + 1 \notin J
    <3>1. \A j \in J : j \in 1..m
      BY <2>2
    <3> QED
      BY <1>2, <3>1
  <2> QED
    BY <2>1, <2>2
<1>3. n \in T
  <2> HIDE DEF T
  <2> QED
    BY <1>1, <1>2, SetInduction
<1>4. \E i \in I : \A j \in I : i >= j
  BY <1>3
<1>5. Max(I) \in I /\ \A j \in I : Max(I) >= j
  BY <1>4 DEF Max
<1> QED
  BY <1>5

----------------------------------------------------------------------------
(* Sequences from which entries are dropped.                              *)

(* The element at k of r was at at[k] of s; every position of I is picked. *)
Picks(at, r, s, I) ==
    /\ at \in [DOMAIN r -> I]
    /\ \A k \in DOMAIN r : r[k] = s[at[k]]
    /\ \A j, k \in DOMAIN r : j < k => at[j] < at[k]
    /\ \A i \in I : \E k \in DOMAIN r : at[k] = i

(* Vec::retain leaves a sequence, of the elements at the positions kept,   *)
(* each once and in their order.                                           *)
LEMMA RetainProperties ==
    ASSUME NEW S, NEW s \in Seq(S), NEW I \in SUBSET (DOMAIN s)
    PROVE  /\ Retain(s, I) \in Seq(S)
           /\ DOMAIN Retain(s, I) = 1..Cardinality(I)
           /\ \E at : Picks(at, Retain(s, I), s, I)
<1> DEFINE n == Cardinality(I)
           upTo(i) == {j \in I : j <= i}
           rank == [i \in I |-> Cardinality(upTo(i))]
           at == [k \in 1..n |-> CHOOSE i \in I : Cardinality(upTo(i)) = k]
<1>1. Len(s) \in Nat /\ DOMAIN s = 1..Len(s) /\ I \subseteq Nat /\ \A i \in I : s[i] \in S
  OBVIOUS
<1>2. IsFiniteSet(I) /\ n \in Nat
  <2>1. IsFiniteSet(1..Len(s))
    BY <1>1, FS_Interval
  <2> QED
    BY <1>1, <2>1, FS_Subset, FS_CardinalityType
<1>3. \A i \in I : /\ IsFiniteSet(upTo(i)) /\ rank[i] \in Nat /\ rank[i] <= n /\ rank[i] # 0
  <2> TAKE i \in I
  <2>1. upTo(i) \in SUBSET I /\ i \in upTo(i)
    BY <1>1
  <2>2. IsFiniteSet(upTo(i)) /\ Cardinality(upTo(i)) <= n /\ Cardinality(upTo(i)) \in Nat
    BY <2>1, <1>2, FS_Subset, FS_CardinalityType
  <2>3. Cardinality(upTo(i)) # 0
    BY <2>1, <2>2, FS_EmptySet
  <2> QED
    BY <2>2, <2>3
<1>4. \A i, j \in I : i < j => rank[i] < rank[j]
  <2> SUFFICES ASSUME NEW i \in I, NEW j \in I, i < j
               PROVE  rank[i] < rank[j]
    OBVIOUS
  <2>1. upTo(i) \in SUBSET upTo(j) /\ j \in upTo(j) /\ j \notin upTo(i)
    BY <1>1
  <2>2. Cardinality(upTo(i)) <= Cardinality(upTo(j)) /\ Cardinality(upTo(i)) # Cardinality(upTo(j))
    BY <2>1, <1>3, FS_Subset
  <2> QED
    BY <2>2, <1>3
<1>5. rank \in Injection(I, 1..n)
  <2>1. rank \in [I -> 1..n]
    BY <1>2, <1>3
  <2>2. ASSUME NEW i \in I, NEW j \in I, rank[i] = rank[j]
        PROVE  i = j
    <3> HIDE DEF rank
    <3>1. i \in Nat /\ j \in Nat /\ rank[i] \in Nat
      BY <1>1, <1>3
    <3>2. ~(i < j) /\ ~(j < i)
      BY <2>2, <3>1, <1>3, <1>4
    <3> QED
      BY <3>1, <3>2
  <2> QED
    BY <2>1, <2>2 DEF Injection, IsInjective
<1>6. \A k \in 1..n : \E i \in I : rank[i] = k
  <2>1. IsFiniteSet(1..n) /\ Cardinality(1..n) = n
    BY <1>2, FS_Interval
  <2>2. rank \in Surjection(I, 1..n)
    BY <1>5, <2>1, FS_Injection
  <2> QED
    BY <2>2 DEF Surjection
<1>7. /\ at \in [1..n -> I]
      /\ \A k \in 1..n : rank[at[k]] = k
  BY <1>6
<1>8. Retain(s, I) = [k \in 1..n |-> s[at[k]]]
  BY DEF Retain
<1> HIDE DEF at, rank
<1>9. \A j, k \in 1..n : j < k => at[j] < at[k]
  <2> SUFFICES ASSUME NEW j \in 1..n, NEW k \in 1..n, j < k, ~(at[j] < at[k])
               PROVE  FALSE
    OBVIOUS
  <2>1. at[j] \in I /\ at[k] \in I /\ rank[at[j]] = j /\ rank[at[k]] = k
    BY <1>7
  <2>2. at[j] \in Nat /\ at[k] \in Nat
    BY <2>1, <1>1
  <2>3. at[j] = at[k] \/ at[k] < at[j]
    BY <2>2
  <2>4. j \in Nat /\ k \in Nat /\ j # k
    BY <1>2
  <2> QED
    BY <2>1, <2>3, <2>4, <1>4
<1>10. \A i \in I : \E k \in 1..n : at[k] = i
  <2> TAKE i \in I
  <2>1. rank[i] \in 1..n
    BY <1>5 DEF Injection
  <2>2. rank[at[rank[i]]] = rank[i] /\ at[rank[i]] \in I
    BY <2>1, <1>7
  <2>3. at[rank[i]] = i
    BY <2>2, <1>5 DEF Injection, IsInjective
  <2> QED
    BY <2>1, <2>3
<1>11. Retain(s, I) \in Seq(S)
  <2>1. \A k \in 1..n : s[at[k]] \in S
    BY <1>1, <1>7
  <2>2. [k \in 1..n |-> s[at[k]]] \in [1..n -> S]
    BY <2>1
  <2> QED
    BY <1>2, <1>8, <2>2, SeqDef
<1>12. Picks(at, Retain(s, I), s, I)
  BY <1>7, <1>8, <1>9, <1>10 DEF Picks
<1> QED
  BY <1>8, <1>11, <1>12

(* A list without an entry: what is struck from a child list.              *)
LEMMA WithoutProperties ==
    ASSUME NEW S, NEW s \in Seq(S), NEW e
    PROVE  /\ Without(s, e) \in Seq(S)
           /\ ToSet(Without(s, e)) = ToSet(s) \ {e}
           /\ IsInjective(s) => IsInjective(Without(s, e))
<1> DEFINE I == {i \in DOMAIN s : s[i] # e}
           r == Retain(s, I)
<1>1. r \in Seq(S) /\ \E at : Picks(at, r, s, I)
  <2>1. I \in SUBSET (DOMAIN s)
    OBVIOUS
  <2> HIDE DEF I
  <2> QED
    BY <2>1, RetainProperties
<1>2. PICK at : Picks(at, r, s, I)
  BY <1>1
<1>3. Without(s, e) = r
  BY DEF Without
<1>4. DOMAIN r = 1..Len(r) /\ Len(r) \in Nat /\ I \subseteq 1..Len(s) /\ Len(s) \in Nat
  <2> HIDE DEF r
  <2> QED
    BY <1>1
<1>5. \A i \in I : i \in DOMAIN s /\ s[i] # e
  OBVIOUS
<1>6. \A i \in DOMAIN s : s[i] # e => i \in I
  OBVIOUS
<1> HIDE DEF I, r
<1>7. ToSet(r) = ToSet(s) \ {e}
  <2>1. \A k \in DOMAIN r : r[k] \in ToSet(s) \ {e}
    BY <1>2, <1>5 DEF ToSet, Picks
  <2>2. \A i \in DOMAIN s : s[i] # e => \E k \in DOMAIN r : r[k] = s[i]
    BY <1>2, <1>6 DEF Picks
  <2> QED
    BY <2>1, <2>2 DEF ToSet
<1>8. ASSUME IsInjective(s)
      PROVE  IsInjective(r)
  <2>1. ASSUME NEW j \in DOMAIN r, NEW k \in DOMAIN r, r[j] = r[k]
        PROVE  j = k
    <3>1. at[j] = at[k]
      BY <1>2, <1>5, <1>8, <2>1 DEF IsInjective, Picks
    <3>2. at[j] \in Nat /\ j \in Nat /\ k \in Nat
      BY <1>2, <1>4 DEF Picks
    <3>3. ~(j < k) /\ ~(k < j)
      BY <1>2, <3>1, <3>2 DEF Picks
    <3> QED
      BY <3>2, <3>3
  <2> QED
    BY <2>1 DEF IsInjective
<1> QED
  BY <1>1, <1>3, <1>7, <1>8

----------------------------------------------------------------------------
(* collect_subtree: the ids it finds are the least set with the one it is  *)
(* given that is closed under the child lists.                             *)

KidsOf(t, id) == ToSet(ChildrenOf(t, id))

Closed(t, C) == \A x \in C : KidsOf(t, x) \subseteq C

(* CollectSubtree adds the children of what it has as many times as the    *)
(* tree has nodes.                                                         *)
LEMMA CollectSubtreeIterates ==
    ASSUME NEW t, NEW id
    PROVE  \E within :
              /\ within[0] = {id}
              /\ \A n \in Nat : within[n + 1] = UNION {WithChildren(t, x) : x \in within[n]}
              /\ CollectSubtree(t, id) = within[Cardinality(DOMAIN t.node)]
<1> DEFINE U == {id} \union UNION {ToSet(ChildrenOf(t, x)) : x \in DOMAIN t.node}
           Wider(ids) == UNION {WithChildren(t, x) : x \in ids}
           F == [ids \in SUBSET U |-> Wider(ids)]
           Def(w) == [n \in Nat |-> IF n = 0 THEN {id} ELSE Wider(w[n - 1])]
           within == CHOOSE w : w = Def(w)
<1>1. F \in [SUBSET U -> SUBSET U] /\ {id} \in SUBSET U
  <2>1. ASSUME NEW x \in U
        PROVE  WithChildren(t, x) \subseteq U
    <3>1. CASE x \in DOMAIN t.node
      BY <3>1 DEF WithChildren
    <3>2. CASE x \notin DOMAIN t.node
      <4>1. ToSet(ChildrenOf(t, x)) = {}
        BY <3>2 DEF ChildrenOf, IsLive, ToSet
      <4> QED
        BY <4>1 DEF WithChildren
    <3> QED
      BY <3>1, <3>2
  <2> HIDE DEF U
  <2>2. \A ids \in SUBSET U : Wider(ids) \in SUBSET U
    BY <2>1
  <2>3. {id} \in SUBSET U
    BY DEF U
  <2> QED
    BY <2>2, <2>3
<1>2. PICK f \in [Nat -> SUBSET U] : f[0] = {id} /\ \A n \in Nat : f[n + 1] = F[f[n]]
  <2> DEFINE P == SUBSET U
             x == {id}
  <2>1. F \in [P -> P] /\ x \in P
    BY <1>1
  <2> HIDE DEF F, P, x
  <2>2. \E f \in [Nat -> P] : f[0] = x /\ \A n \in Nat : f[n + 1] = F[f[n]]
    BY <2>1, IterationExists
  <2> QED
    BY <2>2 DEF P, x
<1>3. f = Def(f)
  <2> HIDE DEF U, Wider
  <2>1. \A n \in Nat : f[n] = IF n = 0 THEN {id} ELSE Wider(f[n - 1])
    <3> TAKE n \in Nat
    <3>1. CASE n = 0
      BY <1>2, <3>1
    <3>2. CASE n # 0
      <4>1. n - 1 \in Nat /\ (n - 1) + 1 = n /\ f[n - 1] \in SUBSET U
        BY <3>2, <1>2
      <4>2. f[n] = F[f[n - 1]]
        BY <4>1, <1>2
      <4> QED
        BY <3>2, <4>1, <4>2
    <3> QED
      BY <3>1, <3>2
  <2> QED
    BY <1>2, <2>1
<1>4. within = Def(within)
  <2> HIDE DEF Def
  <2> QED
    BY <1>3
<1>5. within[0] = {id} /\ \A n \in Nat : within[n + 1] = Wider(within[n])
  <2> HIDE DEF within, Wider
  <2>1. \A n \in Nat : n + 1 \in Nat /\ n + 1 # 0 /\ (n + 1) - 1 = n
    OBVIOUS
  <2> QED
    BY <1>4, <2>1
<1>6. CollectSubtree(t, id) = within[Cardinality(DOMAIN t.node)]
  BY Zenon DEF CollectSubtree
<1> HIDE DEF within
<1> QED
  BY <1>5, <1>6

(* Nothing is collected that a closed set with the first id lacks.         *)
LEMMA CollectSubtreeLeast ==
    ASSUME NEW t, NEW id, IsFiniteSet(DOMAIN t.node),
           NEW C, id \in C, Closed(t, C)
    PROVE  CollectSubtree(t, id) \subseteq C
<1>1. PICK within :
              /\ within[0] = {id}
              /\ \A n \in Nat : within[n + 1] = UNION {WithChildren(t, x) : x \in within[n]}
              /\ CollectSubtree(t, id) = within[Cardinality(DOMAIN t.node)]
  BY CollectSubtreeIterates
<1> DEFINE T == {n \in Nat : within[n] \subseteq C}
<1>2. 0 \in T
  BY <1>1
<1>3. ASSUME NEW n \in Nat, n \in T
      PROVE  n + 1 \in T
  BY <1>1, <1>3 DEF KidsOf, Closed, WithChildren
<1>4. Cardinality(DOMAIN t.node) \in Nat
  BY FS_CardinalityType
<1>5. Cardinality(DOMAIN t.node) \in T
  <2> HIDE DEF T
  <2> QED
    BY <1>2, <1>3, <1>4, SetInduction
<1> QED
  BY <1>1, <1>5

(* And enough rounds are made: the result has the first id and is closed.  *)
LEMMA CollectSubtreeClosed ==
    ASSUME NEW t, NEW id, IsFiniteSet(DOMAIN t.node)
    PROVE  id \in CollectSubtree(t, id) /\ Closed(t, CollectSubtree(t, id))
<1>1. PICK within :
              /\ within[0] = {id}
              /\ \A n \in Nat : within[n + 1] = UNION {WithChildren(t, x) : x \in within[n]}
              /\ CollectSubtree(t, id) = within[Cardinality(DOMAIN t.node)]
  BY CollectSubtreeIterates
<1> DEFINE live(n) == within[n] \intersect DOMAIN t.node
           T == {n \in Nat : id \in within[n] /\ (Closed(t, within[n]) \/ Cardinality(live(n)) > n)}
           N == Cardinality(DOMAIN t.node)
<1>2. ASSUME NEW n
      PROVE  IsFiniteSet(live(n)) /\ Cardinality(live(n)) \in Nat /\ Cardinality(live(n)) <= N
  BY FS_Subset, FS_CardinalityType, live(n) \in SUBSET DOMAIN t.node
<1>3. ASSUME NEW x, x \notin DOMAIN t.node
      PROVE  ToSet(ChildrenOf(t, x)) = {}
  BY <1>3 DEF ChildrenOf, IsLive, ToSet
<1>4. 0 \in T
  <2>1. CASE id \in DOMAIN t.node
    <3>1. live(0) = {id}
      BY <1>1, <2>1
    <3>2. Cardinality(live(0)) = 1
      BY <3>1, FS_Singleton
    <3> QED
      BY <1>1, <3>2
  <2>2. CASE id \notin DOMAIN t.node
    BY <1>1, <1>3, <2>2 DEF KidsOf, Closed
  <2> QED
    BY <2>1, <2>2
<1>5. ASSUME NEW n \in Nat, n \in T
      PROVE  n + 1 \in T
  <2>1. within[n] \subseteq within[n + 1] /\ \A x \in within[n] : ToSet(ChildrenOf(t, x)) \subseteq within[n + 1]
    BY <1>1 DEF WithChildren
  <2>2. CASE live(n + 1) = live(n)
    <3>1. Closed(t, within[n + 1])
      BY <2>1, <2>2, <1>3 DEF KidsOf, Closed
    <3> QED
      BY <1>5, <2>1, <3>1
  <2>3. CASE live(n + 1) # live(n) /\ Closed(t, within[n])
    BY <1>1, <2>3 DEF KidsOf, Closed, WithChildren
  <2>4. CASE live(n + 1) # live(n) /\ Cardinality(live(n)) > n
    <3>1. live(n) \in SUBSET live(n + 1)
      BY <2>1
    <3>2. Cardinality(live(n)) <= Cardinality(live(n + 1)) /\ Cardinality(live(n)) # Cardinality(live(n + 1))
      BY <2>4, <3>1, <1>2, FS_Subset
    <3>3. Cardinality(live(n + 1)) > n + 1
      <4> HIDE DEF live
      <4> QED
        BY <2>4, <3>2, <1>2
    <3> QED
      BY <1>5, <2>1, <3>3
  <2> QED
    BY <1>5, <2>2, <2>3, <2>4
<1>6. N \in Nat
  BY FS_CardinalityType
<1>7. N \in T
  <2> HIDE DEF T
  <2> QED
    BY <1>4, <1>5, <1>6, SetInduction
<1>8. Closed(t, within[N])
  <2> HIDE DEF N, live
  <2> QED
    BY <1>2, <1>6, <1>7
<1> QED
  BY <1>1, <1>7, <1>8

(* Whatever it finds but the id itself is a child of something it finds.   *)
LEMMA CollectSubtreeSupported ==
    ASSUME NEW t, NEW id, IsFiniteSet(DOMAIN t.node),
           NEW y \in CollectSubtree(t, id), y # id
    PROVE  \E x \in CollectSubtree(t, id) : y \in KidsOf(t, x)
<1> DEFINE all == CollectSubtree(t, id)
           C == {z \in all : z = id \/ \E x \in all : z \in KidsOf(t, x)}
<1>1. id \in all /\ Closed(t, all)
  BY CollectSubtreeClosed
<1> HIDE DEF all
<1>2. id \in C /\ Closed(t, C)
  BY <1>1 DEF Closed
<1>3. CollectSubtree(t, id) \subseteq C
  <2> HIDE DEF C
  <2> QED
    BY <1>2, CollectSubtreeLeast
<1> QED
  BY <1>3 DEF all

(* What is below a node below id is below id.                              *)
LEMMA CollectSubtreeTransitive ==
    ASSUME NEW t, NEW id, IsFiniteSet(DOMAIN t.node), NEW y \in CollectSubtree(t, id)
    PROVE  CollectSubtree(t, y) \subseteq CollectSubtree(t, id)
BY CollectSubtreeClosed, CollectSubtreeLeast

(* Child lists that lose entries lead to less.                             *)
LEMMA CollectSubtreeShrinks ==
    ASSUME NEW t, NEW u, IsFiniteSet(DOMAIN t.node), IsFiniteSet(DOMAIN u.node),
           \A x : KidsOf(u, x) \subseteq KidsOf(t, x), NEW id
    PROVE  CollectSubtree(u, id) \subseteq CollectSubtree(t, id)
<1>1. id \in CollectSubtree(t, id) /\ Closed(t, CollectSubtree(t, id))
  BY CollectSubtreeClosed
<1>2. Closed(u, CollectSubtree(t, id))
  BY <1>1 DEF Closed
<1> QED
  BY <1>1, <1>2, CollectSubtreeLeast

----------------------------------------------------------------------------
(* What the operations do to the child lists.                              *)

Lists(t, X) == \A x \in DOMAIN t.node : t.node[x].children \in Seq(X)

(* An id without a node has no children.                                   *)
LEMMA KidsOfMissing ==
    ASSUME NEW t, NEW x, x \notin DOMAIN t.node
    PROVE  KidsOf(t, x) = {}
BY DEF KidsOf, ChildrenOf, IsLive, ToSet

(* A push adds one child, and lists it once if it was not listed.          *)
LEMMA AppendedKids ==
    ASSUME NEW X, NEW s \in Seq(X), NEW e \in X
    PROVE  /\ ToSet(Append(s, e)) = ToSet(s) \union {e}
           /\ IsInjective(s) /\ e \notin ToSet(s) => IsInjective(Append(s, e))
<1>1. /\ Len(s) \in Nat /\ DOMAIN s = 1..Len(s) /\ DOMAIN Append(s, e) = 1..(Len(s) + 1)
      /\ Append(s, e)[Len(s) + 1] = e /\ \A i \in DOMAIN s : Append(s, e)[i] = s[i]
  BY AppendProperties
<1>2. /\ \A i \in DOMAIN Append(s, e) : i \in DOMAIN s \/ i = Len(s) + 1
      /\ Len(s) + 1 \in DOMAIN Append(s, e) /\ DOMAIN s \subseteq DOMAIN Append(s, e)
  BY <1>1
<1>3. ToSet(Append(s, e)) = ToSet(s) \union {e}
  BY <1>1, <1>2 DEF ToSet
<1>4. ASSUME IsInjective(s), e \notin ToSet(s)
      PROVE  IsInjective(Append(s, e))
  BY <1>1, <1>2, <1>4 DEF IsInjective, ToSet
<1> QED
  BY <1>3, <1>4

(* An insertion lists the new node last by its parent, if that one is      *)
(* live, and leaves every other list alone.                                *)
LEMMA KidsOfAdd ==
    ASSUME NEW t, NEW X, Lists(t, X), t.next \in X, NEW kind, NEW label, NEW value, NEW p,
           NEW u, u.node = AddNodeWithValue(t, kind, label, value, p).node,
           u.parent = AddNodeWithValue(t, kind, label, value, p).parent
    PROVE  /\ DOMAIN u.node = DOMAIN t.node \union {t.next}
           /\ u.parent = Put(t.parent, t.next, p)
           /\ \A x : KidsOf(u, x) = (IF x = t.next THEN {} ELSE KidsOf(t, x))
                                      \union (IF x = p /\ x \in DOMAIN u.node THEN {t.next} ELSE {})
           /\ \A x \in DOMAIN u.node :
                 (IF x = t.next THEN TRUE ELSE /\ IsInjective(t.node[x].children)
                                               /\ t.next \notin KidsOf(t, x))
                 => IsInjective(u.node[x].children)
<1> DEFINE bare == NewNode(kind, label, value)
           grown == Put(t.node, t.next, bare)
<1>1. /\ DOMAIN grown = DOMAIN t.node \union {t.next}
      /\ \A x \in DOMAIN grown : grown[x] = IF x = t.next THEN bare ELSE t.node[x]
  BY DEF Put
<1>2. bare.children = << >>
  BY DEF NewNode
<1>3. /\ u.node = IF p \in DOMAIN grown THEN [grown EXCEPT ![p].children = Append(@, t.next)] ELSE grown
      /\ u.parent = Put(t.parent, t.next, p)
  BY DEF AddNodeWithValue
<1> HIDE DEF bare, grown
<1>4. DOMAIN u.node = DOMAIN grown
  BY <1>3
<1>5. \A x \in DOMAIN grown : grown[x].children \in Seq(X)
  BY <1>1, <1>2, EmptySeq DEF Lists
<1>6. \A x \in DOMAIN grown : u.node[x].children =
          IF x = p THEN Append(grown[x].children, t.next) ELSE grown[x].children
  BY <1>3
<1>7. \A x \in DOMAIN grown : KidsOf(u, x) = ToSet(u.node[x].children)
  BY <1>4 DEF KidsOf, ChildrenOf, IsLive
<1>8. \A x \in DOMAIN grown : ToSet(grown[x].children) = IF x = t.next THEN {} ELSE KidsOf(t, x)
  <2>1. ToSet(<< >>) = {}
    BY DEF ToSet
  <2> QED
    BY <1>1, <1>2, <2>1 DEF KidsOf, ChildrenOf, IsLive
<1>9. ASSUME NEW x
      PROVE  KidsOf(u, x) = (IF x = t.next THEN {} ELSE KidsOf(t, x))
                                \union (IF x = p /\ x \in DOMAIN u.node THEN {t.next} ELSE {})
  <2>1. CASE x \in DOMAIN grown
    BY <1>4, <1>5, <1>6, <1>7, <1>8, <2>1, AppendedKids
  <2>2. CASE x \notin DOMAIN grown
    BY <1>1, <1>4, <2>2, KidsOfMissing
  <2> QED
    BY <2>1, <2>2
<1>10. ASSUME NEW x \in DOMAIN u.node,
              IF x = t.next THEN TRUE ELSE /\ IsInjective(t.node[x].children)
                                           /\ t.next \notin KidsOf(t, x)
       PROVE  IsInjective(u.node[x].children)
  <2>1. IsInjective(grown[x].children) /\ t.next \notin ToSet(grown[x].children)
    <3>1. IsInjective(<< >>)
      BY DEF IsInjective
    <3> QED
      BY <1>1, <1>2, <1>4, <1>8, <1>10, <3>1
  <2> QED
    BY <1>4, <1>5, <1>6, <2>1, AppendedKids
<1> QED
  BY <1>1, <1>3, <1>4, <1>9, <1>10

(* The child lists of the tree an addition makes.                          *)
LEMMA AddLists ==
    ASSUME NEW t, NEW X, Lists(t, X), t.next \in X, NEW kind, NEW label, NEW value, NEW p
    PROVE  Lists(AddNodeWithValue(t, kind, label, value, p), X)
<1> DEFINE u == AddNodeWithValue(t, kind, label, value, p)
           bare == NewNode(kind, label, value)
           grown == Put(t.node, t.next, bare)
<1>1. \A x \in DOMAIN grown : grown[x] = IF x = t.next THEN bare ELSE t.node[x]
  BY DEF Put
<1>2. bare.children = << >>
  BY DEF NewNode
<1>3. \A x \in DOMAIN grown : x = t.next \/ x \in DOMAIN t.node
  BY DEF Put
<1>4. u.node = IF p \in DOMAIN grown THEN [grown EXCEPT ![p].children = Append(@, t.next)] ELSE grown
  BY DEF AddNodeWithValue
<1> HIDE DEF u, bare, grown
<1>5. \A x \in DOMAIN grown : grown[x].children \in Seq(X)
  BY <1>1, <1>2, <1>3, EmptySeq DEF Lists
<1>6. \A x \in DOMAIN grown : u.node[x].children =
          IF x = p THEN Append(grown[x].children, t.next) ELSE grown[x].children
  BY <1>4
<1>7. DOMAIN u.node = DOMAIN grown
  BY <1>4
<1> QED
  BY <1>5, <1>6, <1>7, AppendProperties, ZenonT(60) DEF Lists, u

(* Detaching strikes a node from the list of its recorded parent only.     *)
LEMMA KidsOfDetach ==
    ASSUME NEW t, NEW X, Lists(t, X), NEW id
    PROVE  LET u == Detach(t, id)
               from(x) == id \in DOMAIN t.parent /\ x = t.parent[id] IN
           /\ DOMAIN u.node = DOMAIN t.node
           /\ Lists(u, X)
           /\ \A x \in DOMAIN t.node :
                 /\ KidsOf(u, x) = KidsOf(t, x) \ (IF from(x) THEN {id} ELSE {})
                 /\ IsInjective(t.node[x].children) => IsInjective(u.node[x].children)
<1> DEFINE u == Detach(t, id)
           from(x) == id \in DOMAIN t.parent /\ x = t.parent[id]
<1>1. /\ DOMAIN u.node = DOMAIN t.node
      /\ \A x \in DOMAIN t.node : u.node[x].children =
            IF from(x) THEN Without(t.node[x].children, id) ELSE t.node[x].children
  BY DEF Detach, IsLive
<1> HIDE DEF u, from
<1>2. \A x \in DOMAIN t.node : /\ KidsOf(u, x) = ToSet(u.node[x].children)
                               /\ KidsOf(t, x) = ToSet(t.node[x].children)
                               /\ t.node[x].children \in Seq(X)
  BY <1>1 DEF KidsOf, ChildrenOf, IsLive, Lists
<1>3. ASSUME NEW x \in DOMAIN t.node
      PROVE  /\ KidsOf(u, x) = KidsOf(t, x) \ (IF from(x) THEN {id} ELSE {})
             /\ IsInjective(t.node[x].children) => IsInjective(u.node[x].children)
             /\ u.node[x].children \in Seq(X)
  <2>1. CASE from(x)
    BY <1>1, <1>2, <2>1, WithoutProperties
  <2>2. CASE ~from(x)
    BY <1>1, <1>2, <2>2
  <2> QED
    BY <2>1, <2>2
<1>4. Lists(u, X)
  BY <1>1, <1>3 DEF Lists
<1> QED
  BY <1>1, <1>3, <1>4 DEF u, from

(* A removal takes the lists of all it collects and strikes the removed    *)
(* node from the list of its parent.                                       *)
LEMMA KidsOfRemove ==
    ASSUME NEW t, NEW X, Lists(t, X), NEW id
    PROVE  LET u == RemoveSubtree(t, id)
               left == DOMAIN t.node \ CollectSubtree(t, id)
               from(x) == id \in DOMAIN t.parent /\ x = t.parent[id] IN
           /\ DOMAIN u.node = left
           /\ u.parent = Restrict(t.parent, DOMAIN t.parent \ CollectSubtree(t, id))
           /\ \A x : KidsOf(u, x) = IF x \in left
                                     THEN KidsOf(t, x) \ (IF from(x) THEN {id} ELSE {}) ELSE {}
           /\ \A x \in left : IsInjective(t.node[x].children) => IsInjective(u.node[x].children)
<1> DEFINE u == RemoveSubtree(t, id)
           gone == CollectSubtree(t, id)
           left == DOMAIN t.node \ gone
           out == Detach(t, id)
           from(x) == id \in DOMAIN t.parent /\ x = t.parent[id]
<1>1. u.node = Restrict(out.node, left) /\ u.parent = Restrict(t.parent, DOMAIN t.parent \ gone)
  BY DEF RemoveSubtree
<1>2. /\ DOMAIN out.node = DOMAIN t.node
      /\ \A x \in DOMAIN t.node :
            /\ KidsOf(out, x) = KidsOf(t, x) \ (IF from(x) THEN {id} ELSE {})
            /\ IsInjective(t.node[x].children) => IsInjective(out.node[x].children)
  BY KidsOfDetach
<1> HIDE DEF u, gone, out, from
<1>3. DOMAIN u.node = left /\ \A x \in left : u.node[x] = out.node[x]
  BY <1>1 DEF Restrict
<1>4. \A x : KidsOf(u, x) = IF x \in left THEN KidsOf(out, x) ELSE {}
  <2> TAKE x
  <2>1. CASE x \in left
    BY <1>2, <1>3, <2>1 DEF KidsOf, ChildrenOf, IsLive
  <2>2. CASE x \notin left
    BY <1>3, <2>2, KidsOfMissing
  <2> QED
    BY <2>1, <2>2
<1> QED
  BY <1>1, <1>2, <1>3, <1>4 DEF u, gone, from

(* A removal makes no child list longer.                                   *)
LEMMA RemoveShrinks ==
    ASSUME NEW t, NEW X, Lists(t, X), NEW id
    PROVE  /\ DOMAIN RemoveSubtree(t, id).node \subseteq DOMAIN t.node
           /\ \A x : KidsOf(RemoveSubtree(t, id), x) \subseteq KidsOf(t, x)
<1> DEFINE u == RemoveSubtree(t, id)
           left == DOMAIN t.node \ CollectSubtree(t, id)
           from(x) == id \in DOMAIN t.parent /\ x = t.parent[id]
<1>1. /\ DOMAIN u.node = left
      /\ \A x : KidsOf(u, x) = IF x \in left
                                THEN KidsOf(t, x) \ (IF from(x) THEN {id} ELSE {}) ELSE {}
  <2>1. /\ DOMAIN u.node = left
        /\ u.parent = Restrict(t.parent, DOMAIN t.parent \ CollectSubtree(t, id))
        /\ \A x : KidsOf(u, x) = IF x \in left
                                  THEN KidsOf(t, x) \ (IF from(x) THEN {id} ELSE {}) ELSE {}
        /\ \A x \in left : IsInjective(t.node[x].children) => IsInjective(u.node[x].children)
    BY KidsOfRemove
  <2> QED
    BY <2>1
<1> HIDE DEF u
<1>2. DOMAIN u.node \subseteq DOMAIN t.node /\ \A x : KidsOf(u, x) \subseteq KidsOf(t, x)
  BY <1>1
<1> QED
  BY <1>2 DEF u

(* The edits of a value or of a label leave the child lists alone.         *)
SameLists(t, u) ==
    /\ DOMAIN u.node = DOMAIN t.node /\ u.parent = t.parent
    /\ \A x \in DOMAIN t.node : u.node[x].children = t.node[x].children

(* Neither the edit of a value nor that of a label touches a list.         *)
LEMMA KidsOfSet ==
    ASSUME NEW t, NEW id, NEW v
    PROVE  SameLists(t, SetValue(t, id, v)) /\ SameLists(t, SetLabel(t, id, v))
BY DEF SetValue, SetLabel, IsLive, SameLists

(* Trees with the same lists have the same children.                       *)
LEMMA KidsOfSame ==
    ASSUME NEW t, NEW u, SameLists(t, u)
    PROVE  \A x : KidsOf(u, x) = KidsOf(t, x)
BY DEF KidsOf, ChildrenOf, IsLive, SameLists

(* A move lists its node by the new parent and adds no other child.        *)
LEMMA KidsOfMove ==
    ASSUME NEW t, NEW X, Lists(t, X), NEW id \in X, NEW p
    PROVE  LET u == MoveNode(t, id, p) IN
           /\ DOMAIN u.node = DOMAIN t.node
           /\ \A x : KidsOf(u, x) \subseteq KidsOf(t, x) \union (IF x = p THEN {id} ELSE {})
<1> DEFINE u == MoveNode(t, id, p)
           out == Detach(t, id)
<1>1. /\ DOMAIN out.node = DOMAIN t.node /\ Lists(out, X)
      /\ \A x \in DOMAIN t.node : KidsOf(out, x) \subseteq KidsOf(t, x)
  BY KidsOfDetach
<1>2. u = IF p \in DOMAIN t.node
          THEN [out EXCEPT !.node[p].children = Append(@, id)] ELSE out
  BY DEF MoveNode, IsLive
<1> HIDE DEF u, out
<1>3. DOMAIN u.node = DOMAIN t.node
  BY <1>1, <1>2
<1>4. \A x \in DOMAIN t.node : u.node[x].children =
          IF x = p THEN Append(out.node[x].children, id) ELSE out.node[x].children
  BY <1>1, <1>2
<1>5. ASSUME NEW x
      PROVE  KidsOf(u, x) \subseteq KidsOf(t, x) \union (IF x = p THEN {id} ELSE {})
  <2>1. CASE x \in DOMAIN t.node
    <3>1. /\ KidsOf(u, x) = ToSet(u.node[x].children)
          /\ KidsOf(out, x) = ToSet(out.node[x].children)
          /\ out.node[x].children \in Seq(X)
      BY <1>1, <1>3, <2>1 DEF KidsOf, ChildrenOf, IsLive, Lists
    <3> QED
      BY <1>1, <1>4, <2>1, <3>1, AppendedKids
  <2>2. CASE x \notin DOMAIN t.node
    BY <1>3, <2>2, KidsOfMissing
  <2> QED
    BY <2>1, <2>2
<1> QED
  BY <1>3, <1>5 DEF u

----------------------------------------------------------------------------
(* Trees whose child lists agree with parent_index, and trees without a    *)
(* circle.                                                                 *)

(* Child lists name live nodes that name the owner of the list for their   *)
(* parent, each once.                                                      *)
Agreed(t) ==
    \A p \in DOMAIN t.node :
        /\ IsInjective(t.node[p].children)
        /\ \A c \in KidsOf(t, p) :
              c \in DOMAIN t.node /\ c \in DOMAIN t.parent /\ t.parent[c] = p

(* No list that is walked from a child of a node names the node.           *)
NoCircle(t) ==
    \A id \in DOMAIN t.node : \A c \in KidsOf(t, id) : id \notin CollectSubtree(t, c)

(* A node that is added under a fresh id, below any id, keeps agreement.   *)
LEMMA AddAgrees ==
    ASSUME NEW t, NEW X, Lists(t, X), t.next \in X, NEW kind, NEW label, NEW value, NEW p,
           NEW u, u.node = AddNodeWithValue(t, kind, label, value, p).node,
           u.parent = AddNodeWithValue(t, kind, label, value, p).parent,
           Agreed(t), t.next \notin DOMAIN t.node
    PROVE  Agreed(u)
<1> DEFINE n == t.next
<1>1. /\ DOMAIN u.node = DOMAIN t.node \union {n}
      /\ u.parent = Put(t.parent, n, p)
      /\ \A x : KidsOf(u, x) = (IF x = n THEN {} ELSE KidsOf(t, x))
                                  \union (IF x = p /\ x \in DOMAIN u.node THEN {n} ELSE {})
      /\ \A x \in DOMAIN u.node :
            (IF x = n THEN TRUE ELSE IsInjective(t.node[x].children) /\ n \notin KidsOf(t, x))
            => IsInjective(u.node[x].children)
  BY KidsOfAdd
<1>2. \A c \in DOMAIN t.parent \union {n} : c \in DOMAIN u.parent
  BY <1>1 DEF Put
<1>3. \A c \in DOMAIN t.parent \union {n} : u.parent[c] = IF c = n THEN p ELSE t.parent[c]
  BY <1>1 DEF Put
<1>4. ASSUME NEW x \in DOMAIN u.node
      PROVE  IsInjective(u.node[x].children)
  BY <1>1 DEF Agreed
<1>5. ASSUME NEW x \in DOMAIN u.node, NEW c \in KidsOf(u, x)
      PROVE  c \in DOMAIN u.node /\ c \in DOMAIN u.parent /\ u.parent[c] = x
  <2>1. CASE c = n /\ x = p
    BY <1>1, <1>2, <1>3, <2>1
  <2>2. CASE x # n /\ c \in KidsOf(t, x)
    <3>1. c \in DOMAIN t.node /\ c \in DOMAIN t.parent /\ t.parent[c] = x
      BY <1>1, <2>2 DEF Agreed
    <3> QED
      BY <1>1, <1>2, <1>3, <3>1
  <2> QED
    BY <1>1, <2>1, <2>2
<1> QED
  BY <1>4, <1>5 DEF Agreed

(* A removal keeps agreement: what is left names nothing that is gone, and *)
(* the node at the top is struck from the one list that names it.          *)
LEMMA RemoveAgrees ==
    ASSUME NEW t, NEW X, Lists(t, X), IsFiniteSet(DOMAIN t.node), NEW id, Agreed(t)
    PROVE  Agreed(RemoveSubtree(t, id))
<1> DEFINE u == RemoveSubtree(t, id)
           gone == CollectSubtree(t, id)
           left == DOMAIN t.node \ gone
           from(x) == id \in DOMAIN t.parent /\ x = t.parent[id]
<1>1. /\ DOMAIN u.node = left
      /\ u.parent = Restrict(t.parent, DOMAIN t.parent \ gone)
      /\ \A x : KidsOf(u, x) = IF x \in left
                                THEN KidsOf(t, x) \ (IF from(x) THEN {id} ELSE {}) ELSE {}
      /\ \A x \in left : IsInjective(t.node[x].children) => IsInjective(u.node[x].children)
  BY KidsOfRemove
<1>2. \A c \in DOMAIN t.parent \ gone : c \in DOMAIN u.parent /\ u.parent[c] = t.parent[c]
  BY <1>1 DEF Restrict
<1>3. \A y \in gone : y # id => \E z \in gone : y \in KidsOf(t, z)
  BY CollectSubtreeSupported
<1> HIDE DEF u, gone
<1>4. ASSUME NEW x \in left, NEW c \in KidsOf(u, x)
      PROVE  c \in DOMAIN u.node /\ c \in DOMAIN u.parent /\ u.parent[c] = x
  <2>1. /\ c \in KidsOf(t, x) /\ ~(from(x) /\ c = id)
        /\ c \in DOMAIN t.node /\ c \in DOMAIN t.parent /\ t.parent[c] = x
    BY <1>1 DEF Agreed
  <2>2. c # id
    BY <2>1
  <2>3. c \notin gone
    <3> SUFFICES ASSUME c \in gone PROVE FALSE
      OBVIOUS
    <3>1. PICK z \in gone : c \in KidsOf(t, z)
      BY <1>3, <2>2
    <3>2. z \in DOMAIN t.node
      BY <3>1, KidsOfMissing
    <3>3. t.parent[c] = z
      BY <3>1, <3>2 DEF Agreed
    <3> QED
      BY <2>1, <3>1, <3>3
  <2> QED
    BY <1>1, <1>2, <2>1, <2>3
<1> QED
  BY <1>1, <1>4 DEF Agreed, u

(* An edit of a value or a label keeps agreement.                          *)
LEMMA SetAgrees ==
    ASSUME NEW t, NEW u, SameLists(t, u), Agreed(t)
    PROVE  Agreed(u)
BY KidsOfSame DEF Agreed, SameLists

(* In a tree that agrees, what is reached from the root is live, but for   *)
(* the root.                                                               *)
LEMMA AgreedReach ==
    ASSUME NEW t, IsFiniteSet(DOMAIN t.node), Agreed(t), NEW id
    PROVE  CollectSubtree(t, id) \subseteq DOMAIN t.node \union {id}
<1> SUFFICES ASSUME NEW y \in CollectSubtree(t, id), y # id
             PROVE  y \in DOMAIN t.node
  OBVIOUS
<1>1. PICK x \in CollectSubtree(t, id) : y \in KidsOf(t, x)
  BY CollectSubtreeSupported
<1>2. x \in DOMAIN t.node
  BY <1>1, KidsOfMissing
<1> QED
  BY <1>1, <1>2 DEF Agreed

(* An addition makes nothing reachable but the node that is added, and     *)
(* that only if its parent was reachable or it is the root.                *)
LEMMA AddReaches ==
    ASSUME NEW t, NEW X, Lists(t, X), t.next \in X, IsFiniteSet(DOMAIN t.node),
           NEW kind, NEW label, NEW value, NEW p,
           NEW u, u.node = AddNodeWithValue(t, kind, label, value, p).node,
           u.parent = AddNodeWithValue(t, kind, label, value, p).parent,
           Agreed(t), NEW y \in Reachable(u)
    PROVE  \/ y \in Reachable(t)
           \/ y = t.next /\ (u.parent[y] \in Reachable(t) \/ y = RootId)
<1> DEFINE n == t.next
           R == CollectSubtree(t, RootId)
           C == R \union (IF p \in Reachable(t) \/ n = RootId THEN {n} ELSE {})
<1>1. /\ DOMAIN u.node = DOMAIN t.node \union {n}
      /\ u.parent = Put(t.parent, n, p)
      /\ \A x : KidsOf(u, x) = (IF x = n THEN {} ELSE KidsOf(t, x))
                                  \union (IF x = p /\ x \in DOMAIN u.node THEN {n} ELSE {})
  BY KidsOfAdd
<1>2. RootId \in R /\ Closed(t, R) /\ R \subseteq DOMAIN t.node \union {RootId}
  BY CollectSubtreeClosed, AgreedReach
<1>3. Reachable(t) = R \intersect DOMAIN t.node
  BY DEF Reachable
<1> HIDE DEF R
<1>4. Closed(u, C)
  BY <1>1, <1>2, <1>3 DEF Closed
<1>5. IsFiniteSet(DOMAIN u.node)
  BY <1>1, FS_AddElement
<1>6. CollectSubtree(u, RootId) \subseteq C
  <2> HIDE DEF C
  <2>1. RootId \in C
    BY <1>2 DEF C
  <2> QED
    BY <1>4, <1>5, <2>1, CollectSubtreeLeast
<1>7. y \in C /\ y \in DOMAIN u.node
  BY <1>6 DEF Reachable
<1>8. u.parent[n] = p
  BY <1>1 DEF Put
<1> QED
  BY <1>1, <1>2, <1>3, <1>7, <1>8

(* Child lists that lose entries, and trees that lose nodes, reach less.   *)
LEMMA ShrinkReaches ==
    ASSUME NEW t, NEW u, IsFiniteSet(DOMAIN t.node), DOMAIN u.node \subseteq DOMAIN t.node,
           \A x : KidsOf(u, x) \subseteq KidsOf(t, x)
    PROVE  Reachable(u) \subseteq Reachable(t) /\ (NoCircle(t) => NoCircle(u))
<1>1. IsFiniteSet(DOMAIN u.node)
  BY FS_Subset
<1>2. \A id : CollectSubtree(u, id) \subseteq CollectSubtree(t, id)
  BY <1>1, CollectSubtreeShrinks
<1> QED
  BY <1>2 DEF Reachable, NoCircle

(* An addition of a node that is not added below itself closes no circle.  *)
LEMMA AddNoCircle ==
    ASSUME NEW t, NEW X, Lists(t, X), t.next \in X, IsFiniteSet(DOMAIN t.node),
           NEW kind, NEW label, NEW value, NEW p,
           NEW u, u.node = AddNodeWithValue(t, kind, label, value, p).node,
           u.parent = AddNodeWithValue(t, kind, label, value, p).parent,
           NoCircle(t), p # t.next
    PROVE  NoCircle(u)
<1> DEFINE n == t.next
<1>1. /\ DOMAIN u.node = DOMAIN t.node \union {n}
      /\ u.parent = Put(t.parent, n, p)
      /\ \A x : KidsOf(u, x) = (IF x = n THEN {} ELSE KidsOf(t, x))
                                  \union (IF x = p /\ x \in DOMAIN u.node THEN {n} ELSE {})
  BY KidsOfAdd
<1>2. IsFiniteSet(DOMAIN u.node)
  BY <1>1, FS_AddElement
<1>3. CollectSubtree(u, n) \subseteq {n}
  <2>1. Closed(u, {n})
    BY <1>1 DEF Closed
  <2> QED
    BY <1>2, <2>1, CollectSubtreeLeast
<1>4. ASSUME NEW c
      PROVE  CollectSubtree(u, c) \subseteq CollectSubtree(t, c) \union {n}
  <2> DEFINE C == CollectSubtree(t, c) \union {n}
  <2>1. c \in CollectSubtree(t, c) /\ Closed(t, CollectSubtree(t, c))
    BY CollectSubtreeClosed
  <2>2. c \in C /\ Closed(u, C)
    BY <1>1, <2>1 DEF Closed
  <2> HIDE DEF C
  <2>3. CollectSubtree(u, c) \subseteq C
    BY <1>2, <2>2, CollectSubtreeLeast
  <2> QED
    BY <2>3 DEF C
<1>5. ASSUME NEW x \in DOMAIN u.node, NEW c \in KidsOf(u, x)
      PROVE  x \notin CollectSubtree(u, c)
  <2>1. x # n
    BY <1>1
  <2>2. CASE c = n
    BY <1>3, <2>1, <2>2
  <2>3. CASE c \in KidsOf(t, x)
    BY <1>1, <1>4, <2>1, <2>3 DEF NoCircle
  <2> QED
    BY <1>1, <2>1, <2>2, <2>3
<1> QED
  BY <1>5 DEF NoCircle

(* A move to a place that is not below the node closes no circle.          *)
LEMMA MoveNoCircle ==
    ASSUME NEW t, NEW X, Lists(t, X), IsFiniteSet(DOMAIN t.node), NEW id \in X, NEW p,
           NoCircle(t), p \notin CollectSubtree(t, id)
    PROVE  NoCircle(MoveNode(t, id, p))
<1> DEFINE u == MoveNode(t, id, p)
           G == CollectSubtree(t, id)
<1>1. /\ DOMAIN u.node = DOMAIN t.node
      /\ \A x : KidsOf(u, x) \subseteq KidsOf(t, x) \union (IF x = p THEN {id} ELSE {})
  BY KidsOfMove
<1>2. IsFiniteSet(DOMAIN u.node)
  BY <1>1
<1>3. id \in G /\ Closed(t, G)
  BY CollectSubtreeClosed
<1>4. p \notin G
  OBVIOUS
<1> HIDE DEF u
<1>5. ASSUME NEW c \in G
      PROVE  CollectSubtree(u, c) \subseteq CollectSubtree(t, c)
  <2> DEFINE C == CollectSubtree(t, c)
  <2>1. c \in C /\ Closed(t, C) /\ C \subseteq G
    BY CollectSubtreeClosed, CollectSubtreeTransitive
  <2>2. Closed(u, C)
    BY <1>1, <1>4, <2>1 DEF Closed
  <2> QED
    BY <1>2, <2>1, <2>2, CollectSubtreeLeast
<1>6. ASSUME NEW c
      PROVE  CollectSubtree(u, c) \subseteq CollectSubtree(t, c) \union G
  <2> DEFINE C == CollectSubtree(t, c) \union G
  <2>1. c \in CollectSubtree(t, c) /\ Closed(t, CollectSubtree(t, c))
    BY CollectSubtreeClosed
  <2>2. c \in C /\ Closed(u, C)
    BY <1>1, <1>3, <2>1 DEF Closed
  <2> HIDE DEF C
  <2>3. CollectSubtree(u, c) \subseteq C
    BY <1>2, <2>2, CollectSubtreeLeast
  <2> QED
    BY <2>3 DEF C
<1>7. ASSUME NEW x \in DOMAIN u.node, NEW c \in KidsOf(u, x)
      PROVE  x \notin CollectSubtree(u, c)
  <2>1. CASE c \in KidsOf(t, x) /\ x \in G
    BY <1>1, <1>3, <1>5, <2>1 DEF NoCircle, Closed
  <2>2. CASE c \in KidsOf(t, x) /\ x \notin G
    BY <1>1, <1>6, <2>2 DEF NoCircle
  <2>3. CASE x = p /\ c = id
    BY <1>3, <1>4, <1>5, <2>3
  <2> QED
    BY <1>1, <2>1, <2>2, <2>3
<1> QED
  BY <1>7 DEF NoCircle, u

----------------------------------------------------------------------------
(* What the operations of a patch do to a tree.                            *)

(* What it takes to be a tree, in terms of child lists as sets.            *)
LEMMA TreeFacts ==
    ASSUME NEW t, IsTree(t)
    PROVE  /\ Agreed(t) /\ Lists(t, Nat) /\ IsFiniteSet(DOMAIN t.node)
           /\ t.next \in Nat /\ RootId \in DOMAIN t.node /\ DOMAIN t.node \subseteq Nat
           /\ \A x \in DOMAIN t.node : x < t.next
           /\ DOMAIN t.parent = DOMAIN t.node \ {RootId}
           /\ \A x, c : c \in KidsOf(t, x) =>
                 /\ x \in DOMAIN t.node /\ c \in DOMAIN t.parent /\ c \in DOMAIN t.node
                 /\ t.parent[c] = x /\ x < c
           /\ \A c \in DOMAIN t.parent :
                 /\ t.parent[c] \in Nat /\ t.parent[c] < c
                 /\ t.parent[c] \in DOMAIN t.node => c \in KidsOf(t, t.parent[c])
<1>1. /\ t.next \in Nat /\ RootId \in DOMAIN t.node /\ DOMAIN t.node \subseteq 0..(t.next - 1)
      /\ DOMAIN t.parent = DOMAIN t.node \ {RootId}
  BY DEF IsTree
<1>2. \A x \in DOMAIN t.node : x \in Nat /\ x < t.next
  BY <1>1
<1>3. IsFiniteSet(DOMAIN t.node)
  <2>1. t.next - 1 \in Int
    BY <1>1
  <2>2. IsFiniteSet(0..(t.next - 1))
    BY <2>1, FS_Interval
  <2> QED
    BY <1>1, <2>2, FS_Subset
<1>4. \A c \in DOMAIN t.parent : t.parent[c] \in 0..(c - 1)
  BY DEF IsTree
<1>5. \A c \in DOMAIN t.parent : c \in Nat /\ t.parent[c] \in Nat /\ t.parent[c] < c
  BY <1>1, <1>2, <1>4
<1>6. \A x \in DOMAIN t.node : KidsOf(t, x) = ToSet(t.node[x].children)
  BY DEF KidsOf, ChildrenOf, IsLive
<1>7. ASSUME NEW x \in DOMAIN t.node
      PROVE  /\ t.node[x].children \in Seq(DOMAIN t.parent)
             /\ IsInjective(t.node[x].children)
             /\ \A c \in KidsOf(t, x) : t.parent[c] = x
  BY <1>6 DEF IsTree
<1>8. ASSUME NEW x \in DOMAIN t.node
      PROVE  /\ KidsOf(t, x) \subseteq DOMAIN t.parent
             /\ t.node[x].children \in Seq(Nat)
  <2>1. KidsOf(t, x) \subseteq DOMAIN t.parent
    <3>1. \A i \in DOMAIN t.node[x].children : t.node[x].children[i] \in DOMAIN t.parent
      BY <1>7
    <3> QED
      BY <1>6, <3>1 DEF ToSet
  <2>2. DOMAIN t.parent \subseteq Nat
    BY <1>5
  <2> QED
    BY <1>7, <2>1, <2>2, SeqMonotonic
<1>9. ASSUME NEW x, NEW c, c \in KidsOf(t, x)
      PROVE  /\ x \in DOMAIN t.node /\ c \in DOMAIN t.parent /\ c \in DOMAIN t.node
             /\ t.parent[c] = x /\ x < c
  <2>1. x \in DOMAIN t.node
    BY <1>9, KidsOfMissing
  <2> QED
    BY <1>1, <1>5, <1>7, <1>8, <1>9, <2>1
<1>10. \A c \in DOMAIN t.parent : t.parent[c] \in DOMAIN t.node => c \in KidsOf(t, t.parent[c])
  BY <1>6 DEF IsTree, IsLive
<1>11. Agreed(t)
  BY <1>7, <1>9 DEF Agreed
<1>12. Lists(t, Nat)
  BY <1>8 DEF Lists
<1> QED
  BY <1>1, <1>2, <1>3, <1>5, <1>9, <1>10, <1>11, <1>12

(* ... and back.                                                           *)
LEMMA TreeByFacts ==
    ASSUME NEW t, Agreed(t), Lists(t, Nat), t.next \in Nat, RootId \in DOMAIN t.node,
           DOMAIN t.node \subseteq Nat, \A x \in DOMAIN t.node : x < t.next,
           DOMAIN t.parent = DOMAIN t.node \ {RootId},
           \A c \in DOMAIN t.parent :
              /\ t.parent[c] \in Nat /\ t.parent[c] < c
              /\ t.parent[c] \in DOMAIN t.node => c \in KidsOf(t, t.parent[c])
    PROVE  IsTree(t)
<1>1. DOMAIN t.node \subseteq 0..(t.next - 1)
  <2>1. \A x \in DOMAIN t.node : x \in 0..(t.next - 1)
    OBVIOUS
  <2> QED
    BY <2>1
<1>2. \A x \in DOMAIN t.node : KidsOf(t, x) = ToSet(t.node[x].children)
  BY DEF KidsOf, ChildrenOf, IsLive
<1>3. ASSUME NEW x \in DOMAIN t.node
      PROVE  /\ t.node[x].children \in Seq(DOMAIN t.parent)
             /\ IsInjective(t.node[x].children)
             /\ \A c \in ToSet(t.node[x].children) : t.parent[c] = x
  <2>1. t.node[x].children \in Seq(Nat)
    BY DEF Lists
  <2>2. \A c \in KidsOf(t, x) : c \in DOMAIN t.parent /\ t.parent[c] = x
    BY DEF Agreed
  <2>3. \A i \in DOMAIN t.node[x].children : t.node[x].children[i] \in DOMAIN t.parent
    BY <1>2, <2>2 DEF ToSet
  <2>4. t.node[x].children \in Seq(DOMAIN t.parent)
    BY <2>1, <2>3, SMTT(30)
  <2> QED
    BY <1>2, <2>2, <2>4 DEF Agreed
<1>4. ASSUME NEW c \in DOMAIN t.parent
      PROVE  /\ t.parent[c] \in 0..(c - 1)
             /\ ~IsLive(t, t.parent[c]) \/ c \in ToSet(t.node[t.parent[c]].children)
  <2>1. c \in Nat
    OBVIOUS
  <2> QED
    BY <1>2, <2>1 DEF IsLive
<1> QED
  BY <1>1, <1>3, <1>4 DEF IsTree

(* A node that is added below a place an id was given to.                  *)
LEMMA AddKeepsTree ==
    ASSUME NEW t, IsTree(t), NEW kind, NEW label, NEW value, NEW p \in Nat, p < t.next
    PROVE  LET u == AddNodeWithValue(t, kind, label, value, p) IN
           /\ IsTree(u) /\ u.next = t.next + 1
           /\ DOMAIN u.node = DOMAIN t.node \union {t.next}
           /\ u.parent = Put(t.parent, t.next, p)
           /\ \A x : KidsOf(u, x) \subseteq KidsOf(t, x) \union {t.next}
<1> DEFINE u == AddNodeWithValue(t, kind, label, value, p)
           n == t.next
<1>1. /\ Agreed(t) /\ Lists(t, Nat) /\ IsFiniteSet(DOMAIN t.node)
      /\ n \in Nat /\ RootId \in DOMAIN t.node /\ DOMAIN t.node \subseteq Nat
      /\ \A x \in DOMAIN t.node : x < n
      /\ DOMAIN t.parent = DOMAIN t.node \ {RootId}
      /\ \A c \in DOMAIN t.parent :
            /\ t.parent[c] \in Nat /\ t.parent[c] < c
            /\ t.parent[c] \in DOMAIN t.node => c \in KidsOf(t, t.parent[c])
  BY TreeFacts
<1>2. u.next = n + 1 /\ n \notin DOMAIN t.node /\ n # RootId
  BY <1>1 DEF AddNodeWithValue, RootId
<1>3. /\ DOMAIN u.node = DOMAIN t.node \union {n}
      /\ u.parent = Put(t.parent, n, p)
      /\ \A x : KidsOf(u, x) = (IF x = n THEN {} ELSE KidsOf(t, x))
                                  \union (IF x = p /\ x \in DOMAIN u.node THEN {n} ELSE {})
  BY <1>1, KidsOfAdd
<1>4. Agreed(u)
  BY <1>1, <1>2, AddAgrees
<1>5. Lists(u, Nat)
  BY <1>1, AddLists
<1> HIDE DEF u
<1>6. DOMAIN u.parent = DOMAIN u.node \ {RootId}
  BY <1>1, <1>2, <1>3 DEF Put
<1>7. \A c \in DOMAIN u.parent : u.parent[c] = IF c = n THEN p ELSE t.parent[c]
  BY <1>3 DEF Put
<1>8. ASSUME NEW c \in DOMAIN u.parent
      PROVE  /\ u.parent[c] \in Nat /\ u.parent[c] < c
             /\ u.parent[c] \in DOMAIN u.node => c \in KidsOf(u, u.parent[c])
  <2>1. CASE c = n
    BY <1>3, <1>7, <2>1
  <2>2. CASE c # n
    <3>1. c \in DOMAIN t.parent /\ u.parent[c] = t.parent[c]
      BY <1>1, <1>3, <1>6, <1>7, <2>2
    <3>2. t.parent[c] # n
      BY <1>1, <3>1
    <3> QED
      BY <1>1, <1>3, <3>1, <3>2
  <2> QED
    BY <2>1, <2>2
<1>9. \A x \in DOMAIN u.node : x \in Nat /\ x < u.next
  BY <1>1, <1>2, <1>3
<1>10. IsTree(u)
  BY <1>1, <1>2, <1>3, <1>4, <1>5, <1>6, <1>8, <1>9, TreeByFacts
<1> QED
  BY <1>2, <1>3, <1>10 DEF u

(* A removal of a node that is not the root.                               *)
LEMMA RemoveKeepsTree ==
    ASSUME NEW t, IsTree(t), NEW id, id # RootId
    PROVE  LET u == RemoveSubtree(t, id) IN
           /\ IsTree(u) /\ u.next = t.next
           /\ DOMAIN u.node = DOMAIN t.node \ CollectSubtree(t, id)
           /\ u.parent = Restrict(t.parent, DOMAIN t.parent \ CollectSubtree(t, id))
           /\ \A x : KidsOf(u, x) \subseteq KidsOf(t, x)
<1> DEFINE u == RemoveSubtree(t, id)
           gone == CollectSubtree(t, id)
           from(x) == id \in DOMAIN t.parent /\ x = t.parent[id]
<1>1. /\ Agreed(t) /\ Lists(t, Nat) /\ IsFiniteSet(DOMAIN t.node)
      /\ t.next \in Nat /\ RootId \in DOMAIN t.node /\ DOMAIN t.node \subseteq Nat
      /\ \A x \in DOMAIN t.node : x < t.next
      /\ DOMAIN t.parent = DOMAIN t.node \ {RootId}
      /\ \A x, c : c \in KidsOf(t, x) => c \in DOMAIN t.parent
      /\ \A c \in DOMAIN t.parent :
            /\ t.parent[c] \in Nat /\ t.parent[c] < c
            /\ t.parent[c] \in DOMAIN t.node => c \in KidsOf(t, t.parent[c])
  BY TreeFacts
<1>2. /\ DOMAIN u.node = DOMAIN t.node \ gone
      /\ u.parent = Restrict(t.parent, DOMAIN t.parent \ gone)
      /\ \A x : KidsOf(u, x) = IF x \in DOMAIN t.node \ gone
                                THEN KidsOf(t, x) \ (IF from(x) THEN {id} ELSE {}) ELSE {}
      /\ \A x \in DOMAIN t.node \ gone :
            IsInjective(t.node[x].children) => IsInjective(u.node[x].children)
  BY <1>1, KidsOfRemove
<1>3. Agreed(u)
  BY <1>1, RemoveAgrees
<1>4. RootId \notin gone
  BY <1>1, CollectSubtreeSupported
<1>5. id \in gone
  BY <1>1, CollectSubtreeClosed
<1>6. u.next = t.next
  BY DEF RemoveSubtree
<1>7. Lists(u, Nat)
  <2>1. /\ DOMAIN Detach(t, id).node = DOMAIN t.node
        /\ Lists(Detach(t, id), Nat)
    BY <1>1, KidsOfDetach
  <2>2. \A x \in DOMAIN u.node : u.node[x] = Detach(t, id).node[x]
    BY DEF RemoveSubtree, Restrict
  <2> QED
    BY <1>2, <2>1, <2>2 DEF Lists
<1> HIDE DEF u, gone
<1>8. /\ DOMAIN u.parent = DOMAIN t.parent \ gone
      /\ \A c \in DOMAIN u.parent : u.parent[c] = t.parent[c]
  BY <1>2 DEF Restrict
<1>9. \A c \in DOMAIN u.parent : u.parent[c] \in DOMAIN u.node => c \in KidsOf(u, u.parent[c])
  BY <1>1, <1>2, <1>5, <1>8
<1>10. IsTree(u)
  BY <1>1, <1>2, <1>3, <1>4, <1>6, <1>7, <1>8, <1>9, TreeByFacts
<1> QED
  BY <1>2, <1>6, <1>10 DEF u, gone

(* The edit of a value or of a label.                                      *)
LEMMA SetKeepsTree ==
    ASSUME NEW t, IsTree(t), NEW u, SameLists(t, u), u.next = t.next
    PROVE  IsTree(u)
BY ZenonT(60) DEF SameLists, IsTree, IsLive

(* An edit of a value or of a label hands out no id.                       *)
LEMMA SetGivesNoId ==
    ASSUME NEW t, NEW id, NEW v
    PROVE  SetValue(t, id, v).next = t.next /\ SetLabel(t, id, v).next = t.next
BY DEF SetValue, SetLabel

----------------------------------------------------------------------------
(* Trees without orphans.                                                  *)

(* Every node has a parent that is live, but for the root.                 *)
Rooted(t) == \A c \in DOMAIN t.parent : IsLive(t, t.parent[c])

(* Then every node is reachable from the root.                             *)
LEMMA RootedReaches ==
    ASSUME NEW t, IsTree(t), Rooted(t)
    PROVE  Reachable(t) = DOMAIN t.node
<1> DEFINE all == CollectSubtree(t, RootId)
           T == {n \in Nat : \A x \in DOMAIN t.node : x < n => x \in all}
<1>1. /\ IsFiniteSet(DOMAIN t.node) /\ t.next \in Nat /\ DOMAIN t.node \subseteq Nat
      /\ \A x \in DOMAIN t.node : x < t.next
      /\ DOMAIN t.parent = DOMAIN t.node \ {RootId}
      /\ \A c \in DOMAIN t.parent :
            /\ t.parent[c] \in Nat /\ t.parent[c] < c
            /\ t.parent[c] \in DOMAIN t.node => c \in KidsOf(t, t.parent[c])
  BY TreeFacts
<1>2. RootId \in all /\ Closed(t, all)
  BY <1>1, CollectSubtreeClosed
<1> HIDE DEF all
<1>3. 0 \in T
  BY <1>1
<1>4. ASSUME NEW n \in Nat, n \in T
      PROVE  n + 1 \in T
  <2> SUFFICES ASSUME NEW x \in DOMAIN t.node, x < n + 1, x # RootId
               PROVE  x \in all
    BY <1>2
  <2>1. x \in DOMAIN t.parent
    BY <1>1
  <2>2. /\ t.parent[x] \in DOMAIN t.node /\ t.parent[x] < x /\ t.parent[x] \in Nat
        /\ x \in KidsOf(t, t.parent[x])
    BY <1>1, <2>1 DEF Rooted, IsLive
  <2>3. t.parent[x] < n
    BY <1>1, <2>2
  <2>4. t.parent[x] \in all
    BY <1>4, <2>2, <2>3
  <2> QED
    BY <1>2, <2>2, <2>4 DEF Closed
<1>5. t.next \in T
  <2> HIDE DEF T
  <2> QED
    BY <1>1, <1>3, <1>4, SetInduction
<1>6. DOMAIN t.node \subseteq all
  BY <1>1, <1>5
<1> QED
  BY <1>6 DEF Reachable, all

----------------------------------------------------------------------------
(* Sequences put together from sequences.                                  *)

(* Any two elements of s are related.                                      *)
Pairwise(s, R) == \A i, j \in DOMAIN s : i # j => <<s[i], s[j]>> \in R

(* Any element of s and any of u are related, both ways round.             *)
Across(s, u, R) == \A a \in ToSet(s), b \in ToSet(u) : <<a, b>> \in R /\ <<b, a>> \in R

(* The concatenation of two sequences has the elements of both, and is     *)
(* pairwise related when they are and the elements of one are to those of  *)
(* the other.                                                              *)
LEMMA ConcatPairwise ==
    ASSUME NEW S, NEW s \in Seq(S), NEW u \in Seq(S), NEW R
    PROVE  /\ s \o u \in Seq(S)
           /\ ToSet(s \o u) = ToSet(s) \union ToSet(u)
           /\ Pairwise(s, R) /\ Pairwise(u, R) /\ Across(s, u, R) => Pairwise(s \o u, R)
<1> DEFINE r == s \o u
<1>1. /\ r \in Seq(S) /\ Len(s) \in Nat /\ Len(u) \in Nat /\ Len(r) = Len(s) + Len(u)
      /\ DOMAIN s = 1..Len(s) /\ DOMAIN u = 1..Len(u) /\ DOMAIN r = 1..(Len(s) + Len(u))
      /\ \A i \in 1..Len(s) : r[i] = s[i]
      /\ \A i \in 1..Len(u) : r[Len(s) + i] = u[i]
  BY ConcatProperties
<1> HIDE DEF r
<1>2. ASSUME NEW i \in DOMAIN r
      PROVE  \/ i \in DOMAIN s /\ r[i] = s[i]
             \/ i - Len(s) \in DOMAIN u /\ r[i] = u[i - Len(s)] /\ i \notin DOMAIN s
  <2>1. CASE i <= Len(s)
    BY <1>1, <2>1
  <2>2. CASE i > Len(s)
    <3>1. i - Len(s) \in 1..Len(u) /\ Len(s) + (i - Len(s)) = i
      BY <1>1, <2>2
    <3> QED
      BY <1>1, <2>2, <3>1
  <2> QED
    BY <1>1, <2>1, <2>2
<1>3. ToSet(r) = ToSet(s) \union ToSet(u)
  <2>1. \A i \in DOMAIN u : Len(s) + i \in DOMAIN r /\ r[Len(s) + i] = u[i]
    BY <1>1
  <2>2. \A i \in DOMAIN s : i \in DOMAIN r /\ r[i] = s[i]
    BY <1>1
  <2> QED
    BY <1>2, <2>1, <2>2 DEF ToSet
<1>4. ASSUME Pairwise(s, R), Pairwise(u, R), Across(s, u, R)
      PROVE  Pairwise(r, R)
  <2> SUFFICES ASSUME NEW i \in DOMAIN r, NEW j \in DOMAIN r, i # j
               PROVE  <<r[i], r[j]>> \in R
    BY DEF Pairwise
  <2>1. CASE i \in DOMAIN s /\ j \in DOMAIN s
    BY <1>1, <1>4, <2>1 DEF Pairwise
  <2>2. CASE i \in DOMAIN s /\ j \notin DOMAIN s
    BY <1>1, <1>2, <1>4, <2>2 DEF Across, ToSet
  <2>3. CASE i \notin DOMAIN s /\ j \in DOMAIN s
    BY <1>1, <1>2, <1>4, <2>3 DEF Across, ToSet
  <2>4. CASE i \notin DOMAIN s /\ j \notin DOMAIN s
    <3>1. i - Len(s) \in DOMAIN u /\ j - Len(s) \in DOMAIN u /\ i - Len(s) # j - Len(s)
      BY <1>1, <1>2, <2>4
    <3> QED
      BY <1>2, <1>4, <2>4, <3>1 DEF Pairwise
  <2> QED
    BY <2>1, <2>2, <2>3, <2>4
<1> QED
  BY <1>1, <1>3, <1>4 DEF r

(* What FlattenSeq puts together step by step.                             *)
LEMMA FlattenSteps ==
    ASSUME NEW S, NEW ss \in Seq(S), ss # << >>
    PROVE  \E f : /\ f[1] = ss[1]
                  /\ \A i \in 1..Len(ss) : i # 1 => f[i] = f[i - 1] \o ss[i]
                  /\ FlattenSeq(ss) = f[Len(ss)]
<1> DEFINE n == Len(ss)
           Def(m, g) == [i \in 1..m |-> IF i = 1 THEN ss[i] ELSE g[i - 1] \o ss[i]]
           T == {m \in Nat : m = 0 \/ \E g : g = Def(m, g)}
           f == CHOOSE g : g = Def(n, g)
<1>1. n \in Nat /\ n # 0
  BY EmptySeq
<1>2. ASSUME NEW m \in Nat, m \in T
      PROVE  m + 1 \in T
  <2>1. CASE m = 0
    <3> DEFINE h == [i \in 1..1 |-> ss[i]]
    <3>1. h = Def(1, h)
      OBVIOUS
    <3>2. m + 1 \in Nat /\ m + 1 = 1
      BY <2>1
    <3> HIDE DEF h, Def
    <3> QED
      BY <3>1, <3>2
  <2>2. CASE m # 0
    <3>1. PICK g : g = Def(m, g)
      BY <1>2, <2>2
    <3> DEFINE h == [i \in 1..(m + 1) |-> IF i = m + 1 THEN g[m] \o ss[m + 1] ELSE g[i]]
    <3>2. \A i \in 1..(m + 1) : h[i] = IF i = 1 THEN ss[i] ELSE h[i - 1] \o ss[i]
      <4> TAKE i \in 1..(m + 1)
      <4>1. CASE i = m + 1
        <5>1. i # 1 /\ i - 1 = m /\ m \in 1..(m + 1) /\ m # m + 1
          BY <2>2, <4>1
        <5>2. h[m] = g[m]
          BY <5>1
        <5> QED
          BY <4>1, <5>1, <5>2
      <4>2. CASE i # m + 1
        <5>1. i \in 1..m /\ (i # 1 => i - 1 \in 1..m)
          BY <4>2
        <5>2. h[i] = g[i] /\ (i # 1 => h[i - 1] = g[i - 1])
          BY <5>1
        <5>3. g[i] = IF i = 1 THEN ss[i] ELSE g[i - 1] \o ss[i]
          BY <3>1, <5>1
        <5> QED
          BY <5>2, <5>3
      <4> QED
        BY <4>1, <4>2
    <3>3. h = Def(m + 1, h)
      <4> HIDE DEF h
      <4>1. DOMAIN h = 1..(m + 1) /\ h = [i \in 1..(m + 1) |-> h[i]]
        BY DEF h
      <4> QED
        BY <3>2, <4>1
    <3>4. m + 1 \in Nat
      OBVIOUS
    <3> HIDE DEF h, Def
    <3> QED
      BY <3>3, <3>4
  <2> QED
    BY <2>1, <2>2
<1>3. n \in T
  <2>1. 0 \in T
    OBVIOUS
  <2> HIDE DEF T
  <2> QED
    BY <1>1, <1>2, <2>1, SetInduction
<1>4. f = Def(n, f)
  BY <1>1, <1>3
<1>5. FlattenSeq(ss) = f[n]
  BY <1>1, Zenon DEF FlattenSeq
<1> HIDE DEF f
<1>6. f[1] = ss[1] /\ \A i \in 1..n : i # 1 => f[i] = f[i - 1] \o ss[i]
  <2>1. \A i \in 1..n : f[i] = IF i = 1 THEN ss[i] ELSE f[i - 1] \o ss[i]
    BY <1>4
  <2>2. 1 \in 1..n
    BY <1>1
  <2> HIDE DEF n
  <2> QED
    BY <2>1, <2>2
<1> QED
  BY <1>5, <1>6

(* Flattened sequences have the elements of all of them, and are pairwise  *)
(* related when each is and any two of them are.                           *)
LEMMA FlattenPairwise ==
    ASSUME NEW S, NEW ss \in Seq(Seq(S)), NEW R
    PROVE  /\ FlattenSeq(ss) \in Seq(S)
           /\ \A a \in ToSet(FlattenSeq(ss)) : \E i \in DOMAIN ss : a \in ToSet(ss[i])
           /\ (\A i \in DOMAIN ss : Pairwise(ss[i], R))
              /\ (\A i, j \in DOMAIN ss : i # j => Across(ss[i], ss[j], R))
              => Pairwise(FlattenSeq(ss), R)
<1> DEFINE n == Len(ss)
           Given == /\ \A i \in DOMAIN ss : Pairwise(ss[i], R)
                    /\ \A i, j \in DOMAIN ss : i # j => Across(ss[i], ss[j], R)
<1>1. n \in Nat /\ DOMAIN ss = 1..n /\ \A i \in 1..n : ss[i] \in Seq(S)
  OBVIOUS
<1>2. CASE ss = << >>
  <2>1. FlattenSeq(ss) = << >>
    BY <1>2 DEF FlattenSeq
  <2> QED
    BY <2>1, EmptySeq DEF ToSet, Pairwise
<1>3. CASE ss # << >>
  <2>1. PICK f : /\ f[1] = ss[1]
                 /\ \A i \in 1..n : i # 1 => f[i] = f[i - 1] \o ss[i]
                 /\ FlattenSeq(ss) = f[n]
    BY <1>3, FlattenSteps
  <2>2. n # 0
    BY <1>1, <1>3, EmptySeq
  <2> DEFINE Good(k) == /\ f[k] \in Seq(S)
                        /\ \A a \in ToSet(f[k]) : \E i \in 1..k : a \in ToSet(ss[i])
                        /\ Given => Pairwise(f[k], R)
             T == {k \in Nat : k # 0 /\ k <= n => Good(k)}
  <2>3. ASSUME NEW k \in Nat, k \in T
        PROVE  k + 1 \in T
    <3> HIDE DEF Good
    <3> SUFFICES ASSUME k + 1 <= n PROVE Good(k + 1)
      OBVIOUS
    <3> USE DEF Good
    <3>1. CASE k = 0
      <4>1. 1 \in 1..n /\ k + 1 = 1 /\ 1 \in 1..(k + 1)
        BY <1>1, <3>1
      <4> QED
        BY <1>1, <2>1, <4>1
    <3>2. CASE k # 0
      <4>1. /\ k + 1 \in 1..n /\ k + 1 # 1 /\ (k + 1) - 1 = k /\ k <= n
            /\ \A i \in 1..k : i \in 1..n /\ i # k + 1 /\ i \in 1..(k + 1)
            /\ k + 1 \in 1..(k + 1)
        BY <1>1, <3>2
      <4>2. f[k + 1] = f[k] \o ss[k + 1]
        BY <2>1, <4>1
      <4>3. Good(k)
        BY <2>3, <3>2, <4>1
      <4>4. f[k] \in Seq(S) /\ ss[k + 1] \in Seq(S)
        BY <1>1, <4>1, <4>3
      <4>5. /\ f[k + 1] \in Seq(S)
            /\ ToSet(f[k + 1]) = ToSet(f[k]) \union ToSet(ss[k + 1])
            /\ Pairwise(f[k], R) /\ Pairwise(ss[k + 1], R) /\ Across(f[k], ss[k + 1], R)
                => Pairwise(f[k + 1], R)
        <5> DEFINE s == f[k]
                   u == ss[k + 1]
        <5>1. f[k + 1] = s \o u /\ s \in Seq(S) /\ u \in Seq(S)
          BY <4>2, <4>4
        <5> HIDE DEF s, u
        <5>2. /\ s \o u \in Seq(S)
              /\ ToSet(s \o u) = ToSet(s) \union ToSet(u)
              /\ Pairwise(s, R) /\ Pairwise(u, R) /\ Across(s, u, R) => Pairwise(s \o u, R)
          BY <5>1, ConcatPairwise
        <5> QED
          BY <5>1, <5>2 DEF s, u
      <4>6. ASSUME Given
            PROVE  Pairwise(f[k], R) /\ Pairwise(ss[k + 1], R) /\ Across(f[k], ss[k + 1], R)
        <5>1. \A a \in ToSet(f[k]), b \in ToSet(ss[k + 1]) : <<a, b>> \in R /\ <<b, a>> \in R
          <6> TAKE a \in ToSet(f[k]), b \in ToSet(ss[k + 1])
          <6>1. PICK i \in 1..k : a \in ToSet(ss[i])
            BY <4>3
          <6>2. Across(ss[i], ss[k + 1], R)
            BY <1>1, <4>1, <4>6, <6>1
          <6> QED
            BY <6>1, <6>2 DEF Across
        <5> QED
          BY <1>1, <4>1, <4>3, <4>6, <5>1 DEF Across
      <4> HIDE DEF Given
      <4> QED
        BY <4>1, <4>3, <4>5, <4>6
    <3> QED
      BY <3>1, <3>2
  <2>4. n \in T
    <3>1. 0 \in T
      OBVIOUS
    <3> HIDE DEF T
    <3> QED
      BY <1>1, <2>3, <3>1, SetInduction
  <2>5. Good(n)
    BY <1>1, <2>2, <2>4
  <2> QED
    BY <1>1, <2>1, <2>5
<1> QED
  BY <1>2, <1>3

----------------------------------------------------------------------------
(* Subtrees of a tree.                                                     *)

(* The subtrees of two children of a node share no id, and neither has the *)
(* node.                                                                   *)
LEMMA SiblingsApart ==
    ASSUME NEW t, IsTree(t), NEW o \in DOMAIN t.node, NEW x \in KidsOf(t, o)
    PROVE  /\ CollectSubtree(t, x) \subseteq CollectSubtree(t, o)
           /\ o \notin CollectSubtree(t, x)
           /\ \A y \in KidsOf(t, o) :
                 y # x => CollectSubtree(t, x) \intersect CollectSubtree(t, y) = {}
<1>1. /\ IsFiniteSet(DOMAIN t.node) /\ DOMAIN t.node \subseteq Nat
      /\ \A z, c : c \in KidsOf(t, z) =>
            /\ z \in DOMAIN t.node /\ c \in DOMAIN t.node /\ t.parent[c] = z /\ z < c
  BY TreeFacts
<1>2. CollectSubtree(t, x) \subseteq CollectSubtree(t, o)
  <2>1. x \in CollectSubtree(t, o)
    BY <1>1, CollectSubtreeClosed DEF Closed
  <2> QED
    BY <1>1, <2>1, CollectSubtreeTransitive
<1>3. ASSUME NEW y \in KidsOf(t, o), NEW z \in CollectSubtree(t, y)
      PROVE  z \in Nat /\ z > o
  <2> DEFINE C == {w \in Nat : w > o}
  <2>1. y \in C /\ Closed(t, C)
    BY <1>1 DEF Closed
  <2> HIDE DEF C
  <2>2. CollectSubtree(t, y) \subseteq C
    BY <1>1, <2>1, CollectSubtreeLeast
  <2> QED
    BY <2>2 DEF C
<1>4. o \notin CollectSubtree(t, x)
  BY <1>1, <1>3
<1>5. ASSUME NEW y \in KidsOf(t, o), y # x,
             CollectSubtree(t, x) \intersect CollectSubtree(t, y) # {}
      PROVE  FALSE
  <2> DEFINE X == CollectSubtree(t, x)
             Y == CollectSubtree(t, y)
             B == {w \in Nat : w \in X /\ w \in Y}
             T == {n \in Nat : \A w \in B : ~(w < n)}
  <2>1. /\ x \in X /\ Closed(t, X) /\ y \in Y /\ Closed(t, Y)
        /\ \A w \in X : w # x => \E v \in X : w \in KidsOf(t, v)
        /\ \A w \in Y : w # y => \E v \in Y : w \in KidsOf(t, v)
    BY <1>1, CollectSubtreeClosed, CollectSubtreeSupported
  <2>2. X \subseteq Nat /\ Y \subseteq Nat /\ \A w \in X : w > o
    BY <1>3
  <2>3. \A w \in Y : w > o
    BY <1>3
  <2> HIDE DEF X, Y
  <2>4. ASSUME NEW w \in B
        PROVE  \E v \in B : v < w
    <3>1. w \in X /\ w \in Y
      OBVIOUS
    <3>2. CASE w = x
      <4>1. PICK v \in Y : w \in KidsOf(t, v)
        BY <1>5, <2>1, <3>1, <3>2
      <4>2. v = o
        BY <1>1, <3>2, <4>1
      <4> QED
        BY <1>1, <2>3, <4>2
    <3>3. CASE w = y
      <4>1. PICK v \in X : w \in KidsOf(t, v)
        BY <1>5, <2>1, <3>1, <3>3
      <4>2. v = o
        BY <1>1, <1>5, <3>3, <4>1
      <4> QED
        BY <1>1, <2>2, <4>2
    <3>4. CASE w # x /\ w # y
      <4>1. PICK v \in X : w \in KidsOf(t, v)
        BY <2>1, <3>1, <3>4
      <4>2. PICK u \in Y : w \in KidsOf(t, u)
        BY <2>1, <3>1, <3>4
      <4>3. u = v /\ v < w
        BY <1>1, <4>1, <4>2
      <4> QED
        BY <2>2, <4>1, <4>2, <4>3
    <3> QED
      BY <3>2, <3>3, <3>4
  <2>5. \A n \in Nat : n \in T
    <3>1. 0 \in T
      OBVIOUS
    <3>2. ASSUME NEW n \in Nat, n \in T
          PROVE  n + 1 \in T
      <4>1. \A w \in B : ~(w < n)
        BY <3>2
      <4>2. ASSUME NEW w \in B, w < n + 1
            PROVE  FALSE
        <5>1. PICK v \in B : v < w
          BY <2>4
        <5>2. v < n
          BY <4>2, <5>1
        <5> QED
          BY <4>1, <5>2
      <4> QED
        BY <4>2
    <3> HIDE DEF T
    <3> QED
      BY <3>1, <3>2, SetInduction
  <2>6. PICK w : w \in B
    BY <1>5, <2>2 DEF X, Y
  <2>7. w + 1 \in Nat /\ w < w + 1
    BY <2>6
  <2> QED
    BY <2>5, <2>6, <2>7
<1> QED
  BY <1>2, <1>4, <1>5

----------------------------------------------------------------------------
(* The operations of a diff.                                               *)

(* The operations a diff of old and new may consist of.                    *)
DiffOps(old, new) ==
    {Insert(x, i, new.node[y]) : x \in DOMAIN old.node, i \in Nat, y \in DOMAIN new.node}
      \union {Delete(x) : x \in DOMAIN old.node \ {RootId}}
      \union {Update(x, old.node[x].value, new.node[y].value) :
                 x \in DOMAIN old.node, y \in DOMAIN new.node}
      \union {Relabel(x, old.node[x].label, new.node[y].label) :
                 x \in DOMAIN old.node, y \in DOMAIN new.node}

(* What apply_patch reads of them.                                         *)
LEMMA DiffOpsFields ==
    ASSUME NEW old, NEW new, NEW a \in DiffOps(old, new)
    PROVE  /\ a.op = "Insert" \/ a.op = "Delete" \/ a.op = "Update" \/ a.op = "Relabel"
           /\ a.target \in DOMAIN old.node
           /\ a.op = "Delete" => a.target # RootId
BY DEF DiffOps, Insert, Delete, Update, Relabel

(* Two operations of one patch that do not get in each other's way.        *)
Fits(old, a, b) ==
    /\ a.op = "Delete" => b.target \notin CollectSubtree(old, a.target)
    /\ b.op = "Delete" => a.target \notin CollectSubtree(old, b.target)
    /\ a.target = b.target /\ a.op = b.op => a.op = "Insert"

Fitting(old, new) ==
    {p \in DiffOps(old, new) \X DiffOps(old, new) : Fits(old, p[1], p[2])}

(* An operation on the node o itself, and one on the subtree at x.         *)
IsOn(a, o) == a.target = o /\ a.op # "Delete"
IsIn(old, a, x) == a.target \in CollectSubtree(old, x)

(* Operations on different parts of the subtree at o fit.                  *)
LEMMA PartsFit ==
    ASSUME NEW old, IsTree(old), NEW new, NEW o \in DOMAIN old.node,
           NEW a \in DiffOps(old, new), NEW b \in DiffOps(old, new),
           \/ IsOn(a, o) /\ IsOn(b, o) /\ (a.op # b.op \/ a.op = "Insert")
           \/ IsOn(a, o) /\ \E y \in KidsOf(old, o) : IsIn(old, b, y)
           \/ \E x, y \in KidsOf(old, o) : x # y /\ IsIn(old, a, x) /\ IsIn(old, b, y)
    PROVE  <<a, b>> \in Fitting(old, new) /\ <<b, a>> \in Fitting(old, new)
<1>1. IsFiniteSet(DOMAIN old.node)
  BY TreeFacts
<1>2. ASSUME NEW z, NEW w \in CollectSubtree(old, z)
      PROVE  CollectSubtree(old, w) \subseteq CollectSubtree(old, z)
  BY <1>1, CollectSubtreeTransitive
<1>3. ASSUME NEW z
      PROVE  z \in CollectSubtree(old, z)
  BY <1>1, CollectSubtreeClosed
<1>4. ASSUME NEW x \in KidsOf(old, o)
      PROVE  /\ o \notin CollectSubtree(old, x)
             /\ \A y \in KidsOf(old, o) :
                   y # x => CollectSubtree(old, x) \intersect CollectSubtree(old, y) = {}
  BY SiblingsApart
<1>5. CASE IsOn(a, o) /\ IsOn(b, o) /\ (a.op # b.op \/ a.op = "Insert")
  BY <1>5 DEF Fitting, Fits, IsOn
<1>6. CASE IsOn(a, o) /\ \E y \in KidsOf(old, o) : IsIn(old, b, y)
  <2>1. PICK y \in KidsOf(old, o) : IsIn(old, b, y)
    BY <1>6
  <2>2. Fits(old, a, b) /\ Fits(old, b, a)
    BY <1>2, <1>4, <1>6, <2>1 DEF Fits, IsOn, IsIn
  <2> QED
    BY <2>2 DEF Fitting
<1>7. CASE \E x, y \in KidsOf(old, o) : x # y /\ IsIn(old, a, x) /\ IsIn(old, b, y)
  <2>1. PICK x \in KidsOf(old, o), y \in KidsOf(old, o) :
            x # y /\ IsIn(old, a, x) /\ IsIn(old, b, y)
    BY <1>7
  <2>2. Fits(old, a, b) /\ Fits(old, b, a)
    BY <1>2, <1>4, <2>1 DEF Fits, IsIn
  <2> QED
    BY <2>2 DEF Fitting
<1> QED
  BY <1>5, <1>6, <1>7

(* A patch for the subtree at o.                                           *)
IsPatch(s, old, new, o) ==
    /\ s \in Seq(DiffOps(old, new))
    /\ Pairwise(s, Fitting(old, new))
    /\ \A a \in ToSet(s) : IsIn(old, a, o) /\ (a.op = "Delete" => a.target # o)

(* At most one operation.                                                  *)
LEMMA AtMostOne ==
    ASSUME NEW S, NEW a \in S, NEW s, s = << >> \/ s = <<a>>, NEW R
    PROVE  s \in Seq(S) /\ ToSet(s) \subseteq {a} /\ Pairwise(s, R)
<1>1. CASE s = << >>
  BY <1>1 DEF ToSet, Pairwise
<1>2. CASE s = <<a>>
  <2>1. s \in Seq(S)
    BY <1>2
  <2>2. DOMAIN s = {1} /\ s[1] = a
    BY <1>2
  <2> QED
    BY <2>1, <2>2 DEF ToSet, Pairwise
<1> QED
  BY <1>1, <1>2

(* The operations on the node itself.                                      *)
LEMMA OwnOpsFit ==
    ASSUME NEW old, IsTree(old), NEW new, NEW o \in DOMAIN old.node, NEW n \in DOMAIN new.node
    PROVE  /\ OwnOps(o, old.node[o], new.node[n]) \in Seq(DiffOps(old, new))
           /\ Pairwise(OwnOps(o, old.node[o], new.node[n]), Fitting(old, new))
           /\ \A a \in ToSet(OwnOps(o, old.node[o], new.node[n])) :
                 IsOn(a, o) /\ (a.op = "Relabel" \/ a.op = "Update")
<1> DEFINE S == DiffOps(old, new)
           R == Fitting(old, new)
           a == Relabel(o, old.node[o].label, new.node[n].label)
           b == Update(o, old.node[o].value, new.node[n].value)
           s == When(old.node[o].label # new.node[n].label, a)
           u == When(~SameValue(old.node[o].value, new.node[n].value), b)
<1>1. a \in S /\ b \in S
  BY DEF DiffOps
<1>2. a.op = "Relabel" /\ b.op = "Update" /\ a.target = o /\ b.target = o
  BY DEF Relabel, Update
<1>3. <<a, b>> \in R /\ <<b, a>> \in R
  BY <1>1, <1>2, PartsFit DEF IsOn
<1>4. OwnOps(o, old.node[o], new.node[n]) = s \o u
  BY DEF OwnOps
<1>5. (s = << >> \/ s = <<a>>) /\ (u = << >> \/ u = <<b>>)
  BY DEF When
<1> HIDE DEF S, R, a, b, s, u
<1>6. /\ s \in Seq(S) /\ ToSet(s) \subseteq {a} /\ Pairwise(s, R)
      /\ u \in Seq(S) /\ ToSet(u) \subseteq {b} /\ Pairwise(u, R)
  BY <1>1, <1>5, AtMostOne
<1>7. Pairwise(s, R) /\ Pairwise(u, R) /\ Across(s, u, R)
  BY <1>3, <1>6 DEF Across
<1>8. /\ s \o u \in Seq(S)
      /\ ToSet(s \o u) = ToSet(s) \union ToSet(u)
      /\ Pairwise(s, R) /\ Pairwise(u, R) /\ Across(s, u, R) => Pairwise(s \o u, R)
  BY <1>6, ConcatPairwise
<1>9. \A x \in ToSet(s \o u) : IsOn(x, o) /\ (x.op = "Relabel" \/ x.op = "Update")
  BY <1>2, <1>6, <1>8 DEF IsOn
<1> QED
  BY <1>4, <1>7, <1>8, <1>9 DEF S, R

(* One deletion for every child without a partner.                         *)
IsDeletions(s, old, new, os, matches) ==
    /\ s \in Seq(DiffOps(old, new))
    /\ Pairwise(s, Fitting(old, new))
    /\ \A a \in ToSet(s) : \E i \in DOMAIN os :
          a = Delete(os[i]) /\ \A m \in matches : m[1] # i

(* That is what the loop over the old children gives.                      *)
LEMMA DeletionsFit ==
    ASSUME NEW old, IsTree(old), NEW new, NEW o \in DOMAIN old.node, NEW matches
    PROVE  IsDeletions(Deletions(old.node[o].children, matches), old, new,
                       old.node[o].children, matches)
<1> DEFINE S == DiffOps(old, new)
           R == Fitting(old, new)
           os == old.node[o].children
           one(i) == When(\A m \in matches : m[1] # i, Delete(os[i]))
           ss == [i \in DOMAIN os |-> one(i)]
<1>1. /\ os \in Seq(Nat) /\ IsInjective(os)
      /\ \A i \in DOMAIN os : os[i] \in KidsOf(old, o) /\ os[i] \in DOMAIN old.node \ {RootId}
  <2>1. /\ Agreed(old) /\ Lists(old, Nat)
        /\ \A x, c : c \in KidsOf(old, x) => c \in DOMAIN old.parent
        /\ DOMAIN old.parent = DOMAIN old.node \ {RootId}
    BY TreeFacts
  <2>2. KidsOf(old, o) = ToSet(os)
    BY DEF KidsOf, ChildrenOf, IsLive
  <2>3. \A i \in DOMAIN os : os[i] \in KidsOf(old, o)
    BY <2>2 DEF ToSet
  <2> QED
    BY <2>1, <2>3 DEF Agreed, Lists
<1>2. Deletions(os, matches) = FlattenSeq(ss)
  BY DEF Deletions
<1>3. ASSUME NEW i \in DOMAIN os
      PROVE  /\ one(i) \in Seq(S) /\ ToSet(one(i)) \subseteq {Delete(os[i])} /\ Pairwise(one(i), R)
             /\ \A a \in ToSet(one(i)) : \A m \in matches : m[1] # i
             /\ Delete(os[i]) \in S
  <2> DEFINE a == Delete(os[i])
             s == one(i)
  <2>1. a \in S
    BY <1>1 DEF DiffOps
  <2>2. s = << >> \/ s = <<a>>
    BY DEF When
  <2>3. (\A m \in matches : m[1] # i) \/ s = << >>
    BY DEF When
  <2> HIDE DEF S, R, a, s
  <2>4. s \in Seq(S) /\ ToSet(s) \subseteq {a} /\ Pairwise(s, R)
    BY <2>1, <2>2, AtMostOne
  <2>5. \A x \in ToSet(s) : \A m \in matches : m[1] # i
    BY <2>3 DEF ToSet
  <2> QED
    BY <2>1, <2>4, <2>5 DEF a, s
<1>4. ASSUME NEW i \in DOMAIN os, NEW j \in DOMAIN os, i # j
      PROVE  Across(one(i), one(j), R)
  <2>1. os[i] # os[j]
    BY <1>1, <1>4 DEF IsInjective
  <2>2. IsFiniteSet(DOMAIN old.node)
    BY TreeFacts
  <2>3. IsIn(old, Delete(os[i]), os[i]) /\ IsIn(old, Delete(os[j]), os[j])
    BY <2>2, CollectSubtreeClosed DEF IsIn, Delete
  <2>4. <<Delete(os[i]), Delete(os[j])>> \in R /\ <<Delete(os[j]), Delete(os[i])>> \in R
    BY <1>1, <1>3, <2>1, <2>3, PartsFit
  <2> HIDE DEF one, R
  <2> QED
    BY <1>3, <2>4 DEF Across
<1> HIDE DEF one, S, R
<1>5. ss \in Seq(Seq(S)) /\ DOMAIN ss = DOMAIN os
  <2>1. Len(os) \in Nat /\ DOMAIN os = 1..Len(os)
    BY <1>1
  <2>2. ss \in [1..Len(os) -> Seq(S)]
    BY <1>3, <2>1
  <2> QED
    BY <2>1, <2>2, SeqDef
<1>6. /\ FlattenSeq(ss) \in Seq(S)
      /\ \A a \in ToSet(FlattenSeq(ss)) : \E i \in DOMAIN ss : a \in ToSet(ss[i])
      /\ (\A i \in DOMAIN ss : Pairwise(ss[i], R))
         /\ (\A i, j \in DOMAIN ss : i # j => Across(ss[i], ss[j], R))
         => Pairwise(FlattenSeq(ss), R)
  <2> HIDE DEF ss
  <2> QED
    BY <1>5, FlattenPairwise
<1> QED
  BY <1>2, <1>3, <1>4, <1>5, <1>6 DEF S, R, IsDeletions

(* Insertions below the node.                                              *)
LEMMA InsertionsFit ==
    ASSUME NEW old, IsTree(old), NEW new, IsTree(new), NEW o \in DOMAIN old.node,
           NEW n \in DOMAIN new.node, NEW matches
    PROVE  LET s == Insertions(o, new, new.node[n].children, matches) IN
           /\ s \in Seq(DiffOps(old, new))
           /\ Pairwise(s, Fitting(old, new))
           /\ \A a \in ToSet(s) : a.op = "Insert" /\ IsOn(a, o)
<1> DEFINE S == DiffOps(old, new)
           R == Fitting(old, new)
           ns == new.node[n].children
           op(i) == Insert(o, i - 1, new.node[ns[i]])
           one(i) == When((\A m \in matches : m[2] # i) /\ IsLive(new, ns[i]), op(i))
           ss == [i \in DOMAIN ns |-> one(i)]
<1>1. /\ ns \in Seq(Nat)
      /\ \A i \in DOMAIN ns : ns[i] \in DOMAIN new.node /\ i - 1 \in Nat
  <2>1. /\ Agreed(new) /\ Lists(new, Nat)
        /\ \A x, c : c \in KidsOf(new, x) => c \in DOMAIN new.node
    BY TreeFacts
  <2>2. KidsOf(new, n) = ToSet(ns)
    BY DEF KidsOf, ChildrenOf, IsLive
  <2>3. \A i \in DOMAIN ns : ns[i] \in KidsOf(new, n)
    BY <2>2 DEF ToSet
  <2>4. ns \in Seq(Nat)
    BY <2>1 DEF Lists
  <2> QED
    BY <2>1, <2>3, <2>4
<1>2. Insertions(o, new, ns, matches) = FlattenSeq(ss)
  BY DEF Insertions
<1>3. ASSUME NEW i \in DOMAIN ns
      PROVE  /\ one(i) \in Seq(S) /\ ToSet(one(i)) \subseteq {op(i)} /\ Pairwise(one(i), R)
             /\ op(i) \in S /\ op(i).op = "Insert" /\ op(i).target = o
  <2> DEFINE a == op(i)
             s == one(i)
  <2>1. a \in S
    BY <1>1 DEF DiffOps
  <2>2. s = << >> \/ s = <<a>>
    BY DEF When
  <2>3. a.op = "Insert" /\ a.target = o
    BY DEF Insert
  <2> HIDE DEF S, R, a, s
  <2>4. s \in Seq(S) /\ ToSet(s) \subseteq {a} /\ Pairwise(s, R)
    BY <2>1, <2>2, AtMostOne
  <2> QED
    BY <2>1, <2>3, <2>4 DEF a, s
<1>4. ASSUME NEW i \in DOMAIN ns, NEW j \in DOMAIN ns, i # j
      PROVE  Across(one(i), one(j), R)
  <2>1. op(i) \in S /\ op(j) \in S /\ IsOn(op(i), o) /\ IsOn(op(j), o) /\ op(i).op = "Insert"
    BY <1>3 DEF IsOn
  <2> HIDE DEF op
  <2>2. <<op(i), op(j)>> \in R /\ <<op(j), op(i)>> \in R
    BY <2>1, PartsFit
  <2> HIDE DEF one, R
  <2> QED
    BY <1>3, <2>2 DEF Across
<1> HIDE DEF one, S, R, op
<1>5. ss \in Seq(Seq(S)) /\ DOMAIN ss = DOMAIN ns
  <2>1. Len(ns) \in Nat /\ DOMAIN ns = 1..Len(ns)
    BY <1>1
  <2>2. ss \in [1..Len(ns) -> Seq(S)]
    BY <1>3, <2>1
  <2> QED
    BY <2>1, <2>2, SeqDef
<1>6. /\ FlattenSeq(ss) \in Seq(S)
      /\ \A a \in ToSet(FlattenSeq(ss)) : \E i \in DOMAIN ss : a \in ToSet(ss[i])
      /\ (\A i \in DOMAIN ss : Pairwise(ss[i], R))
         /\ (\A i, j \in DOMAIN ss : i # j => Across(ss[i], ss[j], R))
         => Pairwise(FlattenSeq(ss), R)
  <2> HIDE DEF ss
  <2> QED
    BY <1>5, FlattenPairwise
<1>7. \A a \in ToSet(FlattenSeq(ss)) : a.op = "Insert" /\ IsOn(a, o)
  BY <1>3, <1>5, <1>6 DEF IsOn
<1>8. Pairwise(FlattenSeq(ss), R)
  BY <1>3, <1>4, <1>5, <1>6
<1> QED
  BY <1>2, <1>6, <1>7, <1>8 DEF S, R

----------------------------------------------------------------------------
(* diff_trees: the recursion over the old tree comes to an end, and what   *)
(* it computes is a patch.                                                 *)

(* The child of n that is the partner of the i-th child of o.              *)
Partner(old, new, o, n, i) ==
    LET ns == new.node[n].children
        matches == Matches(old, new, old.node[o].children, ns)
    IN ns[(CHOOSE m \in matches : m[1] = i)[2]]

HasPartner(old, new, o, n, i) ==
    \E m \in Matches(old, new, old.node[o].children, new.node[n].children) : m[1] = i

(* The operations on the subtrees of the matched children.                 *)
KidsOps(diff, old, new, o, n) ==
    [i \in DOMAIN old.node[o].children |->
        IF HasPartner(old, new, o, n, i)
        THEN diff[<<old.node[o].children[i], Partner(old, new, o, n, i)>>] ELSE << >>]

(* diff_subtree emits the operations of the pair itself, those on the      *)
(* subtrees of the matched children, the deletions, then the insertions.   *)
LEMMA DiffSubtreeParts ==
    ASSUME NEW diff, NEW old, NEW new, NEW o, NEW n
    PROVE  LET os == old.node[o].children
               ns == new.node[n].children
               matches == Matches(old, new, os, ns) IN
           DiffSubtree(diff, old, new, o, n) =
               OwnOps(o, old.node[o], new.node[n])
                 \o FlattenSeq(KidsOps(diff, old, new, o, n))
                 \o Deletions(os, matches) \o Insertions(o, new, ns, matches)
BY DEF DiffSubtree, KidsOps, Partner, HasPartner

(* A partner is a child that is live.                                      *)
LEMMA PartnerIsChild ==
    ASSUME NEW old, NEW new, NEW o, NEW n, NEW i, HasPartner(old, new, o, n, i)
    PROVE  Partner(old, new, o, n, i) \in DOMAIN new.node
<1> DEFINE os == old.node[o].children
           ns == new.node[n].children
           matches == Matches(old, new, os, ns)
           m == CHOOSE m \in matches : m[1] = i
<1>1. m \in matches /\ m[1] = i
  BY DEF HasPartner
<1>2. \A p \in matches : ns[p[2]] \in DOMAIN new.node
  BY DEF Matches, IsLive
<1>3. Partner(old, new, o, n, i) = ns[m[2]]
  BY DEF Partner
<1> QED
  BY <1>1, <1>2, <1>3

(* What the recursion makes of a node rests on its children alone.         *)
LEMMA DiffRestsOnKids ==
    ASSUME NEW old, IsTree(old), NEW new, NEW o \in DOMAIN old.node, NEW n \in DOMAIN new.node,
           NEW g, NEW h,
           \A c \in KidsOf(old, o) : \A y \in DOMAIN new.node : g[<<c, y>>] = h[<<c, y>>]
    PROVE  DiffSubtree(g, old, new, o, n) = DiffSubtree(h, old, new, o, n)
<1> DEFINE os == old.node[o].children
<1>1. \A i \in DOMAIN os : os[i] \in KidsOf(old, o)
  BY DEF KidsOf, ChildrenOf, IsLive, ToSet
<1>2. ASSUME NEW i \in DOMAIN os, HasPartner(old, new, o, n, i)
      PROVE  g[<<os[i], Partner(old, new, o, n, i)>>] = h[<<os[i], Partner(old, new, o, n, i)>>]
  BY <1>1, <1>2, PartnerIsChild
<1>3. KidsOps(g, old, new, o, n) = KidsOps(h, old, new, o, n)
  BY <1>2 DEF KidsOps
<1> QED
  BY <1>3, DiffSubtreeParts

(* The table of diff_subtree, for all pairs of nodes.                      *)
IsDiff(g, old, new) ==
    g = [p \in (DOMAIN old.node) \X (DOMAIN new.node) |->
            DiffSubtree(g, old, new, p[1], p[2])]

(* There is one: an old child has a greater id than its parent, and ids    *)
(* are bounded.                                                            *)
LEMMA DiffExists ==
    ASSUME NEW old, IsTree(old), NEW new
    PROVE  \E g : IsDiff(g, old, new)
<1> DEFINE A == DOMAIN old.node
           B == DOMAIN new.node
           table(g) == [p \in A \X B |-> DiffSubtree(g, old, new, p[1], p[2])]
           Holds(g, n) == \A o \in A, y \in B :
                              o + n >= old.next => g[<<o, y>>] = DiffSubtree(g, old, new, o, y)
           T == {n \in Nat : \E g : Holds(g, n)}
<1>1. /\ old.next \in Nat /\ A \subseteq Nat /\ \A x \in A : x < old.next
      /\ \A x, c : c \in KidsOf(old, x) => x \in A /\ c \in A /\ x < c
  BY TreeFacts
<1>2. ASSUME NEW n \in Nat, NEW g, Holds(g, n)
      PROVE  Holds(table(g), n + 1)
  <2> DEFINE h == table(g)
  <2>1. \A o \in A, y \in B : h[<<o, y>>] = DiffSubtree(g, old, new, o, y)
    OBVIOUS
  <2> HIDE DEF h
  <2>2. ASSUME NEW o \in A, NEW y \in B, o + (n + 1) >= old.next
        PROVE  h[<<o, y>>] = DiffSubtree(h, old, new, o, y)
    <3>1. ASSUME NEW c \in KidsOf(old, o), NEW z \in B
          PROVE  g[<<c, z>>] = h[<<c, z>>]
      <4>1. c \in A /\ c \in Nat /\ o \in Nat /\ c > o
        BY <1>1
      <4>2. c + n >= old.next
        BY <1>1, <2>2, <4>1
      <4> QED
        BY <1>2, <2>1, <4>1, <4>2
    <3>2. DiffSubtree(g, old, new, o, y) = DiffSubtree(h, old, new, o, y)
      BY <3>1, DiffRestsOnKids
    <3> QED
      BY <2>1, <3>2
  <2> QED
    BY <2>2 DEF h
<1>3. old.next \in T
  <2>1. 0 \in T
    <3>1. Holds(0, 0)
      BY <1>1
    <3> HIDE DEF Holds
    <3> QED
      BY <3>1
  <2>2. ASSUME NEW n \in Nat, n \in T
        PROVE  n + 1 \in T
    <3> HIDE DEF Holds, table
    <3>1. PICK g : Holds(g, n)
      BY <2>2
    <3>2. Holds(table(g), n + 1)
      BY <1>2, <3>1
    <3> QED
      BY <3>2
  <2> HIDE DEF T
  <2> QED
    BY <1>1, <2>1, <2>2, SetInduction
<1>4. PICK g : Holds(g, old.next)
  <2> HIDE DEF Holds
  <2> QED
    BY <1>3
<1>5. \A o \in A, y \in B : g[<<o, y>>] = DiffSubtree(g, old, new, o, y)
  <2>1. \A o \in A : o + old.next >= old.next
    BY <1>1
  <2> QED
    BY <1>4, <2>1
<1> DEFINE h == table(g)
<1>6. \A o \in A, y \in B : h[<<o, y>>] = g[<<o, y>>]
  BY <1>5
<1>7. \A o \in A, y \in B : DiffSubtree(g, old, new, o, y) = DiffSubtree(h, old, new, o, y)
  <2> TAKE o \in A, y \in B
  <2>1. \A c \in KidsOf(old, o) : \A z \in B : g[<<c, z>>] = h[<<c, z>>]
    BY <1>1, <1>6
  <2> HIDE DEF h
  <2> QED
    BY <2>1, DiffRestsOnKids
<1>8. h = table(h)
  <2> HIDE DEF h
  <2>1. h = table(g)
    BY DEF h
  <2> QED
    BY <1>7, <2>1
<1> HIDE DEF h
<1> QED
  BY <1>8 DEF IsDiff

(* What it makes of a node is a patch if what it makes of the children is. *)
LEMMA SubtreePatch ==
    ASSUME NEW old, IsTree(old), NEW new, IsTree(new),
           NEW o \in DOMAIN old.node, NEW n \in DOMAIN new.node, NEW g,
           \A c \in KidsOf(old, o) : \A y \in DOMAIN new.node :
               IsPatch(g[<<c, y>>], old, new, c)
    PROVE  IsPatch(DiffSubtree(g, old, new, o, n), old, new, o)
<1> DEFINE S == DiffOps(old, new)
           R == Fitting(old, new)
           os == old.node[o].children
           ns == new.node[n].children
           matches == Matches(old, new, os, ns)
           own == OwnOps(o, old.node[o], new.node[n])
           below == KidsOps(g, old, new, o, n)
           kids == FlattenSeq(below)
           deleted == Deletions(os, matches)
           inserted == Insertions(o, new, ns, matches)
           Inner(a) == \E i \in DOMAIN os : IsIn(old, a, os[i]) /\ HasPartner(old, new, o, n, i)
           Outer(a) == \E i \in DOMAIN os : IsIn(old, a, os[i]) /\ ~HasPartner(old, new, o, n, i)
<1>1. /\ os \in Seq(Nat) /\ IsInjective(os)
      /\ \A i \in DOMAIN os : os[i] \in KidsOf(old, o)
      /\ IsFiniteSet(DOMAIN old.node)
  <2>1. /\ Agreed(old) /\ Lists(old, Nat) /\ IsFiniteSet(DOMAIN old.node)
    BY TreeFacts
  <2>2. KidsOf(old, o) = ToSet(os)
    BY DEF KidsOf, ChildrenOf, IsLive
  <2>3. \A i \in DOMAIN os : os[i] \in KidsOf(old, o)
    BY <2>2 DEF ToSet
  <2> QED
    BY <2>1, <2>3 DEF Agreed, Lists
<1>2. DiffSubtree(g, old, new, o, n) = own \o kids \o deleted \o inserted
  BY DiffSubtreeParts
<1>3. /\ own \in Seq(S) /\ Pairwise(own, R)
      /\ \A a \in ToSet(own) : IsOn(a, o) /\ (a.op = "Relabel" \/ a.op = "Update")
  BY OwnOpsFit
<1>4. /\ deleted \in Seq(S) /\ Pairwise(deleted, R)
      /\ \A a \in ToSet(deleted) : \E i \in DOMAIN os :
            a = Delete(os[i]) /\ \A m \in matches : m[1] # i
  <2>1. IsDeletions(deleted, old, new, os, matches)
    BY DeletionsFit
  <2> HIDE DEF matches, deleted
  <2> QED
    BY <2>1 DEF IsDeletions
<1>5. /\ inserted \in Seq(S) /\ Pairwise(inserted, R)
      /\ \A a \in ToSet(inserted) : a.op = "Insert" /\ IsOn(a, o)
  BY InsertionsFit
<1>6. \A a \in ToSet(deleted) : Outer(a)
  <2> TAKE a \in ToSet(deleted)
  <2>1. PICK i \in DOMAIN os : a = Delete(os[i]) /\ \A m \in matches : m[1] # i
    BY <1>4
  <2>2. ~HasPartner(old, new, o, n, i)
    BY <2>1 DEF HasPartner
  <2>3. IsIn(old, a, os[i])
    BY <1>1, <2>1, CollectSubtreeClosed DEF IsIn, Delete
  <2> QED
    BY <2>2, <2>3
<1>7. ASSUME NEW i \in DOMAIN os
      PROVE  /\ below[i] \in Seq(S) /\ Pairwise(below[i], R)
             /\ \A a \in ToSet(below[i]) : IsIn(old, a, os[i]) /\ HasPartner(old, new, o, n, i)
  <2>1. CASE HasPartner(old, new, o, n, i)
    <3>1. below[i] = g[<<os[i], Partner(old, new, o, n, i)>>]
      BY <2>1 DEF KidsOps
    <3>2. Partner(old, new, o, n, i) \in DOMAIN new.node
      BY <2>1, PartnerIsChild
    <3>3. IsPatch(below[i], old, new, os[i])
      BY <1>1, <3>1, <3>2
    <3> QED
      BY <2>1, <3>3 DEF IsPatch
  <2>2. CASE ~HasPartner(old, new, o, n, i)
    <3>1. below[i] = << >>
      BY <2>2 DEF KidsOps
    <3> QED
      BY <3>1 DEF ToSet, Pairwise
  <2> QED
    BY <2>1, <2>2
<1>8. DOMAIN below = DOMAIN os
  BY DEF KidsOps
<1> HIDE DEF below
<1>9. ASSUME NEW i \in DOMAIN os, NEW j \in DOMAIN os, i # j
      PROVE  Across(below[i], below[j], R)
  <2>1. os[i] # os[j]
    BY <1>1, <1>9 DEF IsInjective
  <2>2. ASSUME NEW a \in ToSet(below[i]), NEW b \in ToSet(below[j])
        PROVE  <<a, b>> \in R /\ <<b, a>> \in R
    <3>1. a \in S /\ b \in S
      BY <1>7, <2>2, RangeOfSeq DEF ToSet
    <3>2. IsIn(old, a, os[i]) /\ IsIn(old, b, os[j])
      BY <1>7
    <3> QED
      BY <1>1, <2>1, <3>1, <3>2, PartsFit
  <2> QED
    BY <2>2 DEF Across
<1> HIDE DEF S, R
<1>10. below \in Seq(Seq(S))
  <2>1. Len(os) \in Nat /\ DOMAIN os = 1..Len(os)
    BY <1>1
  <2>2. below \in [1..Len(os) -> Seq(S)]
    <3>1. below = [i \in DOMAIN os |-> below[i]]
      BY DEF below, KidsOps
    <3> QED
      BY <1>7, <1>8, <2>1, <3>1
  <2> QED
    BY <2>1, <2>2, SeqDef
<1>11. /\ kids \in Seq(S)
       /\ \A a \in ToSet(kids) : \E i \in DOMAIN below : a \in ToSet(below[i])
       /\ (\A i \in DOMAIN below : Pairwise(below[i], R))
          /\ (\A i, j \in DOMAIN below : i # j => Across(below[i], below[j], R))
          => Pairwise(kids, R)
  BY <1>10, FlattenPairwise
<1>12. Pairwise(kids, R) /\ \A a \in ToSet(kids) : Inner(a)
  BY <1>7, <1>8, <1>9, <1>11
<1> HIDE DEF own, kids, deleted, inserted
<1>13. \A a \in ToSet(own) \union ToSet(kids) \union ToSet(deleted) \union ToSet(inserted) : a \in S
  BY <1>3, <1>4, <1>5, <1>11 DEF ToSet
<1>14. ASSUME NEW a \in S, NEW b \in S,
              \/ /\ IsOn(a, o) /\ (a.op = "Relabel" \/ a.op = "Update")
                 /\ b.op = "Insert" /\ IsOn(b, o)
              \/ IsOn(a, o) /\ (Inner(b) \/ Outer(b))
              \/ Inner(a) /\ Outer(b)
       PROVE  <<a, b>> \in R /\ <<b, a>> \in R
  <2>1. CASE /\ IsOn(a, o) /\ (a.op = "Relabel" \/ a.op = "Update")
             /\ b.op = "Insert" /\ IsOn(b, o)
    <3>1. a.op # b.op
      BY <2>1
    <3> QED
      BY <2>1, <3>1, PartsFit DEF S, R
  <2>2. CASE IsOn(a, o) /\ (Inner(b) \/ Outer(b))
    BY <1>1, <2>2, PartsFit DEF S, R
  <2>3. CASE Inner(a) /\ Outer(b)
    <3>1. PICK i \in DOMAIN os : IsIn(old, a, os[i]) /\ HasPartner(old, new, o, n, i)
      BY <2>3
    <3>2. PICK j \in DOMAIN os : IsIn(old, b, os[j]) /\ ~HasPartner(old, new, o, n, j)
      BY <2>3
    <3>3. os[i] # os[j]
      BY <1>1, <3>1, <3>2 DEF IsInjective
    <3> QED
      BY <1>1, <3>1, <3>2, <3>3, PartsFit DEF S, R
  <2> QED
    BY <1>14, <2>1, <2>2, <2>3
<1> HIDE DEF Inner, Outer
<1> DEFINE s1 == own \o kids
           s2 == s1 \o deleted
           s3 == s2 \o inserted
<1>15. /\ s1 \in Seq(S) /\ ToSet(s1) = ToSet(own) \union ToSet(kids)
       /\ Pairwise(s1, R)
  <2>1. Across(own, kids, R)
    BY <1>3, <1>12, <1>13, <1>14 DEF Across
  <2> QED
    BY <1>3, <1>11, <1>12, <2>1, ConcatPairwise
<1>16. /\ s2 \in Seq(S) /\ ToSet(s2) = ToSet(own) \union ToSet(kids) \union ToSet(deleted)
       /\ Pairwise(s2, R)
  <2>1. Across(s1, deleted, R)
    BY <1>3, <1>6, <1>12, <1>13, <1>14, <1>15 DEF Across
  <2> HIDE DEF s1
  <2> QED
    BY <1>4, <1>15, <2>1, ConcatPairwise
<1>17. /\ s3 \in Seq(S) /\ Pairwise(s3, R)
       /\ ToSet(s3) = ToSet(own) \union ToSet(kids) \union ToSet(deleted) \union ToSet(inserted)
  <2>1. Across(s2, inserted, R)
    <3>1. ASSUME NEW a \in ToSet(s2), NEW b \in ToSet(inserted)
          PROVE  <<a, b>> \in R /\ <<b, a>> \in R
      <4>1. a \in S /\ b \in S /\ b.op = "Insert" /\ IsOn(b, o)
        BY <1>5, <1>13, <1>16
      <4>2. CASE a \in ToSet(own)
        BY <1>3, <1>14, <4>1, <4>2
      <4>3. CASE a \in ToSet(kids) \/ a \in ToSet(deleted)
        BY <1>6, <1>12, <1>14, <4>1, <4>3
      <4> QED
        BY <1>16, <4>2, <4>3
    <3> QED
      BY <3>1 DEF Across
  <2> HIDE DEF s2
  <2> QED
    BY <1>5, <1>16, <2>1, ConcatPairwise
<1>18. ASSUME NEW a \in ToSet(s3)
       PROVE  IsIn(old, a, o) /\ (a.op = "Delete" => a.target # o)
  <2>1. CASE IsOn(a, o)
    BY <1>1, <2>1, CollectSubtreeClosed DEF IsOn, IsIn
  <2>2. CASE Inner(a) \/ Outer(a)
    <3>1. PICK i \in DOMAIN os : IsIn(old, a, os[i])
      BY <2>2 DEF Inner, Outer
    <3>2. /\ CollectSubtree(old, os[i]) \subseteq CollectSubtree(old, o)
          /\ o \notin CollectSubtree(old, os[i])
      BY <1>1, SiblingsApart
    <3> QED
      BY <3>1, <3>2 DEF IsIn
  <2> QED
    BY <1>3, <1>5, <1>6, <1>12, <1>17, <2>1, <2>2
<1> QED
  BY <1>2, <1>17, <1>18 DEF IsPatch, S, R

(* diff_trees gives a patch for the tree: its operations are on nodes of   *)
(* the old tree, and no two are in each other's way.                       *)
LEMMA DiffTreesIsPatch ==
    ASSUME NEW old, IsTree(old), NEW new, IsTree(new)
    PROVE  IsPatch(DiffTrees(old, new), old, new, RootId)
<1> DEFINE A == DOMAIN old.node
           B == DOMAIN new.node
           g == CHOOSE g : IsDiff(g, old, new)
           T == {n \in Nat : \A o \in A, y \in B :
                                o + n >= old.next => IsPatch(g[<<o, y>>], old, new, o)}
<1>1. /\ old.next \in Nat /\ A \subseteq Nat /\ \A x \in A : x < old.next
      /\ RootId \in A /\ RootId \in B
      /\ \A x, c : c \in KidsOf(old, x) => x \in A /\ c \in A /\ x < c
  BY TreeFacts
<1>2. IsDiff(g, old, new)
  BY DiffExists
<1>3. DiffTrees(old, new) = g[<<RootId, RootId>>]
  <2>1. DiffTrees(old, new) = IF IsLive(old, RootId) /\ IsLive(new, RootId)
                              THEN g[<<RootId, RootId>>] ELSE << >>
    BY Zenon DEF DiffTrees, IsDiff
  <2> QED
    BY <1>1, <2>1 DEF IsLive
<1> HIDE DEF g
<1>4. \A o \in A, y \in B : g[<<o, y>>] = DiffSubtree(g, old, new, o, y)
  BY <1>2 DEF IsDiff
<1>5. 0 \in T
  BY <1>1
<1>6. ASSUME NEW n \in Nat, n \in T
      PROVE  n + 1 \in T
  <2> SUFFICES ASSUME NEW o \in A, NEW y \in B, o + (n + 1) >= old.next
               PROVE  IsPatch(g[<<o, y>>], old, new, o)
    OBVIOUS
  <2>1. ASSUME NEW c \in KidsOf(old, o), NEW z \in B
        PROVE  IsPatch(g[<<c, z>>], old, new, c)
    <3>1. c \in A /\ c \in Nat /\ o \in Nat /\ c > o
      BY <1>1
    <3>2. c + n >= old.next
      BY <1>1, <3>1
    <3> QED
      BY <1>6, <3>1, <3>2
  <2>2. IsPatch(DiffSubtree(g, old, new, o, y), old, new, o)
    BY <2>1, SubtreePatch
  <2> QED
    BY <1>4, <2>2
<1>7. old.next \in T
  <2> HIDE DEF T
  <2> QED
    BY <1>1, <1>5, <1>6, SetInduction
<1>8. RootId + old.next >= old.next
  BY <1>1
<1> QED
  BY <1>1, <1>3, <1>7, <1>8

----------------------------------------------------------------------------
(* apply_patch.                                                            *)

(* The trees apply_patch goes through.                                     *)
LEMMA AppliedSteps ==
    ASSUME NEW t, NEW S, NEW ops \in Seq(S)
    PROVE  /\ Applied(t, ops)[0] = t
           /\ \A i \in 1..Len(ops) : Applied(t, ops)[i] = ApplyOp(Applied(t, ops)[i - 1], ops[i])
<1> DEFINE n == Len(ops)
           Def(m, g) == [i \in 0..m |-> IF i = 0 THEN t ELSE ApplyOp(g[i - 1], ops[i])]
           T == {m \in Nat : \E g : g = Def(m, g)}
           f == CHOOSE g : g = Def(n, g)
<1>1. n \in Nat
  OBVIOUS
<1>2. ASSUME NEW m \in Nat, m \in T
      PROVE  m + 1 \in T
  <2>1. PICK g : g = Def(m, g)
    BY <1>2
  <2> DEFINE h == [i \in 0..(m + 1) |-> IF i = m + 1 THEN ApplyOp(g[m], ops[m + 1]) ELSE g[i]]
  <2>2. \A i \in 0..(m + 1) : h[i] = IF i = 0 THEN t ELSE ApplyOp(h[i - 1], ops[i])
    <3> TAKE i \in 0..(m + 1)
    <3>1. CASE i = m + 1
      <4>1. i # 0 /\ i - 1 = m /\ m \in 0..(m + 1) /\ m # m + 1
        BY <3>1
      <4>2. h[m] = g[m]
        BY <4>1
      <4> QED
        BY <3>1, <4>1, <4>2
    <3>2. CASE i # m + 1
      <4>1. i \in 0..m /\ (i # 0 => i - 1 \in 0..m)
        BY <3>2
      <4>2. h[i] = g[i] /\ (i # 0 => h[i - 1] = g[i - 1])
        BY <4>1
      <4>3. g[i] = IF i = 0 THEN t ELSE ApplyOp(g[i - 1], ops[i])
        BY <2>1, <4>1
      <4> QED
        BY <4>2, <4>3
    <3> QED
      BY <3>1, <3>2
  <2>3. h = Def(m + 1, h)
    <3> HIDE DEF h
    <3>1. DOMAIN h = 0..(m + 1) /\ h = [i \in 0..(m + 1) |-> h[i]]
      BY DEF h
    <3> QED
      BY <2>2, <3>1
  <2>4. m + 1 \in Nat
    OBVIOUS
  <2> HIDE DEF h, Def
  <2> QED
    BY <2>3, <2>4
<1>3. n \in T
  <2>1. 0 \in T
    <3> DEFINE h == [i \in 0..0 |-> t]
    <3>1. h = Def(0, h)
      OBVIOUS
    <3> HIDE DEF h, Def
    <3> QED
      BY <3>1
  <2> HIDE DEF T
  <2> QED
    BY <1>1, <1>2, <2>1, SetInduction
<1>4. f = Def(n, f)
  BY <1>1, <1>3
<1>5. Applied(t, ops) = f
  BY Zenon DEF Applied
<1> HIDE DEF f
<1>6. \A i \in 0..n : f[i] = IF i = 0 THEN t ELSE ApplyOp(f[i - 1], ops[i])
  BY <1>4
<1>7. 0 \in 0..n /\ \A i \in 1..n : i \in 0..n /\ i # 0
  BY <1>1
<1> HIDE DEF n
<1>8. f[0] = t /\ \A i \in 1..n : f[i] = ApplyOp(f[i - 1], ops[i])
  BY <1>6, <1>7
<1> QED
  BY <1>5, <1>8 DEF n

(* An operation that is no Move, and deletes no root, leaves a tree.       *)
LEMMA ApplyKeepsTree ==
    ASSUME NEW t, IsTree(t), NEW o, o.target \in Nat, o.target < t.next,
           o.op = "Insert" \/ o.op = "Delete" \/ o.op = "Update" \/ o.op = "Relabel",
           o.op = "Delete" => o.target # RootId
    PROVE  IsTree(ApplyOp(t, o)) /\ ApplyOp(t, o).next >= t.next
<1>1. t.next \in Nat
  BY TreeFacts
<1>2. CASE o.op = "Insert"
  <2>1. ApplyOp(t, o) = AddNodeWithValue(t, o.kind, o.label, o.value, o.target)
    BY <1>2 DEF ApplyOp
  <2> QED
    BY <1>1, <2>1, AddKeepsTree
<1>3. CASE o.op = "Delete"
  <2>1. ApplyOp(t, o) = RemoveSubtree(t, o.target)
    BY <1>3 DEF ApplyOp
  <2>2. o.target # RootId
    BY <1>3
  <2>3. IsTree(RemoveSubtree(t, o.target)) /\ RemoveSubtree(t, o.target).next = t.next
    BY <2>2, RemoveKeepsTree, Zenon
  <2> QED
    BY <1>1, <2>1, <2>3
<1>4. CASE o.op = "Update"
  <2>1. ApplyOp(t, o) = SetValue(t, o.target, o.value)
    BY <1>4 DEF ApplyOp
  <2>2. ApplyOp(t, o).next = t.next
    BY <2>1 DEF SetValue
  <2>3. SameLists(t, ApplyOp(t, o))
    BY <2>1, KidsOfSet
  <2> QED
    BY <1>1, <2>2, <2>3, SetKeepsTree
<1>5. CASE o.op = "Relabel"
  <2>1. ApplyOp(t, o) = SetLabel(t, o.target, o.label)
    BY <1>5 DEF ApplyOp
  <2>2. ApplyOp(t, o).next = t.next
    BY <2>1 DEF SetLabel
  <2>3. SameLists(t, ApplyOp(t, o))
    BY <2>1, KidsOfSet
  <2> QED
    BY <1>1, <2>2, <2>3, SetKeepsTree
<1> QED
  BY <1>2, <1>3, <1>4, <1>5

(* What the first k operations of a patch have made of old: a tree without *)
(* orphans, in which every node of old is below what it was below, and     *)
(* lacks only what was below a node the patch has deleted.                 *)
Follows(t, old, ops, k) ==
    /\ IsTree(t) /\ Rooted(t) /\ t.next >= old.next
    /\ \A x \in DOMAIN old.node : \A c \in KidsOf(t, x) : c < old.next => c \in KidsOf(old, x)
    /\ \A x \in DOMAIN old.node : x \in DOMAIN t.node \/
           \E j \in 1..k : ops[j].op = "Delete" /\ x \in CollectSubtree(old, ops[j].target)

(* An insertion below a node of the tree.                                  *)
LEMMA InsertFollows ==
    ASSUME NEW old, IsTree(old), NEW t, NEW ops, NEW k \in Nat, Follows(t, old, ops, k),
           NEW kind, NEW label, NEW value, NEW p \in DOMAIN t.node
    PROVE  Follows(AddNodeWithValue(t, kind, label, value, p), old, ops, k + 1)
<1> DEFINE u == AddNodeWithValue(t, kind, label, value, p)
           n == t.next
<1>1. IsTree(t) /\ Rooted(t) /\ n >= old.next /\ n \in Nat /\ old.next \in Nat
      /\ p \in Nat /\ p < n /\ DOMAIN old.node \subseteq Nat
      /\ DOMAIN t.parent = DOMAIN t.node \ {RootId}
  BY TreeFacts DEF Follows
<1>2. /\ IsTree(u) /\ u.next = n + 1
      /\ DOMAIN u.node = DOMAIN t.node \union {n}
      /\ u.parent = Put(t.parent, n, p)
      /\ \A x : KidsOf(u, x) \subseteq KidsOf(t, x) \union {n}
  <2>1. \A q \in Nat : q < n =>
            LET w == AddNodeWithValue(t, kind, label, value, q) IN
            /\ IsTree(w) /\ w.next = n + 1
            /\ DOMAIN w.node = DOMAIN t.node \union {n}
            /\ w.parent = Put(t.parent, n, q)
            /\ \A x : KidsOf(w, x) \subseteq KidsOf(t, x) \union {n}
    BY <1>1, AddKeepsTree
  <2> QED
    BY <1>1, <2>1
<1> HIDE DEF u
<1>3. Rooted(u)
  BY <1>1, <1>2 DEF Rooted, IsLive, Put
<1>4. ASSUME NEW x \in DOMAIN old.node, NEW c \in KidsOf(u, x), c < old.next
      PROVE  c \in KidsOf(old, x)
  <2>1. c # n
    BY <1>1, <1>4
  <2> QED
    BY <1>2, <1>4, <2>1 DEF Follows
<1>5. \A j \in 1..k : j \in 1..(k + 1)
  OBVIOUS
<1> QED
  BY <1>1, <1>2, <1>3, <1>4, <1>5 DEF Follows, u

(* The edit of a node.                                                     *)
LEMMA SetFollows ==
    ASSUME NEW old, NEW t, NEW ops, NEW k \in Nat, Follows(t, old, ops, k),
           NEW u, SameLists(t, u), u.next = t.next
    PROVE  Follows(u, old, ops, k + 1)
<1>1. IsTree(u)
  BY SetKeepsTree DEF Follows
<1>2. \A x : KidsOf(u, x) = KidsOf(t, x)
  BY KidsOfSame
<1>3. Rooted(u)
  BY DEF Follows, Rooted, IsLive, SameLists
<1>4. \A j \in 1..k : j \in 1..(k + 1)
  OBVIOUS
<1> QED
  BY <1>1, <1>2, <1>3, <1>4 DEF Follows, SameLists

(* The deletion of a node that is not the root.                            *)
LEMMA DeleteFollows ==
    ASSUME NEW old, IsTree(old), NEW t, NEW ops, NEW k \in Nat, Follows(t, old, ops, k),
           ops[k + 1].op = "Delete", NEW id \in DOMAIN old.node, id = ops[k + 1].target,
           id # RootId
    PROVE  Follows(RemoveSubtree(t, id), old, ops, k + 1)
<1> DEFINE u == RemoveSubtree(t, id)
           gone == CollectSubtree(t, id)
           C == CollectSubtree(old, id) \union {x \in Nat : x >= old.next}
<1>1. /\ IsTree(t) /\ Rooted(t) /\ t.next >= old.next /\ t.next \in Nat /\ old.next \in Nat
      /\ IsFiniteSet(DOMAIN t.node) /\ IsFiniteSet(DOMAIN old.node) /\ Agreed(old)
      /\ DOMAIN old.node \subseteq Nat /\ \A x \in DOMAIN old.node : x < old.next
      /\ DOMAIN t.parent = DOMAIN t.node \ {RootId}
      /\ \A x, c : c \in KidsOf(t, x) => x \in DOMAIN t.node /\ c \in DOMAIN t.node /\ x < c
      /\ DOMAIN t.node \subseteq Nat
      /\ \A c \in DOMAIN t.parent :
            t.parent[c] \in DOMAIN t.node => c \in KidsOf(t, t.parent[c])
  BY TreeFacts DEF Follows
<1>2. /\ IsTree(u) /\ u.next = t.next
      /\ DOMAIN u.node = DOMAIN t.node \ gone
      /\ u.parent = Restrict(t.parent, DOMAIN t.parent \ gone)
      /\ \A x : KidsOf(u, x) \subseteq KidsOf(t, x)
  BY <1>1, RemoveKeepsTree
<1>3. id \in gone /\ Closed(t, gone)
  BY <1>1, CollectSubtreeClosed
<1>4. gone \subseteq C
  <2>1. /\ id \in CollectSubtree(old, id) /\ Closed(old, CollectSubtree(old, id))
        /\ CollectSubtree(old, id) \subseteq DOMAIN old.node
    BY <1>1, CollectSubtreeClosed, AgreedReach
  <2>2. ASSUME NEW x \in C, NEW c \in KidsOf(t, x)
        PROVE  c \in C
    <3>1. c \in Nat /\ x \in Nat /\ x < c
      BY <1>1
    <3>2. CASE x \in CollectSubtree(old, id)
      <4>1. c < old.next => c \in KidsOf(old, x)
        BY <2>1, <3>2 DEF Follows
      <4> QED
        BY <1>1, <2>1, <3>1, <3>2, <4>1 DEF Closed
    <3>3. CASE x \notin CollectSubtree(old, id)
      BY <1>1, <3>1, <3>3
    <3> QED
      BY <3>2, <3>3
  <2>3. id \in C /\ Closed(t, C)
    BY <2>1, <2>2 DEF Closed
  <2> HIDE DEF C
  <2> QED
    BY <1>1, <2>3, CollectSubtreeLeast
<1> HIDE DEF u, gone
<1>5. Rooted(u)
  <2> SUFFICES ASSUME NEW c \in DOMAIN u.parent
               PROVE  u.parent[c] \in DOMAIN u.node
    BY DEF Rooted, IsLive
  <2>1. c \in DOMAIN t.parent /\ c \notin gone /\ u.parent[c] = t.parent[c]
    BY <1>2 DEF Restrict
  <2>2. t.parent[c] \in DOMAIN t.node /\ c \in KidsOf(t, t.parent[c])
    BY <1>1, <2>1 DEF Rooted, IsLive
  <2>3. t.parent[c] \notin gone
    BY <1>3, <2>1, <2>2 DEF Closed
  <2> QED
    BY <1>2, <2>1, <2>2, <2>3
<1>6. ASSUME NEW x \in DOMAIN old.node, x \notin DOMAIN u.node
      PROVE  \E j \in 1..(k + 1) : ops[j].op = "Delete" /\ x \in CollectSubtree(old, ops[j].target)
  <2>1. CASE x \in gone
    <3>1. x \in CollectSubtree(old, id)
      BY <1>1, <1>4, <2>1
    <3>2. k + 1 \in 1..(k + 1)
      OBVIOUS
    <3> QED
      BY <3>1, <3>2
  <2>2. CASE x \notin DOMAIN t.node
    <3>1. \A j \in 1..k : j \in 1..(k + 1)
      OBVIOUS
    <3> QED
      BY <2>2, <3>1 DEF Follows
  <2> QED
    BY <1>2, <1>6, <2>1, <2>2
<1>7. \A x \in DOMAIN old.node : \A c \in KidsOf(u, x) : c < old.next => c \in KidsOf(old, x)
  BY <1>2 DEF Follows
<1> QED
  BY <1>1, <1>2, <1>5, <1>6, <1>7 DEF Follows, u

(* A patch for a tree without orphans, applied to that tree: every         *)
(* operation finds its node, and the tree that comes out has no orphans.   *)
LEMMA PatchApplies ==
    ASSUME NEW old, IsTree(old), Rooted(old), NEW new, NEW ops,
           IsPatch(ops, old, new, RootId)
    PROVE  /\ \A i \in DOMAIN ops : IsLive(Applied(old, ops)[i - 1], ops[i].target)
           /\ IsTree(ApplyPatch(old, ops)) /\ Rooted(ApplyPatch(old, ops))
<1> DEFINE n == Len(ops)
           tree == Applied(old, ops)
           T == {k \in Nat : k <= n => Follows(tree[k], old, ops, k)}
<1>1. /\ n \in Nat /\ DOMAIN ops = 1..n /\ ops \in Seq(DiffOps(old, new))
      /\ \A i \in 1..n : ops[i] \in DiffOps(old, new)
  BY DEF IsPatch
<1>2. \A i \in 1..n :
        /\ \/ ops[i].op = "Insert" \/ ops[i].op = "Delete"
           \/ ops[i].op = "Update" \/ ops[i].op = "Relabel"
        /\ ops[i].target \in DOMAIN old.node
        /\ ops[i].op = "Delete" => ops[i].target # RootId
  BY <1>1, DiffOpsFields
<1>3. \A i, j \in 1..n : i # j => Fits(old, ops[i], ops[j])
  BY <1>1 DEF IsPatch, Pairwise, Fitting
<1>4. tree[0] = old /\ \A i \in 1..n : tree[i] = ApplyOp(tree[i - 1], ops[i])
  BY <1>1, AppliedSteps
<1> HIDE DEF tree
<1>5. ASSUME NEW k \in Nat, k + 1 <= n, Follows(tree[k], old, ops, k)
      PROVE  IsLive(tree[k], ops[k + 1].target)
  <2>1. k + 1 \in 1..n /\ \A j \in 1..k : j \in 1..n /\ j # k + 1
    BY <1>1, <1>5
  <2>2. \A j \in 1..k : ops[j].op = "Delete" =>
                            ops[k + 1].target \notin CollectSubtree(old, ops[j].target)
    BY <1>3, <2>1 DEF Fits
  <2>3. ops[k + 1].target \in DOMAIN old.node
    BY <1>2, <2>1
  <2> QED
    BY <1>5, <2>2, <2>3 DEF Follows, IsLive
<1>6. 0 \in T
  <2>1. \A x \in DOMAIN old.node : \A c \in KidsOf(old, x) : c \in KidsOf(old, x)
    OBVIOUS
  <2>2. old.next \in Nat
    BY TreeFacts
  <2>3. Follows(tree[0], old, ops, 0)
    BY <1>4, <2>1, <2>2 DEF Follows
  <2> QED
    BY <2>3
<1>7. ASSUME NEW k \in Nat, k \in T
      PROVE  k + 1 \in T
  <2> SUFFICES ASSUME k + 1 <= n
               PROVE  Follows(tree[k + 1], old, ops, k + 1)
    OBVIOUS
  <2> DEFINE t == tree[k]
             o == ops[k + 1]
  <2>1. Follows(t, old, ops, k) /\ k + 1 \in 1..n /\ (k + 1) - 1 = k
    BY <1>1, <1>7
  <2>2. tree[k + 1] = ApplyOp(t, o)
    BY <1>4, <2>1
  <2>3. o.target \in DOMAIN t.node
    BY <1>5, <2>1 DEF IsLive
  <2>4. /\ o.op = "Insert" \/ o.op = "Delete" \/ o.op = "Update" \/ o.op = "Relabel"
        /\ o.target \in DOMAIN old.node
        /\ o.op = "Delete" => o.target # RootId
    BY <1>2, <2>1
  <2>5. CASE o.op = "Insert"
    <3>1. tree[k + 1] = AddNodeWithValue(t, o.kind, o.label, o.value, o.target)
      BY <2>2, <2>5 DEF ApplyOp
    <3> HIDE DEF t, o
    <3> QED
      BY <2>1, <2>3, <3>1, InsertFollows
  <2>6. CASE o.op = "Delete"
    <3>1. tree[k + 1] = RemoveSubtree(t, o.target)
      BY <2>2, <2>6 DEF ApplyOp
    <3>2. ops[k + 1].op = "Delete" /\ o.target = ops[k + 1].target /\ o.target # RootId
      BY <2>4, <2>6
    <3> HIDE DEF t, o
    <3> QED
      BY <2>1, <2>4, <3>1, <3>2, DeleteFollows
  <2>7. CASE o.op = "Update" \/ o.op = "Relabel"
    <3>1. \/ tree[k + 1] = SetValue(t, o.target, o.value)
          \/ tree[k + 1] = SetLabel(t, o.target, o.label)
      BY <2>2, <2>7 DEF ApplyOp
    <3>2. SameLists(t, tree[k + 1]) /\ tree[k + 1].next = t.next
      BY <3>1, KidsOfSet, SetGivesNoId
    <3> HIDE DEF t, o
    <3> QED
      BY <2>1, <3>2, SetFollows
  <2> QED
    BY <2>4, <2>5, <2>6, <2>7
<1>8. \A k \in Nat : k \in T
  <2> HIDE DEF T
  <2> QED
    BY <1>6, <1>7, SetInduction
<1>9. Follows(tree[n], old, ops, n)
  BY <1>1, <1>8
<1>10. ASSUME NEW i \in DOMAIN ops
       PROVE  IsLive(tree[i - 1], ops[i].target)
  <2>1. i - 1 \in Nat /\ (i - 1) + 1 = i /\ i <= n /\ i - 1 <= n
    BY <1>1
  <2>2. Follows(tree[i - 1], old, ops, i - 1)
    BY <1>8, <2>1
  <2> QED
    BY <1>5, <2>1, <2>2
<1> QED
  BY <1>9, <1>10 DEF tree, ApplyPatch, Follows

----------------------------------------------------------------------------
(* Sequences of which the entries in a set are kept.                       *)

(* The entries of s that are in V, in order.                               *)
Only(s, V) == Retain(s, {i \in DOMAIN s : s[i] \in V})

(* There is one way to keep the positions of I in order.                   *)
LEMMA PicksUnique ==
    ASSUME NEW S, NEW r \in Seq(S), NEW q \in Seq(S), NEW s, NEW I \in SUBSET Nat,
           NEW at, NEW bt, Picks(at, r, s, I), Picks(bt, q, s, I)
    PROVE  r = q
<1> DEFINE n == Len(r)
           m == Len(q)
           T == {k \in Nat : \A j \in 1..k : j \in DOMAIN r \/ j \in DOMAIN q =>
                                 j \in DOMAIN r /\ j \in DOMAIN q /\ at[j] = bt[j]}
<1>1. n \in Nat /\ m \in Nat /\ DOMAIN r = 1..n /\ DOMAIN q = 1..m
  OBVIOUS
<1>2. /\ \A k \in DOMAIN r : at[k] \in I /\ r[k] = s[at[k]]
      /\ \A j, k \in DOMAIN r : j < k => at[j] < at[k]
      /\ \A i \in I : \E k \in DOMAIN r : at[k] = i
  BY DEF Picks
<1>3. /\ \A k \in DOMAIN q : bt[k] \in I /\ q[k] = s[bt[k]]
      /\ \A j, k \in DOMAIN q : j < k => bt[j] < bt[k]
      /\ \A i \in I : \E k \in DOMAIN q : bt[k] = i
  BY DEF Picks
<1> HIDE DEF n, m
<1>4. 0 \in T
  OBVIOUS
<1>5. ASSUME NEW k \in Nat, k \in T
      PROVE  k + 1 \in T
  <2> DEFINE c == k + 1
  <2>0. c \in Nat /\ \A j \in 1..c : j = c \/ j \in 1..k
    OBVIOUS
  <2>1. \A j \in Nat : 1 <= j /\ j < c => j \in 1..k
    OBVIOUS
  <2>2. \A j \in 1..k : j \in DOMAIN r \/ j \in DOMAIN q =>
                                 j \in DOMAIN r /\ j \in DOMAIN q /\ at[j] = bt[j]
    BY <1>5
  <2> HIDE DEF c, T
  <2>3. ASSUME c \in DOMAIN r
        PROVE  c \in DOMAIN q /\ bt[c] <= at[c]
    <3>1. PICK h \in DOMAIN q : bt[h] = at[c]
      BY <1>2, <1>3, <2>3
    <3>2. h \in Nat /\ 1 <= h
      BY <1>1
    <3>3. ~(h < c)
      <4> SUFFICES ASSUME h < c PROVE FALSE
        OBVIOUS
      <4>1. h \in DOMAIN r /\ at[h] = bt[h]
        BY <3>1, <3>2, <2>1, <2>2
      <4>2. at[h] < at[c] /\ at[h] = at[c] /\ at[c] \in Nat
        BY <4>1, <2>3, <3>1, <1>2
      <4> QED
        BY <4>2
    <3>4. c \in DOMAIN q
      <4>1. 1 <= c /\ c <= h /\ h <= m
        BY <3>2, <3>3, <2>0, <1>1, <3>1, <2>3
      <4> QED
        BY <4>1, <1>1, <2>0, <3>2
    <3>5. c = h \/ c < h
      BY <3>2, <3>3, <2>0
    <3>6. bt[c] \in Nat /\ bt[h] \in Nat
      BY <3>4, <1>3
    <3>7. bt[c] <= bt[h]
      BY <3>5, <3>6, <3>4, <1>3
    <3> QED
      BY <3>4, <3>7, <3>1
  <2>4. ASSUME c \in DOMAIN q
        PROVE  c \in DOMAIN r /\ at[c] <= bt[c]
    <3>1. PICK h \in DOMAIN r : at[h] = bt[c]
      BY <1>2, <1>3, <2>4
    <3>2. h \in Nat /\ 1 <= h
      BY <1>1
    <3>3. ~(h < c)
      <4> SUFFICES ASSUME h < c PROVE FALSE
        OBVIOUS
      <4>1. h \in DOMAIN q /\ at[h] = bt[h]
        BY <3>1, <3>2, <2>1, <2>2
      <4>2. bt[h] < bt[c] /\ bt[h] = bt[c] /\ bt[c] \in Nat
        BY <4>1, <2>4, <3>1, <1>3
      <4> QED
        BY <4>2
    <3>4. c \in DOMAIN r
      <4>1. 1 <= c /\ c <= h /\ h <= n
        BY <3>2, <3>3, <2>0, <1>1, <3>1, <2>4
      <4> QED
        BY <4>1, <1>1, <2>0, <3>2
    <3>5. c = h \/ c < h
      BY <3>2, <3>3, <2>0
    <3>6. at[c] \in Nat /\ at[h] \in Nat
      BY <3>4, <1>2
    <3>7. at[c] <= at[h]
      BY <3>5, <3>6, <3>4, <1>2
    <3> QED
      BY <3>4, <3>7, <3>1
  <2>5. ASSUME c \in DOMAIN r \/ c \in DOMAIN q
        PROVE  c \in DOMAIN r /\ c \in DOMAIN q /\ at[c] = bt[c]
    <3>1. c \in DOMAIN r /\ c \in DOMAIN q /\ at[c] <= bt[c] /\ bt[c] <= at[c]
      BY <2>3, <2>4, <2>5
    <3>2. at[c] \in Nat /\ bt[c] \in Nat
      BY <3>1, <1>2, <1>3
    <3> QED
      BY <3>1, <3>2
  <2>6. c \in T
    BY <2>0, <2>2, <2>5 DEF T
  <2> QED
    BY <2>6 DEF c
<1>6. \A k \in Nat : k \in T
  <2> HIDE DEF T
  <2> QED
    BY <1>4, <1>5, SetInduction
<1>7. \A j \in Nat : 1 <= j /\ (j \in DOMAIN r \/ j \in DOMAIN q) =>
          j \in DOMAIN r /\ j \in DOMAIN q /\ at[j] = bt[j]
  <2> TAKE j \in Nat
  <2>1. j \in T
    BY <1>6
  <2>2. 1 <= j => j \in 1..j
    OBVIOUS
  <2> QED
    BY <2>1, <2>2
<1>8. DOMAIN r = DOMAIN q /\ \A k \in DOMAIN r : at[k] = bt[k]
  BY <1>1, <1>7
<1>9. \A k \in DOMAIN r : r[k] = q[k]
  BY <1>8, <1>2, <1>3
<1> QED
  BY <1>8, <1>9

(* Keeping is of the same kind, and keeps what it says.                    *)
LEMMA OnlyPicks ==
    ASSUME NEW S, NEW s \in Seq(S), NEW V
    PROVE  /\ Only(s, V) \in Seq(S)
           /\ \E at : Picks(at, Only(s, V), s, {i \in DOMAIN s : s[i] \in V})
<1> DEFINE I == {i \in DOMAIN s : s[i] \in V}
<1>1. I \in SUBSET (DOMAIN s)
  OBVIOUS
<1> HIDE DEF I
<1>2. Retain(s, I) \in Seq(S) /\ \E at : Picks(at, Retain(s, I), s, I)
  BY <1>1, RetainProperties, Zenon
<1> QED
  BY <1>2 DEF Only, I

(* Whatever lists the entries of s that are in V in their order is that.   *)
LEMMA OnlyIs ==
    ASSUME NEW S, NEW s \in Seq(S), NEW V, NEW q \in Seq(S), NEW bt,
           Picks(bt, q, s, {i \in DOMAIN s : s[i] \in V})
    PROVE  Only(s, V) = q
<1> DEFINE I == {i \in DOMAIN s : s[i] \in V}
           r == Only(s, V)
<1>1. r \in Seq(S) /\ \E at : Picks(at, r, s, I)
  BY OnlyPicks, Zenon
<1>2. I \in SUBSET Nat
  OBVIOUS
<1>3. Picks(bt, q, s, I)
  OBVIOUS
<1> HIDE DEF I, r
<1>4. PICK at : Picks(at, r, s, I)
  BY <1>1
<1>5. r = q
  BY <1>1, <1>2, <1>3, <1>4, PicksUnique
<1> QED
  BY <1>5 DEF r

(* What is in V or W but not in s makes no difference.                     *)
LEMMA OnlySame ==
    ASSUME NEW s, NEW V, NEW W, V \intersect ToSet(s) = W \intersect ToSet(s)
    PROVE  Only(s, V) = Only(s, W)
<1>1. \A i \in DOMAIN s : s[i] \in V <=> s[i] \in W
  BY DEF ToSet
<1>2. {i \in DOMAIN s : s[i] \in V} = {i \in DOMAIN s : s[i] \in W}
  BY <1>1
<1> QED
  BY <1>2 DEF Only

(* The entries kept are those in V.                                        *)
LEMMA OnlySet ==
    ASSUME NEW S, NEW s \in Seq(S), NEW V
    PROVE  ToSet(Only(s, V)) = ToSet(s) \intersect V
<1> DEFINE I == {i \in DOMAIN s : s[i] \in V}
           r == Only(s, V)
<1>1. PICK at : Picks(at, r, s, I)
  BY OnlyPicks, Zenon
<1>2. \A i : i \in I <=> i \in DOMAIN s /\ s[i] \in V
  OBVIOUS
<1> HIDE DEF I, r
<1>3. \A e \in ToSet(r) : e \in ToSet(s) /\ e \in V
  BY <1>1, <1>2 DEF Picks, ToSet
<1>4. \A i \in DOMAIN s : s[i] \in V => s[i] \in ToSet(r)
  BY <1>1, <1>2 DEF Picks, ToSet
<1>5. \A e \in ToSet(s) : e \in V => e \in ToSet(r)
  BY <1>4 DEF ToSet
<1>6. ToSet(r) = ToSet(s) \intersect V
  BY <1>3, <1>5
<1> QED
  BY <1>6 DEF r

(* If all entries are in V nothing goes.                                   *)
LEMMA OnlyAll ==
    ASSUME NEW S, NEW s \in Seq(S), NEW V, ToSet(s) \subseteq V
    PROVE  Only(s, V) = s
<1> DEFINE I == {i \in DOMAIN s : s[i] \in V}
           at == [i \in DOMAIN s |-> i]
<1>1. I = DOMAIN s
  BY DEF ToSet
<1>2. Picks(at, s, s, DOMAIN s)
  BY DEF Picks
<1> HIDE DEF at
<1>3. Picks(at, s, s, I)
  BY <1>1, <1>2
<1> QED
  BY <1>3, OnlyIs

(* If no entry is in V nothing stays.                                      *)
LEMMA OnlyNone ==
    ASSUME NEW S, NEW s \in Seq(S), NEW V, ToSet(s) \intersect V = {}
    PROVE  Only(s, V) = << >>
<1> DEFINE I == {i \in DOMAIN s : s[i] \in V}
           q == << >>
           at == [i \in {} |-> i]
<1>1. I = {}
  BY DEF ToSet
<1>2. q \in Seq(S) /\ DOMAIN q = {}
  BY EmptySeq
<1>3. Picks(at, q, s, {})
  BY <1>2 DEF Picks
<1> HIDE DEF at, q
<1>4. Picks(at, q, s, I)
  BY <1>1, <1>3
<1>5. q \in Seq(S)
  BY <1>2
<1>6. Only(s, V) = q
  <2>1. Picks(at, q, s, {i \in DOMAIN s : s[i] \in V})
    BY <1>4
  <2> HIDE DEF I
  <2> QED
    BY <2>1, <1>5, OnlyIs
<1> QED
  BY <1>6 DEF q

(* Keeping goes through a concatenation.                                   *)
LEMMA OnlyConcat ==
    ASSUME NEW S, NEW s \in Seq(S), NEW u \in Seq(S), NEW V
    PROVE  Only(s \o u, V) = Only(s, V) \o Only(u, V)
<1> DEFINE I == {i \in DOMAIN s : s[i] \in V}
           J == {i \in DOMAIN u : u[i] \in V}
           r == Only(s, V)
           q == Only(u, V)
           w == s \o u
           L == Len(s)
           N == Len(r)
           K == {i \in DOMAIN w : w[i] \in V}
<1>1. r \in Seq(S) /\ q \in Seq(S) /\ w \in Seq(S)
  BY OnlyPicks, ConcatProperties
<1>2. PICK at : Picks(at, r, s, I)
  BY OnlyPicks, Zenon
<1>3. PICK bt : Picks(bt, q, u, J)
  BY OnlyPicks, Zenon
<1> DEFINE x == r \o q
           ct == [k \in DOMAIN x |-> IF k \in DOMAIN r THEN at[k] ELSE L + bt[k - N]]
<1>4. /\ L \in Nat /\ Len(u) \in Nat /\ DOMAIN s = 1..L /\ DOMAIN u = 1..Len(u)
      /\ DOMAIN w = 1..(L + Len(u))
      /\ \A i \in DOMAIN s : w[i] = s[i]
      /\ \A i \in DOMAIN u : w[L + i] = u[i]
  <2>1. /\ w \in Seq(S) /\ Len(w) = L + Len(u)
        /\ \A i \in 1..(L + Len(u)) : w[i] = IF i <= L THEN s[i] ELSE u[i - L]
    BY ConcatProperties
  <2>2. L \in Nat /\ Len(u) \in Nat /\ DOMAIN s = 1..L /\ DOMAIN u = 1..Len(u)
    OBVIOUS
  <2>3. DOMAIN w = 1..(L + Len(u))
    BY <2>1
  <2> HIDE DEF w, L
  <2>4. \A i \in DOMAIN u : L + i \in 1..(L + Len(u)) /\ ~(L + i <= L) /\ (L + i) - L = i
    BY <2>2
  <2>5. \A i \in DOMAIN s : i \in 1..(L + Len(u)) /\ i <= L
    BY <2>2
  <2> QED
    BY <2>1, <2>2, <2>3, <2>4, <2>5
<1>5. /\ N \in Nat /\ Len(q) \in Nat /\ DOMAIN r = 1..N /\ DOMAIN q = 1..Len(q)
      /\ DOMAIN x = 1..(N + Len(q)) /\ x \in Seq(S)
      /\ \A k \in DOMAIN r : x[k] = r[k]
      /\ \A k \in DOMAIN x : k \notin DOMAIN r => k - N \in DOMAIN q /\ x[k] = q[k - N]
  <2> HIDE DEF r, q
  <2>1. /\ x \in Seq(S) /\ Len(x) = N + Len(q)
        /\ \A i \in 1..(N + Len(q)) : x[i] = IF i <= N THEN r[i] ELSE q[i - N]
    BY <1>1, ConcatProperties
  <2>2. N \in Nat /\ Len(q) \in Nat /\ DOMAIN r = 1..N /\ DOMAIN q = 1..Len(q)
    BY <1>1
  <2>3. DOMAIN x = 1..(N + Len(q))
    BY <2>1
  <2> HIDE DEF x, N
  <2>4. \A k \in DOMAIN x : k \notin DOMAIN r => k - N \in DOMAIN q /\ ~(k <= N)
    BY <2>2, <2>3
  <2>5. \A i \in DOMAIN r : i \in 1..(N + Len(q)) /\ i <= N
    BY <2>2
  <2> QED
    BY <2>1, <2>2, <2>3, <2>4, <2>5
<1>6. \A i : i \in I <=> i \in DOMAIN s /\ s[i] \in V
  OBVIOUS
<1>7. \A i : i \in J <=> i \in DOMAIN u /\ u[i] \in V
  OBVIOUS
<1>8. \A i : i \in K <=> i \in DOMAIN w /\ w[i] \in V
  OBVIOUS
<1>9. \A k \in DOMAIN x : ct[k] = IF k \in DOMAIN r THEN at[k] ELSE L + bt[k - N]
  OBVIOUS
<1>10. DOMAIN ct = DOMAIN x /\ ct = [k \in DOMAIN x |-> ct[k]]
  OBVIOUS
<1>11. /\ \A k \in DOMAIN r : at[k] \in I /\ r[k] = s[at[k]]
       /\ \A j, k \in DOMAIN r : j < k => at[j] < at[k]
       /\ \A i \in I : \E k \in DOMAIN r : at[k] = i
  BY <1>2 DEF Picks
<1>12. /\ \A k \in DOMAIN q : bt[k] \in J /\ q[k] = u[bt[k]]
       /\ \A j, k \in DOMAIN q : j < k => bt[j] < bt[k]
       /\ \A i \in J : \E k \in DOMAIN q : bt[k] = i
  BY <1>3 DEF Picks
<1> HIDE DEF I, J, K, r, q, w, L, N, x, ct
<1>13. \A i \in I : i \in K /\ i \in Nat /\ i <= L /\ w[i] = s[i]
  BY <1>4, <1>6, <1>8
<1>14. \A i \in J : L + i \in K /\ i \in Nat /\ L < L + i /\ w[L + i] = u[i]
  <2> TAKE i \in J
  <2>1. i \in DOMAIN u /\ u[i] \in V
    BY <1>7
  <2>2. L + i \in 1..(L + Len(u)) /\ i \in Nat /\ L < L + i
    BY <2>1, <1>4
  <2> QED
    BY <2>1, <2>2, <1>4, <1>8
<1>15. \A k \in DOMAIN x : ct[k] \in K /\ x[k] = w[ct[k]]
  <2> TAKE k \in DOMAIN x
  <2>1. CASE k \in DOMAIN r
    BY <2>1, <1>5, <1>9, <1>11, <1>13
  <2>2. CASE k \notin DOMAIN r
    BY <2>2, <1>5, <1>9, <1>12, <1>14
  <2> QED
    BY <2>1, <2>2
<1>16. \A j, k \in DOMAIN x : j < k => ct[j] < ct[k]
  <2> SUFFICES ASSUME NEW j \in DOMAIN x, NEW k \in DOMAIN x, j < k
               PROVE  ct[j] < ct[k]
    OBVIOUS
  <2>0. j \in Nat /\ k \in Nat
    BY <1>5
  <2>1. CASE k \in DOMAIN r
    <3>1. j \in DOMAIN r
      BY <2>0, <2>1, <1>5
    <3> QED
      BY <3>1, <2>1, <1>9, <1>11
  <2>2. CASE k \notin DOMAIN r /\ j \in DOMAIN r
    <3>1. ct[j] = at[j] /\ at[j] \in I
      BY <2>2, <1>9, <1>11
    <3>2. ct[k] = L + bt[k - N] /\ bt[k - N] \in J
      BY <2>2, <1>5, <1>9, <1>12
    <3>3. at[j] \in Nat /\ at[j] <= L /\ L < L + bt[k - N] /\ bt[k - N] \in Nat
      BY <3>1, <3>2, <1>13, <1>14
    <3> QED
      BY <3>1, <3>2, <3>3, <1>4
  <2>3. CASE k \notin DOMAIN r /\ j \notin DOMAIN r
    <3>1. ct[j] = L + bt[j - N] /\ j - N \in DOMAIN q /\ ct[k] = L + bt[k - N] /\ k - N \in DOMAIN q
      BY <2>3, <1>5, <1>9
    <3>2. j - N < k - N
      BY <2>0, <1>5
    <3>3. bt[j - N] < bt[k - N] /\ bt[j - N] \in Nat /\ bt[k - N] \in Nat
      BY <3>1, <3>2, <1>12, <1>14
    <3> QED
      BY <3>1, <3>3, <1>4
  <2> QED
    BY <2>1, <2>2, <2>3
<1>17. \A i \in K : \E k \in DOMAIN x : ct[k] = i
  <2> TAKE i \in K
  <2>1. i \in DOMAIN w /\ w[i] \in V
    BY <1>8
  <2>2. CASE i \in DOMAIN s
    <3>1. i \in I
      BY <2>1, <2>2, <1>4, <1>6
    <3>2. PICK k \in DOMAIN r : at[k] = i
      BY <3>1, <1>11
    <3>3. k \in DOMAIN x
      BY <1>5
    <3> QED
      BY <3>2, <3>3, <1>9
  <2>3. CASE i \notin DOMAIN s
    <3>1. i - L \in DOMAIN u /\ L + (i - L) = i
      BY <2>1, <2>3, <1>4
    <3>2. i - L \in J
      BY <3>1, <2>1, <1>4, <1>7
    <3>3. PICK k \in DOMAIN q : bt[k] = i - L
      BY <3>2, <1>12
    <3>4. N + k \in DOMAIN x /\ N + k \notin DOMAIN r /\ (N + k) - N = k
      BY <1>5
    <3>5. ct[N + k] = i
      BY <3>1, <3>3, <3>4, <1>9
    <3> QED
      BY <3>4, <3>5
  <2> QED
    BY <2>2, <2>3
<1>18. Picks(ct, x, w, K)
  <2>1. ct \in [DOMAIN x -> K]
    BY <1>10, <1>15
  <2> QED
    BY <2>1, <1>15, <1>16, <1>17 DEF Picks
<1>19. Only(w, V) = x
  BY <1>18, <1>1, <1>5, OnlyIs DEF K
<1> QED
  BY <1>19 DEF w, x, r, q

(* Keeping twice keeps what is in both sets.                               *)
LEMMA OnlyOnly ==
    ASSUME NEW S, NEW s \in Seq(S), NEW V, NEW W
    PROVE  Only(Only(s, V), W) = Only(s, V \intersect W)
<1> DEFINE r == Only(s, V)
           q == Only(r, W)
           I == {i \in DOMAIN s : s[i] \in V}
           J == {i \in DOMAIN r : r[i] \in W}
           K == {i \in DOMAIN s : s[i] \in V \intersect W}
<1>1. r \in Seq(S)
  BY OnlyPicks
<1>2. PICK at : Picks(at, r, s, I)
  BY OnlyPicks, Zenon
<1>3. \A i : i \in I <=> i \in DOMAIN s /\ s[i] \in V
  OBVIOUS
<1>4. \A i : i \in K <=> i \in DOMAIN s /\ s[i] \in V /\ s[i] \in W
  OBVIOUS
<1> HIDE DEF r
<1>5. q \in Seq(S)
  BY <1>1, OnlyPicks
<1>6. PICK bt : Picks(bt, q, r, J)
  BY <1>1, OnlyPicks, Zenon
<1>7. \A i : i \in J <=> i \in DOMAIN r /\ r[i] \in W
  OBVIOUS
<1> HIDE DEF I, J, K, q
<1> DEFINE ct == [k \in DOMAIN q |-> at[bt[k]]]
<1>8. Picks(ct, q, s, K)
  <2>1. /\ \A k \in DOMAIN r : at[k] \in I /\ r[k] = s[at[k]]
        /\ \A j, k \in DOMAIN r : j < k => at[j] < at[k]
        /\ \A i \in I : \E k \in DOMAIN r : at[k] = i
    BY <1>2 DEF Picks
  <2>2. /\ \A k \in DOMAIN q : bt[k] \in J /\ q[k] = r[bt[k]]
        /\ \A j, k \in DOMAIN q : j < k => bt[j] < bt[k]
        /\ \A i \in J : \E k \in DOMAIN q : bt[k] = i
    BY <1>6 DEF Picks
  <2>3. \A k \in DOMAIN q : ct[k] \in K /\ q[k] = s[ct[k]]
    BY <2>1, <2>2, <1>3, <1>4, <1>7
  <2>4. \A j, k \in DOMAIN q : j < k => ct[j] < ct[k]
    BY <2>1, <2>2, <1>7
  <2>5. \A i \in K : \E k \in DOMAIN q : ct[k] = i
    <3> TAKE i \in K
    <3>1. i \in I /\ s[i] \in W
      BY <1>3, <1>4
    <3>2. PICK j \in DOMAIN r : at[j] = i
      BY <2>1, <3>1
    <3>3. j \in J
      BY <3>1, <3>2, <2>1, <1>7
    <3>4. PICK k \in DOMAIN q : bt[k] = j
      BY <3>3, <2>2
    <3> QED
      BY <3>2, <3>4
  <2>6. ct \in [DOMAIN q -> K]
    BY <2>3
  <2> HIDE DEF ct
  <2> QED
    BY <2>3, <2>4, <2>5, <2>6 DEF Picks
<1> HIDE DEF ct
<1>9. Only(s, V \intersect W) = q
  <2>1. Picks(ct, q, s, {i \in DOMAIN s : s[i] \in V \intersect W})
    BY <1>8 DEF K
  <2> QED
    BY <2>1, <1>5, OnlyIs
<1> QED
  BY <1>9 DEF q, r

----------------------------------------------------------------------------
(* Keeping entries of sequences put together, and the operations on a      *)
(* node.                                                                   *)

(* Concatenating the parts of ss one after the other.                      *)
Walks(f, ss) ==
    /\ f[0] = << >>
    /\ \A i \in 1..Len(ss) : f[i] = f[i - 1] \o ss[i]
    /\ FlattenSeq(ss) = f[Len(ss)]

(* FlattenSeq puts the parts together one by one.                          *)
LEMMA FlattenWalk ==
    ASSUME NEW S, NEW ss \in Seq(Seq(S))
    PROVE  \E f : Walks(f, ss) /\ \A i \in 0..Len(ss) : f[i] \in Seq(S)
<1>0. Len(ss) \in Nat /\ \A i \in 1..Len(ss) : ss[i] \in Seq(S)
  OBVIOUS
<1>1. CASE ss = << >>
  <2> DEFINE f == [i \in {0} |-> << >>]
  <2>1. FlattenSeq(ss) = << >>
    BY <1>1 DEF FlattenSeq
  <2>2. Len(ss) = 0 /\ f[0] = << >>
    BY <1>1, EmptySeq
  <2>3. << >> \in Seq(S) /\ \A i \in 0..Len(ss) : i = 0
    BY <2>2, EmptySeq
  <2> HIDE DEF f
  <2>4. Walks(f, ss)
    <3>1. \A i \in 1..Len(ss) : FALSE
      BY <2>2
    <3>2. FlattenSeq(ss) = f[Len(ss)]
      BY <2>1, <2>2
    <3> QED
      BY <3>1, <3>2, <2>2 DEF Walks
  <2>5. \A i \in 0..Len(ss) : f[i] \in Seq(S)
    BY <2>2, <2>3
  <2> QED
    BY <2>4, <2>5
<1>2. CASE ss # << >>
  <2>1. PICK g : /\ g[1] = ss[1]
                 /\ \A i \in 1..Len(ss) : i # 1 => g[i] = g[i - 1] \o ss[i]
                 /\ FlattenSeq(ss) = g[Len(ss)]
    BY <1>2, FlattenSteps, Zenon
  <2> DEFINE f == [i \in 0..Len(ss) |-> IF i = 0 THEN << >> ELSE g[i]]
  <2>2. Len(ss) # 0 /\ Len(ss) \in 0..Len(ss) /\ 0 \in 0..Len(ss)
    BY <1>0, <1>2, EmptySeq
  <2>3. f[0] = << >> /\ f[Len(ss)] = g[Len(ss)]
    BY <2>2
  <2>4. ASSUME NEW i \in 1..Len(ss)
        PROVE  f[i] = f[i - 1] \o ss[i]
    <3>1. f[i] = g[i] /\ i \in 0..Len(ss) /\ i - 1 \in 0..Len(ss)
      BY <1>0
    <3>2. CASE i = 1
      <4>1. f[i - 1] = << >>
        BY <3>2, <2>3
      <4>2. << >> \o ss[i] = ss[i]
        BY <1>0, ConcatEmptySeq
      <4> QED
        BY <3>1, <3>2, <4>1, <4>2, <2>1
    <3>3. CASE i # 1
      <4>1. f[i - 1] = g[i - 1]
        BY <3>1, <3>3
      <4> QED
        BY <3>1, <3>3, <4>1, <2>1
    <3> QED
      BY <3>2, <3>3
  <2> HIDE DEF f
  <2>5. Walks(f, ss)
    BY <2>1, <2>3, <2>4 DEF Walks
  <2> DEFINE T == {k \in Nat : k <= Len(ss) => f[k] \in Seq(S)}
  <2>6. 0 \in T
    BY <2>3, EmptySeq
  <2>7. ASSUME NEW k \in Nat, k \in T
        PROVE  k + 1 \in T
    <3> SUFFICES ASSUME k + 1 <= Len(ss)
                 PROVE  f[k + 1] \in Seq(S)
      OBVIOUS
    <3>1. k + 1 \in 1..Len(ss) /\ (k + 1) - 1 = k /\ k <= Len(ss)
      BY <1>0
    <3>2. f[k + 1] = f[k] \o ss[k + 1] /\ f[k] \in Seq(S) /\ ss[k + 1] \in Seq(S)
      BY <3>1, <2>4, <2>7, <1>0
    <3> QED
      BY <3>2, ConcatProperties
  <2>8. \A k \in Nat : k \in T
    <3> HIDE DEF T
    <3> QED
      BY <2>6, <2>7, SetInduction
  <2>9. \A i \in 0..Len(ss) : f[i] \in Seq(S)
    BY <2>8, <1>0
  <2> QED
    BY <2>5, <2>9
<1> QED
  BY <1>1, <1>2

(* Keeping goes through FlattenSeq.                                        *)
LEMMA OnlyFlatten ==
    ASSUME NEW S, NEW ss \in Seq(Seq(S)), NEW V
    PROVE  Only(FlattenSeq(ss), V) = FlattenSeq([i \in DOMAIN ss |-> Only(ss[i], V)])
<1> DEFINE n == Len(ss)
           us == [i \in DOMAIN ss |-> Only(ss[i], V)]
<1>1. n \in Nat /\ DOMAIN ss = 1..n /\ \A i \in 1..n : ss[i] \in Seq(S)
  OBVIOUS
<1>2. us \in Seq(Seq(S)) /\ Len(us) = n
  <2>1. us \in [1..n -> Seq(S)]
    BY <1>1, OnlyPicks
  <2> HIDE DEF us, n
  <2> QED
    BY <1>1, <2>1, SeqDef
<1>3. \A i \in 1..n : us[i] = Only(ss[i], V)
  BY <1>1
<1>4. PICK f : Walks(f, ss) /\ \A i \in 0..n : f[i] \in Seq(S)
  BY FlattenWalk, Zenon
<1> HIDE DEF us
<1>5. PICK g : Walks(g, us) /\ \A i \in 0..Len(us) : g[i] \in Seq(S)
  BY <1>2, FlattenWalk, Zenon
<1> DEFINE T == {k \in Nat : k <= n => g[k] = Only(f[k], V)}
<1>6. /\ f[0] = << >> /\ g[0] = << >>
      /\ \A i \in 1..n : f[i] = f[i - 1] \o ss[i] /\ g[i] = g[i - 1] \o us[i]
      /\ FlattenSeq(ss) = f[n] /\ FlattenSeq(us) = g[n]
  BY <1>2, <1>4, <1>5 DEF Walks
<1> HIDE DEF n
<1>7. 0 \in T
  <2>1. << >> \in Seq(S)
    BY EmptySeq
  <2>2. ToSet(<< >>) \intersect V = {}
    BY DEF ToSet
  <2>3. Only(<< >>, V) = << >>
    <3> DEFINE e == << >>
    <3>1. e \in Seq(S) /\ ToSet(e) \intersect V = {}
      BY <2>1, <2>2
    <3> HIDE DEF e
    <3>2. Only(e, V) = << >>
      BY <3>1, OnlyNone
    <3> QED
      BY <3>2 DEF e
  <2> QED
    BY <2>3, <1>6
<1>8. ASSUME NEW k \in Nat, k \in T
      PROVE  k + 1 \in T
  <2> SUFFICES ASSUME k + 1 <= n
               PROVE  g[k + 1] = Only(f[k + 1], V)
    OBVIOUS
  <2>1. k + 1 \in 1..n /\ (k + 1) - 1 = k /\ k <= n /\ k \in 0..n
    BY <1>1
  <2>2. g[k + 1] = g[k] \o us[k + 1] /\ f[k + 1] = f[k] \o ss[k + 1]
    BY <2>1, <1>6
  <2>3. f[k] \in Seq(S) /\ ss[k + 1] \in Seq(S)
    BY <2>1, <1>1, <1>4
  <2>4. Only(f[k] \o ss[k + 1], V) = Only(f[k], V) \o Only(ss[k + 1], V)
    <3> DEFINE a == f[k]
               b == ss[k + 1]
    <3>1. a \in Seq(S) /\ b \in Seq(S)
      BY <2>3
    <3> HIDE DEF a, b, T
    <3>2. Only(a \o b, V) = Only(a, V) \o Only(b, V)
      BY <3>1, OnlyConcat
    <3> QED
      BY <3>2 DEF a, b
  <2> QED
    BY <2>1, <2>2, <2>4, <1>3, <1>8
<1>9. n \in T
  <2> HIDE DEF T
  <2> QED
    BY <1>1, <1>7, <1>8, SetInduction
<1>10. FlattenSeq(us) = Only(FlattenSeq(ss), V)
  BY <1>1, <1>6, <1>9
<1> QED
  BY <1>10 DEF us

(* A concatenation of which all parts but one are empty.                   *)
LEMMA FlattenSingle ==
    ASSUME NEW S, NEW ss \in Seq(Seq(S)), NEW i \in DOMAIN ss,
           \A j \in DOMAIN ss : j # i => ss[j] = << >>
    PROVE  FlattenSeq(ss) = ss[i]
<1> DEFINE n == Len(ss)
<1>1. n \in Nat /\ DOMAIN ss = 1..n /\ \A j \in 1..n : ss[j] \in Seq(S)
  OBVIOUS
<1>2. PICK f : Walks(f, ss) /\ \A j \in 0..n : f[j] \in Seq(S)
  BY FlattenWalk, Zenon
<1>3. f[0] = << >> /\ (\A j \in 1..n : f[j] = f[j - 1] \o ss[j]) /\ FlattenSeq(ss) = f[n]
  BY <1>2 DEF Walks
<1> HIDE DEF n
<1>4. i \in Nat /\ 1 <= i /\ i <= n
  BY <1>1
<1> DEFINE T == {k \in Nat : k <= n => f[k] = IF k < i THEN << >> ELSE ss[i]}
<1>5. 0 \in T
  BY <1>3, <1>4
<1>6. ASSUME NEW k \in Nat, k \in T
      PROVE  k + 1 \in T
  <2> SUFFICES ASSUME k + 1 <= n
               PROVE  f[k + 1] = IF k + 1 < i THEN << >> ELSE ss[i]
    OBVIOUS
  <2>1. k + 1 \in 1..n /\ (k + 1) - 1 = k /\ k <= n /\ k \in 0..n
    BY <1>1
  <2>2. f[k + 1] = f[k] \o ss[k + 1] /\ f[k] \in Seq(S) /\ ss[k + 1] \in Seq(S)
    BY <2>1, <1>1, <1>2, <1>3
  <2>3. f[k] = IF k < i THEN << >> ELSE ss[i]
    BY <2>1, <1>6
  <2>4. f[k] \o << >> = f[k] /\ << >> \o ss[k + 1] = ss[k + 1]
    BY <2>2, ConcatEmptySeq
  <2>5. CASE k + 1 = i
    <3>1. k < i /\ ~(k + 1 < i)
      BY <2>5, <1>4
    <3> QED
      BY <3>1, <2>2, <2>3, <2>4, <2>5
  <2>6. CASE k + 1 # i
    <3>1. ss[k + 1] = << >>
      BY <2>1, <2>6, <1>1
    <3>2. k + 1 < i <=> k < i
      BY <2>6, <1>4
    <3> QED
      BY <3>1, <3>2, <2>2, <2>3, <2>4
  <2> QED
    BY <2>5, <2>6
<1>7. n \in T
  <2> HIDE DEF T
  <2> QED
    BY <1>1, <1>5, <1>6, SetInduction
<1>8. ~(n < i)
  BY <1>1, <1>4
<1> QED
  BY <1>1, <1>3, <1>7, <1>8

(* Empty parts give nothing.                                               *)
LEMMA FlattenNone ==
    ASSUME NEW S, NEW ss \in Seq(Seq(S)), \A j \in DOMAIN ss : ss[j] = << >>
    PROVE  FlattenSeq(ss) = << >>
<1>1. CASE DOMAIN ss = {}
  <2>1. Len(ss) \in Nat /\ DOMAIN ss = 1..Len(ss)
    OBVIOUS
  <2>2. Len(ss) = 0
    BY <1>1, <2>1
  <2>3. PICK f : Walks(f, ss)
    BY FlattenWalk, Zenon
  <2> QED
    BY <2>2, <2>3 DEF Walks
<1>2. CASE DOMAIN ss # {}
  <2>1. PICK i : i \in DOMAIN ss
    BY <1>2
  <2>2. FlattenSeq(ss) = ss[i]
    BY <2>1, FlattenSingle
  <2> QED
    BY <2>1, <2>2
<1> QED
  BY <1>1, <1>2

----------------------------------------------------------------------------
(* The operations of a patch that are on one node.                         *)

(* The operations on node id.                                              *)
At(S, id) == {o \in S : o.target = id}

(* The operations on no node of ids.                                       *)
Off(S, ids) == {o \in S : o.target \notin ids}

(* OpsOn and OpsOff keep the entries in a set.                             *)
LEMMA OpsAreOnly ==
    ASSUME NEW S, NEW ops \in Seq(S)
    PROVE  /\ \A id : OpsOn(ops, id) = Only(ops, At(S, id))
           /\ \A ids : OpsOff(ops, ids) = Only(ops, Off(S, ids))
<1>1. \A i \in DOMAIN ops : ops[i] \in S
  OBVIOUS
<1>2. ASSUME NEW id
      PROVE  OpsOn(ops, id) = Only(ops, At(S, id))
  <2>1. {i \in DOMAIN ops : ops[i] \in At(S, id)} = {i \in DOMAIN ops : ops[i].target = id}
    BY <1>1 DEF At
  <2> QED
    BY <2>1 DEF OpsOn, Only
<1>3. ASSUME NEW ids
      PROVE  OpsOff(ops, ids) = Only(ops, Off(S, ids))
  <2>1. {i \in DOMAIN ops : ops[i] \in Off(S, ids)} = {i \in DOMAIN ops : ops[i].target \notin ids}
    BY <1>1 DEF Off
  <2> QED
    BY <2>1 DEF OpsOff, Only
<1> QED
  BY <1>2, <1>3

(* The operations on a node in two patches one after the other.            *)
LEMMA OpsOnConcat ==
    ASSUME NEW S, NEW s \in Seq(S), NEW u \in Seq(S), NEW id
    PROVE  OpsOn(s \o u, id) = OpsOn(s, id) \o OpsOn(u, id)
<1>1. s \o u \in Seq(S)
  BY ConcatProperties
<1>2. Only(s \o u, At(S, id)) = Only(s, At(S, id)) \o Only(u, At(S, id))
  BY OnlyConcat
<1> QED
  BY <1>1, <1>2, OpsAreOnly

(* The same for many.                                                      *)
LEMMA OpsOnFlatten ==
    ASSUME NEW S, NEW ss \in Seq(Seq(S)), NEW id
    PROVE  OpsOn(FlattenSeq(ss), id) = FlattenSeq([i \in DOMAIN ss |-> OpsOn(ss[i], id)])
<1>1. FlattenSeq(ss) \in Seq(S)
  BY FlattenPairwise
<1>2. Only(FlattenSeq(ss), At(S, id)) = FlattenSeq([i \in DOMAIN ss |-> Only(ss[i], At(S, id))])
  BY OnlyFlatten
<1>3. \A i \in DOMAIN ss : OpsOn(ss[i], id) = Only(ss[i], At(S, id))
  <2> TAKE i \in DOMAIN ss
  <2>1. ss[i] \in Seq(S)
    OBVIOUS
  <2> QED
    BY <2>1, OpsAreOnly
<1>4. [i \in DOMAIN ss |-> OpsOn(ss[i], id)] = [i \in DOMAIN ss |-> Only(ss[i], At(S, id))]
  BY <1>3
<1> QED
  BY <1>1, <1>2, <1>4, OpsAreOnly

(* The operations on a node are on it, and on no other node; there are     *)
(* none when the patch does not affect it.                                 *)
LEMMA OpsOnOps ==
    ASSUME NEW S, NEW ops \in Seq(S), NEW id
    PROVE  /\ OpsOn(ops, id) \in Seq(S)
           /\ \A o \in ToSet(OpsOn(ops, id)) : o.target = id
           /\ id \notin Affected(ops) => OpsOn(ops, id) = << >>
           /\ \A x : OpsOn(OpsOn(ops, x), id) = IF x = id THEN OpsOn(ops, id) ELSE << >>
           /\ \A X : OpsOff(ops, X) \in Seq(S)
           /\ \A X : OpsOn(OpsOff(ops, X), id) = IF id \in X THEN << >> ELSE OpsOn(ops, id)
<1>1. OpsOn(ops, id) = Only(ops, At(S, id))
  BY OpsAreOnly
<1>2. ToSet(Only(ops, At(S, id))) = ToSet(ops) \intersect At(S, id)
  BY OnlySet
<1>3. ASSUME id \notin Affected(ops)
      PROVE  OpsOn(ops, id) = << >>
  <2>1. ToSet(ops) \intersect At(S, id) = {}
    BY <1>3 DEF Affected, ToSet, At
  <2> QED
    BY <1>1, <2>1, OnlyNone
<1>4. ASSUME NEW V
      PROVE  /\ Only(ops, V) \in Seq(S)
             /\ OpsOn(Only(ops, V), id) = Only(ops, V \intersect At(S, id))
  <2>1. Only(ops, V) \in Seq(S)
    BY OnlyPicks
  <2>2. OpsOn(Only(ops, V), id) = Only(Only(ops, V), At(S, id))
    BY <2>1, OpsAreOnly
  <2> QED
    BY <2>1, <2>2, OnlyOnly
<1>5. ASSUME NEW x
      PROVE  OpsOn(OpsOn(ops, x), id) = IF x = id THEN OpsOn(ops, id) ELSE << >>
  <2>1. OpsOn(ops, x) = Only(ops, At(S, x))
    BY OpsAreOnly
  <2>2. OpsOn(OpsOn(ops, x), id) = Only(ops, At(S, x) \intersect At(S, id))
    BY <2>1, <1>4
  <2>3. CASE x = id
    <3>1. At(S, x) \intersect At(S, id) = At(S, id)
      BY <2>3
    <3> QED
      BY <2>2, <2>3, <3>1, <1>1
  <2>4. CASE x # id
    <3>1. ToSet(ops) \intersect (At(S, x) \intersect At(S, id)) = {}
      BY <2>4 DEF At
    <3>2. Only(ops, At(S, x) \intersect At(S, id)) = << >>
      BY <3>1, OnlyNone
    <3> QED
      BY <2>2, <2>4, <3>2
  <2> QED
    BY <2>3, <2>4
<1>6. ASSUME NEW X
      PROVE  /\ OpsOff(ops, X) \in Seq(S)
             /\ OpsOn(OpsOff(ops, X), id) = IF id \in X THEN << >> ELSE OpsOn(ops, id)
  <2>1. OpsOff(ops, X) = Only(ops, Off(S, X))
    BY OpsAreOnly
  <2>2. OpsOff(ops, X) \in Seq(S) /\ OpsOn(OpsOff(ops, X), id) = Only(ops, Off(S, X) \intersect At(S, id))
    BY <2>1, <1>4
  <2>3. CASE id \notin X
    <3>1. Off(S, X) \intersect At(S, id) = At(S, id)
      BY <2>3 DEF Off, At
    <3> QED
      BY <2>2, <2>3, <3>1, <1>1
  <2>4. CASE id \in X
    <3>1. ToSet(ops) \intersect (Off(S, X) \intersect At(S, id)) = {}
      BY <2>4 DEF At, Off
    <3>2. Only(ops, Off(S, X) \intersect At(S, id)) = << >>
      BY <3>1, OnlyNone
    <3> QED
      BY <2>2, <2>4, <3>2
  <2> QED
    BY <2>2, <2>3, <2>4
<1>7. OpsOn(ops, id) \in Seq(S) /\ \A o \in ToSet(OpsOn(ops, id)) : o.target = id
  BY <1>1, <1>2, <1>4 DEF At
<1> QED
  BY <1>3, <1>5, <1>6, <1>7

----------------------------------------------------------------------------
(* What a patch does to a tree, said of each node: its label and its value *)
(* are those of the last operation that gives one, its children are those  *)
(* that are not deleted and then those that are inserted.                  *)

(* The operations apply_patch may be given for b.                          *)
SafeFor(b, S) ==
    \A o \in S : /\ o.target \in DOMAIN b.node
                 /\ \/ o.op = "Insert" \/ o.op = "Delete"
                    \/ o.op = "Update" \/ o.op = "Relabel"
                 /\ o.op = "Delete" => o.target # RootId

(* The nodes a patch deletes.                                              *)
Deleted(ops) == {ops[i].target : i \in {j \in DOMAIN ops : ops[j].op = "Delete"}}

(* They and what is below them in b.                                       *)
Gone(b, ops) == UNION {CollectSubtree(b, x) : x \in Deleted(ops)}

(* The insertions among operations.                                        *)
Inserts(s) == Retain(s, {i \in DOMAIN s : s[i].op = "Insert"})

(* What the last Relabel, or Update, of s leaves of a label, or value.     *)
LabelIs(l, s, m) ==
    \/ m = l /\ \A i \in DOMAIN s : s[i].op # "Relabel"
    \/ \E i \in DOMAIN s : /\ s[i].op = "Relabel" /\ m = s[i].label
                           /\ \A j \in DOMAIN s : j > i => s[j].op # "Relabel"

(* The same for a value.                                                   *)
ValueIs(v, s, w) ==
    \/ w = v /\ \A i \in DOMAIN s : s[i].op # "Update"
    \/ \E i \in DOMAIN s : /\ s[i].op = "Update" /\ w = s[i].value
                           /\ \A j \in DOMAIN s : j > i => s[j].op # "Update"

(* The list s without the nodes of D.                                      *)
Drop(s, D) == Only(s, Nat \ D)

(* new are the nodes that the insertions ins have made, in their order.    *)
Grown(t, next, new, ins) ==
    /\ DOMAIN new = DOMAIN ins
    /\ \A k \in DOMAIN new :
          /\ new[k] \in Nat /\ new[k] >= next /\ new[k] \in DOMAIN t.node
          /\ t.node[new[k]].kind = ins[k].kind
          /\ t.node[new[k]].label = ins[k].label
          /\ t.node[new[k]].value = ins[k].value
          /\ t.node[new[k]].children = << >>

(* The children of x: those of b that are not deleted, then new ones.      *)
ListIs(t, b, x, ops, new) ==
    /\ new \in Seq(Nat)
    /\ t.node[x].children = Drop(b.node[x].children, Deleted(ops)) \o new
    /\ Grown(t, b.next, new, Inserts(OpsOn(ops, x)))

(* What the operations on x have made of it.                               *)
NodeAfter(t, b, x, ops) ==
    /\ t.node[x].kind = b.node[x].kind
    /\ LabelIs(b.node[x].label, OpsOn(ops, x), t.node[x].label)
    /\ ValueIs(b.node[x].value, OpsOn(ops, x), t.node[x].value)
    /\ \E new : ListIs(t, b, x, ops, new)

(* t is what ops have made of b.                                           *)
Effect(t, b, ops) ==
    /\ IsTree(t) /\ t.next >= b.next
    /\ \A x \in DOMAIN b.node : x \in DOMAIN t.node <=> x \notin Gone(b, ops)
    /\ \A x \in DOMAIN t.node :
          x \notin DOMAIN b.node => t.node[x].children = << >> /\ x >= b.next
    /\ \A x \in DOMAIN b.node : x \in DOMAIN t.node => NodeAfter(t, b, x, ops)

(* Keeping, one entry at a time.                                           *)
LEMMA OnlyAppend ==
    ASSUME NEW S, NEW s \in Seq(S), NEW e \in S, NEW V
    PROVE  Only(Append(s, e), V) = IF e \in V THEN Append(Only(s, V), e) ELSE Only(s, V)
<1> DEFINE u == <<e>>
<1>1. u \in Seq(S) /\ ToSet(u) = {e} /\ Append(s, e) = s \o u
  BY AppendIsConcat DEF ToSet
<1>2. Only(s, V) \in Seq(S)
  BY OnlyPicks
<1>3. Append(Only(s, V), e) = Only(s, V) \o u /\ Only(s, V) \o << >> = Only(s, V)
  BY <1>2, AppendIsConcat, ConcatEmptySeq
<1> HIDE DEF u
<1>4. Only(s \o u, V) = Only(s, V) \o Only(u, V)
  BY <1>1, OnlyConcat
<1>5. CASE e \in V
  <2>1. Only(u, V) = u
    BY <1>1, <1>5, OnlyAll
  <2> QED
    BY <1>1, <1>3, <1>4, <1>5, <2>1
<1>6. CASE e \notin V
  <2>1. Only(u, V) = << >>
    BY <1>1, <1>6, OnlyNone
  <2> QED
    BY <1>1, <1>3, <1>4, <1>6, <2>1
<1> QED
  BY <1>5, <1>6

(* One more operation is one more on its target.                           *)
LEMMA OpsOnAppend ==
    ASSUME NEW S, NEW ops \in Seq(S), NEW o \in S
    PROVE  /\ Append(ops, o) \in Seq(S)
           /\ \A x : OpsOn(Append(ops, o), x) =
                        IF x = o.target THEN Append(OpsOn(ops, x), o) ELSE OpsOn(ops, x)
           /\ Deleted(Append(ops, o)) = Deleted(ops) \union
                                          (IF o.op = "Delete" THEN {o.target} ELSE {})
<1>1. Append(ops, o) \in Seq(S)
  BY AppendProperties
<1>2. ASSUME NEW x
      PROVE  OpsOn(Append(ops, o), x) =
                 IF x = o.target THEN Append(OpsOn(ops, x), o) ELSE OpsOn(ops, x)
  <2>1. o \in At(S, x) <=> x = o.target
    BY DEF At
  <2>2. Only(Append(ops, o), At(S, x)) = IF o \in At(S, x) THEN Append(Only(ops, At(S, x)), o)
                                                           ELSE Only(ops, At(S, x))
    BY OnlyAppend
  <2> QED
    BY <1>1, <2>1, <2>2, OpsAreOnly
<1>3. Deleted(Append(ops, o)) = Deleted(ops) \union (IF o.op = "Delete" THEN {o.target} ELSE {})
  <2> DEFINE n == Len(ops)
             q == Append(ops, o)
  <2>1. n \in Nat /\ DOMAIN ops = 1..n /\ DOMAIN q = 1..(n + 1)
        /\ (\A i \in 1..n : q[i] = ops[i]) /\ q[n + 1] = o
    BY AppendProperties
  <2> HIDE DEF n, q
  <2>2. \A i : i \in DOMAIN q <=> i \in DOMAIN ops \/ i = n + 1
    BY <2>1
  <2>3. \A x : x \in Deleted(q) <=> \E i \in DOMAIN q : q[i].op = "Delete" /\ x = q[i].target
    BY DEF Deleted
  <2>4. \A x : x \in Deleted(ops) <=> \E i \in DOMAIN ops : ops[i].op = "Delete" /\ x = ops[i].target
    BY DEF Deleted
  <2>5. \A x : x \in Deleted(q) <=> x \in Deleted(ops) \/ (o.op = "Delete" /\ x = o.target)
    BY <2>1, <2>2, <2>3, <2>4
  <2> QED
    BY <2>5 DEF q
<1> QED
  BY <1>1, <1>2, <1>3

(* The last Relabel gives the label, whatever comes before it.             *)
LEMMA LabelAfter ==
    ASSUME NEW S, NEW s \in Seq(S), NEW o \in S, NEW l, NEW m, LabelIs(l, s, m)
    PROVE  LabelIs(l, Append(s, o), IF o.op = "Relabel" THEN o.label ELSE m)
<1> DEFINE n == Len(s)
           q == Append(s, o)
<1>1. n \in Nat /\ DOMAIN s = 1..n /\ DOMAIN q = 1..(n + 1)
        /\ (\A i \in 1..n : q[i] = s[i]) /\ q[n + 1] = o
  BY AppendProperties
<1> HIDE DEF n, q
<1>2. CASE o.op = "Relabel"
  <2>1. n + 1 \in DOMAIN q /\ \A j \in DOMAIN q : ~(j > n + 1)
    BY <1>1
  <2> QED
    BY <2>1, <1>1, <1>2 DEF LabelIs, q
<1>3. CASE o.op # "Relabel"
  <2>1. CASE m = l /\ \A i \in DOMAIN s : s[i].op # "Relabel"
    <3>1. \A i \in DOMAIN q : q[i].op # "Relabel"
      BY <1>1, <1>3, <2>1
    <3>2. LabelIs(l, q, m)
      BY <2>1, <3>1 DEF LabelIs
    <3> QED
      BY <1>3, <3>2 DEF q
  <2>2. ASSUME NEW i \in DOMAIN s, s[i].op = "Relabel", m = s[i].label,
               \A j \in DOMAIN s : j > i => s[j].op # "Relabel"
        PROVE  LabelIs(l, q, m)
    <3>1. i \in DOMAIN q /\ q[i] = s[i]
      BY <1>1
    <3>2. \A j \in DOMAIN q : j > i => q[j].op # "Relabel"
      BY <1>1, <1>3, <2>2
    <3> QED
      BY <3>1, <3>2, <2>2 DEF LabelIs
  <2> QED
    BY <1>3, <2>1, <2>2 DEF LabelIs, q
<1> QED
  BY <1>2, <1>3

(* The last Update gives the value, whatever comes before it.              *)
LEMMA ValueAfter ==
    ASSUME NEW S, NEW s \in Seq(S), NEW o \in S, NEW l, NEW m, ValueIs(l, s, m)
    PROVE  ValueIs(l, Append(s, o), IF o.op = "Update" THEN o.value ELSE m)
<1> DEFINE n == Len(s)
           q == Append(s, o)
<1>1. n \in Nat /\ DOMAIN s = 1..n /\ DOMAIN q = 1..(n + 1)
        /\ (\A i \in 1..n : q[i] = s[i]) /\ q[n + 1] = o
  BY AppendProperties
<1> HIDE DEF n, q
<1>2. CASE o.op = "Update"
  <2>1. n + 1 \in DOMAIN q /\ \A j \in DOMAIN q : ~(j > n + 1)
    BY <1>1
  <2> QED
    BY <2>1, <1>1, <1>2 DEF ValueIs, q
<1>3. CASE o.op # "Update"
  <2>1. CASE m = l /\ \A i \in DOMAIN s : s[i].op # "Update"
    <3>1. \A i \in DOMAIN q : q[i].op # "Update"
      BY <1>1, <1>3, <2>1
    <3>2. ValueIs(l, q, m)
      BY <2>1, <3>1 DEF ValueIs
    <3> QED
      BY <1>3, <3>2 DEF q
  <2>2. ASSUME NEW i \in DOMAIN s, s[i].op = "Update", m = s[i].value,
               \A j \in DOMAIN s : j > i => s[j].op # "Update"
        PROVE  ValueIs(l, q, m)
    <3>1. i \in DOMAIN q /\ q[i] = s[i]
      BY <1>1
    <3>2. \A j \in DOMAIN q : j > i => q[j].op # "Update"
      BY <1>1, <1>3, <2>2
    <3> QED
      BY <3>1, <3>2, <2>2 DEF ValueIs
  <2> QED
    BY <1>3, <2>1, <2>2 DEF ValueIs, q
<1> QED
  BY <1>2, <1>3

(* One more operation is one more insertion, or none.                      *)
LEMMA InsertsAppend ==
    ASSUME NEW S, NEW s \in Seq(S), NEW o \in S
    PROVE  /\ Inserts(s) \in Seq(S)
           /\ Inserts(Append(s, o)) =
                 IF o.op = "Insert" THEN Append(Inserts(s), o) ELSE Inserts(s)
<1> DEFINE V == {p \in S : p.op = "Insert"}
<1>1. ASSUME NEW q \in Seq(S)
      PROVE  Inserts(q) = Only(q, V)
  <2>1. \A i \in DOMAIN q : q[i] \in S
    OBVIOUS
  <2>2. {i \in DOMAIN q : q[i] \in V} = {i \in DOMAIN q : q[i].op = "Insert"}
    BY <2>1
  <2> QED
    BY <2>2 DEF Inserts, Only
<1>2. o \in V <=> o.op = "Insert"
  OBVIOUS
<1> HIDE DEF V
<1>3. Append(s, o) \in Seq(S)
  BY AppendProperties
<1>4. Only(Append(s, o), V) = IF o \in V THEN Append(Only(s, V), o) ELSE Only(s, V)
  BY OnlyAppend
<1>5. Only(s, V) \in Seq(S)
  BY OnlyPicks
<1> QED
  BY <1>1, <1>2, <1>3, <1>4, <1>5

(* Dropping nodes from a list of ids.                                      *)
LEMMA DropLaws ==
    ASSUME NEW s \in Seq(Nat), NEW D
    PROVE  /\ Drop(s, D) \in Seq(Nat)
           /\ ToSet(Drop(s, D)) = ToSet(s) \ D
           /\ D \intersect ToSet(s) = {} => Drop(s, D) = s
           /\ \A e : Without(s, e) = Drop(s, {e})
           /\ \A E : Drop(Drop(s, D), E) = Drop(s, D \union E)
           /\ \A u \in Seq(Nat) : Drop(s \o u, D) = Drop(s, D) \o Drop(u, D)
           /\ \A E : D \intersect ToSet(s) = E \intersect ToSet(s) => Drop(s, D) = Drop(s, E)
<1>0. ToSet(s) \subseteq Nat /\ \A i \in DOMAIN s : s[i] \in Nat
  BY DEF ToSet
<1>1. Drop(s, D) \in Seq(Nat)
  BY OnlyPicks DEF Drop
<1>2. ToSet(Drop(s, D)) = ToSet(s) \ D
  <2>1. ToSet(Only(s, Nat \ D)) = ToSet(s) \intersect (Nat \ D)
    BY OnlySet
  <2> QED
    BY <1>0, <2>1 DEF Drop
<1>3. ASSUME D \intersect ToSet(s) = {}
      PROVE  Drop(s, D) = s
  <2>1. ToSet(s) \subseteq Nat \ D
    BY <1>0, <1>3
  <2> QED
    BY <2>1, OnlyAll DEF Drop
<1>4. ASSUME NEW e
      PROVE  Without(s, e) = Drop(s, {e})
  <2>1. {i \in DOMAIN s : s[i] # e} = {i \in DOMAIN s : s[i] \in Nat \ {e}}
    BY <1>0
  <2> QED
    BY <2>1 DEF Without, Drop, Only
<1>5. ASSUME NEW E
      PROVE  Drop(Drop(s, D), E) = Drop(s, D \union E)
  <2>1. (Nat \ D) \intersect (Nat \ E) = Nat \ (D \union E)
    OBVIOUS
  <2>2. Only(Only(s, Nat \ D), Nat \ E) = Only(s, (Nat \ D) \intersect (Nat \ E))
    BY OnlyOnly
  <2> QED
    BY <2>1, <2>2 DEF Drop
<1>6. ASSUME NEW u \in Seq(Nat)
      PROVE  Drop(s \o u, D) = Drop(s, D) \o Drop(u, D)
  BY OnlyConcat DEF Drop
<1>7. ASSUME NEW E, D \intersect ToSet(s) = E \intersect ToSet(s)
      PROVE  Drop(s, D) = Drop(s, E)
  <2>1. (Nat \ D) \intersect ToSet(s) = (Nat \ E) \intersect ToSet(s)
    BY <1>7
  <2> QED
    BY <2>1, OnlySame DEF Drop
<1> QED
  BY <1>1, <1>2, <1>3, <1>4, <1>5, <1>6, <1>7

(* The node x of u is that of t, with another list of children.            *)
SameNode(u, t, x) ==
    /\ u.node[x].kind = t.node[x].kind
    /\ u.node[x].label = t.node[x].label
    /\ u.node[x].value = t.node[x].value

(* add_node leaves the other nodes alone but for the list of the parent.   *)
LEMMA AddedNodes ==
    ASSUME NEW t, IsTree(t), NEW kind, NEW label, NEW value, NEW p \in Nat, p < t.next,
           NEW u, u = AddNodeWithValue(t, kind, label, value, p)
    PROVE  /\ t.next \notin DOMAIN t.node
           /\ \A x \in DOMAIN t.node :
                 /\ SameNode(u, t, x)
                 /\ u.node[x].children = IF x = p THEN Append(t.node[x].children, t.next)
                                                  ELSE t.node[x].children
           /\ u.node[t.next].kind = kind /\ u.node[t.next].label = label
           /\ u.node[t.next].value = value /\ u.node[t.next].children = << >>
<1> DEFINE n == t.next
           grown == Put(t.node, n, NewNode(kind, label, value))
<1>1. n \in Nat /\ \A x \in DOMAIN t.node : x \in Nat /\ x < n
  BY TreeFacts
<1>2. n \notin DOMAIN t.node /\ p # n
  BY <1>1
<1>3. /\ DOMAIN grown = DOMAIN t.node \union {n}
      /\ grown[n] = NewNode(kind, label, value)
      /\ \A x \in DOMAIN t.node : grown[x] = t.node[x]
  BY <1>2 DEF Put
<1> HIDE DEF grown
<1>4. u.node = IF p \in DOMAIN grown
               THEN [grown EXCEPT ![p].children = Append(@, n)] ELSE grown
  BY DEF AddNodeWithValue, grown
<1>5. \A x \in DOMAIN grown : x # p => u.node[x] = grown[x]
  BY <1>4
<1>6. ASSUME p \in DOMAIN t.node
      PROVE  /\ SameNode(u, t, p)
             /\ u.node[p].children = Append(t.node[p].children, n)
  <2>1. u.node[p] = [t.node[p] EXCEPT !.children = Append(@, n)]
    BY <1>3, <1>4, <1>6
  <2>2. u.node[p].children = Append(t.node[p].children, n)
    <3>1. t.node[p].children \in Seq(DOMAIN t.parent)
      BY <1>6 DEF IsTree
    <3> QED
      BY <1>6, <2>1, <1>4, <1>3 DEF IsTree
  <2> QED
    BY <2>1, <2>2 DEF SameNode
<1>7. ASSUME NEW x \in DOMAIN t.node
      PROVE  /\ SameNode(u, t, x)
             /\ u.node[x].children = IF x = p THEN Append(t.node[x].children, n)
                                              ELSE t.node[x].children
  BY <1>3, <1>5, <1>6 DEF SameNode
<1>8. u.node[n] = NewNode(kind, label, value)
  BY <1>2, <1>3, <1>5
<1> QED
  BY <1>2, <1>7, <1>8 DEF NewNode

(* An edit of a value or a label leaves the rest of the node alone.        *)
LEMMA SetNodes ==
    ASSUME NEW t, NEW id, NEW v
    PROVE  /\ \A x \in DOMAIN t.node :
                 /\ SetValue(t, id, v).node[x].kind = t.node[x].kind
                 /\ SetValue(t, id, v).node[x].label = t.node[x].label
                 /\ x # id => SetValue(t, id, v).node[x].value = t.node[x].value
           /\ \A x \in DOMAIN t.node :
                 /\ SetLabel(t, id, v).node[x].kind = t.node[x].kind
                 /\ SetLabel(t, id, v).node[x].value = t.node[x].value
                 /\ x # id => SetLabel(t, id, v).node[x].label = t.node[x].label
BY DEF SetValue, SetLabel, IsLive

(* remove_subtree leaves the nodes that stay alone but for the one child.  *)
LEMMA RemovedNodes ==
    ASSUME NEW t, IsTree(t), NEW y, y # RootId, NEW u, u = RemoveSubtree(t, y)
    PROVE  \A x \in DOMAIN u.node :
              /\ SameNode(u, t, x)
              /\ u.node[x].children = Without(t.node[x].children, y)
<1>1. DOMAIN u.node \subseteq DOMAIN t.node
  BY RemoveKeepsTree
<1>2. u.node = Restrict(Detach(t, y).node, DOMAIN t.node \ CollectSubtree(t, y))
  BY DEF RemoveSubtree
<1>3. \A x \in DOMAIN u.node : u.node[x] = Detach(t, y).node[x]
  BY <1>2 DEF Restrict
<1> DEFINE from(x) == y \in DOMAIN t.parent /\ x = t.parent[y]
<1>6. \A x \in DOMAIN t.node :
          /\ SameNode(Detach(t, y), t, x)
          /\ Detach(t, y).node[x].children =
                IF from(x) THEN Without(t.node[x].children, y) ELSE t.node[x].children
  BY DEF Detach, IsLive, SameNode
<1>4. ASSUME NEW x \in DOMAIN t.node
      PROVE  /\ SameNode(Detach(t, y), t, x)
             /\ Detach(t, y).node[x].children = Without(t.node[x].children, y)
  <2>1. t.node[x].children \in Seq(Nat)
    BY TreeFacts DEF Lists
  <2>2. y \notin KidsOf(t, x) => Without(t.node[x].children, y) = t.node[x].children
    <3> SUFFICES ASSUME y \notin KidsOf(t, x)
                 PROVE  Without(t.node[x].children, y) = t.node[x].children
      OBVIOUS
    <3> DEFINE l == t.node[x].children
    <3>1. {y} \intersect ToSet(l) = {} /\ l \in Seq(Nat)
      BY <2>1 DEF KidsOf, ChildrenOf, IsLive
    <3> HIDE DEF l
    <3>2. Without(l, y) = Drop(l, {y}) /\ Drop(l, {y}) = l
      BY <3>1, DropLaws
    <3> QED
      BY <3>2 DEF l
  <2>3. y \in KidsOf(t, x) => from(x)
    BY TreeFacts
  <2> QED
    BY <1>6, <2>2, <2>3
<1>5. ASSUME NEW x \in DOMAIN u.node
      PROVE  /\ SameNode(u, t, x)
             /\ u.node[x].children = Without(t.node[x].children, y)
  <2>1. x \in DOMAIN t.node /\ u.node[x] = Detach(t, y).node[x]
    BY <1>1, <1>3
  <2>2. /\ SameNode(Detach(t, y), t, x)
        /\ Detach(t, y).node[x].children = Without(t.node[x].children, y)
    BY <2>1, <1>4
  <2> QED
    BY <2>1, <2>2 DEF SameNode
<1> QED
  BY <1>5

(* Nothing has been done to b yet.                                         *)
LEMMA EffectStart ==
    ASSUME NEW b, IsTree(b)
    PROVE  Effect(b, b, << >>)
<1> DEFINE e == << >>
           S == {}
<1>1. e \in Seq(S) /\ DOMAIN e = {}
  BY EmptySeq
<1> HIDE DEF e, S
<1>2. Deleted(e) = {} /\ Gone(b, e) = {}
  BY <1>1 DEF Deleted, Gone
<1>3. \A x : OpsOn(e, x) = e /\ Inserts(e) = e
  <2>1. e = << >>
    BY DEF e
  <2>2. \A x : OpsOn(e, x) = e
    <3> TAKE x
    <3>1. x \notin Affected(e)
      BY <1>1 DEF Affected
    <3> QED
      BY <1>1, <2>1, <3>1, OpsOnOps
  <2>3. Inserts(e) = e
    <3>1. Only(e, {}) = << >>
      BY <1>1, OnlyNone
    <3>2. {i \in DOMAIN e : e[i] \in {}} = {i \in DOMAIN e : e[i].op = "Insert"}
      BY <1>1
    <3> QED
      BY <2>1, <3>1, <3>2 DEF Only, Inserts
  <2> QED
    BY <2>2, <2>3
<1>4. ASSUME NEW x \in DOMAIN b.node
      PROVE  NodeAfter(b, b, x, e)
  <2>1. LabelIs(b.node[x].label, e, b.node[x].label) /\ ValueIs(b.node[x].value, e, b.node[x].value)
    BY <1>1 DEF LabelIs, ValueIs
  <2>2. b.node[x].children \in Seq(Nat)
    BY TreeFacts DEF Lists
  <2>3. Drop(b.node[x].children, {}) = b.node[x].children
    BY <2>2, DropLaws
  <2>4. b.node[x].children \o << >> = b.node[x].children
    BY <2>2, ConcatEmptySeq
  <2>5. e = << >>
    BY DEF e
  <2>6. e \in Seq(Nat)
    BY <2>5, EmptySeq
  <2>7. ListIs(b, b, x, e, e)
    <3>1. Grown(b, b.next, e, e)
      BY <1>1 DEF Grown
    <3>2. b.node[x].children = Drop(b.node[x].children, Deleted(e)) \o e
      BY <1>2, <2>3, <2>4, <2>5
    <3> QED
      BY <1>3, <2>6, <3>1, <3>2 DEF ListIs
  <2> QED
    BY <1>3, <2>1, <2>7 DEF NodeAfter
<1>5. b.next \in Nat
  BY TreeFacts
<1>6. Effect(b, b, e)
  BY <1>2, <1>4, <1>5 DEF Effect
<1> QED
  BY <1>6 DEF e

(* Intervals that are the same end at the same number.                     *)
LEMMA SameUpTo ==
    ASSUME NEW m \in Nat, NEW n \in Nat, 1..m = 1..n
    PROVE  m = n
<1>1. m # 0 => m \in 1..m
  OBVIOUS
<1>2. n # 0 => n \in 1..n
  OBVIOUS
<1>3. (m # 0 => m <= n) /\ (n # 0 => n <= m)
  BY <1>1, <1>2
<1> QED
  BY <1>3

(* Inserted nodes that are left alone stay what they are.                  *)
LEMMA GrownStays ==
    ASSUME NEW t, NEW u, NEW next, NEW new, NEW ins, Grown(t, next, new, ins),
           \A n \in DOMAIN t.node : n >= next /\ t.node[n].children = << >> /\ n \in ToSet(new) =>
               n \in DOMAIN u.node /\ SameNode(u, t, n) /\ u.node[n].children = << >>
    PROVE  Grown(u, next, new, ins)
<1>1. \A k \in DOMAIN new : new[k] \in ToSet(new)
  BY DEF ToSet
<1> QED
  BY <1>1 DEF Grown, SameNode

(* The effect of one more Insert.                                          *)
LEMMA EffectOfInsert ==
    ASSUME NEW b, IsTree(b), NEW S, SafeFor(b, S), NEW ops \in Seq(S), NEW o \in S,
           NEW t, Effect(t, b, ops), o.op = "Insert"
    PROVE  Effect(ApplyOp(t, o), b, Append(ops, o))
<1> DEFINE u == ApplyOp(t, o)
           p == o.target
           q == Append(ops, o)
           n == t.next
<1>1. p \in DOMAIN b.node /\ p \in Nat /\ p < b.next /\ b.next \in Nat
      /\ \A x \in DOMAIN b.node : x \in Nat /\ x < b.next
  BY TreeFacts DEF SafeFor
<1>2. /\ IsTree(t) /\ n >= b.next
      /\ \A x \in DOMAIN b.node : x \in DOMAIN t.node <=> x \notin Gone(b, ops)
      /\ \A x \in DOMAIN t.node :
            x \notin DOMAIN b.node => t.node[x].children = << >> /\ x >= b.next
      /\ \A x \in DOMAIN b.node : x \in DOMAIN t.node => NodeAfter(t, b, x, ops)
  BY DEF Effect
<1>3. n \in Nat /\ p < n /\ DOMAIN t.node \subseteq Nat /\ \A x \in DOMAIN t.node : x < n
  BY <1>1, <1>2, TreeFacts
<1>4. u = AddNodeWithValue(t, o.kind, o.label, o.value, p)
  BY DEF ApplyOp
<1>5. IsTree(u) /\ u.next = n + 1 /\ DOMAIN u.node = DOMAIN t.node \union {n}
  BY <1>2, <1>3, <1>4, <1>1, AddKeepsTree
<1> HIDE DEF u, n
<1>6. /\ n \notin DOMAIN t.node
      /\ \A x \in DOMAIN t.node :
            /\ SameNode(u, t, x)
            /\ u.node[x].children = IF x = p THEN Append(t.node[x].children, n)
                                             ELSE t.node[x].children
      /\ u.node[n].kind = o.kind /\ u.node[n].label = o.label
      /\ u.node[n].value = o.value /\ u.node[n].children = << >>
  BY <1>1, <1>2, <1>3, <1>4, AddedNodes DEF n
<1>7. n \notin DOMAIN b.node
  BY <1>1, <1>2, <1>3
<1>8. /\ q \in Seq(S)
      /\ \A x : OpsOn(q, x) = IF x = p THEN Append(OpsOn(ops, x), o) ELSE OpsOn(ops, x)
      /\ Deleted(q) = Deleted(ops)
  <2>1. Deleted(q) = Deleted(ops) \union (IF o.op = "Delete" THEN {o.target} ELSE {})
    BY OpsOnAppend
  <2>2. o.op # "Delete"
    OBVIOUS
  <2>3. q \in Seq(S)
    BY OpsOnAppend
  <2>4. \A x : OpsOn(q, x) = IF x = p THEN Append(OpsOn(ops, x), o) ELSE OpsOn(ops, x)
    BY OpsOnAppend
  <2> QED
    BY <2>1, <2>2, <2>3, <2>4
<1> HIDE DEF q
<1>9. Gone(b, q) = Gone(b, ops)
  BY <1>8 DEF Gone
<1>10. ASSUME NEW x \in DOMAIN b.node, x \in DOMAIN u.node
       PROVE  NodeAfter(u, b, x, q)
  <2>1. x \in DOMAIN t.node
    BY <1>5, <1>7, <1>10
  <2>2. NodeAfter(t, b, x, ops) /\ SameNode(u, t, x)
    BY <2>1, <1>2, <1>6
  <2>3. PICK new : ListIs(t, b, x, ops, new)
    BY <2>2 DEF NodeAfter
  <2>4. Grown(t, b.next, new, Inserts(OpsOn(ops, x))) /\ new \in Seq(Nat)
    BY <2>3 DEF ListIs
  <2>5. \A m \in DOMAIN t.node : m >= b.next =>
            m \in DOMAIN u.node /\ SameNode(u, t, m) /\ u.node[m].children = t.node[m].children
    <3> TAKE m \in DOMAIN t.node
    <3>1. m >= b.next => m # p
      BY <1>1
    <3> QED
      BY <3>1, <1>5, <1>6
  <2>6. Grown(u, b.next, new, Inserts(OpsOn(ops, x)))
    BY <2>4, <2>5, GrownStays
  <2>7. OpsOn(ops, x) \in Seq(S)
    BY OpsOnOps
  <2>8. CASE x # p
    <3>1. OpsOn(q, x) = OpsOn(ops, x) /\ u.node[x].children = t.node[x].children
      BY <2>1, <2>8, <1>6, <1>8
    <3>2. ListIs(u, b, x, q, new)
      BY <3>1, <2>3, <2>6, <1>8 DEF ListIs
    <3> QED
      BY <3>1, <3>2, <2>2 DEF NodeAfter, SameNode
  <2>9. CASE x = p
    <3> DEFINE new2 == Append(new, n)
               s == OpsOn(ops, x)
               l == b.node[x].children
    <3>1. OpsOn(q, x) = Append(s, o) /\ u.node[x].children = Append(t.node[x].children, n)
      BY <2>1, <2>9, <1>6, <1>8
    <3>2. new2 \in Seq(Nat)
      BY <2>4, <1>3, AppendProperties
    <3>3. l \in Seq(Nat)
      BY TreeFacts DEF Lists
    <3>4. Drop(l, Deleted(ops)) \in Seq(Nat)
      BY <3>3, DropLaws
    <3>5. u.node[x].children = Drop(l, Deleted(q)) \o new2
      <4> DEFINE d == Drop(l, Deleted(ops))
      <4>1. t.node[x].children = d \o new
        BY <2>3 DEF ListIs
      <4> HIDE DEF d
      <4>2. d \in Seq(Nat)
        BY <3>4 DEF d
      <4>3. Append(d \o new, n) = d \o Append(new, n)
        <5>1. n \in Nat /\ <<n>> \in Seq(Nat) /\ d \o new \in Seq(Nat)
          BY <2>4, <4>2, <1>3, ConcatProperties
        <5>2. Append(d \o new, n) = (d \o new) \o <<n>> /\ Append(new, n) = new \o <<n>>
          BY <5>1, <2>4, AppendIsConcat
        <5>3. (d \o new) \o <<n>> = d \o (new \o <<n>>)
          BY <5>1, <2>4, <4>2, ConcatAssociative, SMTT(30)
        <5> QED
          BY <5>2, <5>3
      <4> QED
        BY <3>1, <4>1, <4>3, <1>8 DEF d
    <3> HIDE DEF s
    <3>6. Inserts(Append(s, o)) = Append(Inserts(s), o) /\ Inserts(s) \in Seq(S)
      BY <2>7, InsertsAppend DEF s
    <3>7. Grown(u, b.next, new2, Append(Inserts(s), o))
      <4> DEFINE i == Inserts(s)
                 i2 == Append(i, o)
      <4>1. Grown(u, b.next, new, i)
        BY <2>6 DEF s
      <4>2. i \in Seq(S)
        BY <3>6
      <4> HIDE DEF i
      <4>3. /\ DOMAIN i = 1..Len(i) /\ Len(i) \in Nat /\ DOMAIN i2 = 1..(Len(i) + 1)
            /\ (\A k \in DOMAIN i : i2[k] = i[k]) /\ i2[Len(i) + 1] = o
        BY <4>2, AppendProperties
      <4>4. /\ DOMAIN new = 1..Len(new) /\ Len(new) \in Nat /\ DOMAIN new2 = 1..(Len(new) + 1)
            /\ (\A k \in DOMAIN new : new2[k] = new[k]) /\ new2[Len(new) + 1] = n
        BY <2>4, <1>3, AppendProperties
      <4>5. DOMAIN new = DOMAIN i
        BY <4>1 DEF Grown
      <4>6. Len(new) = Len(i)
        BY <4>3, <4>4, <4>5, SameUpTo
      <4> HIDE DEF i2, new2
      <4>7. DOMAIN new2 = DOMAIN i2 /\ \A k \in DOMAIN new2 : k \in DOMAIN new \/ k = Len(i) + 1
        BY <4>3, <4>4, <4>6
      <4>8. n \in DOMAIN u.node /\ n >= b.next /\ n \in Nat
        BY <1>2, <1>3, <1>5
      <4>9. ASSUME NEW k \in DOMAIN new2
            PROVE  /\ new2[k] \in Nat /\ new2[k] >= b.next /\ new2[k] \in DOMAIN u.node
                   /\ u.node[new2[k]].kind = i2[k].kind
                   /\ u.node[new2[k]].label = i2[k].label
                   /\ u.node[new2[k]].value = i2[k].value
                   /\ u.node[new2[k]].children = << >>
        <5>1. CASE k \in DOMAIN new
          BY <5>1, <4>1, <4>3, <4>4, <4>5 DEF Grown
        <5>2. CASE k = Len(i) + 1
          BY <5>2, <4>3, <4>4, <4>6, <4>8, <1>6
        <5> QED
          BY <4>7, <5>1, <5>2
      <4>10. Grown(u, b.next, new2, i2)
        BY <4>7, <4>9 DEF Grown
      <4> QED
        BY <4>10 DEF i2, i
    <3>8. ListIs(u, b, x, q, new2)
      <4> HIDE DEF new2, l
      <4> QED
        BY <3>1, <3>2, <3>5, <3>6, <3>7 DEF ListIs, l
    <3>9. LabelIs(b.node[x].label, Append(s, o), t.node[x].label)
      BY <2>2, <2>7, LabelAfter DEF s, NodeAfter
    <3>10. ValueIs(b.node[x].value, Append(s, o), t.node[x].value)
      BY <2>2, <2>7, ValueAfter DEF s, NodeAfter
    <3> QED
      BY <3>1, <3>8, <3>9, <3>10, <2>2 DEF NodeAfter, SameNode
  <2> QED
    BY <2>8, <2>9
<1>11. \A x \in DOMAIN u.node :
          x \notin DOMAIN b.node => u.node[x].children = << >> /\ x >= b.next
  <2> SUFFICES ASSUME NEW x \in DOMAIN u.node, x \notin DOMAIN b.node
               PROVE  u.node[x].children = << >> /\ x >= b.next
    OBVIOUS
  <2>1. CASE x = n
    BY <2>1, <1>2, <1>6
  <2>2. CASE x # n
    <3>1. x \in DOMAIN t.node /\ x # p
      BY <2>2, <1>1, <1>5
    <3> QED
      BY <3>1, <1>2, <1>6
  <2> QED
    BY <2>1, <2>2
<1>12. u.next >= b.next
  BY <1>1, <1>2, <1>3, <1>5
<1>13. \A x \in DOMAIN b.node : x \in DOMAIN u.node <=> x \notin Gone(b, q)
  BY <1>2, <1>5, <1>7, <1>9
<1>14. Effect(u, b, q)
  BY <1>5, <1>10, <1>11, <1>12, <1>13 DEF Effect
<1> QED
  BY <1>14 DEF u, q

(* Dropping goes through a concatenation.                                  *)
LEMMA DropConcat ==
    ASSUME NEW s \in Seq(Nat), NEW u \in Seq(Nat), NEW D
    PROVE  Drop(s \o u, D) = Drop(s, D) \o Drop(u, D)
BY OnlyConcat DEF Drop

(* Dropping twice drops what is in either set.                             *)
LEMMA DropDrop ==
    ASSUME NEW s \in Seq(Nat), NEW D, NEW E
    PROVE  Drop(Drop(s, D), E) = Drop(s, D \union E)
<1>1. (Nat \ D) \intersect (Nat \ E) = Nat \ (D \union E)
  OBVIOUS
<1> QED
  BY <1>1, OnlyOnly DEF Drop

(* An edit gives the node the value or the label.                          *)
LEMMA SetTarget ==
    ASSUME NEW t, NEW id \in DOMAIN t.node, NEW v
    PROVE  /\ SetValue(t, id, v).node[id].value = v
           /\ SetLabel(t, id, v).node[id].label = v
BY DEF SetValue, SetLabel, IsLive

(* The effect of one more Update or Relabel.                               *)
LEMMA EffectOfSet ==
    ASSUME NEW b, IsTree(b), NEW S, SafeFor(b, S), NEW ops \in Seq(S), NEW o \in S,
           NEW t, Effect(t, b, ops), o.op = "Update" \/ o.op = "Relabel"
    PROVE  Effect(ApplyOp(t, o), b, Append(ops, o))
<1> DEFINE u == ApplyOp(t, o)
           p == o.target
           q == Append(ops, o)
<1>1. p \in DOMAIN b.node /\ p \in Nat /\ p < b.next /\ b.next \in Nat
      /\ \A x \in DOMAIN b.node : x \in Nat /\ x < b.next
  BY TreeFacts DEF SafeFor
<1>2. /\ IsTree(t) /\ t.next >= b.next
      /\ \A x \in DOMAIN b.node : x \in DOMAIN t.node <=> x \notin Gone(b, ops)
      /\ \A x \in DOMAIN t.node :
            x \notin DOMAIN b.node => t.node[x].children = << >> /\ x >= b.next
      /\ \A x \in DOMAIN b.node : x \in DOMAIN t.node => NodeAfter(t, b, x, ops)
  BY DEF Effect
<1>3. DOMAIN t.node \subseteq Nat
  BY <1>2, TreeFacts
<1>4. \/ o.op = "Update" /\ u = SetValue(t, p, o.value)
      \/ o.op = "Relabel" /\ u = SetLabel(t, p, o.label)
  BY DEF ApplyOp
<1>5. SameLists(t, u) /\ u.next = t.next
  BY <1>4, KidsOfSet, SetGivesNoId
<1>6. IsTree(u)
  BY <1>2, <1>5, SetKeepsTree
<1> HIDE DEF u
<1>7. /\ DOMAIN u.node = DOMAIN t.node
      /\ \A x \in DOMAIN t.node : u.node[x].children = t.node[x].children
  BY <1>5 DEF SameLists
<1>8. \A x \in DOMAIN t.node :
          /\ u.node[x].kind = t.node[x].kind
          /\ x # p => SameNode(u, t, x)
  BY <1>4, SetNodes DEF SameNode
<1>9. ASSUME p \in DOMAIN t.node
      PROVE  /\ u.node[p].label = IF o.op = "Relabel" THEN o.label ELSE t.node[p].label
             /\ u.node[p].value = IF o.op = "Update" THEN o.value ELSE t.node[p].value
  <2>1. CASE o.op = "Update"
    <3>1. u = SetValue(t, p, o.value)
      BY <1>4, <2>1
    <3>2. u.node[p].value = o.value /\ u.node[p].label = t.node[p].label
      BY <3>1, <1>9, SetNodes, SetTarget
    <3> QED
      BY <3>2, <2>1
  <2>2. CASE o.op = "Relabel"
    <3>1. u = SetLabel(t, p, o.label)
      BY <1>4, <2>2
    <3>2. u.node[p].label = o.label /\ u.node[p].value = t.node[p].value
      BY <3>1, <1>9, SetNodes, SetTarget
    <3> QED
      BY <3>2, <2>2
  <2> QED
    BY <2>1, <2>2
<1>10. /\ q \in Seq(S)
       /\ \A x : OpsOn(q, x) = IF x = p THEN Append(OpsOn(ops, x), o) ELSE OpsOn(ops, x)
       /\ Deleted(q) = Deleted(ops)
  <2>1. Deleted(q) = Deleted(ops) \union (IF o.op = "Delete" THEN {o.target} ELSE {})
    BY OpsOnAppend
  <2>2. o.op # "Delete"
    OBVIOUS
  <2>3. q \in Seq(S)
    BY OpsOnAppend
  <2>4. \A x : OpsOn(q, x) = IF x = p THEN Append(OpsOn(ops, x), o) ELSE OpsOn(ops, x)
    BY OpsOnAppend
  <2> QED
    BY <2>1, <2>2, <2>3, <2>4
<1> HIDE DEF q
<1>11. Gone(b, q) = Gone(b, ops)
  BY <1>10 DEF Gone
<1>12. ASSUME NEW x \in DOMAIN b.node, x \in DOMAIN u.node
       PROVE  NodeAfter(u, b, x, q)
  <2> DEFINE s == OpsOn(ops, x)
  <2>1. x \in DOMAIN t.node /\ NodeAfter(t, b, x, ops)
    BY <1>2, <1>7, <1>12
  <2>2. PICK new : ListIs(t, b, x, ops, new)
    BY <2>1 DEF NodeAfter
  <2>3. s \in Seq(S)
    BY OpsOnOps
  <2>4. Inserts(OpsOn(q, x)) = Inserts(s)
    <3>1. o.op # "Insert"
      OBVIOUS
    <3>2. Inserts(Append(s, o)) = Inserts(s)
      <4> HIDE DEF s
      <4> QED
        BY <2>3, <3>1, InsertsAppend
    <3> QED
      BY <3>2, <1>10
  <2>5. Grown(u, b.next, new, Inserts(s))
    <3>1. Grown(t, b.next, new, Inserts(s))
      BY <2>2 DEF ListIs
    <3>2. \A m \in DOMAIN t.node : m >= b.next =>
              m \in DOMAIN u.node /\ SameNode(u, t, m) /\ u.node[m].children = t.node[m].children
      <4> TAKE m \in DOMAIN t.node
      <4>1. m >= b.next => m # p
        BY <1>1
      <4> QED
        BY <4>1, <1>7, <1>8
    <3> QED
      BY <3>1, <3>2, GrownStays
  <2>6. ListIs(u, b, x, q, new)
    BY <2>1, <2>2, <2>4, <2>5, <1>7, <1>10 DEF ListIs
  <2>7. CASE x # p
    <3>1. OpsOn(q, x) = s /\ SameNode(u, t, x)
      BY <2>1, <2>7, <1>8, <1>10
    <3> QED
      BY <3>1, <2>1, <2>6 DEF NodeAfter, SameNode
  <2>8. CASE x = p
    <3>1. OpsOn(q, x) = Append(s, o)
      BY <2>8, <1>10
    <3> HIDE DEF s
    <3>2. LabelIs(b.node[x].label, Append(s, o), u.node[x].label)
      BY <2>1, <2>3, <2>8, <1>9, LabelAfter DEF NodeAfter, s
    <3>3. ValueIs(b.node[x].value, Append(s, o), u.node[x].value)
      BY <2>1, <2>3, <2>8, <1>9, ValueAfter DEF NodeAfter, s
    <3>4. u.node[x].kind = b.node[x].kind
      BY <2>1, <1>8 DEF NodeAfter
    <3> QED
      BY <3>1, <3>2, <3>3, <3>4, <2>6 DEF NodeAfter
  <2> QED
    BY <2>7, <2>8
<1>13. Effect(u, b, q)
  BY <1>2, <1>5, <1>6, <1>7, <1>11, <1>12 DEF Effect
<1> QED
  BY <1>13 DEF u, q

(* A removal takes of b what is below the removed node and not gone yet.   *)
LEMMA EffectReaches ==
    ASSUME NEW b, IsTree(b), NEW ops, NEW t, Effect(t, b, ops), NEW y \in DOMAIN b.node
    PROVE  \A x \in DOMAIN b.node : x \in DOMAIN t.node =>
              (x \in CollectSubtree(t, y) <=> x \in CollectSubtree(b, y))
<1>1. \A x \in DOMAIN b.node : x \in Nat /\ x < b.next /\ b.node[x].children \in Seq(Nat)
  BY TreeFacts DEF Lists
<1>2. IsFiniteSet(DOMAIN b.node) /\ IsFiniteSet(DOMAIN t.node) /\ b.next \in Nat
      /\ DOMAIN t.node \subseteq Nat
  BY TreeFacts DEF Effect
<1>3. ASSUME NEW x \in DOMAIN b.node, x \in DOMAIN t.node
      PROVE  /\ \A c \in KidsOf(t, x) : c \in KidsOf(b, x) \/ c >= b.next
             /\ \A c \in KidsOf(b, x) : c \in KidsOf(t, x) \/ c \in Gone(b, ops)
  <2> DEFINE l == b.node[x].children
             d == Drop(l, Deleted(ops))
  <2>1. PICK new : ListIs(t, b, x, ops, new)
    BY <1>3 DEF Effect, NodeAfter
  <2>2. l \in Seq(Nat) /\ d \in Seq(Nat) /\ ToSet(d) = ToSet(l) \ Deleted(ops)
    <3>1. l \in Seq(Nat)
      BY <1>1
    <3> HIDE DEF l
    <3> QED
      BY <3>1, DropLaws
  <2>3. t.node[x].children = d \o new /\ new \in Seq(Nat) /\ \A k \in DOMAIN new : new[k] >= b.next
    BY <2>1 DEF ListIs, Grown
  <2>4. KidsOf(b, x) = ToSet(l) /\ KidsOf(t, x) = ToSet(t.node[x].children)
    BY <1>3 DEF KidsOf, ChildrenOf, IsLive
  <2> HIDE DEF l, d
  <2>5. KidsOf(t, x) = ToSet(d) \union ToSet(new)
    <3>1. d \in Seq(Nat) /\ new \in Seq(Nat)
      BY <2>2, <2>3
    <3>2. ToSet(d \o new) = ToSet(d) \union ToSet(new)
      BY <3>1, ConcatPairwise
    <3> QED
      BY <3>2, <2>3, <2>4
  <2>6. \A c \in ToSet(new) : c >= b.next
    BY <2>3 DEF ToSet
  <2>7. \A c \in Deleted(ops) : c \in Gone(b, ops)
    BY <1>2, CollectSubtreeClosed DEF Gone
  <2> QED
    BY <2>2, <2>4, <2>5, <2>6, <2>7
<1>4. \A x \in DOMAIN t.node : x \notin DOMAIN b.node => KidsOf(t, x) = {}
  BY DEF Effect, KidsOf, ChildrenOf, IsLive, ToSet
<1>5. CollectSubtree(t, y) \subseteq CollectSubtree(b, y) \union {n \in Nat : n >= b.next}
  <2> DEFINE C == CollectSubtree(b, y) \union {n \in Nat : n >= b.next}
  <2>1. y \in CollectSubtree(b, y) /\ Closed(b, CollectSubtree(b, y))
    BY <1>2, CollectSubtreeClosed
  <2>2. ASSUME NEW x \in C, NEW c \in KidsOf(t, x)
        PROVE  c \in C
    <3>1. x \in DOMAIN t.node
      BY <2>2, KidsOfMissing
    <3>2. x \in DOMAIN b.node
      BY <2>2, <3>1, <1>4
    <3>3. x \in CollectSubtree(b, y)
      BY <2>2, <3>2, <1>1, <1>2
    <3>4. c \in KidsOf(b, x) \/ c >= b.next
      BY <2>2, <3>1, <3>2, <1>3
    <3>5. c \in Nat
      BY <2>2, TreeFacts DEF Effect
    <3> QED
      BY <3>3, <3>4, <3>5, <2>1 DEF Closed
  <2>3. Closed(t, C)
    BY <2>2 DEF Closed
  <2>4. y \in C
    BY <2>1
  <2> HIDE DEF C
  <2>5. CollectSubtree(t, y) \subseteq C
    BY <1>2, <2>3, <2>4, CollectSubtreeLeast
  <2> QED
    BY <2>5 DEF C
<1>6. CollectSubtree(b, y) \subseteq CollectSubtree(t, y) \union Gone(b, ops)
  <2> DEFINE C == CollectSubtree(t, y) \union Gone(b, ops)
  <2>1. y \in CollectSubtree(t, y) /\ Closed(t, CollectSubtree(t, y))
    BY <1>2, CollectSubtreeClosed
  <2>2. Closed(b, Gone(b, ops))
    <3>1. \A z : Closed(b, CollectSubtree(b, z))
      BY <1>2, CollectSubtreeClosed
    <3> QED
      BY <3>1 DEF Gone, Closed
  <2>3. ASSUME NEW x \in C, NEW c \in KidsOf(b, x)
        PROVE  c \in C
    <3>1. x \in DOMAIN b.node
      BY <2>3, KidsOfMissing
    <3>2. CASE x \in Gone(b, ops)
      BY <3>2, <2>2, <2>3 DEF Closed
    <3>3. CASE x \notin Gone(b, ops)
      <4>1. x \in DOMAIN t.node /\ x \in CollectSubtree(t, y)
        BY <2>3, <3>1, <3>3 DEF Effect
      <4>2. c \in KidsOf(t, x) \/ c \in Gone(b, ops)
        BY <2>3, <3>1, <4>1, <1>3
      <4> QED
        BY <4>1, <4>2, <2>1 DEF Closed
    <3> QED
      BY <3>2, <3>3
  <2>4. Closed(b, C)
    BY <2>3 DEF Closed
  <2>5. y \in C
    BY <2>1
  <2> HIDE DEF C
  <2>6. CollectSubtree(b, y) \subseteq C
    BY <1>2, <2>4, <2>5, CollectSubtreeLeast
  <2> QED
    BY <2>6 DEF C
<1>7. ASSUME NEW x \in DOMAIN b.node, x \in DOMAIN t.node
      PROVE  x \in CollectSubtree(t, y) <=> x \in CollectSubtree(b, y)
  <2>1. x \notin Gone(b, ops) /\ ~(x >= b.next)
    BY <1>1, <1>2, <1>7 DEF Effect
  <2> QED
    BY <2>1, <1>5, <1>6
<1> QED
  BY <1>7

(* The effect of one more Delete: the subtree goes, and with it what was   *)
(* inserted below it.                                                      *)
LEMMA EffectOfDelete ==
    ASSUME NEW b, IsTree(b), NEW S, SafeFor(b, S), NEW ops \in Seq(S), NEW o \in S,
           NEW t, Effect(t, b, ops), o.op = "Delete"
    PROVE  Effect(ApplyOp(t, o), b, Append(ops, o))
<1> DEFINE u == ApplyOp(t, o)
           y == o.target
           q == Append(ops, o)
<1>1. y \in DOMAIN b.node /\ y # RootId /\ y \in Nat /\ y < b.next /\ b.next \in Nat
      /\ \A x \in DOMAIN b.node : x \in Nat /\ x < b.next
  BY TreeFacts DEF SafeFor
<1>2. /\ IsTree(t) /\ t.next >= b.next
      /\ \A x \in DOMAIN b.node : x \in DOMAIN t.node <=> x \notin Gone(b, ops)
      /\ \A x \in DOMAIN t.node :
            x \notin DOMAIN b.node => t.node[x].children = << >> /\ x >= b.next
      /\ \A x \in DOMAIN b.node : x \in DOMAIN t.node => NodeAfter(t, b, x, ops)
  BY DEF Effect
<1>3. DOMAIN t.node \subseteq Nat /\ IsFiniteSet(DOMAIN t.node)
  BY <1>2, TreeFacts
<1>4. u = RemoveSubtree(t, y)
  BY DEF ApplyOp
<1>5. IsTree(u) /\ u.next = t.next /\ DOMAIN u.node = DOMAIN t.node \ CollectSubtree(t, y)
  <2>1. y # RootId /\ IsTree(t)
    BY <1>1, <1>2
  <2> DEFINE w == RemoveSubtree(t, y)
  <2>2. IsTree(w) /\ w.next = t.next /\ DOMAIN w.node = DOMAIN t.node \ CollectSubtree(t, y)
    <3> HIDE DEF y
    <3> QED
      BY <2>1, RemoveKeepsTree
  <2> QED
    BY <2>2, <1>4
<1> HIDE DEF u
<1>6. \A x \in DOMAIN u.node :
          /\ SameNode(u, t, x)
          /\ u.node[x].children = Without(t.node[x].children, y)
  BY <1>1, <1>2, <1>4, RemovedNodes
<1>7. /\ q \in Seq(S)
      /\ \A x : OpsOn(q, x) = IF x = y THEN Append(OpsOn(ops, x), o) ELSE OpsOn(ops, x)
      /\ Deleted(q) = Deleted(ops) \union {y}
  <2>1. Deleted(q) = Deleted(ops) \union (IF o.op = "Delete" THEN {o.target} ELSE {})
    BY OpsOnAppend
  <2>3. q \in Seq(S)
    BY OpsOnAppend
  <2>4. \A x : OpsOn(q, x) = IF x = y THEN Append(OpsOn(ops, x), o) ELSE OpsOn(ops, x)
    BY OpsOnAppend
  <2> QED
    BY <2>1, <2>3, <2>4
<1> HIDE DEF q
<1>8. Gone(b, q) = Gone(b, ops) \union CollectSubtree(b, y)
  BY <1>7 DEF Gone
<1>9. y \notin DOMAIN u.node
  BY <1>3, <1>5, CollectSubtreeClosed
<1>10. \A x \in DOMAIN b.node : x \in DOMAIN u.node <=> x \notin Gone(b, q)
  <2>1. \A x \in DOMAIN b.node : x \in DOMAIN t.node =>
              (x \in CollectSubtree(t, y) <=> x \in CollectSubtree(b, y))
    BY <1>1, EffectReaches
  <2> QED
    BY <2>1, <1>2, <1>5, <1>8
<1>11. Drop(<< >>, {y}) = << >> /\ Without(<< >>, y) = << >>
  <2> DEFINE e == << >>
  <2>1. e \in Seq(Nat) /\ ToSet(e) = {}
    BY EmptySeq DEF ToSet
  <2> HIDE DEF e
  <2>2. Drop(e, {y}) = e /\ Without(e, y) = Drop(e, {y})
    <3>1. {y} \intersect ToSet(e) = {}
      BY <2>1
    <3> QED
      BY <2>1, <3>1, DropLaws
  <2> QED
    BY <2>2 DEF e
<1>12. \A x \in DOMAIN u.node :
          x \notin DOMAIN b.node => u.node[x].children = << >> /\ x >= b.next
  BY <1>2, <1>5, <1>6, <1>11
<1>13. ASSUME NEW x \in DOMAIN b.node, x \in DOMAIN u.node
       PROVE  NodeAfter(u, b, x, q)
  <2> DEFINE l == b.node[x].children
             d == Drop(l, Deleted(ops))
  <2>1. x \in DOMAIN t.node /\ NodeAfter(t, b, x, ops) /\ x # y /\ x \notin CollectSubtree(t, y)
    BY <1>2, <1>5, <1>9, <1>13
  <2>2. PICK new : ListIs(t, b, x, ops, new)
    BY <2>1 DEF NodeAfter
  <2>3. OpsOn(q, x) = OpsOn(ops, x) /\ SameNode(u, t, x)
    BY <2>1, <1>6, <1>7, <1>13
  <2>4. /\ t.node[x].children = d \o new /\ new \in Seq(Nat)
        /\ Grown(t, b.next, new, Inserts(OpsOn(ops, x)))
    BY <2>2 DEF ListIs
  <2>5. l \in Seq(Nat) /\ d \in Seq(Nat) /\ Drop(d, {y}) = Drop(l, Deleted(q))
    <3>1. l \in Seq(Nat)
      BY TreeFacts DEF Lists
    <3> HIDE DEF l
    <3>2. d \in Seq(Nat)
      BY <3>1, DropLaws
    <3>3. Drop(d, {y}) = Drop(l, Deleted(ops) \union {y})
      BY <3>1, DropDrop
    <3> QED
      BY <3>1, <3>2, <3>3, <1>7
  <2> HIDE DEF l, d
  <2>6. \A m \in ToSet(new) : m \in DOMAIN u.node /\ m # y
    <3> TAKE m \in ToSet(new)
    <3>1. m \in DOMAIN t.node /\ m >= b.next /\ m # y
      BY <2>4, <1>1 DEF ToSet, Grown
    <3>2. m \in KidsOf(t, x)
      <4>1. ToSet(d \o new) = ToSet(d) \union ToSet(new)
        BY <2>4, <2>5, ConcatPairwise, ZenonT(60)
      <4> QED
        BY <4>1, <2>1, <2>4 DEF KidsOf, ChildrenOf, IsLive
    <3>3. m \notin CollectSubtree(t, y)
      <4> SUFFICES ASSUME m \in CollectSubtree(t, y)
                   PROVE  FALSE
        OBVIOUS
      <4>1. PICK z \in CollectSubtree(t, y) : m \in KidsOf(t, z)
        BY <3>1, <1>3, CollectSubtreeSupported
      <4>2. z = t.parent[m] /\ x = t.parent[m]
        BY <4>1, <3>2, <1>2, TreeFacts
      <4> QED
        BY <4>1, <4>2, <2>1
    <3> QED
      BY <3>1, <3>3, <1>5
  <2>7. u.node[x].children = Drop(l, Deleted(q)) \o new
    <3>1. d \o new \in Seq(Nat)
      BY <2>4, <2>5, ConcatProperties
    <3>2. Without(d \o new, y) = Drop(d \o new, {y})
      <4> DEFINE w == d \o new
      <4>1. w \in Seq(Nat)
        BY <3>1
      <4> HIDE DEF w
      <4>2. Without(w, y) = Drop(w, {y})
        BY <4>1, DropLaws
      <4> QED
        BY <4>2 DEF w
    <3>3. Drop(d \o new, {y}) = Drop(d, {y}) \o Drop(new, {y})
      <4>1. d \in Seq(Nat) /\ new \in Seq(Nat)
        BY <2>4, <2>5
      <4> QED
        BY <4>1, DropConcat
    <3>4. Drop(new, {y}) = new
      <4>1. {y} \intersect ToSet(new) = {}
        BY <2>6
      <4> QED
        BY <4>1, <2>4, DropLaws
    <3> QED
      BY <3>2, <3>3, <3>4, <2>4, <2>5, <1>6, <1>13
  <2>8. Grown(u, b.next, new, Inserts(OpsOn(q, x)))
    <3>1. \A m \in DOMAIN t.node : m >= b.next /\ t.node[m].children = << >> /\ m \in ToSet(new) =>
              m \in DOMAIN u.node /\ SameNode(u, t, m) /\ u.node[m].children = << >>
      BY <2>6, <1>6, <1>11
    <3>2. Grown(u, b.next, new, Inserts(OpsOn(ops, x)))
      BY <2>4, <3>1, GrownStays
    <3> QED
      BY <2>3, <3>2
  <2>9. ListIs(u, b, x, q, new)
    BY <2>4, <2>7, <2>8 DEF ListIs, l
  <2> QED
    BY <2>1, <2>3, <2>9 DEF NodeAfter, SameNode
<1>14. Effect(u, b, q)
  BY <1>2, <1>5, <1>10, <1>12, <1>13 DEF Effect
<1> QED
  BY <1>14 DEF u, q

(* The effect of a patch, whatever is in it and in whatever order.         *)
LEMMA PatchEffect ==
    ASSUME NEW b, IsTree(b), NEW S, SafeFor(b, S), NEW ops \in Seq(S)
    PROVE  Effect(ApplyPatch(b, ops), b, ops)
<1> DEFINE n == Len(ops)
           tree == Applied(b, ops)
           T == {k \in Nat : k <= n => Effect(tree[k], b, SubSeq(ops, 1, k))}
<1>1. n \in Nat /\ \A i \in 1..n : ops[i] \in S
  OBVIOUS
<1>2. tree[0] = b /\ \A i \in 1..n : tree[i] = ApplyOp(tree[i - 1], ops[i])
  BY AppliedSteps
<1> HIDE DEF tree, n
<1>3. \A k \in 0..n : /\ SubSeq(ops, 1, k) \in Seq(S)
                      /\ k = 0 => SubSeq(ops, 1, k) = << >>
                      /\ k = n => SubSeq(ops, 1, k) = ops
                      /\ k + 1 <= n => SubSeq(ops, 1, k + 1) = Append(SubSeq(ops, 1, k), ops[k + 1])
  <2> TAKE k \in 0..n
  <2>1. Len(ops) = n /\ ops \in Seq(S) /\ k \in Nat /\ k <= n
    BY <1>1 DEF n
  <2>2. SubSeq(ops, 1, k) \in Seq(S)
    BY <1>1, <2>1 DEF n
  <2>3. k = 0 => SubSeq(ops, 1, k) = << >>
    BY <2>1
  <2>4. k = n => SubSeq(ops, 1, k) = ops
    BY <2>1, SubSeqFull
  <2>5. k + 1 <= n => SubSeq(ops, 1, k + 1) = Append(SubSeq(ops, 1, k), ops[k + 1])
    <3> SUFFICES ASSUME k + 1 <= n
                 PROVE  SubSeq(ops, 1, k + 1) = Append(SubSeq(ops, 1, k), ops[k + 1])
      OBVIOUS
    <3>1. k + 1 \in Nat /\ 1 <= k + 1 /\ (k + 1) - 1 = k
      BY <2>1
    <3> QED
      BY <2>1, <3>1, <1>1
  <2> QED
    BY <2>2, <2>3, <2>4, <2>5
<1>4. 0 \in T
  <2>1. 0 \in 0..n
    BY <1>1
  <2>2. SubSeq(ops, 1, 0) = << >>
    BY <2>1, <1>3
  <2>3. Effect(tree[0], b, << >>)
    BY <1>2, EffectStart
  <2> QED
    BY <2>2, <2>3
<1>5. ASSUME NEW k \in Nat, k \in T
      PROVE  k + 1 \in T
  <2> SUFFICES ASSUME k + 1 <= n
               PROVE  Effect(tree[k + 1], b, SubSeq(ops, 1, k + 1))
    OBVIOUS
  <2> DEFINE t == tree[k]
             o == ops[k + 1]
             pre == SubSeq(ops, 1, k)
  <2>1. k + 1 \in 1..n /\ (k + 1) - 1 = k /\ k <= n /\ k \in 0..n
    BY <1>1
  <2>2. Effect(t, b, pre)
    BY <1>5, <2>1
  <2>3. tree[k + 1] = ApplyOp(t, o) /\ o \in S /\ pre \in Seq(S)
        /\ SubSeq(ops, 1, k + 1) = Append(pre, o)
    BY <1>1, <1>2, <1>3, <2>1
  <2> HIDE DEF t, o, pre
  <2>4. o.op = "Insert" \/ o.op = "Delete" \/ o.op = "Update" \/ o.op = "Relabel"
    BY <2>3 DEF SafeFor
  <2>5. Effect(ApplyOp(t, o), b, Append(pre, o))
    BY <2>2, <2>3, <2>4, EffectOfInsert, EffectOfSet, EffectOfDelete
  <2> QED
    BY <2>3, <2>5
<1>6. n \in T
  <2> HIDE DEF T
  <2> QED
    BY <1>1, <1>4, <1>5, SetInduction
<1>7. Effect(tree[n], b, ops)
  <2>1. n \in 0..n /\ n <= n
    BY <1>1
  <2>2. SubSeq(ops, 1, n) = ops
    BY <2>1, <1>3
  <2>3. Effect(tree[n], b, SubSeq(ops, 1, n))
    BY <2>1, <1>6
  <2> QED
    BY <2>2, <2>3
<1> QED
  BY <1>7 DEF tree, n, ApplyPatch

----------------------------------------------------------------------------
(* The canonical form of a tree, and the text subtree_hash feeds, as       *)
(* recursions over the tree; trees that look the same have the same.       *)

(* Two sequences are thinned out at the same positions.                    *)
RetainTogether(s, u, I) ==
    \E at \in [1..Cardinality(I) -> I] :
        \A k \in 1..Cardinality(I) :
            Retain(s, I)[k] = s[at[k]] /\ Retain(u, I)[k] = u[at[k]]

(* They are, when their positions are the same.                            *)
LEMMA RetainAlong ==
    ASSUME NEW S, NEW s \in Seq(S), NEW U, NEW u \in Seq(U), DOMAIN s = DOMAIN u,
           NEW I, I \subseteq DOMAIN s
    PROVE  RetainTogether(s, u, I)
<1> DEFINE r == Retain(s, I)
           q == Retain(u, I)
<1>2. I \in SUBSET (DOMAIN u) /\ I \in SUBSET (DOMAIN s)
  OBVIOUS
<1>1. r \in Seq(S) /\ DOMAIN r = 1..Cardinality(I) /\ \E at : Picks(at, r, s, I)
  BY <1>2, RetainProperties, Zenon
<1>3. q \in Seq(U) /\ DOMAIN q = 1..Cardinality(I) /\ \E at : Picks(at, q, u, I)
  BY <1>2, RetainProperties, Zenon
<1>4. I \in SUBSET Nat
  OBVIOUS
<1> HIDE DEF r, q
<1>5. PICK at : Picks(at, r, s, I)
  BY <1>1
<1>6. PICK bt : Picks(bt, q, u, I)
  BY <1>3
<1> DEFINE w == [k \in DOMAIN r |-> u[at[k]]]
<1>7. at \in [DOMAIN r -> I] /\ \A k \in DOMAIN r : r[k] = s[at[k]]
  BY <1>5 DEF Picks
<1>8. \A k \in DOMAIN r : u[at[k]] \in U
  BY <1>7, <1>2
<1>9. w \in Seq(U)
  <2>0. DOMAIN r = 1..Len(r) /\ Len(r) \in Nat
    BY <1>1
  <2>1. w \in [1..Len(r) -> U]
    BY <1>8, <2>0
  <2> HIDE DEF w
  <2> QED
    BY <2>0, <2>1, SeqDef
<1>10. Picks(at, w, u, I)
  BY <1>5 DEF Picks
<1> HIDE DEF w
<1>11. w = q
  BY <1>3, <1>4, <1>6, <1>9, <1>10, PicksUnique
<1>12. \A k \in DOMAIN r : q[k] = u[at[k]]
  BY <1>11 DEF w
<1> QED
  BY <1>1, <1>7, <1>12 DEF r, q, RetainTogether

(* The same-key siblings are the children with that key, in order.         *)
LEMMA SiblingsOf ==
    ASSUME NEW t, IsTree(t), NEW x \in DOMAIN t.node, NEW key
    PROVE  /\ t.node[x].children \in Seq(Nat)
           /\ Siblings(t, x, key) = Only(t.node[x].children, {c \in DOMAIN t.node : Key(t, c) = key})
           /\ Siblings(t, x, key) \in Seq(Nat)
           /\ \A i \in DOMAIN Siblings(t, x, key) :
                 /\ Siblings(t, x, key)[i] \in KidsOf(t, x)
                 /\ Siblings(t, x, key)[i] \in DOMAIN t.node
                 /\ Key(t, Siblings(t, x, key)[i]) = key
<1> DEFINE s == t.node[x].children
           V == {c \in DOMAIN t.node : Key(t, c) = key}
           r == Siblings(t, x, key)
<1>1. s \in Seq(Nat)
  BY TreeFacts DEF Lists
<1>2. KidsOf(t, x) = ToSet(s)
  BY DEF KidsOf, ChildrenOf, IsLive
<1>3. r = Only(s, V)
  <2>1. {i \in DOMAIN s : IsLive(t, s[i]) /\ Key(t, s[i]) = key} = {i \in DOMAIN s : s[i] \in V}
    BY DEF IsLive
  <2> QED
    BY <2>1 DEF Siblings, Only
<1> HIDE DEF s, V, r
<1>4. r \in Seq(Nat) /\ ToSet(r) = ToSet(s) \intersect V
  BY <1>1, <1>3, OnlyPicks, OnlySet
<1>5. \A i \in DOMAIN r : r[i] \in ToSet(s) /\ r[i] \in V
  BY <1>4 DEF ToSet
<1> QED
  BY <1>1, <1>2, <1>3, <1>4, <1>5 DEF s, V, r

(* What is said of a node rests on what is said of its children.           *)
LEMMA CanonRestsOnKids ==
    ASSUME NEW t, IsTree(t), NEW x \in DOMAIN t.node, NEW g, NEW h,
           \A c \in KidsOf(t, x) : g[c] = h[c]
    PROVE  CanonNode(g, t, x) = CanonNode(h, t, x)
<1>1. ASSUME NEW key
      PROVE  Each(g, Siblings(t, x, key)) = Each(h, Siblings(t, x, key))
  <2>1. \A i \in DOMAIN Siblings(t, x, key) : Siblings(t, x, key)[i] \in KidsOf(t, x)
    BY SiblingsOf
  <2> QED
    BY <2>1 DEF Each
<1> QED
  BY <1>1 DEF CanonNode

(* g says of each node of t what its canonical form is.                    *)
IsCanon(g, t) == g = [x \in DOMAIN t.node |-> CanonNode(g, t, x)]

(* There is such a g: the recursion over the tree comes to an end.         *)
LEMMA CanonExists ==
    ASSUME NEW t, IsTree(t)
    PROVE  \E g : IsCanon(g, t)
<1> DEFINE A == DOMAIN t.node
           table(g) == [x \in A |-> CanonNode(g, t, x)]
           Holds(g, n) == \A x \in A : x + n >= t.next => g[x] = CanonNode(g, t, x)
           T == {n \in Nat : \E g : Holds(g, n)}
<1>1. /\ t.next \in Nat /\ A \subseteq Nat /\ \A x \in A : x < t.next
      /\ \A x, c : c \in KidsOf(t, x) => x \in A /\ c \in A /\ x < c
  BY TreeFacts
<1>2. ASSUME NEW n \in Nat, NEW g, Holds(g, n)
      PROVE  Holds(table(g), n + 1)
  <2> DEFINE h == table(g)
  <2>1. \A x \in A : h[x] = CanonNode(g, t, x)
    OBVIOUS
  <2> HIDE DEF h
  <2>2. ASSUME NEW x \in A, x + (n + 1) >= t.next
        PROVE  h[x] = CanonNode(h, t, x)
    <3>1. ASSUME NEW c \in KidsOf(t, x)
          PROVE  g[c] = h[c]
      <4>1. c \in A /\ c \in Nat /\ x \in Nat /\ c > x
        BY <1>1
      <4>2. c + n >= t.next
        BY <1>1, <2>2, <4>1
      <4> QED
        BY <1>2, <2>1, <4>1, <4>2
    <3>2. CanonNode(g, t, x) = CanonNode(h, t, x)
      BY <3>1, CanonRestsOnKids
    <3> QED
      BY <2>1, <3>2
  <2> QED
    BY <2>2 DEF h
<1>3. t.next \in T
  <2>1. 0 \in T
    <3>1. Holds(0, 0)
      BY <1>1
    <3> HIDE DEF Holds
    <3> QED
      BY <3>1
  <2>2. ASSUME NEW n \in Nat, n \in T
        PROVE  n + 1 \in T
    <3> HIDE DEF Holds, table
    <3>1. PICK g : Holds(g, n)
      BY <2>2
    <3>2. Holds(table(g), n + 1)
      BY <1>2, <3>1
    <3> QED
      BY <3>2
  <2> HIDE DEF T
  <2> QED
    BY <1>1, <2>1, <2>2, SetInduction
<1>4. PICK g : Holds(g, t.next)
  <2> HIDE DEF Holds
  <2> QED
    BY <1>3
<1>5. \A x \in A : g[x] = CanonNode(g, t, x)
  <2>1. \A x \in A : x + t.next >= t.next
    BY <1>1
  <2> QED
    BY <1>4, <2>1
<1> DEFINE h == table(g)
<1>6. \A x \in A : h[x] = g[x]
  BY <1>5
<1>7. \A x \in A : CanonNode(g, t, x) = CanonNode(h, t, x)
  <2> TAKE x \in A
  <2>1. \A c \in KidsOf(t, x) : g[c] = h[c]
    BY <1>1, <1>6
  <2> HIDE DEF h
  <2> QED
    BY <2>1, CanonRestsOnKids
<1>8. h = table(h)
  <2> HIDE DEF h
  <2>1. h = table(g)
    BY DEF h
  <2> QED
    BY <1>7, <2>1
<1> HIDE DEF h
<1> QED
  BY <1>8 DEF IsCanon

(* What a tree says below each of its nodes.                               *)
CanonOf(t) == [x \in DOMAIN t.node |-> Canon(t, x)]

(* The canonical form of a node in terms of those of its children.         *)
LEMMA CanonUnfold ==
    ASSUME NEW t, IsTree(t)
    PROVE  \A x \in DOMAIN t.node : Canon(t, x) = CanonNode(CanonOf(t), t, x)
<1> DEFINE g == CHOOSE c : c = [x \in DOMAIN t.node |-> CanonNode(c, t, x)]
<1>1. IsCanon(g, t)
  BY CanonExists DEF IsCanon
<1>2. \A x : Canon(t, x) = g[x]
  BY DEF Canon
<1> HIDE DEF g
<1>3. g = [x \in DOMAIN t.node |-> CanonNode(g, t, x)]
  BY <1>1 DEF IsCanon
<1>4. CanonOf(t) = g
  <2>1. g = [x \in DOMAIN t.node |-> g[x]]
    BY <1>3
  <2> QED
    BY <1>2, <2>1 DEF CanonOf
<1> QED
  BY <1>2, <1>3, <1>4

----------------------------------------------------------------------------
(* The same for what subtree_hash feeds to the hash.                       *)

(* What is fed for x, given what is fed for its children.                  *)
HashNode(g, t, x) ==
    <<t.node[x].kind, t.node[x].label>>
      \o FlattenSeq([i \in DOMAIN t.node[x].children |->
            IF IsLive(t, t.node[x].children[i])
            THEN g[t.node[x].children[i]] ELSE << >>])

(* What is fed for a node rests on what is fed for its children.           *)
LEMMA HashRestsOnKids ==
    ASSUME NEW t, NEW x \in DOMAIN t.node, NEW g, NEW h,
           \A c \in KidsOf(t, x) : g[c] = h[c]
    PROVE  HashNode(g, t, x) = HashNode(h, t, x)
<1> DEFINE s == t.node[x].children
           parts(f) == [i \in DOMAIN s |-> IF IsLive(t, s[i]) THEN f[s[i]] ELSE << >>]
<1>1. \A i \in DOMAIN s : s[i] \in KidsOf(t, x)
  BY DEF KidsOf, ChildrenOf, IsLive, ToSet
<1>2. parts(g) = parts(h)
  BY <1>1
<1> QED
  BY <1>2 DEF HashNode

(* g says of each node of t what is fed for it.                            *)
IsHash(g, t) == g = [x \in DOMAIN t.node |-> HashNode(g, t, x)]

(* There is such a g.                                                      *)
LEMMA HashExists ==
    ASSUME NEW t, IsTree(t)
    PROVE  \E g : IsHash(g, t)
<1> DEFINE A == DOMAIN t.node
           table(g) == [x \in A |-> HashNode(g, t, x)]
           Holds(g, n) == \A x \in A : x + n >= t.next => g[x] = HashNode(g, t, x)
           T == {n \in Nat : \E g : Holds(g, n)}
<1>1. /\ t.next \in Nat /\ A \subseteq Nat /\ \A x \in A : x < t.next
      /\ \A x, c : c \in KidsOf(t, x) => x \in A /\ c \in A /\ x < c
  BY TreeFacts
<1>2. ASSUME NEW n \in Nat, NEW g, Holds(g, n)
      PROVE  Holds(table(g), n + 1)
  <2> DEFINE h == table(g)
  <2>1. \A x \in A : h[x] = HashNode(g, t, x)
    OBVIOUS
  <2> HIDE DEF h
  <2>2. ASSUME NEW x \in A, x + (n + 1) >= t.next
        PROVE  h[x] = HashNode(h, t, x)
    <3>1. ASSUME NEW c \in KidsOf(t, x)
          PROVE  g[c] = h[c]
      <4>1. c \in A /\ c \in Nat /\ x \in Nat /\ c > x
        BY <1>1
      <4>2. c + n >= t.next
        BY <1>1, <2>2, <4>1
      <4> QED
        BY <1>2, <2>1, <4>1, <4>2
    <3>2. HashNode(g, t, x) = HashNode(h, t, x)
      BY <3>1, HashRestsOnKids
    <3> QED
      BY <2>1, <3>2
  <2> QED
    BY <2>2 DEF h
<1>3. t.next \in T
  <2>1. 0 \in T
    <3>1. Holds(0, 0)
      BY <1>1
    <3> HIDE DEF Holds
    <3> QED
      BY <3>1
  <2>2. ASSUME NEW n \in Nat, n \in T
        PROVE  n + 1 \in T
    <3> HIDE DEF Holds, table
    <3>1. PICK g : Holds(g, n)
      BY <2>2
    <3>2. Holds(table(g), n + 1)
      BY <1>2, <3>1
    <3> QED
      BY <3>2
  <2> HIDE DEF T
  <2> QED
    BY <1>1, <2>1, <2>2, SetInduction
<1>4. PICK g : Holds(g, t.next)
  <2> HIDE DEF Holds
  <2> QED
    BY <1>3
<1>5. \A x \in A : g[x] = HashNode(g, t, x)
  <2>1. \A x \in A : x + t.next >= t.next
    BY <1>1
  <2> QED
    BY <1>4, <2>1
<1> DEFINE h == table(g)
<1>6. \A x \in A : h[x] = g[x]
  BY <1>5
<1>7. \A x \in A : HashNode(g, t, x) = HashNode(h, t, x)
  <2> TAKE x \in A
  <2>1. \A c \in KidsOf(t, x) : g[c] = h[c]
    BY <1>1, <1>6
  <2> HIDE DEF h
  <2> QED
    BY <2>1, HashRestsOnKids
<1>8. h = table(h)
  <2> HIDE DEF h
  <2>1. h = table(g)
    BY DEF h
  <2> QED
    BY <1>7, <2>1
<1> HIDE DEF h
<1> QED
  BY <1>8 DEF IsHash

(* What is fed for each node.                                              *)
HashOf(t) == [x \in DOMAIN t.node |-> HashedText(t, x)]

(* What is fed for a node in terms of what is fed for its children.        *)
LEMMA HashUnfold ==
    ASSUME NEW t, IsTree(t)
    PROVE  \A x \in DOMAIN t.node : HashedText(t, x) = HashNode(HashOf(t), t, x)
<1> DEFINE g == CHOOSE c : c = [x \in DOMAIN t.node |-> HashNode(c, t, x)]
<1>1. IsHash(g, t)
  BY HashExists DEF IsHash
<1>2. \A x \in DOMAIN t.node : HashedText(t, x) = g[x]
  BY DEF HashedText, HashNode, IsLive
<1> HIDE DEF g
<1>3. g = [x \in DOMAIN t.node |-> HashNode(g, t, x)]
  BY <1>1 DEF IsHash
<1>4. HashOf(t) = g
  <2>1. g = [x \in DOMAIN t.node |-> g[x]]
    BY <1>3
  <2> QED
    BY <1>2, <2>1 DEF HashOf
<1> QED
  BY <1>2, <1>3, <1>4

----------------------------------------------------------------------------
(* Trees that say the same.                                                *)

(* R relates nodes that look the same, and so do their children in order.  *)
Alike(t, u, R) ==
    \A x, y : <<x, y>> \in R =>
        /\ x \in DOMAIN t.node /\ y \in DOMAIN u.node
        /\ t.node[x].kind = u.node[y].kind
        /\ t.node[x].label = u.node[y].label
        /\ t.node[x].value = u.node[y].value
        /\ DOMAIN t.node[x].children = DOMAIN u.node[y].children
        /\ \A i \in DOMAIN t.node[x].children :
              <<t.node[x].children[i], u.node[y].children[i]>> \in R

(* g and h agree on the children of x and y, position by position.         *)
KidsAgree(g, h, t, u, x, y) ==
    \A i \in DOMAIN t.node[x].children :
        g[t.node[x].children[i]] = h[u.node[y].children[i]]

(* Nodes that R relates say the same if their children do.                 *)
LEMMA AlikeNode ==
    ASSUME NEW t, IsTree(t), NEW u, IsTree(u), NEW R, Alike(t, u, R),
           NEW x, NEW y, <<x, y>> \in R, NEW g, NEW h,
           KidsAgree(g, h, t, u, x, y)
    PROVE  /\ CanonNode(g, t, x) = CanonNode(h, u, y)
           /\ HashNode(g, t, x) = HashNode(h, u, y)
<1> DEFINE s == t.node[x].children
           r == u.node[y].children
<1>1. /\ x \in DOMAIN t.node /\ y \in DOMAIN u.node
      /\ t.node[x].kind = u.node[y].kind /\ t.node[x].label = u.node[y].label
      /\ t.node[x].value = u.node[y].value /\ DOMAIN s = DOMAIN r
      /\ \A i \in DOMAIN s : <<s[i], r[i]>> \in R
  BY DEF Alike
<1> HIDE DEF s, r
<1>2. \A i \in DOMAIN s : s[i] \in DOMAIN t.node /\ r[i] \in DOMAIN u.node
                          /\ Key(t, s[i]) = Key(u, r[i])
  <2> TAKE i \in DOMAIN s
  <2>1. <<s[i], r[i]>> \in R
    BY <1>1
  <2> DEFINE m == s[i]
             n == r[i]
  <2> HIDE DEF m, n
  <2>2. <<m, n>> \in R
    BY <2>1 DEF m, n
  <2>3. /\ m \in DOMAIN t.node /\ n \in DOMAIN u.node
        /\ t.node[m].kind = u.node[n].kind
        /\ t.node[m].label = u.node[n].label
    BY <2>2 DEF Alike
  <2>4. Key(t, m) = Key(u, n)
    BY <2>3 DEF Key
  <2> QED
    BY <2>3, <2>4 DEF m, n
<1>3. s \in Seq(Nat) /\ r \in Seq(Nat)
  BY <1>1, TreeFacts DEF Lists, s, r
<1>4. \A i \in DOMAIN s : g[s[i]] = h[r[i]]
  BY DEF s, r, KidsAgree
<1>5. \A key : /\ Siblings(t, x, key) = Retain(s, {i \in DOMAIN s : Key(t, s[i]) = key})
               /\ Siblings(u, y, key) = Retain(r, {i \in DOMAIN s : Key(t, s[i]) = key})
  <2> TAKE key
  <2>1. {i \in DOMAIN s : IsLive(t, s[i]) /\ Key(t, s[i]) = key} = {i \in DOMAIN s : Key(t, s[i]) = key}
    BY <1>2 DEF IsLive, s
  <2>2. {i \in DOMAIN r : IsLive(u, r[i]) /\ Key(u, r[i]) = key} = {i \in DOMAIN s : Key(t, s[i]) = key}
    BY <1>1, <1>2 DEF IsLive
  <2> QED
    BY <2>1, <2>2 DEF Siblings, s, r
<1>6. ChildKeys(t, x) = ChildKeys(u, y)
  <2>1. \A key : key \in ChildKeys(t, x) <=> \E i \in DOMAIN s : key = Key(t, s[i])
    BY <1>2 DEF ChildKeys, ToSet, s
  <2>2. \A key : key \in ChildKeys(u, y) <=> \E i \in DOMAIN r : key = Key(u, r[i])
    BY <1>1, <1>2 DEF ChildKeys, ToSet, r
  <2>3. \A key : key \in ChildKeys(t, x) <=> key \in ChildKeys(u, y)
    BY <2>1, <2>2, <1>1, <1>2
  <2> QED
    BY <2>3
<1>7. ASSUME NEW key
      PROVE  Each(g, Siblings(t, x, key)) = Each(h, Siblings(u, y, key))
  <2> DEFINE I == {i \in DOMAIN s : Key(t, s[i]) = key}
             a == Retain(s, I)
             b == Retain(r, I)
  <2>1. I \in SUBSET (DOMAIN s)
    OBVIOUS
  <2> HIDE DEF I
  <2>0. s \in Seq(Nat) /\ r \in Seq(Nat) /\ DOMAIN s = DOMAIN r
    BY <1>1, <1>3
  <2>2. RetainTogether(s, r, I)
    BY <2>0, <2>1, RetainAlong, Zenon
  <2>2a. PICK at \in [1..Cardinality(I) -> I] :
            \A k \in 1..Cardinality(I) : a[k] = s[at[k]] /\ b[k] = r[at[k]]
    BY <2>2 DEF RetainTogether
  <2>3. DOMAIN a = 1..Cardinality(I) /\ DOMAIN b = 1..Cardinality(I)
    BY DEF Retain
  <2> HIDE DEF a, b
  <2>4. \A k \in DOMAIN a : g[a[k]] = h[b[k]]
    BY <2>1, <2>2a, <2>3, <1>4
  <2>5. Each(g, a) = Each(h, b)
    BY <2>3, <2>4 DEF Each
  <2>6. Siblings(t, x, key) = a /\ Siblings(u, y, key) = b
    BY <1>5 DEF a, b, I
  <2> QED
    BY <2>5, <2>6
<1>8. CanonNode(g, t, x) = CanonNode(h, u, y)
  <2>1. [key \in ChildKeys(t, x) |-> Each(g, Siblings(t, x, key))]
          = [key \in ChildKeys(u, y) |-> Each(h, Siblings(u, y, key))]
    BY <1>6, <1>7
  <2> QED
    BY <2>1, <1>1 DEF CanonNode
<1>9. HashNode(g, t, x) = HashNode(h, u, y)
  <2>1. [i \in DOMAIN s |-> IF IsLive(t, s[i]) THEN g[s[i]] ELSE << >>]
          = [i \in DOMAIN r |-> IF IsLive(u, r[i]) THEN h[r[i]] ELSE << >>]
    BY <1>1, <1>2, <1>4 DEF IsLive
  <2> QED
    BY <2>1, <1>1 DEF HashNode, s, r
<1> QED
  BY <1>8, <1>9

(* Trees that look the same have the same canonical form and the same      *)
(* hashed text.                                                            *)
LEMMA AlikeSaysTheSame ==
    ASSUME NEW t, IsTree(t), NEW u, IsTree(u), NEW R, Alike(t, u, R)
    PROVE  \A x, y : <<x, y>> \in R => /\ Canon(t, x) = Canon(u, y)
                                       /\ HashedText(t, x) = HashedText(u, y)
<1> DEFINE Same(x, y) == Canon(t, x) = Canon(u, y) /\ HashedText(t, x) = HashedText(u, y)
           T == {n \in Nat : \A x, y : <<x, y>> \in R /\ x + n >= t.next => Same(x, y)}
<1>1. t.next \in Nat /\ \A x \in DOMAIN t.node : x \in Nat /\ x < t.next
  BY TreeFacts
<1>2. \A x, y : <<x, y>> \in R => x \in DOMAIN t.node /\ y \in DOMAIN u.node
  BY DEF Alike
<1>3. 0 \in T
  BY <1>1, <1>2
<1>4. ASSUME NEW n \in Nat, n \in T
      PROVE  n + 1 \in T
  <2> SUFFICES ASSUME NEW x, NEW y, <<x, y>> \in R, x + (n + 1) >= t.next
               PROVE  Same(x, y)
    OBVIOUS
  <2>1. x \in DOMAIN t.node /\ x \in Nat /\ y \in DOMAIN u.node
    BY <1>1, <1>2
  <2> DEFINE s == t.node[x].children
             r == u.node[y].children
  <2>2. \A i \in DOMAIN s : <<s[i], r[i]>> \in R
    BY DEF Alike
  <2>3. \A i \in DOMAIN s : s[i] \in Nat /\ s[i] > x
    <3> TAKE i \in DOMAIN s
    <3>1. s[i] \in KidsOf(t, x)
      BY <2>1 DEF KidsOf, ChildrenOf, IsLive, ToSet
    <3> QED
      BY <3>1, <2>1, TreeFacts
  <2> HIDE DEF Same
  <2>4. \A i \in DOMAIN s : Same(s[i], r[i])
    <3> TAKE i \in DOMAIN s
    <3>1. s[i] + n >= t.next
      BY <1>1, <2>1, <2>3
    <3> QED
      BY <3>1, <2>2, <1>4
  <2>5. \A i \in DOMAIN s : /\ CanonOf(t)[s[i]] = CanonOf(u)[r[i]]
                            /\ HashOf(t)[s[i]] = HashOf(u)[r[i]]
    BY <1>2, <2>2, <2>4 DEF CanonOf, HashOf, Same
  <2> DEFINE g == CanonOf(t)
             h == CanonOf(u)
             e == HashOf(t)
             f == HashOf(u)
  <2>5a. KidsAgree(g, h, t, u, x, y)
    BY <2>5 DEF KidsAgree
  <2>5b. KidsAgree(e, f, t, u, x, y)
    BY <2>5 DEF KidsAgree
  <2> HIDE DEF g, h, e, f
  <2>6. CanonNode(g, t, x) = CanonNode(h, u, y)
    BY <2>5a, <2>1, AlikeNode
  <2>7. HashNode(e, t, x) = HashNode(f, u, y)
    BY <2>5b, <2>1, AlikeNode
  <2> QED
    BY <2>1, <2>6, <2>7, CanonUnfold, HashUnfold DEF Same, g, h, e, f
<1>5. t.next \in T
  <2> HIDE DEF T
  <2> QED
    BY <1>1, <1>3, <1>4, SetInduction
<1>6. ASSUME NEW x, NEW y, <<x, y>> \in R
      PROVE  Same(x, y)
  <2>1. x + t.next >= t.next
    BY <1>1, <1>2, <1>6
  <2> QED
    BY <2>1, <1>5, <1>6
<1> QED
  BY <1>6

(* A node is deleted when an operation on it says so.                      *)
LEMMA DeletedByOps ==
    ASSUME NEW S, NEW ops \in Seq(S)
    PROVE  /\ Deleted(ops) \subseteq {o.target : o \in S}
           /\ \A x : x \in Deleted(ops) <=> \E o \in ToSet(OpsOn(ops, x)) : o.op = "Delete"
<1>1. \A x : x \in Deleted(ops) <=> \E i \in DOMAIN ops : ops[i].op = "Delete" /\ x = ops[i].target
  BY DEF Deleted
<1>2. \A i \in DOMAIN ops : ops[i] \in S
  OBVIOUS
<1>3. ASSUME NEW x
      PROVE  x \in Deleted(ops) <=> \E o \in ToSet(OpsOn(ops, x)) : o.op = "Delete"
  <2>1. OpsOn(ops, x) = Only(ops, At(S, x))
    BY OpsAreOnly
  <2>2. ToSet(OpsOn(ops, x)) = ToSet(ops) \intersect At(S, x)
    BY <2>1, OnlySet
  <2>3. \A o : o \in ToSet(ops) <=> \E i \in DOMAIN ops : o = ops[i]
    BY DEF ToSet
  <2> QED
    BY <1>1, <1>2, <2>2, <2>3 DEF At
<1>4. \A x \in Deleted(ops) : \E o \in S : x = o.target
  BY <1>1, <1>2
<1> QED
  BY <1>3, <1>4

(* The last Relabel leaves one answer.                                     *)
LEMMA OneLabel ==
    ASSUME NEW S, NEW s \in Seq(S), NEW l, NEW m, NEW k, LabelIs(l, s, m), LabelIs(l, s, k)
    PROVE  m = k
<1>1. \A i, j \in DOMAIN s : i < j \/ j < i \/ i = j
  OBVIOUS
<1> QED
  BY <1>1 DEF LabelIs

(* ... and so does the last Update.                                        *)
LEMMA OneValue ==
    ASSUME NEW S, NEW s \in Seq(S), NEW l, NEW m, NEW k, ValueIs(l, s, m), ValueIs(l, s, k)
    PROVE  m = k
<1>1. \A i, j \in DOMAIN s : i < j \/ j < i \/ i = j
  OBVIOUS
<1> QED
  BY <1>1 DEF ValueIs

(* Two patches say the same about each node of b.                          *)
SameOn(b, p, q) == \A x \in DOMAIN b.node : OpsOn(p, x) = OpsOn(q, x)

(* Then they delete the same.                                              *)
LEMMA SameGone ==
    ASSUME NEW b, NEW S, SafeFor(b, S), NEW p \in Seq(S), NEW q \in Seq(S), SameOn(b, p, q)
    PROVE  Deleted(p) = Deleted(q) /\ Gone(b, p) = Gone(b, q)
<1>1. \A x \in Deleted(p) : x \in DOMAIN b.node
  BY DeletedByOps DEF SafeFor
<1>2. \A x \in Deleted(q) : x \in DOMAIN b.node
  BY DeletedByOps DEF SafeFor
<1>3. \A x \in DOMAIN b.node : x \in Deleted(p) <=> x \in Deleted(q)
  BY DeletedByOps DEF SameOn
<1>4. Deleted(p) = Deleted(q)
  BY <1>1, <1>2, <1>3
<1> QED
  BY <1>4 DEF Gone

(* Two results of operations that agree on every node: a node of the base  *)
(* stands for itself, a new one for any new one that looks like it.        *)
Twins(t, u, b) ==
    {<<x, x>> : x \in DOMAIN b.node \intersect DOMAIN t.node}
      \union {w \in (DOMAIN t.node \ DOMAIN b.node) \X (DOMAIN u.node \ DOMAIN b.node) :
                 /\ t.node[w[1]].kind = u.node[w[2]].kind
                 /\ t.node[w[1]].label = u.node[w[2]].label
                 /\ t.node[w[1]].value = u.node[w[2]].value}

(* The children of x in both are related position by position.             *)
ListsTwinned(t, u, b, x) ==
    /\ DOMAIN t.node[x].children = DOMAIN u.node[x].children
    /\ \A i \in DOMAIN t.node[x].children :
          <<t.node[x].children[i], u.node[x].children[i]>> \in Twins(t, u, b)

(* The lists of a node of the base.                                        *)
LEMMA ListsAlike ==
    ASSUME NEW b, IsTree(b), NEW p, NEW q, NEW t, Effect(t, b, p), NEW u, Effect(u, b, q),
           Deleted(p) = Deleted(q),
           NEW x \in DOMAIN b.node, x \in DOMAIN t.node, x \in DOMAIN u.node,
           OpsOn(p, x) = OpsOn(q, x)
    PROVE  ListsTwinned(t, u, b, x)
<1> DEFINE d == Drop(b.node[x].children, Deleted(p))
           a == t.node[x].children
           e == u.node[x].children
<1>1. NodeAfter(t, b, x, p) /\ NodeAfter(u, b, x, q)
  BY DEF Effect
<1>2. PICK m : ListIs(t, b, x, p, m)
  BY <1>1 DEF NodeAfter
<1>3. PICK n : ListIs(u, b, x, q, n)
  BY <1>1 DEF NodeAfter
<1>4. /\ m \in Seq(Nat) /\ n \in Seq(Nat) /\ a = d \o m /\ e = d \o n
      /\ Grown(t, b.next, m, Inserts(OpsOn(p, x)))
      /\ Grown(u, b.next, n, Inserts(OpsOn(p, x)))
  BY <1>2, <1>3 DEF ListIs
<1>5. DOMAIN m = DOMAIN n
  BY <1>4 DEF Grown
<1>6. \A y \in DOMAIN b.node : y \in Nat /\ y < b.next
  BY TreeFacts
<1>7. \A k \in DOMAIN m : <<m[k], n[k]>> \in Twins(t, u, b)
  <2> TAKE k \in DOMAIN m
  <2> DEFINE y == m[k]
             z == n[k]
  <2>1. /\ y \in Nat /\ y >= b.next /\ y \in DOMAIN t.node
        /\ z \in Nat /\ z >= b.next /\ z \in DOMAIN u.node
        /\ t.node[y].kind = u.node[z].kind
        /\ t.node[y].label = u.node[z].label
        /\ t.node[y].value = u.node[z].value
    BY <1>4, <1>5 DEF Grown
  <2> HIDE DEF y, z
  <2>2. y \notin DOMAIN b.node /\ z \notin DOMAIN b.node
    BY <1>6, <2>1, TreeFacts
  <2>3. <<y, z>> \in Twins(t, u, b)
    BY <2>1, <2>2 DEF Twins
  <2> QED
    BY <2>3 DEF y, z
<1>8. b.node[x].children \in Seq(Nat)
  BY TreeFacts DEF Lists
<1>9. d \in Seq(Nat) /\ ToSet(d) \subseteq ToSet(b.node[x].children)
  BY <1>8, OnlyPicks, OnlySet DEF Drop
<1>10. \A k \in DOMAIN d : d[k] \in DOMAIN b.node
  <2>1. \A c \in ToSet(b.node[x].children) : c \in DOMAIN b.node
    BY TreeFacts DEF KidsOf, ChildrenOf, IsLive
  <2> QED
    BY <1>9, <2>1 DEF ToSet
<1>11. \A c \in ToSet(a) : c \in DOMAIN t.node
  BY TreeFacts DEF Effect, KidsOf, ChildrenOf, IsLive
<1> HIDE DEF d, a, e
<1>12. /\ Len(d) \in Nat /\ Len(m) \in Nat /\ Len(n) = Len(m)
       /\ DOMAIN d = 1..Len(d) /\ DOMAIN m = 1..Len(m) /\ DOMAIN n = 1..Len(n)
  <2>1. Len(m) \in Nat /\ Len(n) \in Nat /\ 1..Len(m) = 1..Len(n)
    BY <1>4, <1>5
  <2>2. Len(m) = Len(n)
    BY <2>1, SameUpTo
  <2> QED
    BY <1>4, <1>9, <2>2
<1>13. /\ DOMAIN a = 1..(Len(d) + Len(m)) /\ DOMAIN e = 1..(Len(d) + Len(m))
       /\ \A i \in 1..Len(d) : a[i] = d[i] /\ e[i] = d[i]
       /\ \A i \in 1..Len(m) : a[Len(d) + i] = m[i] /\ e[Len(d) + i] = n[i]
  <2>1. /\ DOMAIN (d \o m) = 1..(Len(d) + Len(m))
        /\ \A i \in 1..Len(d) : (d \o m)[i] = d[i]
        /\ \A i \in 1..Len(m) : (d \o m)[Len(d) + i] = m[i]
    BY <1>4, <1>9, ConcatProperties
  <2>2. /\ DOMAIN (d \o n) = 1..(Len(d) + Len(n))
        /\ \A i \in 1..Len(d) : (d \o n)[i] = d[i]
        /\ \A i \in 1..Len(n) : (d \o n)[Len(d) + i] = n[i]
    BY <1>4, <1>9, ConcatProperties
  <2> QED
    BY <1>4, <1>12, <2>1, <2>2
<1>14. ASSUME NEW i \in DOMAIN a
       PROVE  <<a[i], e[i]>> \in Twins(t, u, b)
  <2>1. CASE i \in 1..Len(d)
    <3>1. a[i] = d[i] /\ e[i] = d[i]
      BY <1>13, <2>1
    <3>2. d[i] \in DOMAIN b.node
      BY <1>10, <1>12, <2>1
    <3>3. a[i] \in DOMAIN t.node
      BY <1>11 DEF ToSet
    <3> QED
      BY <3>1, <3>2, <3>3 DEF Twins
  <2>2. CASE i \notin 1..Len(d)
    <3> DEFINE k == i - Len(d)
    <3>1. k \in 1..Len(m) /\ i = Len(d) + k
      BY <1>12, <1>13, <2>2
    <3> HIDE DEF k
    <3>2. a[i] = m[k] /\ e[i] = n[k]
      BY <1>13, <3>1
    <3>3. k \in DOMAIN m
      BY <1>12, <3>1
    <3> QED
      BY <1>7, <3>2, <3>3
  <2> QED
    BY <2>1, <2>2
<1> QED
  BY <1>13, <1>14 DEF a, e, ListsTwinned

(* What a patch makes of a tree is determined by what it says about each   *)
(* node: the order of operations on different nodes is of no account.      *)
LEMMA EffectsAlike ==
    ASSUME NEW b, IsTree(b), NEW S, SafeFor(b, S), NEW p \in Seq(S), NEW q \in Seq(S),
           SameOn(b, p, q), NEW t, Effect(t, b, p), NEW u, Effect(u, b, q)
    PROVE  /\ Canon(t, RootId) = Canon(u, RootId)
           /\ HashedText(t, RootId) = HashedText(u, RootId)
<1> DEFINE R == Twins(t, u, b)
<1>1. Deleted(p) = Deleted(q) /\ Gone(b, p) = Gone(b, q)
  BY SameGone
<1>2. \A x \in DOMAIN b.node : x \in DOMAIN t.node <=> x \in DOMAIN u.node
  BY <1>1 DEF Effect
<1>3. Alike(t, u, R)
  <2> SUFFICES ASSUME NEW x, NEW y, <<x, y>> \in R
               PROVE  /\ x \in DOMAIN t.node /\ y \in DOMAIN u.node
                      /\ t.node[x].kind = u.node[y].kind
                      /\ t.node[x].label = u.node[y].label
                      /\ t.node[x].value = u.node[y].value
                      /\ DOMAIN t.node[x].children = DOMAIN u.node[y].children
                      /\ \A i \in DOMAIN t.node[x].children :
                            <<t.node[x].children[i], u.node[y].children[i]>> \in R
    BY DEF Alike
  <2>1. CASE x = y /\ x \in DOMAIN b.node /\ x \in DOMAIN t.node
    <3>1. x \in DOMAIN u.node
      BY <1>2, <2>1
    <3>2. NodeAfter(t, b, x, p) /\ NodeAfter(u, b, x, q)
      BY <2>1, <3>1 DEF Effect
    <3>3. OpsOn(p, x) = OpsOn(q, x) /\ OpsOn(p, x) \in Seq(S)
      BY <2>1, OpsOnOps DEF SameOn
    <3>4. t.node[x].label = u.node[x].label /\ t.node[x].value = u.node[x].value
      <4> DEFINE s == OpsOn(p, x)
                 l == b.node[x].label
                 m == t.node[x].label
                 k == u.node[x].label
                 v == b.node[x].value
                 w == t.node[x].value
                 z == u.node[x].value
      <4>1. s \in Seq(S)
        BY <3>3
      <4>2. LabelIs(l, s, m)
        BY <3>2 DEF NodeAfter
      <4>3. LabelIs(l, s, k)
        BY <3>2, <3>3 DEF NodeAfter
      <4>4. ValueIs(v, s, w)
        BY <3>2 DEF NodeAfter
      <4>5. ValueIs(v, s, z)
        BY <3>2, <3>3 DEF NodeAfter
      <4> HIDE DEF s, l, m, k, v, w, z
      <4>6. m = k
        BY <4>1, <4>2, <4>3, OneLabel
      <4>7. w = z
        BY <4>1, <4>4, <4>5, OneValue
      <4> QED
        BY <4>6, <4>7 DEF m, k, w, z
    <3>5. t.node[x].kind = u.node[x].kind
      BY <3>2 DEF NodeAfter
    <3>6. /\ DOMAIN t.node[x].children = DOMAIN u.node[x].children
          /\ \A i \in DOMAIN t.node[x].children :
                <<t.node[x].children[i], u.node[x].children[i]>> \in R
      <4>1. ListsTwinned(t, u, b, x)
        BY <1>1, <2>1, <3>1, <3>3, ListsAlike
      <4> QED
        BY <4>1 DEF ListsTwinned
    <3> HIDE DEF R
    <3> QED
      BY <2>1, <3>1, <3>4, <3>5, <3>6
  <2>2. CASE /\ x \in DOMAIN t.node /\ x \notin DOMAIN b.node
             /\ y \in DOMAIN u.node /\ y \notin DOMAIN b.node
             /\ t.node[x].kind = u.node[y].kind
             /\ t.node[x].label = u.node[y].label
             /\ t.node[x].value = u.node[y].value
    <3>1. t.node[x].children = << >> /\ u.node[y].children = << >>
      BY <2>2 DEF Effect
    <3> HIDE DEF R
    <3> QED
      BY <2>2, <3>1
  <2>3. \/ x = y /\ x \in DOMAIN b.node /\ x \in DOMAIN t.node
        \/ /\ x \in DOMAIN t.node /\ x \notin DOMAIN b.node
           /\ y \in DOMAIN u.node /\ y \notin DOMAIN b.node
           /\ t.node[x].kind = u.node[y].kind
           /\ t.node[x].label = u.node[y].label
           /\ t.node[x].value = u.node[y].value
    BY DEF Twins
  <2> QED
    BY <2>1, <2>2, <2>3
<1>4. <<RootId, RootId>> \in R
  <2>1. RootId \in DOMAIN b.node /\ RootId \in DOMAIN t.node
    BY TreeFacts DEF Effect
  <2> QED
    BY <2>1 DEF Twins
<1>5. IsTree(t) /\ IsTree(u)
  BY DEF Effect
<1> HIDE DEF R
<1> QED
  BY <1>3, <1>4, <1>5, AlikeSaysTheSame

----------------------------------------------------------------------------
(* merge_patches: what a result says of each node does not depend on the   *)
(* order in which the common nodes are visited.                            *)

(* What is picked from operations is operations.                           *)
LEMMA OpsOnOff ==
    ASSUME NEW S, NEW ops \in Seq(S), NEW id
    PROVE  OpsOn(ops, id) \in Seq(S) /\ OpsOff(ops, id) \in Seq(S)
<1>1. \A I \in SUBSET (DOMAIN ops) : Retain(ops, I) \in Seq(S)
  BY RetainProperties
<1> QED
  BY <1>1 DEF OpsOn, OpsOff

(* Vectors of operations that are == are the same.                         *)
LEMMA SameOpsSame ==
    ASSUME NEW S, NEW s \in Seq(S), NEW u \in Seq(S)
    PROVE  /\ SameOps(s, u) => s = u
           /\ SameOps(s, u) <=> SameOps(u, s)
<1>1. /\ Len(s) \in Nat /\ DOMAIN s = 1..Len(s) /\ s = [i \in 1..Len(s) |-> s[i]]
      /\ Len(u) \in Nat /\ DOMAIN u = 1..Len(u) /\ u = [i \in 1..Len(u) |-> u[i]]
  OBVIOUS
<1>2. SameOps(s, u) => s = u
  <2> SUFFICES ASSUME SameOps(s, u)
               PROVE  s = u
    OBVIOUS
  <2>1. Len(s) = Len(u) /\ \A i \in 1..Len(s) : s[i] = u[i]
    BY <1>1 DEF SameOps, SameOp
  <2> QED
    BY <1>1, <2>1
<1>3. SameOps(u, s) => u = s
  <2> SUFFICES ASSUME SameOps(u, s)
               PROVE  s = u
    OBVIOUS
  <2>1. Len(s) = Len(u) /\ \A i \in 1..Len(s) : s[i] = u[i]
    BY <1>1 DEF SameOps, SameOp
  <2> QED
    BY <1>1, <2>1
<1> QED
  BY <1>2, <1>3

(* What a merge keeps of the operations on one node.                       *)
AgreedOn(a, b, x) == SameOps(OpsOn(a, x), OpsOn(b, x))

(* What a result keeps of the operations on x.                             *)
MergedOn(a, b, x) ==
    IF x \in Affected(a) \intersect Affected(b)
    THEN IF AgreedOn(a, b, x) THEN OpsOn(a, x) ELSE << >>
    ELSE OpsOn(a, x) \o OpsOn(b, x)

(* The nodes two patches affect without agreeing.                          *)
Contested(a, b) == {x \in Affected(a) \intersect Affected(b) : ~AgreedOn(a, b, x)}

(* A patch affects finitely many nodes.                                    *)
LEMMA AffectedFinite ==
    ASSUME NEW S, NEW ops \in Seq(S)
    PROVE  IsFiniteSet(Affected(ops))
<1>1. IsFiniteSet(DOMAIN ops)
  <2>1. Len(ops) \in Nat /\ DOMAIN ops = 1..Len(ops)
    OBVIOUS
  <2> QED
    BY <2>1, FS_Interval
<1>2. [i \in DOMAIN ops |-> ops[i].target] \in Surjection(DOMAIN ops, Affected(ops))
  BY DEF Affected, Surjection
<1> QED
  BY <1>1, <1>2, FS_Surjection

(* An order in which a set is visited has each of its elements once.       *)
LEMMA VisitsAll ==
    ASSUME NEW X, IsFiniteSet(X), NEW order \in SetToSeqs(X)
    PROVE  /\ order \in Seq(X)
           /\ \A i, j \in DOMAIN order : order[i] = order[j] => i = j
           /\ ToSet(order) = X
<1> DEFINE n == Cardinality(X)
<1>1. n \in Nat
  BY FS_CardinalityType
<1>2. order \in [1..n -> X] /\ \A i, j \in 1..n : i # j => order[i] # order[j]
  BY DEF SetToSeqs
<1>3. order \in Injection(1..n, X)
  BY <1>2 DEF Injection, IsInjective
<1>4. IsFiniteSet(1..n) /\ Cardinality(1..n) = n
  BY <1>1, FS_Interval
<1>5. order \in Surjection(1..n, X)
  BY <1>3, <1>4, FS_Injection
<1>6. order \in Seq(X)
  <2> HIDE DEF n
  <2> QED
    BY <1>1, <1>2, SeqDef
<1>7. ToSet(order) = X
  BY <1>2, <1>5 DEF ToSet, Surjection
<1> QED
  BY <1>2, <1>6, <1>7

(* What one way of visiting the common nodes makes of two patches.         *)
AgreedOps(a, b, order) ==
    [i \in DOMAIN order |-> IF AgreedOn(a, b, order[i]) THEN OpsOn(a, order[i]) ELSE << >>]

(* The nodes of the visit on which the patches disagree.                   *)
Clashing(a, b, order) == Retain(order, {i \in DOMAIN order : ~AgreedOn(a, b, order[i])})

(* What a visit in this order gives.                                       *)
Visit(r, a, b, order) ==
    /\ r.merged = OpsOff(a, Affected(b)) \o OpsOff(b, Affected(a))
                    \o FlattenSeq(AgreedOps(a, b, order))
    /\ r.conflicts = [i \in DOMAIN Clashing(a, b, order) |->
                         [node |-> Clashing(a, b, order)[i],
                          a |-> OpsOn(a, Clashing(a, b, order)[i]),
                          b |-> OpsOn(b, Clashing(a, b, order)[i])]]

(* A result comes from a visit in some order.                              *)
LEMMA MergeVisits ==
    ASSUME NEW a, NEW b, NEW r \in MergePatches(a, b)
    PROVE  \E order \in SetToSeqs(Affected(a) \intersect Affected(b)) : Visit(r, a, b, order)
<1> DEFINE both == Affected(a) \intersect Affected(b)
           agreed(id) == SameOps(OpsOn(a, id), OpsOn(b, id))
           alike(order) == [i \in DOMAIN order |->
                               IF agreed(order[i]) THEN OpsOn(a, order[i]) ELSE << >>]
           clashes(order) == Retain(order, {i \in DOMAIN order : ~agreed(order[i])})
           conflicts(order) == [i \in DOMAIN clashes(order) |->
                                   [node |-> clashes(order)[i],
                                    a |-> OpsOn(a, clashes(order)[i]),
                                    b |-> OpsOn(b, clashes(order)[i])]]
           merged(order) == OpsOff(a, Affected(b)) \o OpsOff(b, Affected(a))
                              \o FlattenSeq(alike(order))
<1>1. PICK order \in SetToSeqs(both) :
          r = [merged |-> merged(order), conflicts |-> conflicts(order)]
  BY DEF MergePatches
<1>2. alike(order) = AgreedOps(a, b, order) /\ clashes(order) = Clashing(a, b, order)
  BY DEF AgreedOps, Clashing, AgreedOn
<1>3. conflicts(order) = [i \in DOMAIN Clashing(a, b, order) |->
                            [node |-> Clashing(a, b, order)[i],
                             a |-> OpsOn(a, Clashing(a, b, order)[i]),
                             b |-> OpsOn(b, Clashing(a, b, order)[i])]]
  BY <1>2
<1>4. merged(order) = OpsOff(a, Affected(b)) \o OpsOff(b, Affected(a))
                        \o FlattenSeq(AgreedOps(a, b, order))
  BY <1>2
<1> HIDE DEF merged, conflicts
<1>5. r.merged = merged(order) /\ r.conflicts = conflicts(order)
  BY <1>1
<1>6. Visit(r, a, b, order)
  BY <1>3, <1>4, <1>5 DEF Visit
<1> QED
  BY <1>6

(* A visit takes the agreed operations on a node once.                     *)
LEMMA AgreedOpsOn ==
    ASSUME NEW S, NEW a \in Seq(S), NEW b, NEW X, NEW order \in Seq(X),
           \A i, j \in DOMAIN order : order[i] = order[j] => i = j, NEW x
    PROVE  /\ AgreedOps(a, b, order) \in Seq(Seq(S))
           /\ OpsOn(FlattenSeq(AgreedOps(a, b, order)), x) =
                IF x \in ToSet(order) /\ AgreedOn(a, b, x) THEN OpsOn(a, x) ELSE << >>
<1> DEFINE ss == AgreedOps(a, b, order)
           us == [i \in DOMAIN ss |-> OpsOn(ss[i], x)]
<1>1. Len(order) \in Nat /\ DOMAIN order = 1..Len(order) /\ DOMAIN ss = DOMAIN order
  BY DEF AgreedOps
<1>2. \A i \in DOMAIN ss : ss[i] \in Seq(S)
  <2>1. \A id : OpsOn(a, id) \in Seq(S)
    BY OpsOnOps
  <2> QED
    BY <2>1, EmptySeq DEF AgreedOps
<1>3. ss \in Seq(Seq(S))
  <2>1. ss = [i \in 1..Len(order) |-> ss[i]]
    BY <1>1 DEF AgreedOps
  <2> HIDE DEF ss
  <2>2. ss \in [1..Len(order) -> Seq(S)]
    BY <1>1, <1>2, <2>1
  <2> QED
    BY <1>1, <2>2, SeqDef, SMTT(30)
<1>4. \A i \in DOMAIN order : ss[i] = IF AgreedOn(a, b, order[i]) THEN OpsOn(a, order[i]) ELSE << >>
  BY DEF AgreedOps
<1> HIDE DEF ss
<1>5. OpsOn(FlattenSeq(ss), x) = FlattenSeq(us)
  BY <1>3, OpsOnFlatten
<1>6. ASSUME NEW i \in DOMAIN order
      PROVE  us[i] = IF order[i] = x /\ AgreedOn(a, b, x) THEN OpsOn(a, x) ELSE << >>
  <2>1. us[i] = OpsOn(ss[i], x)
    BY <1>1
  <2>2. OpsOn(OpsOn(a, order[i]), x) = IF order[i] = x THEN OpsOn(a, x) ELSE << >>
    BY OpsOnOps
  <2>3. OpsOn(<< >>, x) = << >>
    <3>1. << >> \in Seq(S) /\ x \notin Affected(<< >>)
      BY EmptySeq DEF Affected
    <3> QED
      BY <3>1, OpsOnOps
  <2>4. CASE AgreedOn(a, b, order[i])
    BY <1>4, <2>1, <2>2, <2>4
  <2>5. CASE ~AgreedOn(a, b, order[i])
    BY <1>4, <2>1, <2>3, <2>5
  <2> QED
    BY <2>4, <2>5
<1>7. us \in Seq(Seq(S)) /\ DOMAIN us = DOMAIN order
  <2>1. \A i \in DOMAIN order : us[i] \in Seq(S)
    <3>1. OpsOn(a, x) \in Seq(S) /\ << >> \in Seq(S)
      BY OpsOnOps, EmptySeq
    <3> HIDE DEF us
    <3> QED
      BY <1>6, <3>1
  <2>2. us = [i \in 1..Len(order) |-> us[i]]
    BY <1>1
  <2> HIDE DEF us
  <2>3. us \in [1..Len(order) -> Seq(S)]
    BY <1>1, <2>1, <2>2
  <2> QED
    BY <1>1, <2>2, <2>3, SeqDef
<1> HIDE DEF us
<1>8. CASE x \in ToSet(order) /\ AgreedOn(a, b, x)
  <2>1. PICK i \in DOMAIN order : order[i] = x
    BY <1>8 DEF ToSet
  <2>2. us[i] = OpsOn(a, x)
    BY <1>6, <1>8, <2>1
  <2>3. \A j \in DOMAIN us : j # i => us[j] = << >>
    BY <1>6, <1>7, <2>1
  <2>4. FlattenSeq(us) = us[i]
    BY <1>7, <2>1, <2>3, FlattenSingle, Zenon
  <2> QED
    BY <1>3, <1>5, <1>8, <2>2, <2>4 DEF ss
<1>9. CASE ~(x \in ToSet(order) /\ AgreedOn(a, b, x))
  <2>1. \A j \in DOMAIN us : us[j] = << >>
    BY <1>6, <1>7, <1>9 DEF ToSet
  <2>2. FlattenSeq(us) = << >>
    BY <1>7, <2>1, FlattenNone, Zenon
  <2> QED
    BY <1>3, <1>5, <1>9, <2>2 DEF ss
<1> QED
  BY <1>8, <1>9

(* What a result says of each node, whatever the order.                    *)
MergeSays(r, a, b, S) ==
    /\ r.merged \in Seq(S)
    /\ \A x : OpsOn(r.merged, x) = MergedOn(a, b, x)
    /\ ConflictNodes(r) = Contested(a, b)
    /\ IsClean(r) <=> Contested(a, b) = {}

(* A result keeps of each node what MergedOn tells, in whatever order the  *)
(* nodes are visited.                                                      *)
LEMMA MergeKeeps ==
    ASSUME NEW S, NEW a \in Seq(S), NEW b \in Seq(S), NEW r \in MergePatches(a, b)
    PROVE  MergeSays(r, a, b, S)
<1> DEFINE both == Affected(a) \intersect Affected(b)
<1>1. PICK order \in SetToSeqs(both) : Visit(r, a, b, order)
  BY MergeVisits
<1>2. IsFiniteSet(both)
  BY AffectedFinite, FS_Subset
<1> DEFINE p == OpsOff(a, Affected(b))
           q == OpsOff(b, Affected(a))
           f == FlattenSeq(AgreedOps(a, b, order))
<1> HIDE DEF both
<1>3. order \in Seq(both) /\ (\A i, j \in DOMAIN order : order[i] = order[j] => i = j)
      /\ ToSet(order) = both
  BY <1>2, VisitsAll
<1>4. p \in Seq(S) /\ q \in Seq(S)
  BY OpsOnOff
<1>5. AgreedOps(a, b, order) \in Seq(Seq(S))
  BY <1>3, AgreedOpsOn
<1>6. f \in Seq(S)
  BY <1>5, FlattenPairwise
<1>7. r.merged = p \o q \o f
  BY <1>1 DEF Visit
<1>8. ASSUME NEW x
      PROVE  OpsOn(r.merged, x) = MergedOn(a, b, x)
  <2>1. p \o q \in Seq(S)
    BY <1>4, ConcatProperties
  <2>2. OpsOn(f, x) = IF x \in both /\ AgreedOn(a, b, x) THEN OpsOn(a, x) ELSE << >>
    BY <1>3, AgreedOpsOn
  <2>3. OpsOn(p, x) = IF x \in Affected(b) THEN << >> ELSE OpsOn(a, x)
    BY OpsOnOps
  <2>4. OpsOn(q, x) = IF x \in Affected(a) THEN << >> ELSE OpsOn(b, x)
    BY OpsOnOps
  <2> HIDE DEF p, q, f
  <2>5. OpsOn(r.merged, x) = OpsOn(p \o q, x) \o OpsOn(f, x)
    <3> DEFINE w == p \o q
    <3> HIDE DEF w
    <3>1. w \in Seq(S)
      BY <2>1 DEF w
    <3>2. OpsOn(w \o f, x) = OpsOn(w, x) \o OpsOn(f, x)
      BY <1>6, <3>1, OpsOnConcat, SMTT(30)
    <3> QED
      BY <1>7, <3>2 DEF w
  <2>6. OpsOn(p \o q, x) = OpsOn(p, x) \o OpsOn(q, x)
    BY <1>4, OpsOnConcat, SMTT(30)
  <2> DEFINE s == OpsOn(a, x)
             u == OpsOn(b, x)
  <2>7. s \in Seq(S) /\ u \in Seq(S) /\ (x \notin Affected(a) => s = << >>)
        /\ (x \notin Affected(b) => u = << >>)
    BY OpsOnOps
  <2> HIDE DEF s, u
  <2>8. /\ << >> \o s = s /\ s \o << >> = s /\ << >> \o u = u /\ u \o << >> = u
        /\ << >> \o << >> = << >> /\ (s \o u) \o << >> = s \o u
    BY <2>7, ConcatEmptySeq, EmptySeq, ConcatProperties
  <2>9. OpsOn(r.merged, x) = (OpsOn(p, x) \o OpsOn(q, x)) \o OpsOn(f, x)
    BY <2>5, <2>6
  <2>10. OpsOn(p, x) = IF x \in Affected(b) THEN << >> ELSE s
    BY <2>3 DEF s
  <2>11. OpsOn(q, x) = IF x \in Affected(a) THEN << >> ELSE u
    BY <2>4 DEF u
  <2>12. OpsOn(f, x) = IF x \in both /\ AgreedOn(a, b, x) THEN s ELSE << >>
    BY <2>2 DEF s
  <2>13. MergedOn(a, b, x) = IF x \in both THEN IF AgreedOn(a, b, x) THEN s ELSE << >> ELSE s \o u
    BY DEF MergedOn, s, u, both
  <2>14. CASE x \in Affected(a) /\ x \in Affected(b) /\ AgreedOn(a, b, x)
    BY <2>8, <2>9, <2>10, <2>11, <2>12, <2>13, <2>14 DEF both
  <2>15. CASE x \in Affected(a) /\ x \in Affected(b) /\ ~AgreedOn(a, b, x)
    BY <2>8, <2>9, <2>10, <2>11, <2>12, <2>13, <2>15 DEF both
  <2>16. CASE x \in Affected(a) /\ x \notin Affected(b)
    BY <2>7, <2>8, <2>9, <2>10, <2>11, <2>12, <2>13, <2>16 DEF both
  <2>17. CASE x \notin Affected(a) /\ x \in Affected(b)
    BY <2>7, <2>8, <2>9, <2>10, <2>11, <2>12, <2>13, <2>17 DEF both
  <2>18. CASE x \notin Affected(a) /\ x \notin Affected(b)
    BY <2>7, <2>8, <2>9, <2>10, <2>11, <2>12, <2>13, <2>18 DEF both
  <2> QED
    BY <2>14, <2>15, <2>16, <2>17, <2>18
<1>9. r.merged \in Seq(S)
  BY <1>4, <1>6, <1>7, ConcatProperties
<1>10. ToSet(Clashing(a, b, order)) = Contested(a, b)
  <2> DEFINE V == {x \in both : ~AgreedOn(a, b, x)}
             D == {i \in DOMAIN order : ~AgreedOn(a, b, order[i])}
             E == {i \in DOMAIN order : order[i] \in V}
  <2>1. \A i \in DOMAIN order : order[i] \in both
    BY <1>3
  <2>2. D = E
    BY <2>1
  <2>3. Clashing(a, b, order) = Only(order, V)
    BY <2>2 DEF Clashing, Only
  <2>4. V = Contested(a, b)
    BY DEF Contested, both
  <2> HIDE DEF V
  <2>5. ToSet(Only(order, V)) = ToSet(order) \intersect V
    BY <1>3, OnlySet
  <2> QED
    BY <1>3, <2>3, <2>4, <2>5 DEF Contested, both
<1>11. ConflictNodes(r) = Contested(a, b)
  <2>1. DOMAIN r.conflicts = DOMAIN Clashing(a, b, order)
        /\ \A i \in DOMAIN r.conflicts : r.conflicts[i].node = Clashing(a, b, order)[i]
    BY <1>1 DEF Visit
  <2> QED
    BY <1>10, <2>1 DEF ConflictNodes, ToSet
<1>12. IsClean(r) <=> Contested(a, b) = {}
  <2> DEFINE c == Clashing(a, b, order)
             d == [i \in DOMAIN c |-> [node |-> c[i], a |-> OpsOn(a, c[i]), b |-> OpsOn(b, c[i])]]
  <2>1. r.conflicts = d
    BY <1>1 DEF Visit
  <2>2. DOMAIN c = {} <=> Contested(a, b) = {}
    BY <1>10 DEF ToSet
  <2> HIDE DEF c
  <2>3. DOMAIN d = DOMAIN c
    OBVIOUS
  <2>4. DOMAIN d = {} => d = << >>
    BY EmptySeq
  <2>5. d = << >> => DOMAIN d = {}
    BY EmptySeq
  <2> HIDE DEF d
  <2> QED
    BY <2>1, <2>2, <2>3, <2>4, <2>5 DEF IsClean
<1> HIDE DEF both, p, q, f
<1> QED
  BY <1>8, <1>9, <1>11, <1>12 DEF MergeSays

(* What is kept of a node, and which nodes are contested, does not depend  *)
(* on which patch comes first.                                             *)
LEMMA MergeIsSymmetric ==
    ASSUME NEW S, NEW a \in Seq(S), NEW b \in Seq(S)
    PROVE  /\ \A x : MergedOn(a, b, x) = MergedOn(b, a, x)
           /\ Contested(a, b) = Contested(b, a)
<1>1. \A x : OpsOn(a, x) \in Seq(S) /\ OpsOn(b, x) \in Seq(S)
  BY OpsOnOps
<1>2. ASSUME NEW x
      PROVE  /\ AgreedOn(a, b, x) <=> AgreedOn(b, a, x)
             /\ AgreedOn(a, b, x) => OpsOn(a, x) = OpsOn(b, x)
  BY <1>1, SameOpsSame DEF AgreedOn
<1>3. Contested(a, b) = Contested(b, a)
  BY <1>2 DEF Contested
<1>4. ASSUME NEW x
      PROVE  MergedOn(a, b, x) = MergedOn(b, a, x)
  <2> DEFINE s == OpsOn(a, x)
             u == OpsOn(b, x)
  <2>1. s \in Seq(S) /\ u \in Seq(S) /\ (x \notin Affected(a) => s = << >>)
        /\ (x \notin Affected(b) => u = << >>)
    BY OpsOnOps
  <2>2. << >> \o s = s /\ s \o << >> = s /\ << >> \o u = u /\ u \o << >> = u
    BY <2>1, ConcatEmptySeq
  <2>3. CASE x \in Affected(a) /\ x \in Affected(b)
    BY <1>2, <2>3 DEF MergedOn
  <2>4. CASE ~(x \in Affected(a) /\ x \in Affected(b))
    <3>1. MergedOn(a, b, x) = s \o u /\ MergedOn(b, a, x) = u \o s
      BY <2>4 DEF MergedOn
    <3> HIDE DEF s, u
    <3> QED
      BY <2>1, <2>2, <2>4, <3>1
  <2> QED
    BY <2>3, <2>4
<1> QED
  BY <1>3, <1>4

(* The patches from one tree to two others can be merged and applied to it.*)
LEMMA TwoDiffs ==
    ASSUME NEW b, IsTree(b), NEW t, IsTree(t), NEW u, IsTree(u)
    PROVE  /\ SafeFor(b, DiffOps(b, t) \union DiffOps(b, u))
           /\ DiffTrees(b, t) \in Seq(DiffOps(b, t) \union DiffOps(b, u))
           /\ DiffTrees(b, u) \in Seq(DiffOps(b, t) \union DiffOps(b, u))
<1>1. SafeFor(b, DiffOps(b, t) \union DiffOps(b, u))
  BY DiffOpsFields DEF SafeFor
<1>2. DiffTrees(b, t) \in Seq(DiffOps(b, t)) /\ DiffTrees(b, u) \in Seq(DiffOps(b, u))
  BY DiffTreesIsPatch DEF IsPatch
<1>3. DiffTrees(b, t) \in Seq(DiffOps(b, t) \union DiffOps(b, u))
  BY <1>2, SeqMonotonic
<1>4. DiffTrees(b, u) \in Seq(DiffOps(b, t) \union DiffOps(b, u))
  BY <1>2, SeqMonotonic
<1> QED
  BY <1>1, <1>3, <1>4

(* Two results that agree on every node give trees that say the same.      *)
LEMMA MergesAgree ==
    ASSUME NEW b, IsTree(b), NEW S, SafeFor(b, S), NEW p \in Seq(S), NEW q \in Seq(S),
           NEW r, r \in MergePatches(p, q),
           NEW s, s \in MergePatches(p, q) \/ s \in MergePatches(q, p)
    PROVE  /\ ConflictNodes(r) = ConflictNodes(s)
           /\ IsClean(r) <=> IsClean(s)
           /\ IsTree(ApplyPatch(b, r.merged))
           /\ Canon(ApplyPatch(b, r.merged), RootId) = Canon(ApplyPatch(b, s.merged), RootId)
           /\ HashedText(ApplyPatch(b, r.merged), RootId)
                = HashedText(ApplyPatch(b, s.merged), RootId)
<1>1. MergeSays(r, p, q, S)
  BY MergeKeeps
<1>2. MergeSays(s, p, q, S) \/ MergeSays(s, q, p, S)
  BY MergeKeeps
<1>3. /\ \A x : MergedOn(p, q, x) = MergedOn(q, p, x)
      /\ Contested(p, q) = Contested(q, p)
  BY MergeIsSymmetric
<1>4. /\ r.merged \in Seq(S) /\ s.merged \in Seq(S)
      /\ \A x : OpsOn(r.merged, x) = OpsOn(s.merged, x)
      /\ ConflictNodes(r) = ConflictNodes(s) /\ (IsClean(r) <=> IsClean(s))
  BY <1>1, <1>2, <1>3 DEF MergeSays
<1>5. SameOn(b, r.merged, s.merged)
  BY <1>4 DEF SameOn
<1>6. Effect(ApplyPatch(b, r.merged), b, r.merged)
  BY <1>4, PatchEffect
<1>7. Effect(ApplyPatch(b, s.merged), b, s.merged)
  BY <1>4, PatchEffect
<1> DEFINE t == ApplyPatch(b, r.merged)
           u == ApplyPatch(b, s.merged)
           m == r.merged
           n == s.merged
<1>8. m \in Seq(S) /\ n \in Seq(S)
  BY <1>4
<1>9. SameOn(b, m, n) /\ Effect(t, b, m) /\ Effect(u, b, n)
  BY <1>5, <1>6, <1>7
<1> HIDE DEF t, u, m, n
<1>10. Canon(t, RootId) = Canon(u, RootId) /\ HashedText(t, RootId) = HashedText(u, RootId)
  BY <1>8, <1>9, EffectsAlike
<1>11. IsTree(t)
  BY <1>9 DEF Effect
<1> QED
  BY <1>4, <1>10, <1>11 DEF t, u

----------------------------------------------------------------------------
(* The matching of diff_trees, said of the lists of same-key siblings: the *)
(* k-th of a key in the old list meets the k-th in the new one.            *)

(* How many positions of I there are up to i.                              *)
RankIn(I, i) == Cardinality({j \in I : j <= i})

(* The position of the k-th entry that is kept has rank k.                 *)
LEMMA PickedRank ==
    ASSUME NEW S, NEW s \in Seq(S), NEW I \in SUBSET (DOMAIN s),
           NEW r, r = Retain(s, I), NEW at, Picks(at, r, s, I), NEW k \in DOMAIN r
    PROVE  RankIn(I, at[k]) = k
<1> DEFINE U == {j \in I : j <= at[k]}
           f == [j \in 1..k |-> at[j]]
<1>1. r \in Seq(S) /\ DOMAIN r = 1..Len(r) /\ Len(r) \in Nat
  BY RetainProperties
<1>2. /\ at \in [DOMAIN r -> I]
      /\ \A i, j \in DOMAIN r : i < j => at[i] < at[j]
      /\ \A i \in I : \E j \in DOMAIN r : at[j] = i
  BY DEF Picks
<1>3. I \subseteq Nat
  OBVIOUS
<1>4. k \in DOMAIN r
  OBVIOUS
<1>5. k \in Nat /\ k \in 1..Len(r) /\ \A j \in 1..k : j \in DOMAIN r
  BY <1>1, <1>4
<1>6. \A j \in DOMAIN r : at[j] \in Nat /\ (j <= k <=> at[j] <= at[k])
  <2> TAKE j \in DOMAIN r
  <2>1. at[j] \in Nat /\ at[k] \in Nat /\ j \in Nat
    BY <1>1, <1>2, <1>3, <1>4
  <2>2. (j < k => at[j] < at[k]) /\ (k < j => at[k] < at[j])
    BY <1>2, <1>4
  <2> QED
    BY <1>5, <2>1, <2>2
<1>7. f \in [1..k -> U]
  BY <1>2, <1>5, <1>6
<1>8. \A i, j \in 1..k : f[i] = f[j] => i = j
  <2> TAKE i \in 1..k, j \in 1..k
  <2>1. i \in Nat /\ j \in Nat /\ at[i] \in Nat /\ at[j] \in Nat
    BY <1>5, <1>6
  <2>2. (i < j => at[i] < at[j]) /\ (j < i => at[j] < at[i])
    BY <1>2, <1>5
  <2> QED
    BY <2>1, <2>2
<1>9. \A u \in U : \E j \in 1..k : f[j] = u
  <2> TAKE u \in U
  <2>1. PICK j \in DOMAIN r : at[j] = u
    BY <1>2
  <2>2. j <= k /\ j \in 1..k
    BY <1>1, <1>5, <1>6, <2>1
  <2> QED
    BY <2>1, <2>2
<1>10. f \in Bijection(1..k, U)
  <2> HIDE DEF f, U
  <2> QED
    BY <1>7, <1>8, <1>9 DEF Bijection, Injection, Surjection, IsInjective
<1>11. IsFiniteSet(1..k) /\ Cardinality(1..k) = k
  BY <1>5, FS_Interval
<1>12. ExistsBijection(1..k, U)
  BY <1>10 DEF ExistsBijection
<1> HIDE DEF U
<1>13. Cardinality(U) = Cardinality(1..k)
  BY <1>11, <1>12, FS_Bijection
<1> QED
  BY <1>11, <1>13 DEF U, RankIn

(* Where the siblings with a key are in the child list of their parent.    *)
Standing(t, x, key, at) ==
    /\ \A k \in DOMAIN Siblings(t, x, key) :
          /\ at[k] \in DOMAIN t.node[x].children
          /\ Siblings(t, x, key)[k] = t.node[x].children[at[k]]
          /\ Rank(t, t.node[x].children, at[k]) = k
    /\ \A i \in DOMAIN t.node[x].children :
          Key(t, t.node[x].children[i]) = key =>
              \E k \in DOMAIN Siblings(t, x, key) : at[k] = i

(* Rank numbers the same-key siblings.                                     *)
LEMMA SiblingsStand ==
    ASSUME NEW t, IsTree(t), NEW x \in DOMAIN t.node, NEW key
    PROVE  \E at : Standing(t, x, key, at)
<1> DEFINE s == t.node[x].children
           I == {i \in DOMAIN s : IsLive(t, s[i]) /\ Key(t, s[i]) = key}
           r == Siblings(t, x, key)
<1>1. s \in Seq(Nat) /\ \A i \in DOMAIN s : IsLive(t, s[i])
  <2>1. s \in Seq(Nat)
    BY TreeFacts DEF Lists
  <2>2. \A c \in ToSet(s) : c \in DOMAIN t.node
    BY TreeFacts DEF KidsOf, ChildrenOf, IsLive
  <2> QED
    BY <2>1, <2>2 DEF ToSet, IsLive
<1>2. r = Retain(s, I)
  BY DEF Siblings
<1>3. I \in SUBSET (DOMAIN s) /\ \A i \in I : Key(t, s[i]) = key
  OBVIOUS
<1>4. \A i \in DOMAIN s : i \in I <=> Key(t, s[i]) = key
  BY <1>1
<1>5. ASSUME NEW i \in I
      PROVE  {j \in 1..i : IsLive(t, s[j]) /\ Key(t, s[j]) = Key(t, s[i])} = {j \in I : j <= i}
  <2>1. DOMAIN s = 1..Len(s) /\ Len(s) \in Nat
    BY <1>1
  <2>2. i \in Nat /\ i \in DOMAIN s /\ i >= 1 /\ i <= Len(s)
    BY <1>3, <2>1
  <2>3. \A j : j \in 1..i <=> j \in DOMAIN s /\ j <= i
    BY <2>1, <2>2
  <2>4. Key(t, s[i]) = key
    BY <1>3
  <2> HIDE DEF s
  <2>5. \A j : j \in I <=> j \in DOMAIN s /\ IsLive(t, s[j]) /\ Key(t, s[j]) = key
    OBVIOUS
  <2> HIDE DEF I
  <2> QED
    BY <2>3, <2>4, <2>5
<1>6. \A i \in I : Rank(t, s, i) = RankIn(I, i)
  BY <1>5 DEF Rank, RankIn
<1> HIDE DEF s, I, r
<1>7. \E at : Picks(at, Retain(s, I), s, I)
  BY <1>1, <1>3, RetainProperties
<1>8. PICK at : Picks(at, Retain(s, I), s, I)
  BY <1>7
<1>9. ASSUME NEW k \in DOMAIN r
      PROVE  RankIn(I, at[k]) = k
  <2>1. s \in Seq(Nat) /\ I \in SUBSET (DOMAIN s)
    BY <1>1, <1>3
  <2>2. Picks(at, r, s, I)
    BY <1>2, <1>8
  <2> QED
    BY <1>2, <2>1, <2>2, PickedRank
<1>10. /\ at \in [DOMAIN r -> I] /\ \A k \in DOMAIN r : r[k] = s[at[k]]
       /\ \A i \in I : \E k \in DOMAIN r : at[k] = i
  BY <1>2, <1>8 DEF Picks
<1>11. \A k \in DOMAIN r : at[k] \in DOMAIN s /\ r[k] = s[at[k]] /\ Rank(t, s, at[k]) = k
  BY <1>3, <1>6, <1>9, <1>10
<1>12. \A i \in DOMAIN s : Key(t, s[i]) = key => \E k \in DOMAIN r : at[k] = i
  BY <1>4, <1>10
<1> QED
  BY <1>11, <1>12 DEF Standing, s, r

(* A sibling with a key is a child, and has the key.                       *)
LEMMA SiblingIs ==
    ASSUME NEW t, IsTree(t), NEW x \in DOMAIN t.node, NEW key,
           NEW k \in DOMAIN Siblings(t, x, key), NEW c, c = Siblings(t, x, key)[k]
    PROVE  c \in KidsOf(t, x) /\ c \in DOMAIN t.node /\ Key(t, c) = key
<1>1. \A i \in DOMAIN Siblings(t, x, key) :
          /\ Siblings(t, x, key)[i] \in KidsOf(t, x)
          /\ Siblings(t, x, key)[i] \in DOMAIN t.node
          /\ Key(t, Siblings(t, x, key)[i]) = key
  BY SiblingsOf
<1> QED
  BY <1>1

(* No child is twice among the siblings.                                   *)
LEMMA SiblingsDiffer ==
    ASSUME NEW t, IsTree(t), NEW x \in DOMAIN t.node, NEW key,
           NEW j \in DOMAIN Siblings(t, x, key), NEW k \in DOMAIN Siblings(t, x, key),
           Siblings(t, x, key)[j] = Siblings(t, x, key)[k]
    PROVE  j = k
<1>1. PICK at : Standing(t, x, key, at)
  BY SiblingsStand
<1>2. IsInjective(t.node[x].children)
  BY TreeFacts DEF Agreed
<1>3. at[j] = at[k]
  BY <1>1, <1>2 DEF Standing, IsInjective
<1> QED
  BY <1>1, <1>3 DEF Standing

(* Every child is among the siblings with its key.                         *)
LEMMA ChildIsSibling ==
    ASSUME NEW t, IsTree(t), NEW x \in DOMAIN t.node, NEW c \in KidsOf(t, x)
    PROVE  \E k \in DOMAIN Siblings(t, x, Key(t, c)) : Siblings(t, x, Key(t, c))[k] = c
<1>1. PICK i \in DOMAIN t.node[x].children : t.node[x].children[i] = c
  BY DEF KidsOf, ChildrenOf, IsLive, ToSet
<1>2. PICK at : Standing(t, x, Key(t, c), at)
  BY SiblingsStand
<1> QED
  BY <1>1, <1>2 DEF Standing

----------------------------------------------------------------------------
(* The pairs of children that the first pass of diff_subtree matches.      *)
Meets(old, new, o, n) ==
    {<<old.node[o].children[q[1]], new.node[n].children[q[2]]>> :
        q \in Matches(old, new, old.node[o].children, new.node[n].children)}

(* x and y are the k-th of a key among the children of o and n.            *)
Meet(old, new, o, n, key, k, x, y) ==
    /\ k \in DOMAIN Siblings(old, o, key) /\ x = Siblings(old, o, key)[k]
    /\ k \in DOMAIN Siblings(new, n, key) /\ y = Siblings(new, n, key)[k]

(* The k-th old child of a key meets the k-th new child of it.             *)
LEMMA MeetsAreSiblings ==
    ASSUME NEW old, IsTree(old), NEW new, IsTree(new),
           NEW o \in DOMAIN old.node, NEW n \in DOMAIN new.node, NEW x, NEW y
    PROVE  <<x, y>> \in Meets(old, new, o, n) <=>
               \E key, k : Meet(old, new, o, n, key, k, x, y)
<1> DEFINE os == old.node[o].children
           ns == new.node[n].children
<1>1. ASSUME <<x, y>> \in Meets(old, new, o, n)
      PROVE  \E key, k : Meet(old, new, o, n, key, k, x, y)
  <2>1. PICK q \in Matches(old, new, os, ns) : x = os[q[1]] /\ y = ns[q[2]]
    BY <1>1 DEF Meets
  <2> DEFINE i == q[1]
             j == q[2]
             key == Key(old, os[i])
  <2>2. /\ i \in DOMAIN os /\ j \in DOMAIN ns
        /\ key = Key(new, ns[j]) /\ Rank(old, os, i) = Rank(new, ns, j)
    BY DEF Matches
  <2>3. PICK at : Standing(old, o, key, at)
    BY SiblingsStand
  <2>4. PICK bt : Standing(new, n, key, bt)
    BY SiblingsStand
  <2>5. PICK k \in DOMAIN Siblings(old, o, key) : at[k] = i
    BY <2>2, <2>3 DEF Standing
  <2>6. PICK m \in DOMAIN Siblings(new, n, key) : bt[m] = j
    BY <2>2, <2>4 DEF Standing
  <2>7. Rank(old, os, i) = k /\ Siblings(old, o, key)[k] = os[i]
    BY <2>3, <2>5 DEF Standing
  <2>8. Rank(new, ns, j) = m /\ Siblings(new, n, key)[m] = ns[j]
    BY <2>4, <2>6 DEF Standing
  <2> HIDE DEF i, j, key, os, ns
  <2>9. k = m
    BY <2>2, <2>7, <2>8
  <2>10. x = os[i] /\ y = ns[j]
    BY <2>1 DEF i, j
  <2>11. Meet(old, new, o, n, key, k, x, y)
    BY <2>5, <2>6, <2>7, <2>8, <2>9, <2>10 DEF Meet
  <2> QED
    BY <2>11
<1>2. ASSUME NEW key, NEW k, Meet(old, new, o, n, key, k, x, y)
      PROVE  <<x, y>> \in Meets(old, new, o, n)
  <2>1. PICK at : Standing(old, o, key, at)
    BY SiblingsStand
  <2>2. PICK bt : Standing(new, n, key, bt)
    BY SiblingsStand
  <2> DEFINE i == at[k]
             j == bt[k]
  <2>3. /\ i \in DOMAIN os /\ x = os[i] /\ Rank(old, os, i) = k
        /\ j \in DOMAIN ns /\ y = ns[j] /\ Rank(new, ns, j) = k
    BY <1>2, <2>1, <2>2 DEF Standing, Meet
  <2>4. /\ x \in DOMAIN old.node /\ Key(old, x) = key
        /\ y \in DOMAIN new.node /\ Key(new, y) = key
    BY <1>2, SiblingIs DEF Meet
  <2> HIDE DEF i, j, os, ns
  <2>5. <<i, j>> \in Matches(old, new, os, ns)
    BY <2>3, <2>4 DEF Matches, IsLive
  <2>6. <<x, y>> = <<os[<<i, j>>[1]], ns[<<i, j>>[2]]>>
    BY <2>3
  <2> QED
    BY <2>5, <2>6 DEF Meets, os, ns
<1> QED
  BY <1>1, <1>2

(* No node has two partners.                                               *)
OneToOne(M) ==
    /\ \A x, y, z : <<x, y>> \in M /\ <<x, z>> \in M => y = z
    /\ \A x, y, z : <<x, y>> \in M /\ <<z, y>> \in M => x = z

(* What is matched are children with the same key, one to one.             *)
LEMMA MeetsFacts ==
    ASSUME NEW old, IsTree(old), NEW new, IsTree(new),
           NEW o \in DOMAIN old.node, NEW n \in DOMAIN new.node
    PROVE  /\ Meets(old, new, o, n) \subseteq KidsOf(old, o) \X KidsOf(new, n)
           /\ \A x, y : <<x, y>> \in Meets(old, new, o, n) => Key(old, x) = Key(new, y)
           /\ OneToOne(Meets(old, new, o, n))
<1> DEFINE M == Meets(old, new, o, n)
<1>1. \A w \in M : w = <<w[1], w[2]>>
  BY DEF Meets
<1>2. ASSUME NEW x, NEW y, NEW key, NEW k, Meet(old, new, o, n, key, k, x, y)
      PROVE  /\ x \in KidsOf(old, o) /\ Key(old, x) = key
             /\ y \in KidsOf(new, n) /\ Key(new, y) = key
  BY <1>2, SiblingIs DEF Meet
<1>3. \A x, y : <<x, y>> \in M => \E key, k : Meet(old, new, o, n, key, k, x, y)
  BY MeetsAreSiblings
<1> HIDE DEF M
<1>4. \A x, y : <<x, y>> \in M => /\ x \in KidsOf(old, o) /\ y \in KidsOf(new, n)
                                  /\ Key(old, x) = Key(new, y)
  BY <1>2, <1>3
<1>5. ASSUME NEW x, NEW y, NEW z, <<x, y>> \in M, <<x, z>> \in M
      PROVE  y = z
  <2>1. PICK key, k : Meet(old, new, o, n, key, k, x, y)
    BY <1>3, <1>5
  <2>2. PICK kez, l : Meet(old, new, o, n, kez, l, x, z)
    BY <1>3, <1>5
  <2>3. kez = key
    BY <1>2, <2>1, <2>2
  <2>4. k = l
    BY <2>1, <2>2, <2>3, SiblingsDiffer DEF Meet
  <2> QED
    BY <2>1, <2>2, <2>3, <2>4 DEF Meet
<1>6. ASSUME NEW x, NEW y, NEW z, <<x, y>> \in M, <<z, y>> \in M
      PROVE  x = z
  <2>1. PICK key, k : Meet(old, new, o, n, key, k, x, y)
    BY <1>3, <1>6
  <2>2. PICK kez, l : Meet(old, new, o, n, kez, l, z, y)
    BY <1>3, <1>6
  <2>3. kez = key
    BY <1>2, <2>1, <2>2
  <2>4. k = l
    BY <2>1, <2>2, <2>3, SiblingsDiffer DEF Meet
  <2> QED
    BY <2>1, <2>2, <2>3, <2>4 DEF Meet
<1>7. M \subseteq KidsOf(old, o) \X KidsOf(new, n)
  <2> SUFFICES ASSUME NEW w \in M
               PROVE  w \in KidsOf(old, o) \X KidsOf(new, n)
    OBVIOUS
  <2>1. w = <<w[1], w[2]>>
    BY <1>1
  <2> QED
    BY <1>4, <2>1
<1>8. OneToOne(M)
  BY <1>5, <1>6 DEF OneToOne
<1>9. \A x, y : <<x, y>> \in M => Key(old, x) = Key(new, y)
  BY <1>4
<1> QED
  BY <1>7, <1>8, <1>9 DEF M

----------------------------------------------------------------------------
(* The pairs of nodes that one diff makes, from the roots down.            *)

(* The pairs below a pair come from the children that meet.                *)
LEMMA PairsBelowMeets ==
    ASSUME NEW g, NEW old, NEW new, NEW o, NEW n
    PROVE  PairsBelow(g, old, new, o, n) =
               {<<o, n>>} \union UNION {g[w] : w \in Meets(old, new, o, n)}
<1> DEFINE os == old.node[o].children
           ns == new.node[n].children
           M == Matches(old, new, os, ns)
           X == {g[<<os[q[1]], ns[q[2]]>>] : q \in M}
           Y == {g[w] : w \in Meets(old, new, o, n)}
<1>1. Meets(old, new, o, n) = {<<os[q[1]], ns[q[2]]>> : q \in M}
  BY DEF Meets
<1>2. PairsBelow(g, old, new, o, n) = {<<o, n>>} \union UNION X
  BY DEF PairsBelow
<1> HIDE DEF M
<1>3. X = Y
  BY <1>1
<1> QED
  BY <1>2, <1>3

(* g gives for each two nodes the pairs below them.                        *)
IsPairing(g, old, new) ==
    g = [p \in (DOMAIN old.node) \X (DOMAIN new.node) |->
            PairsBelow(g, old, new, p[1], p[2])]

(* There is such a g: the recursion over the old tree comes to an end.     *)
LEMMA PairingExists ==
    ASSUME NEW old, IsTree(old), NEW new, IsTree(new)
    PROVE  \E g : IsPairing(g, old, new)
<1> DEFINE A == DOMAIN old.node
           B == DOMAIN new.node
           table(g) == [p \in A \X B |-> PairsBelow(g, old, new, p[1], p[2])]
           Holds(g, n) == \A o \in A, y \in B :
                              o + n >= old.next => g[<<o, y>>] = PairsBelow(g, old, new, o, y)
           T == {n \in Nat : \E g : Holds(g, n)}
<1>1. /\ old.next \in Nat /\ A \subseteq Nat /\ \A x \in A : x < old.next
      /\ \A x, c : c \in KidsOf(old, x) => x \in A /\ c \in A /\ x < c
      /\ \A x, c : c \in KidsOf(new, x) => c \in B
  BY TreeFacts
<1>2. ASSUME NEW o \in A, NEW y \in B, NEW g, NEW h,
             \A c \in KidsOf(old, o) : \A z \in B : g[<<c, z>>] = h[<<c, z>>]
      PROVE  PairsBelow(g, old, new, o, y) = PairsBelow(h, old, new, o, y)
  <2> DEFINE M == Meets(old, new, o, y)
  <2>1. \A w \in M : w \in KidsOf(old, o) \X B
    BY <1>1, MeetsFacts
  <2>2. \A w \in M : g[w] = h[w]
    BY <1>2, <2>1
  <2>3. {g[w] : w \in M} = {h[w] : w \in M}
    BY <2>2
  <2> QED
    BY <2>3, PairsBelowMeets
<1>3. ASSUME NEW n \in Nat, NEW g, Holds(g, n)
      PROVE  Holds(table(g), n + 1)
  <2> DEFINE h == table(g)
  <2>1. \A o \in A, y \in B : h[<<o, y>>] = PairsBelow(g, old, new, o, y)
    OBVIOUS
  <2> HIDE DEF h
  <2>2. ASSUME NEW x \in A, NEW y \in B, x + (n + 1) >= old.next
        PROVE  h[<<x, y>>] = PairsBelow(h, old, new, x, y)
    <3>1. ASSUME NEW c \in KidsOf(old, x), NEW z \in B
          PROVE  g[<<c, z>>] = h[<<c, z>>]
      <4>1. c \in A /\ c \in Nat /\ x \in Nat /\ c > x
        BY <1>1
      <4>2. c + n >= old.next
        BY <1>1, <2>2, <4>1
      <4> QED
        BY <1>3, <2>1, <4>1, <4>2
    <3>2. PairsBelow(g, old, new, x, y) = PairsBelow(h, old, new, x, y)
      BY <1>2, <3>1
    <3> QED
      BY <2>1, <3>2
  <2> QED
    BY <2>2 DEF h
<1>4. old.next \in T
  <2>1. 0 \in T
    <3>1. Holds(0, 0)
      BY <1>1
    <3> HIDE DEF Holds
    <3> QED
      BY <3>1
  <2>2. ASSUME NEW n \in Nat, n \in T
        PROVE  n + 1 \in T
    <3> HIDE DEF Holds, table
    <3>1. PICK g : Holds(g, n)
      BY <2>2
    <3>2. Holds(table(g), n + 1)
      BY <1>3, <3>1
    <3> QED
      BY <3>2
  <2> HIDE DEF T
  <2> QED
    BY <1>1, <2>1, <2>2, SetInduction
<1>5. PICK g : Holds(g, old.next)
  <2> HIDE DEF Holds
  <2> QED
    BY <1>4
<1>6. \A o \in A, y \in B : g[<<o, y>>] = PairsBelow(g, old, new, o, y)
  <2>1. \A o \in A : o + old.next >= old.next
    BY <1>1
  <2> QED
    BY <1>5, <2>1
<1> DEFINE h == table(g)
<1>7. \A o \in A, y \in B : h[<<o, y>>] = g[<<o, y>>]
  BY <1>6
<1>8. \A o \in A, y \in B : PairsBelow(g, old, new, o, y) = PairsBelow(h, old, new, o, y)
  <2> TAKE o \in A, y \in B
  <2>1. \A c \in KidsOf(old, o) : \A z \in B : g[<<c, z>>] = h[<<c, z>>]
    BY <1>1, <1>7
  <2> HIDE DEF h
  <2> QED
    BY <1>2, <2>1
<1>9. h = table(h)
  <2> HIDE DEF h
  <2>1. h = table(g)
    BY DEF h
  <2> QED
    BY <1>8, <2>1
<1> HIDE DEF h
<1> QED
  BY <1>9 DEF IsPairing

(* A set of pairs that leads from <<o, n>> down through what is matched.   *)
PairsFrom(P, old, new, o, n) ==
    /\ <<o, n>> \in P
    /\ P \subseteq (DOMAIN old.node) \X (DOMAIN new.node)
    /\ \A x, y : <<x, y>> \in P => Meets(old, new, x, y) \subseteq P
    /\ \A x, y : <<x, y>> \in P =>
          \/ x = o /\ y = n
          \/ \E w, z : <<w, z>> \in P /\ <<x, y>> \in Meets(old, new, w, z)

(* The pairs of a diff lead down from the roots.                           *)
LEMMA PairedLeads ==
    ASSUME NEW old, IsTree(old), NEW new, IsTree(new)
    PROVE  PairsFrom(Paired(old, new), old, new, RootId, RootId)
<1> DEFINE A == DOMAIN old.node
           B == DOMAIN new.node
           g == CHOOSE g : IsPairing(g, old, new)
           T == {n \in Nat : \A o \in A, y \in B :
                                o + n >= old.next => PairsFrom(g[<<o, y>>], old, new, o, y)}
<1>1. /\ old.next \in Nat /\ A \subseteq Nat /\ \A x \in A : x < old.next
      /\ RootId \in A /\ RootId \in B
      /\ \A x, c : c \in KidsOf(old, x) => x \in A /\ c \in A /\ x < c
      /\ \A x, c : c \in KidsOf(new, x) => c \in B
  BY TreeFacts
<1>2. IsPairing(g, old, new)
  BY PairingExists
<1>3. Paired(old, new) = g[<<RootId, RootId>>]
  BY Zenon DEF Paired, IsPairing
<1> HIDE DEF g
<1>4. \A o \in A, y \in B : g[<<o, y>>] = PairsBelow(g, old, new, o, y)
  BY <1>2 DEF IsPairing
<1>5. 0 \in T
  BY <1>1
<1>6. ASSUME NEW n \in Nat, n \in T
      PROVE  n + 1 \in T
  <2> SUFFICES ASSUME NEW o \in A, NEW y \in B, o + (n + 1) >= old.next
               PROVE  PairsFrom(g[<<o, y>>], old, new, o, y)
    OBVIOUS
  <2> DEFINE M == Meets(old, new, o, y)
             P == g[<<o, y>>]
  <2>1. M \subseteq KidsOf(old, o) \X B
    BY <1>1, MeetsFacts
  <2>2. P = {<<o, y>>} \union UNION {g[w] : w \in M}
    BY <1>4, PairsBelowMeets
  <2>3. ASSUME NEW c, NEW z, <<c, z>> \in M
        PROVE  PairsFrom(g[<<c, z>>], old, new, c, z)
    <3>1. c \in KidsOf(old, o) /\ z \in B
      BY <2>1, <2>3
    <3>2. c \in A /\ c \in Nat /\ o \in Nat /\ c > o
      BY <1>1, <3>1
    <3>3. c + n >= old.next
      BY <1>1, <3>2
    <3> QED
      BY <1>6, <3>1, <3>2, <3>3
  <2> HIDE DEF M, P
  <2>4. \A w \in M : w = <<w[1], w[2]>>
    BY <2>1
  <2>5. ASSUME NEW p
        PROVE  p \in P <=> p = <<o, y>> \/ \E c, z : <<c, z>> \in M /\ p \in g[<<c, z>>]
    <3>1. p \in P <=> p = <<o, y>> \/ \E w \in M : p \in g[w]
      BY <2>2
    <3>2. ASSUME NEW w \in M, p \in g[w]
          PROVE  \E c, z : <<c, z>> \in M /\ p \in g[<<c, z>>]
      <4>1. w = <<w[1], w[2]>>
        BY <2>4
      <4>2. <<w[1], w[2]>> \in M /\ p \in g[<<w[1], w[2]>>]
        BY <3>2, <4>1
      <4> QED
        BY <4>2
    <3> QED
      BY <3>1, <3>2
  <2>6. <<o, y>> \in P
    BY <2>5
  <2>7. P \subseteq A \X B
    <3> SUFFICES ASSUME NEW p \in P
                 PROVE  p \in A \X B
      OBVIOUS
    <3>1. CASE p = <<o, y>>
      BY <3>1
    <3>2. ASSUME NEW c, NEW z, <<c, z>> \in M, p \in g[<<c, z>>]
          PROVE  p \in A \X B
      BY <2>3, <3>2 DEF PairsFrom
    <3> QED
      BY <2>5, <3>1, <3>2
  <2>8. M \subseteq P
    <3> SUFFICES ASSUME NEW w \in M
                 PROVE  w \in P
      OBVIOUS
    <3>1. w = <<w[1], w[2]>>
      BY <2>4
    <3>2. <<w[1], w[2]>> \in g[<<w[1], w[2]>>]
      BY <2>3, <3>1 DEF PairsFrom
    <3> QED
      BY <2>5, <3>1, <3>2
  <2>9. ASSUME NEW x, NEW z, <<x, z>> \in P
        PROVE  Meets(old, new, x, z) \subseteq P
    <3>1. CASE <<x, z>> = <<o, y>>
      BY <2>8, <3>1 DEF M
    <3>2. ASSUME NEW c, NEW d, <<c, d>> \in M, <<x, z>> \in g[<<c, d>>]
          PROVE  Meets(old, new, x, z) \subseteq P
      <4>1. Meets(old, new, x, z) \subseteq g[<<c, d>>]
        BY <2>3, <3>2 DEF PairsFrom
      <4> QED
        BY <2>5, <3>2, <4>1
    <3> QED
      BY <2>5, <2>9, <3>1, <3>2
  <2>10. ASSUME NEW x, NEW z, <<x, z>> \in P, ~(x = o /\ z = y)
         PROVE  \E v, w : <<v, w>> \in P /\ <<x, z>> \in Meets(old, new, v, w)
    <3>1. PICK c, d : <<c, d>> \in M /\ <<x, z>> \in g[<<c, d>>]
      BY <2>5, <2>10
    <3>2. PairsFrom(g[<<c, d>>], old, new, c, d)
      BY <2>3, <3>1
    <3>3. CASE x = c /\ z = d
      BY <2>6, <3>1, <3>3 DEF M
    <3>4. CASE ~(x = c /\ z = d)
      <4>1. PICK v, w : <<v, w>> \in g[<<c, d>>] /\ <<x, z>> \in Meets(old, new, v, w)
        BY <3>1, <3>2, <3>4 DEF PairsFrom
      <4> QED
        BY <2>5, <3>1, <4>1
    <3> QED
      BY <3>3, <3>4
  <2>11. PairsFrom(P, old, new, o, y)
    BY <2>6, <2>7, <2>9, <2>10 DEF PairsFrom
  <2> QED
    BY <2>11 DEF P
<1>7. old.next \in T
  <2> HIDE DEF T
  <2> QED
    BY <1>1, <1>5, <1>6, SetInduction
<1>8. RootId + old.next >= old.next
  BY <1>1
<1> QED
  BY <1>1, <1>3, <1>7, <1>8

(* The pairing is one to one, and a node is not paired unless its parent   *)
(* is, with the parent of its partner.                                     *)
LEMMA PairedOneToOne ==
    ASSUME NEW old, IsTree(old), NEW new, IsTree(new)
    PROVE  OneToOne(Paired(old, new))
<1> DEFINE P == Paired(old, new)
           A == DOMAIN old.node
           B == DOMAIN new.node
<1>1. PairsFrom(P, old, new, RootId, RootId)
  BY PairedLeads
<1> HIDE DEF P
<1>2. /\ A \subseteq Nat /\ B \subseteq Nat /\ RootId = 0
      /\ \A x, c : c \in KidsOf(old, x) => x \in A /\ c \in A /\ old.parent[c] = x /\ x < c
      /\ \A x, c : c \in KidsOf(new, x) => x \in B /\ c \in B /\ new.parent[c] = x /\ x < c
  BY TreeFacts DEF RootId
<1>3. \A x, y : <<x, y>> \in P =>
          /\ x \in A /\ y \in B
          /\ \/ x = 0 /\ y = 0
             \/ /\ x # 0 /\ y # 0
                /\ \E w, z : <<w, z>> \in P /\ <<x, y>> \in Meets(old, new, w, z)
                             /\ x \in KidsOf(old, w) /\ y \in KidsOf(new, z)
  <2> SUFFICES ASSUME NEW x, NEW y, <<x, y>> \in P, ~(x = 0 /\ y = 0)
               PROVE  /\ x # 0 /\ y # 0
                      /\ \E w, z : <<w, z>> \in P /\ <<x, y>> \in Meets(old, new, w, z)
                                   /\ x \in KidsOf(old, w) /\ y \in KidsOf(new, z)
    BY <1>1 DEF PairsFrom
  <2>1. PICK w, z : <<w, z>> \in P /\ <<x, y>> \in Meets(old, new, w, z)
    BY <1>1, <1>2 DEF PairsFrom
  <2>2. w \in A /\ z \in B
    BY <1>1, <2>1 DEF PairsFrom
  <2>3. x \in KidsOf(old, w) /\ y \in KidsOf(new, z)
    BY <2>1, <2>2, MeetsFacts
  <2>4. w < x /\ z < y /\ w \in Nat /\ z \in Nat
    BY <1>2, <2>2, <2>3
  <2> QED
    BY <2>1, <2>3, <2>4
<1>a. \A x, y : <<x, y>> \in P => x \in Nat /\ y \in Nat
  <2> SUFFICES ASSUME NEW x, NEW y, <<x, y>> \in P
               PROVE  x \in Nat /\ y \in Nat
    OBVIOUS
  <2> HIDE DEF A, B
  <2>1. x \in A /\ y \in B
    BY <1>3
  <2> QED
    BY <1>2, <2>1
<1>b. \A x, y : <<x, y>> \in P /\ (x = 0 \/ y = 0) => x = 0 /\ y = 0
  <2> SUFFICES ASSUME NEW x, NEW y, <<x, y>> \in P, x = 0 \/ y = 0
               PROVE  x = 0 /\ y = 0
    OBVIOUS
  <2>1. \/ x = 0 /\ y = 0
        \/ x # 0 /\ y # 0
    BY <1>3
  <2> QED
    BY <2>1
<1>4. ASSUME NEW w \in A, NEW z \in B
      PROVE  OneToOne(Meets(old, new, w, z))
  BY MeetsFacts
<1>5. \A x, y, z : <<x, y>> \in P /\ <<x, z>> \in P => y = z
  <2> DEFINE T == {n \in Nat : \A x, y, z :
                      <<x, y>> \in P /\ <<x, z>> \in P /\ x < n => y = z}
  <2>1. 0 \in T
    <3>1. \A n \in Nat : ~(n < 0)
      OBVIOUS
    <3> QED
      BY <1>a, <3>1
  <2>2. ASSUME NEW n \in Nat, n \in T
        PROVE  n + 1 \in T
    <3> SUFFICES ASSUME NEW x, NEW y, NEW z, <<x, y>> \in P, <<x, z>> \in P, x < n + 1
                 PROVE  y = z
      OBVIOUS
    <3>1. CASE x = 0
      BY <1>b, <3>1
    <3>2. CASE x # 0
      <4>1. PICK v, w : <<v, w>> \in P /\ <<x, y>> \in Meets(old, new, v, w)
                        /\ x \in KidsOf(old, v)
        BY <1>3, <3>2
      <4>2. PICK a, b : <<a, b>> \in P /\ <<x, z>> \in Meets(old, new, a, b)
                        /\ x \in KidsOf(old, a)
        BY <1>3, <3>2
      <4>3. a = v /\ v < x /\ v \in Nat /\ x \in Nat
        BY <1>2, <4>1, <4>2
      <4>4. v < n
        BY <4>3
      <4>5. w = b
        BY <2>2, <4>1, <4>2, <4>3, <4>4
      <4>6. v \in A /\ w \in B
        BY <1>3, <4>1
      <4> QED
        BY <1>4, <4>1, <4>2, <4>3, <4>5, <4>6 DEF OneToOne
    <3> QED
      BY <3>1, <3>2
  <2> HIDE DEF T
  <2>3. \A n \in Nat : n \in T
    BY <2>1, <2>2, SetInduction
  <2> USE DEF T
  <2> SUFFICES ASSUME NEW x, NEW y, NEW z, <<x, y>> \in P, <<x, z>> \in P
               PROVE  y = z
    OBVIOUS
  <2>4. x \in Nat /\ x + 1 \in Nat /\ x < x + 1
    BY <1>a
  <2>5. x + 1 \in T
    BY <2>3, <2>4
  <2> QED
    BY <2>4, <2>5
<1>6. \A x, y, z : <<x, y>> \in P /\ <<z, y>> \in P => x = z
  <2> DEFINE T == {n \in Nat : \A x, y, z :
                      <<x, y>> \in P /\ <<z, y>> \in P /\ y < n => x = z}
  <2>1. 0 \in T
    <3>1. \A n \in Nat : ~(n < 0)
      OBVIOUS
    <3> QED
      BY <1>a, <3>1
  <2>2. ASSUME NEW n \in Nat, n \in T
        PROVE  n + 1 \in T
    <3> SUFFICES ASSUME NEW x, NEW y, NEW z, <<x, y>> \in P, <<z, y>> \in P, y < n + 1
                 PROVE  x = z
      OBVIOUS
    <3>1. CASE y = 0
      BY <1>b, <3>1
    <3>2. CASE y # 0
      <4>1. PICK v, w : <<v, w>> \in P /\ <<x, y>> \in Meets(old, new, v, w)
                        /\ y \in KidsOf(new, w)
        BY <1>3, <3>2
      <4>2. PICK a, b : <<a, b>> \in P /\ <<z, y>> \in Meets(old, new, a, b)
                        /\ y \in KidsOf(new, b)
        BY <1>3, <3>2
      <4>3. b = w /\ w < y /\ w \in Nat /\ y \in Nat
        BY <1>2, <4>1, <4>2
      <4>4. w < n
        BY <4>3
      <4>5. v = a
        BY <2>2, <4>1, <4>2, <4>3, <4>4
      <4>6. v \in A /\ w \in B
        BY <1>3, <4>1
      <4> QED
        BY <1>4, <4>1, <4>2, <4>3, <4>5, <4>6 DEF OneToOne
    <3> QED
      BY <3>1, <3>2
  <2> HIDE DEF T
  <2>3. \A n \in Nat : n \in T
    BY <2>1, <2>2, SetInduction
  <2> USE DEF T
  <2> SUFFICES ASSUME NEW x, NEW y, NEW z, <<x, y>> \in P, <<z, y>> \in P
               PROVE  x = z
    OBVIOUS
  <2>4. y \in Nat /\ y + 1 \in Nat /\ y < y + 1
    BY <1>a
  <2>5. y + 1 \in T
    BY <2>3, <2>4
  <2> QED
    BY <2>4, <2>5
<1> QED
  BY <1>5, <1>6 DEF OneToOne, P

(* A set of pairs of nodes as diff_trees makes it: one to one, closed      *)
(* under what is matched, each pair but that of the roots below another.   *)
PairSet(P, old, new) ==
    /\ <<RootId, RootId>> \in P
    /\ \A x, y : <<x, y>> \in P =>
          x \in DOMAIN old.node /\ y \in DOMAIN new.node /\ Meets(old, new, x, y) \subseteq P
    /\ \A x, y : <<x, y>> \in P => (x = RootId <=> y = RootId)
    /\ \A x, y : <<x, y>> \in P /\ x # RootId =>
          /\ <<old.parent[x], new.parent[y]>> \in P
          /\ <<x, y>> \in Meets(old, new, old.parent[x], new.parent[y])
    /\ OneToOne(P)

(* The pairs of a diff are such a set.                                     *)
LEMMA PairedIsPairSet ==
    ASSUME NEW old, IsTree(old), NEW new, IsTree(new)
    PROVE  PairSet(Paired(old, new), old, new)
<1> DEFINE P == Paired(old, new)
           A == DOMAIN old.node
           B == DOMAIN new.node
<1>1. PairsFrom(P, old, new, RootId, RootId)
  BY PairedLeads
<1>2. OneToOne(P)
  BY PairedOneToOne
<1> HIDE DEF P
<1>3. /\ \A x, c : c \in KidsOf(old, x) => x \in A /\ c \in A /\ old.parent[c] = x /\ x < c /\ c # RootId
      /\ \A x, c : c \in KidsOf(new, x) => x \in B /\ c \in B /\ new.parent[c] = x /\ x < c /\ c # RootId
  <2>1. DOMAIN old.parent = A \ {RootId} /\ DOMAIN new.parent = B \ {RootId}
    BY TreeFacts
  <2> QED
    BY <2>1, TreeFacts
<1>4. \A x, y : <<x, y>> \in P => x \in A /\ y \in B /\ Meets(old, new, x, y) \subseteq P
  BY <1>1 DEF PairsFrom
<1>5. ASSUME NEW x, NEW y, <<x, y>> \in P, ~(x = RootId /\ y = RootId)
      PROVE  /\ x # RootId /\ y # RootId
             /\ <<old.parent[x], new.parent[y]>> \in P
             /\ <<x, y>> \in Meets(old, new, old.parent[x], new.parent[y])
  <2>1. PICK w, z : <<w, z>> \in P /\ <<x, y>> \in Meets(old, new, w, z)
    BY <1>1, <1>5 DEF PairsFrom
  <2>2. w \in A /\ z \in B
    BY <1>4, <2>1
  <2>3. x \in KidsOf(old, w) /\ y \in KidsOf(new, z)
    BY <2>1, <2>2, MeetsFacts
  <2> QED
    BY <1>3, <2>1, <2>3
<1>6. <<RootId, RootId>> \in P
  BY <1>1 DEF PairsFrom
<1> QED
  BY <1>2, <1>4, <1>5, <1>6 DEF PairSet, P

(* x is paired.                                                            *)
HasPair(P, x) == \E y : <<x, y>> \in P

(* Below a node without a partner there is none with one.                  *)
LEMMA UnpairedBelow ==
    ASSUME NEW old, IsTree(old), NEW new, IsTree(new), NEW P, PairSet(P, old, new),
           NEW x, ~HasPair(P, x), NEW z \in CollectSubtree(old, x)
    PROVE  ~HasPair(P, z)
<1> DEFINE C == {y \in CollectSubtree(old, x) : ~HasPair(P, y)}
<1>1. IsFiniteSet(DOMAIN old.node) /\ DOMAIN old.parent = DOMAIN old.node \ {RootId}
  BY TreeFacts
<1>2. x \in CollectSubtree(old, x) /\ Closed(old, CollectSubtree(old, x))
  BY <1>1, CollectSubtreeClosed
<1>3. ASSUME NEW y \in C, NEW c \in KidsOf(old, y)
      PROVE  c \in C
  <2>1. c \in CollectSubtree(old, x)
    BY <1>2 DEF Closed
  <2>2. old.parent[c] = y /\ c # RootId
    <3>1. c \in DOMAIN old.parent /\ old.parent[c] = y
      BY TreeFacts
    <3> QED
      BY <1>1, <3>1
  <2>3. ~HasPair(P, c)
    <3>1. SUFFICES ASSUME NEW w, <<c, w>> \in P
                   PROVE  FALSE
      BY DEF HasPair
    <3>2. <<y, new.parent[w]>> \in P
      BY <2>2, <3>1 DEF PairSet
    <3> QED
      BY <3>2 DEF HasPair
  <2> QED
    BY <2>1, <2>3
<1>4. Closed(old, C)
  BY <1>3 DEF Closed
<1>5. CollectSubtree(old, x) \subseteq C
  BY <1>1, <1>2, <1>4, CollectSubtreeLeast
<1> QED
  BY <1>5

(* HasPartner and Partner tell what the pass over the children matches.    *)
LEMMA PartnerMeets ==
    ASSUME NEW old, IsTree(old), NEW new, NEW o \in DOMAIN old.node, NEW n,
           NEW i \in DOMAIN old.node[o].children
    PROVE  /\ HasPartner(old, new, o, n, i) =>
                 <<old.node[o].children[i], Partner(old, new, o, n, i)>> \in Meets(old, new, o, n)
           /\ ~HasPartner(old, new, o, n, i) =>
                 \A y : <<old.node[o].children[i], y>> \notin Meets(old, new, o, n)
<1> DEFINE os == old.node[o].children
           ns == new.node[n].children
           M == Matches(old, new, os, ns)
<1>1. IsInjective(os)
  BY TreeFacts DEF Agreed
<1>2. Meets(old, new, o, n) = {<<os[q[1]], ns[q[2]]>> : q \in M}
  BY DEF Meets
<1>3. HasPartner(old, new, o, n, i) <=> \E m \in M : m[1] = i
  BY DEF HasPartner
<1>4. Partner(old, new, o, n, i) = ns[(CHOOSE m \in M : m[1] = i)[2]]
  BY DEF Partner
<1>5. \A q \in M : q[1] \in DOMAIN os
  BY DEF Matches
<1> HIDE DEF os, ns, M
<1>6. ASSUME \E m \in M : m[1] = i
      PROVE  <<os[i], Partner(old, new, o, n, i)>> \in Meets(old, new, o, n)
  <2> DEFINE m == CHOOSE m \in M : m[1] = i
  <2>1. m \in M /\ m[1] = i
    BY <1>6
  <2> HIDE DEF m
  <2>2. <<os[m[1]], ns[m[2]]>> \in Meets(old, new, o, n)
    BY <1>2, <2>1
  <2> QED
    BY <1>4, <2>1, <2>2 DEF m
<1>7. ASSUME NEW y, <<os[i], y>> \in Meets(old, new, o, n)
      PROVE  \E m \in M : m[1] = i
  <2>1. PICK q \in M : <<os[i], y>> = <<os[q[1]], ns[q[2]]>>
    BY <1>2, <1>7
  <2>2. os[i] = os[q[1]]
    BY <2>1
  <2>3. i = q[1]
    BY <1>1, <1>5, <2>2 DEF IsInjective, os
  <2> QED
    BY <2>3
<1> QED
  BY <1>3, <1>6, <1>7 DEF os

(* Operations that are all on one node.                                    *)
LEMMA OpsOnAll ==
    ASSUME NEW S, NEW s \in Seq(S), NEW id, \A a \in ToSet(s) : a.target = id
    PROVE  OpsOn(s, id) = s
<1>1. OpsOn(s, id) = Only(s, At(S, id))
  BY OpsAreOnly
<1>2. ToSet(s) \subseteq At(S, id)
  <2>1. ToSet(s) \subseteq S
    BY DEF ToSet
  <2> QED
    BY <2>1 DEF At
<1>3. Only(s, At(S, id)) = s
  BY <1>2, OnlyAll
<1> QED
  BY <1>1, <1>3

(* Operations none of which is on a node.                                  *)
LEMMA OpsOnNone ==
    ASSUME NEW S, NEW s \in Seq(S), NEW id, \A a \in ToSet(s) : a.target # id
    PROVE  OpsOn(s, id) = << >>
<1>1. id \notin Affected(s)
  BY DEF Affected, ToSet
<1> QED
  BY <1>1, OpsOnOps

(* The i-th old child has no partner.                                      *)
Unmet(matches, i) == \A m \in matches : m[1] # i

(* What a patch says of a child without a partner: that it goes.           *)
LEMMA DeletionsOn ==
    ASSUME NEW old, IsTree(old), NEW o \in DOMAIN old.node, NEW matches,
           NEW i \in DOMAIN old.node[o].children
    PROVE  OpsOn(Deletions(old.node[o].children, matches), old.node[o].children[i]) =
               IF Unmet(matches, i) THEN <<Delete(old.node[o].children[i])>> ELSE << >>
<1> DEFINE os == old.node[o].children
           x == os[i]
           S == {Delete(os[j]) : j \in DOMAIN os}
           dd == [j \in DOMAIN os |-> When(\A m \in matches : m[1] # j, Delete(os[j]))]
           on == [j \in DOMAIN dd |-> OpsOn(dd[j], x)]
<1>1. IsInjective(os) /\ os \in Seq(Nat)
  BY TreeFacts DEF Agreed, Lists
<1>2. Deletions(os, matches) = FlattenSeq(dd)
  BY DEF Deletions
<1>3. ASSUME NEW j \in DOMAIN os
      PROVE  dd[j] \in Seq(S) /\ ToSet(dd[j]) \subseteq {Delete(os[j])}
  <2>1. dd[j] = << >> \/ dd[j] = <<Delete(os[j])>>
    BY DEF When
  <2>2. Delete(os[j]) \in S
    OBVIOUS
  <2> HIDE DEF dd, S
  <2> QED
    BY <2>1, <2>2, AtMostOne
<1>4. DOMAIN os = 1..Len(os) /\ Len(os) \in Nat
  BY <1>1
<1>5. dd \in Seq(Seq(S))
  <2> HIDE DEF dd, S
  <2>1. DOMAIN dd = DOMAIN os
    BY DEF dd
  <2>2. dd = [j \in DOMAIN os |-> dd[j]]
    BY DEF dd
  <2>3. \A j \in DOMAIN os : dd[j] \in Seq(S)
    BY <1>3
  <2> HIDE DEF os
  <2> QED
    BY <1>4, <2>2, <2>3
<1>6. OpsOn(FlattenSeq(dd), x) = FlattenSeq(on)
  <2> HIDE DEF dd, S, x
  <2> QED
    BY <1>5, OpsOnFlatten
<1>7. ASSUME NEW j \in DOMAIN os
      PROVE  \A a \in ToSet(dd[j]) : a.target = os[j]
  <2>1. Delete(os[j]).target = os[j]
    BY DEF Delete
  <2> HIDE DEF dd
  <2> QED
    BY <1>3, <2>1
<1>8. on[i] = dd[i]
  <2>1. dd[i] \in Seq(S) /\ \A a \in ToSet(dd[i]) : a.target = x
    BY <1>3, <1>7
  <2> HIDE DEF dd, S, x
  <2>2. OpsOn(dd[i], x) = dd[i]
    BY <2>1, OpsOnAll
  <2>3. i \in DOMAIN dd
    BY DEF dd
  <2> QED
    BY <2>2, <2>3
<1>9. ASSUME NEW j \in DOMAIN os, j # i
      PROVE  on[j] = << >>
  <2>1. os[j] # x
    BY <1>1, <1>9 DEF IsInjective
  <2>2. dd[j] \in Seq(S) /\ \A a \in ToSet(dd[j]) : a.target # x
    BY <1>3, <1>7, <2>1
  <2> HIDE DEF dd, S, x
  <2>3. OpsOn(dd[j], x) = << >>
    BY <2>2, OpsOnNone
  <2>4. j \in DOMAIN dd
    BY DEF dd
  <2> QED
    BY <2>3, <2>4
<1>10. \A j \in DOMAIN os : on[j] \in Seq(S)
  <2> HIDE DEF dd, S, on
  <2>1. dd[i] \in Seq(S)
    BY <1>3
  <2>2. << >> \in Seq(S)
    OBVIOUS
  <2> QED
    BY <1>8, <1>9, <2>1, <2>2
<1>11. DOMAIN on = DOMAIN os
  OBVIOUS
<1>12. on \in Seq(Seq(S))
  <2>1. on = [j \in DOMAIN os |-> on[j]]
    BY <1>11
  <2> HIDE DEF on, S
  <2> QED
    BY <1>4, <1>10, <2>1
<1>13. FlattenSeq(on) = on[i]
  <2> HIDE DEF on, S
  <2> QED
    BY <1>9, <1>11, <1>12, FlattenSingle
<1>14. dd[i] = IF Unmet(matches, i) THEN <<Delete(os[i])>> ELSE << >>
  BY DEF When, Unmet
<1> HIDE DEF on, dd
<1> QED
  BY <1>2, <1>6, <1>8, <1>13, <1>14

----------------------------------------------------------------------------
(* What a patch says about each node of the old tree.                      *)

(* The matches among the children of a pair.                               *)
MatchesOf(old, new, o, n) == Matches(old, new, old.node[o].children, new.node[n].children)

(* What a patch says of a node that has a partner, itself.                 *)
Say(old, new, o, n) ==
    OwnOps(o, old.node[o], new.node[n])
      \o Insertions(o, new, new.node[n].children, MatchesOf(old, new, o, n))

(* What diff_subtree says about its own node, and about what is below each *)
(* child.                                                                  *)
LEMMA PartsOnNode ==
    ASSUME NEW old, IsTree(old), NEW new, IsTree(new),
           NEW o \in DOMAIN old.node, NEW n \in DOMAIN new.node, NEW g,
           \A c \in KidsOf(old, o) : \A y \in DOMAIN new.node :
               IsPatch(g[<<c, y>>], old, new, c)
    PROVE  /\ OpsOn(DiffSubtree(g, old, new, o, n), o) = Say(old, new, o, n)
           /\ \A i \in DOMAIN old.node[o].children :
                 \A x \in CollectSubtree(old, old.node[o].children[i]) :
                    OpsOn(DiffSubtree(g, old, new, o, n), x) =
                       IF HasPartner(old, new, o, n, i)
                       THEN OpsOn(g[<<old.node[o].children[i], Partner(old, new, o, n, i)>>], x)
                       ELSE IF x = old.node[o].children[i] THEN <<Delete(x)>> ELSE << >>
<1> DEFINE S == DiffOps(old, new)
           os == old.node[o].children
           ns == new.node[n].children
           matches == Matches(old, new, os, ns)
           own == OwnOps(o, old.node[o], new.node[n])
           below == KidsOps(g, old, new, o, n)
           kids == FlattenSeq(below)
           deleted == Deletions(os, matches)
           inserted == Insertions(o, new, ns, matches)
<1>1. /\ os \in Seq(Nat) /\ IsInjective(os)
      /\ \A i \in DOMAIN os : os[i] \in KidsOf(old, o)
      /\ IsFiniteSet(DOMAIN old.node)
  <2>1. /\ Agreed(old) /\ Lists(old, Nat) /\ IsFiniteSet(DOMAIN old.node)
    BY TreeFacts
  <2>2. KidsOf(old, o) = ToSet(os)
    BY DEF KidsOf, ChildrenOf, IsLive
  <2>3. \A i \in DOMAIN os : os[i] \in KidsOf(old, o)
    BY <2>2 DEF ToSet
  <2> QED
    BY <2>1, <2>3 DEF Agreed, Lists
<1>2. DiffSubtree(g, old, new, o, n) = own \o kids \o deleted \o inserted
  BY DiffSubtreeParts
<1>3. own \in Seq(S) /\ \A a \in ToSet(own) : a.target = o
  <2>1. /\ own \in Seq(S)
        /\ \A a \in ToSet(own) : IsOn(a, o) /\ (a.op = "Relabel" \/ a.op = "Update")
    BY OwnOpsFit
  <2> HIDE DEF own, S
  <2> QED
    BY <2>1 DEF IsOn
<1>4. inserted \in Seq(S) /\ \A a \in ToSet(inserted) : a.target = o
  <2>1. /\ inserted \in Seq(S) /\ Pairwise(inserted, Fitting(old, new))
        /\ \A a \in ToSet(inserted) : a.op = "Insert" /\ IsOn(a, o)
    BY InsertionsFit
  <2> HIDE DEF inserted, S
  <2> QED
    BY <2>1 DEF IsOn
<1>5. deleted \in Seq(S) /\ \A a \in ToSet(deleted) : \E i \in DOMAIN os : a.target = os[i]
  <2>1. IsDeletions(deleted, old, new, os, matches)
    BY DeletionsFit
  <2> HIDE DEF matches, deleted
  <2>2. \A i : Delete(os[i]).target = os[i]
    BY DEF Delete
  <2> QED
    BY <2>1, <2>2 DEF IsDeletions
<1>6. ASSUME NEW i \in DOMAIN os
      PROVE  below[i] \in Seq(S) /\ \A a \in ToSet(below[i]) : a.target \in CollectSubtree(old, os[i])
  <2>1. CASE HasPartner(old, new, o, n, i)
    <3>1. below[i] = g[<<os[i], Partner(old, new, o, n, i)>>]
      BY <2>1 DEF KidsOps
    <3>2. Partner(old, new, o, n, i) \in DOMAIN new.node
      BY <2>1, PartnerIsChild
    <3>3. IsPatch(below[i], old, new, os[i])
      BY <1>1, <3>1, <3>2
    <3> QED
      BY <3>3 DEF IsPatch, IsIn
  <2>2. CASE ~HasPartner(old, new, o, n, i)
    <3>1. below[i] = << >>
      BY <2>2 DEF KidsOps
    <3> QED
      BY <3>1 DEF ToSet
  <2> QED
    BY <2>1, <2>2
<1>7. DOMAIN below = DOMAIN os
  BY DEF KidsOps
<1>8. below \in Seq(Seq(S))
  <2> HIDE DEF below, S
  <2>1. below = [i \in DOMAIN os |-> below[i]]
    BY <1>7 DEF below, KidsOps
  <2>2. \A i \in DOMAIN os : below[i] \in Seq(S)
    BY <1>6
  <2>3. DOMAIN os = 1..Len(os) /\ Len(os) \in Nat
    BY <1>1
  <2> HIDE DEF os
  <2> QED
    BY <2>1, <2>2, <2>3
<1>9. kids \in Seq(S)
  BY <1>8, FlattenPairwise
<1>10. ASSUME NEW x
       PROVE  OpsOn(own \o kids \o deleted \o inserted, x)
                = OpsOn(own, x) \o OpsOn(kids, x) \o OpsOn(deleted, x) \o OpsOn(inserted, x)
  <2> HIDE DEF own, kids, deleted, inserted, S
  <2>1. own \o kids \in Seq(S) /\ own \o kids \o deleted \in Seq(S)
    BY <1>3, <1>5, <1>9
  <2>2. OpsOn(own \o kids, x) = OpsOn(own, x) \o OpsOn(kids, x)
    BY <1>3, <1>9, OpsOnConcat
  <2> DEFINE most == own \o kids
             more == most \o deleted
  <2>0. most \in Seq(S) /\ more \in Seq(S)
    BY <2>1
  <2> HIDE DEF most, more
  <2>3. OpsOn(most \o deleted, x) = OpsOn(most, x) \o OpsOn(deleted, x)
    BY <1>5, <2>0, OpsOnConcat
  <2>4. OpsOn(more \o inserted, x) = OpsOn(more, x) \o OpsOn(inserted, x)
    BY <1>4, <2>0, OpsOnConcat
  <2> QED
    BY <2>2, <2>3, <2>4 DEF most, more
<1>11. ASSUME NEW x, \A i \in DOMAIN os : x \notin CollectSubtree(old, os[i])
       PROVE  OpsOn(kids, x) = << >> /\ OpsOn(deleted, x) = << >>
  <2>1. \A a \in ToSet(kids) : \E i \in DOMAIN below : a \in ToSet(below[i])
    BY <1>8, FlattenPairwise
  <2>2. \A a \in ToSet(kids) : a.target # x
    <3> HIDE DEF kids, below
    <3> QED
      BY <1>6, <1>7, <1>11, <2>1
  <2>3. \A i \in DOMAIN os : os[i] # x
    BY <1>1, <1>11, CollectSubtreeClosed
  <2>4. \A a \in ToSet(deleted) : a.target # x
    <3> HIDE DEF deleted
    <3> QED
      BY <1>5, <2>3
  <2> HIDE DEF kids, deleted, S
  <2>5. OpsOn(kids, x) = << >>
    BY <1>9, <2>2, OpsOnNone
  <2>6. OpsOn(deleted, x) = << >>
    BY <1>5, <2>4, OpsOnNone
  <2> QED
    BY <2>5, <2>6
<1>12. OpsOn(own \o kids \o deleted \o inserted, o) = own \o inserted
  <2>1. \A i \in DOMAIN os : o \notin CollectSubtree(old, os[i])
    BY <1>1, SiblingsApart
  <2> HIDE DEF own, kids, deleted, inserted, S
  <2>2. OpsOn(own, o) = own
    BY <1>3, OpsOnAll
  <2>3. OpsOn(inserted, o) = inserted
    BY <1>4, OpsOnAll
  <2>4. OpsOn(kids, o) = << >> /\ OpsOn(deleted, o) = << >>
    BY <1>11, <2>1
  <2>5. OpsOn(own \o kids \o deleted \o inserted, o) = own \o << >> \o << >> \o inserted
    BY <1>10, <2>2, <2>3, <2>4
  <2>6. own \o << >> = own
    BY <1>3
  <2> QED
    BY <2>5, <2>6
<1>13. ASSUME NEW i \in DOMAIN os, NEW x \in CollectSubtree(old, os[i])
       PROVE  /\ OpsOn(own, x) = << >> /\ OpsOn(inserted, x) = << >>
              /\ OpsOn(kids, x) = OpsOn(below[i], x)
              /\ \A j \in DOMAIN os : j # i => x \notin CollectSubtree(old, os[j])
  <2>1. x # o
    BY <1>1, SiblingsApart
  <2>2. \A j \in DOMAIN os : j # i => x \notin CollectSubtree(old, os[j])
    <3> SUFFICES ASSUME NEW j \in DOMAIN os, j # i
                 PROVE  x \notin CollectSubtree(old, os[j])
      OBVIOUS
    <3>1. os[j] # os[i]
      BY <1>1 DEF IsInjective
    <3>2. os[i] \in KidsOf(old, o) /\ os[j] \in KidsOf(old, o)
      BY <1>1
    <3>3. CollectSubtree(old, os[i]) \intersect CollectSubtree(old, os[j]) = {}
      BY <3>1, <3>2, SiblingsApart
    <3> QED
      BY <3>3
  <2>3. OpsOn(own, x) = << >>
    <3> HIDE DEF own, S
    <3> QED
      BY <1>3, <2>1, OpsOnNone
  <2>4. OpsOn(inserted, x) = << >>
    <3> HIDE DEF inserted, S
    <3> QED
      BY <1>4, <2>1, OpsOnNone
  <2> DEFINE on == [j \in DOMAIN below |-> OpsOn(below[j], x)]
  <2>5. OpsOn(kids, x) = FlattenSeq(on)
    <3> HIDE DEF below, S
    <3> QED
      BY <1>8, OpsOnFlatten
  <2>6. \A j \in DOMAIN os : on[j] \in Seq(S)
    <3> HIDE DEF below, S
    <3> TAKE j \in DOMAIN os
    <3>1. below[j] \in Seq(S)
      BY <1>6
    <3>2. OpsOn(below[j], x) \in Seq(S)
      BY <3>1, OpsOnOps
    <3> QED
      BY <1>7, <3>2
  <2>7. \A j \in DOMAIN os : j # i => on[j] = << >>
    <3> HIDE DEF below, S
    <3> SUFFICES ASSUME NEW j \in DOMAIN os, j # i
                 PROVE  on[j] = << >>
      OBVIOUS
    <3>1. below[j] \in Seq(S)
      BY <1>6
    <3>2. \A a \in ToSet(below[j]) : a.target # x
      BY <1>6, <2>2
    <3>3. OpsOn(below[j], x) = << >>
      BY <3>1, <3>2, OpsOnNone
    <3> QED
      BY <1>7, <3>3
  <2>8. DOMAIN on = DOMAIN os
    BY <1>7
  <2>9. on \in Seq(Seq(S))
    <3>1. on = [j \in DOMAIN os |-> on[j]]
      BY <2>8
    <3>2. DOMAIN os = 1..Len(os) /\ Len(os) \in Nat
      BY <1>1
    <3> HIDE DEF on, S, os
    <3> QED
      BY <2>6, <3>1, <3>2
  <2>10. FlattenSeq(on) = on[i]
    <3> HIDE DEF on, S
    <3> QED
      BY <2>7, <2>8, <2>9, FlattenSingle
  <2>11. on[i] = OpsOn(below[i], x)
    BY <1>7
  <2> QED
    BY <2>2, <2>3, <2>4, <2>5, <2>10, <2>11
<1>14. ASSUME NEW i \in DOMAIN os, NEW x \in CollectSubtree(old, os[i])
       PROVE  OpsOn(deleted, x) = IF x = os[i] /\ ~HasPartner(old, new, o, n, i)
                                  THEN <<Delete(x)>> ELSE << >>
  <2>1. CASE x = os[i]
    <3>1. OpsOn(deleted, os[i]) = IF Unmet(matches, i) THEN <<Delete(os[i])>> ELSE << >>
      <4> HIDE DEF matches
      <4> QED
        BY DeletionsOn
    <3>2. HasPartner(old, new, o, n, i) <=> ~Unmet(matches, i)
      BY DEF HasPartner, Unmet
    <3> QED
      BY <2>1, <3>1, <3>2
  <2>2. CASE x # os[i]
    <3>1. \A j \in DOMAIN os : os[j] # x
      <4> SUFFICES ASSUME NEW j \in DOMAIN os, os[j] = x
                   PROVE  FALSE
        OBVIOUS
      <4>1. j # i
        BY <2>2
      <4>2. x \in CollectSubtree(old, os[j])
        BY <1>1, CollectSubtreeClosed
      <4> QED
        BY <1>13, <4>1, <4>2
    <3>2. \A a \in ToSet(deleted) : a.target # x
      <4> HIDE DEF deleted
      <4> QED
        BY <1>5, <3>1
    <3>3. OpsOn(deleted, x) = << >>
      <4> HIDE DEF deleted, S
      <4> QED
        BY <1>5, <3>2, OpsOnNone
    <3> QED
      BY <2>2, <3>3
  <2> QED
    BY <2>1, <2>2
<1>15. ASSUME NEW i \in DOMAIN os, NEW x \in CollectSubtree(old, os[i])
       PROVE  OpsOn(own \o kids \o deleted \o inserted, x) =
                IF HasPartner(old, new, o, n, i)
                THEN OpsOn(g[<<os[i], Partner(old, new, o, n, i)>>], x)
                ELSE IF x = os[i] THEN <<Delete(x)>> ELSE << >>
  <2> DEFINE b == OpsOn(below[i], x)
             d == OpsOn(deleted, x)
  <2>1. b \in Seq(S)
    <3> HIDE DEF below, S
    <3>1. below[i] \in Seq(S)
      BY <1>6
    <3> QED
      BY <3>1, OpsOnOps
  <2>2. d \in Seq(S)
    BY <1>5, OpsOnOps
  <2>3. OpsOn(own \o kids \o deleted \o inserted, x) = << >> \o b \o d \o << >>
    BY <1>10, <1>13
  <2>4. << >> \o b \o d \o << >> = b \o d
    <3> HIDE DEF b, d, S
    <3> QED
      BY <2>1, <2>2
  <2>5. CASE HasPartner(old, new, o, n, i)
    <3>1. below[i] = g[<<os[i], Partner(old, new, o, n, i)>>]
      BY <2>5 DEF KidsOps
    <3>2. d = << >>
      BY <1>14, <2>5
    <3>3. b \o << >> = b
      <4> HIDE DEF b, S
      <4> QED
        BY <2>1
    <3> QED
      BY <2>3, <2>4, <2>5, <3>1, <3>2, <3>3
  <2>6. CASE ~HasPartner(old, new, o, n, i)
    <3>1. below[i] = << >>
      BY <2>6 DEF KidsOps
    <3>2. b = << >>
      <4>1. << >> \in Seq(S) /\ ToSet(<< >>) = {}
        BY DEF ToSet
      <4> HIDE DEF S
      <4>2. OpsOn(<< >>, x) = << >>
        BY <4>1, OpsOnNone
      <4> QED
        BY <3>1, <4>2
    <3>3. << >> \o d = d
      <4> HIDE DEF d, S
      <4> QED
        BY <2>2
    <3> QED
      BY <1>14, <2>3, <2>4, <2>6, <3>2, <3>3
  <2> QED
    BY <2>5, <2>6
<1>16. Say(old, new, o, n) = own \o inserted
  BY DEF Say, MatchesOf
<1> QED
  BY <1>2, <1>12, <1>15, <1>16

(* A subtree is its top and the subtrees of the children.                  *)
LEMMA SubtreeSplits ==
    ASSUME NEW t, IsTree(t), NEW o \in DOMAIN t.node, NEW x \in CollectSubtree(t, o), x # o
    PROVE  \E i \in DOMAIN t.node[o].children : x \in CollectSubtree(t, t.node[o].children[i])
<1> DEFINE C == {o} \union {z \in CollectSubtree(t, o) : \E c \in KidsOf(t, o) : z \in CollectSubtree(t, c)}
<1>1. IsFiniteSet(DOMAIN t.node)
  BY TreeFacts
<1>2. ASSUME NEW y \in C, NEW c \in KidsOf(t, y)
      PROVE  c \in C
  <2>1. c \in CollectSubtree(t, o)
    BY <1>1, CollectSubtreeClosed DEF Closed
  <2>2. CASE y = o
    BY <1>1, <2>1, <2>2, CollectSubtreeClosed
  <2>3. CASE y # o
    <3>1. PICK d \in KidsOf(t, o) : y \in CollectSubtree(t, d)
      BY <2>3
    <3>2. c \in CollectSubtree(t, d)
      BY <1>1, <3>1, CollectSubtreeClosed DEF Closed
    <3> QED
      BY <2>1, <3>1, <3>2
  <2> QED
    BY <2>2, <2>3
<1>3. Closed(t, C)
  BY <1>2 DEF Closed
<1>4. CollectSubtree(t, o) \subseteq C
  <2>1. o \in C
    OBVIOUS
  <2> HIDE DEF C
  <2> QED
    BY <1>1, <1>3, <2>1, CollectSubtreeLeast
<1>5. PICK c \in KidsOf(t, o) : x \in CollectSubtree(t, c)
  BY <1>4
<1>6. KidsOf(t, o) = ToSet(t.node[o].children)
  BY DEF KidsOf, ChildrenOf, IsLive
<1> QED
  BY <1>5, <1>6 DEF ToSet

(* x is a child of a paired node.                                          *)
BelowPair(old, P, x) == \E w : HasPair(P, w) /\ x \in KidsOf(old, w)

(* s says about x what one diff does: Say if it is paired, its deletion if *)
(* its parent only is, and nothing otherwise.                              *)
SaysOf(s, old, new, P, x) ==
    /\ \A y : <<x, y>> \in P => OpsOn(s, x) = Say(old, new, x, y)
    /\ ~HasPair(P, x) => OpsOn(s, x) = IF BelowPair(old, P, x) THEN <<Delete(x)>> ELSE << >>

(* diff_subtree says it about each node of its subtree if its recursive    *)
(* calls do.                                                               *)
LEMMA SubtreeSays ==
    ASSUME NEW old, IsTree(old), NEW new, IsTree(new), NEW P, PairSet(P, old, new),
           NEW o, NEW n, <<o, n>> \in P, NEW g,
           \A c \in KidsOf(old, o) : \A y \in DOMAIN new.node :
               IsPatch(g[<<c, y>>], old, new, c),
           \A c, y : <<c, y>> \in Meets(old, new, o, n) =>
               \A x \in CollectSubtree(old, c) : SaysOf(g[<<c, y>>], old, new, P, x)
    PROVE  \A x \in CollectSubtree(old, o) :
               SaysOf(DiffSubtree(g, old, new, o, n), old, new, P, x)
<1> DEFINE os == old.node[o].children
           s == DiffSubtree(g, old, new, o, n)
<1>1. o \in DOMAIN old.node /\ n \in DOMAIN new.node
  BY DEF PairSet
<1>2. /\ OpsOn(s, o) = Say(old, new, o, n)
      /\ \A i \in DOMAIN os : \A x \in CollectSubtree(old, os[i]) :
            OpsOn(s, x) = IF HasPartner(old, new, o, n, i)
                          THEN OpsOn(g[<<os[i], Partner(old, new, o, n, i)>>], x)
                          ELSE IF x = os[i] THEN <<Delete(x)>> ELSE << >>
  BY <1>1, PartsOnNode
<1> HIDE DEF s
<1>3. \A i \in DOMAIN os : os[i] \in KidsOf(old, o)
  <2>1. KidsOf(old, o) = ToSet(os)
    BY <1>1 DEF KidsOf, ChildrenOf, IsLive
  <2> QED
    BY <2>1 DEF ToSet
<1>4. \A x, c : c \in KidsOf(old, x) => old.parent[c] = x /\ c # RootId
  <2>1. DOMAIN old.parent = DOMAIN old.node \ {RootId}
    BY TreeFacts
  <2>2. \A x, c : c \in KidsOf(old, x) => c \in DOMAIN old.parent /\ old.parent[c] = x
    BY TreeFacts
  <2> QED
    BY <2>1, <2>2
<1>5. SaysOf(s, old, new, P, o)
  <2>1. \A y : <<o, y>> \in P => y = n
    BY DEF PairSet, OneToOne
  <2>2. HasPair(P, o)
    BY DEF HasPair
  <2> QED
    BY <1>2, <2>1, <2>2 DEF SaysOf
<1>6. ASSUME NEW i \in DOMAIN os, NEW x \in CollectSubtree(old, os[i]),
             HasPartner(old, new, o, n, i)
      PROVE  SaysOf(s, old, new, P, x)
  <2> DEFINE c == os[i]
             y == Partner(old, new, o, n, i)
  <2>1. <<c, y>> \in Meets(old, new, o, n)
    BY <1>1, <1>6, PartnerMeets
  <2>2. SaysOf(g[<<c, y>>], old, new, P, x)
    BY <2>1
  <2>3. OpsOn(s, x) = OpsOn(g[<<c, y>>], x)
    BY <1>2, <1>6
  <2> HIDE DEF c, y
  <2> QED
    BY <2>2, <2>3 DEF SaysOf
<1>7. ASSUME NEW i \in DOMAIN os, NEW x \in CollectSubtree(old, os[i]),
             ~HasPartner(old, new, o, n, i)
      PROVE  SaysOf(s, old, new, P, x)
  <2> DEFINE c == os[i]
  <2>1. \A y : <<c, y>> \notin Meets(old, new, o, n)
    BY <1>1, <1>7, PartnerMeets
  <2>2. c \in KidsOf(old, o) /\ old.parent[c] = o /\ c # RootId
    BY <1>3, <1>4
  <2>3. OpsOn(s, x) = IF x = c THEN <<Delete(x)>> ELSE << >>
    BY <1>2, <1>7
  <2>4. x \in CollectSubtree(old, c)
    OBVIOUS
  <2> HIDE DEF c, os
  <2>5. ~HasPair(P, c)
    <3>1. SUFFICES ASSUME NEW y, <<c, y>> \in P
                   PROVE  FALSE
      BY DEF HasPair
    <3>2. <<o, new.parent[y]>> \in P /\ <<c, y>> \in Meets(old, new, o, new.parent[y])
      BY <2>2, <3>1 DEF PairSet
    <3>3. new.parent[y] = n
      BY <3>2 DEF PairSet, OneToOne
    <3> QED
      BY <2>1, <3>2, <3>3
  <2>6. ~HasPair(P, x)
    BY <2>4, <2>5, UnpairedBelow
  <2>7. CASE x = c
    <3>1. BelowPair(old, P, x)
      BY <2>2, <2>7 DEF BelowPair, HasPair
    <3> QED
      BY <2>3, <2>6, <2>7, <3>1 DEF SaysOf, HasPair
  <2>8. CASE x # c
    <3>1. ~BelowPair(old, P, x)
      <4>1. SUFFICES ASSUME NEW w, HasPair(P, w), x \in KidsOf(old, w)
                     PROVE  FALSE
        BY DEF BelowPair
      <4>2. IsFiniteSet(DOMAIN old.node)
        BY TreeFacts
      <4>3. PICK v \in CollectSubtree(old, c) : x \in KidsOf(old, v)
        BY <2>4, <2>8, <4>2, CollectSubtreeSupported
      <4>4. v = w
        BY <1>4, <4>1, <4>3
      <4>5. ~HasPair(P, v)
        BY <2>5, <4>3, UnpairedBelow
      <4> QED
        BY <4>1, <4>4, <4>5
    <3> QED
      BY <2>3, <2>6, <2>8, <3>1 DEF SaysOf, HasPair
  <2> QED
    BY <2>7, <2>8
<1>8. ASSUME NEW x \in CollectSubtree(old, o)
      PROVE  SaysOf(s, old, new, P, x)
  <2>1. CASE x = o
    BY <1>5, <2>1
  <2>2. CASE x # o
    <3>1. PICK i \in DOMAIN os : x \in CollectSubtree(old, os[i])
      BY <1>1, <2>2, SubtreeSplits
    <3> QED
      BY <1>6, <1>7, <3>1
  <2> QED
    BY <2>1, <2>2
<1> QED
  BY <1>8 DEF s

(* What diff_trees says of every node of the old tree: of a node that has  *)
(* a partner, what changed in it and what is new below it; of a child that *)
(* has none, that it goes; of a node below such a child, nothing.          *)
LEMMA DiffSays ==
    ASSUME NEW old, IsTree(old), NEW new, IsTree(new)
    PROVE  \A x : SaysOf(DiffTrees(old, new), old, new, Paired(old, new), x)
<1> DEFINE A == DOMAIN old.node
           B == DOMAIN new.node
           P == Paired(old, new)
           g == CHOOSE g : IsDiff(g, old, new)
           T == {n \in Nat : \A o \in A, y \in B :
                    o + n >= old.next =>
                       /\ IsPatch(g[<<o, y>>], old, new, o)
                       /\ <<o, y>> \in P =>
                             \A x \in CollectSubtree(old, o) : SaysOf(g[<<o, y>>], old, new, P, x)}
<1>1. /\ old.next \in Nat /\ A \subseteq Nat /\ \A x \in A : x < old.next
      /\ RootId \in A /\ RootId \in B
      /\ \A x, c : c \in KidsOf(old, x) => x \in A /\ c \in A /\ x < c
  BY TreeFacts
<1>2. IsDiff(g, old, new)
  BY DiffExists
<1>3. DiffTrees(old, new) = g[<<RootId, RootId>>]
  <2>1. DiffTrees(old, new) = IF IsLive(old, RootId) /\ IsLive(new, RootId)
                              THEN g[<<RootId, RootId>>] ELSE << >>
    BY Zenon DEF DiffTrees, IsDiff
  <2> QED
    BY <1>1, <2>1 DEF IsLive
<1> HIDE DEF g
<1>4. \A o \in A, y \in B : g[<<o, y>>] = DiffSubtree(g, old, new, o, y)
  BY <1>2 DEF IsDiff
<1>5. PairSet(P, old, new)
  BY PairedIsPairSet
<1> HIDE DEF P
<1>6. 0 \in T
  <2>1. \A o \in A : ~(o + 0 >= old.next)
    BY <1>1
  <2> QED
    BY <2>1
<1>7. ASSUME NEW n \in Nat, n \in T
      PROVE  n + 1 \in T
  <2>1. ASSUME NEW o \in A, NEW y \in B, o + (n + 1) >= old.next
        PROVE  /\ IsPatch(g[<<o, y>>], old, new, o)
               /\ <<o, y>> \in P =>
                     \A x \in CollectSubtree(old, o) : SaysOf(g[<<o, y>>], old, new, P, x)
    <3>1. \A c \in KidsOf(old, o) : c \in A /\ c + n >= old.next
      <4> SUFFICES ASSUME NEW c \in KidsOf(old, o)
                   PROVE  c \in A /\ c + n >= old.next
        OBVIOUS
      <4>1. c \in A /\ c \in Nat /\ o \in Nat /\ c > o
        BY <1>1
      <4> QED
        BY <1>1, <2>1, <4>1
    <3>2. \A c \in KidsOf(old, o) : \A z \in B : IsPatch(g[<<c, z>>], old, new, c)
      BY <1>7, <3>1
    <3>3. IsPatch(DiffSubtree(g, old, new, o, y), old, new, o)
      BY <3>2, SubtreePatch
    <3>4. ASSUME <<o, y>> \in P
          PROVE  \A x \in CollectSubtree(old, o) :
                     SaysOf(DiffSubtree(g, old, new, o, y), old, new, P, x)
      <4>1. ASSUME NEW c, NEW z, <<c, z>> \in Meets(old, new, o, y)
            PROVE  \A x \in CollectSubtree(old, c) : SaysOf(g[<<c, z>>], old, new, P, x)
        <5>1. c \in KidsOf(old, o)
          BY <4>1, MeetsFacts
        <5>2. <<c, z>> \in P
          BY <1>5, <3>4, <4>1 DEF PairSet
        <5>3. z \in B
          BY <1>5, <5>2 DEF PairSet
        <5> QED
          BY <1>7, <3>1, <5>1, <5>2, <5>3
      <4> QED
        BY <1>5, <3>2, <3>4, <4>1, SubtreeSays
    <3> QED
      BY <1>4, <3>3, <3>4
  <2> QED
    BY <2>1
<1>8. old.next \in T
  <2> HIDE DEF T
  <2> QED
    BY <1>1, <1>6, <1>7, SetInduction
<1>9. <<RootId, RootId>> \in P
  BY <1>5 DEF PairSet
<1>10. \A x \in CollectSubtree(old, RootId) : SaysOf(g[<<RootId, RootId>>], old, new, P, x)
  <2>1. RootId + old.next >= old.next
    BY <1>1
  <2> QED
    BY <1>1, <1>8, <1>9, <2>1
<1>11. ASSUME NEW x, x \notin CollectSubtree(old, RootId)
       PROVE  SaysOf(DiffTrees(old, new), old, new, P, x)
  <2> DEFINE d == DiffTrees(old, new)
             S == DiffOps(old, new)
  <2>1. d \in Seq(S) /\ \A a \in ToSet(d) : a.target \in CollectSubtree(old, RootId)
    BY DiffTreesIsPatch DEF IsPatch, IsIn
  <2>2. OpsOn(d, x) = << >>
    <3> HIDE DEF d, S
    <3>1. \A a \in ToSet(d) : a.target # x
      BY <1>11, <2>1
    <3> QED
      BY <2>1, <3>1, OpsOnNone
  <2>3. IsFiniteSet(A)
    BY TreeFacts
  <2>4. \A w : HasPair(P, w) => w \in CollectSubtree(old, RootId)
    <3> DEFINE U == {n \in Nat : \A w : HasPair(P, w) /\ w < n => w \in CollectSubtree(old, RootId)}
    <3>0. \A w, z : <<w, z>> \in P => w \in A /\ w \in Nat
      BY <1>1, <1>5 DEF PairSet
    <3>1. 0 \in U
      <4>1. \A w \in Nat : ~(w < 0)
        OBVIOUS
      <4> QED
        BY <3>0, <4>1 DEF HasPair
    <3>2. ASSUME NEW n \in Nat, n \in U
          PROVE  n + 1 \in U
      <4>1. ASSUME NEW w, HasPair(P, w), w < n + 1
            PROVE  w \in CollectSubtree(old, RootId)
        <5>1. PICK z : <<w, z>> \in P
          BY <4>1 DEF HasPair
        <5>2. CASE w = RootId
          BY <2>3, <5>2, CollectSubtreeClosed
        <5>3. CASE w # RootId
          <6>1. <<old.parent[w], new.parent[z]>> \in P /\ <<w, z>> \in Meets(old, new, old.parent[w], new.parent[z])
            BY <1>5, <5>1, <5>3 DEF PairSet
          <6>2. old.parent[w] \in A /\ new.parent[z] \in B
            BY <1>5, <6>1 DEF PairSet
          <6>3. w \in KidsOf(old, old.parent[w])
            BY <6>1, <6>2, MeetsFacts
          <6>4. old.parent[w] < w /\ old.parent[w] \in Nat /\ w \in Nat
            BY <1>1, <6>2, <6>3
          <6>5. HasPair(P, old.parent[w])
            BY <6>1 DEF HasPair
          <6>6. old.parent[w] < n
            BY <4>1, <6>4
          <6>7. old.parent[w] \in CollectSubtree(old, RootId)
            BY <3>2, <6>5, <6>6
          <6> QED
            BY <2>3, <6>3, <6>7, CollectSubtreeClosed DEF Closed
        <5> QED
          BY <5>2, <5>3
      <4> QED
        BY <4>1
    <3>3. \A n \in Nat : n \in U
      <4> HIDE DEF U
      <4> QED
        BY <3>1, <3>2, SetInduction
    <3>4. ASSUME NEW w, HasPair(P, w)
          PROVE  w \in CollectSubtree(old, RootId)
      <4>1. w \in Nat
        BY <3>0, <3>4 DEF HasPair
      <4>2. w + 1 \in U /\ w < w + 1
        BY <3>3, <4>1
      <4> QED
        BY <3>4, <4>2
    <3> QED
      BY <3>4
  <2>5. ~HasPair(P, x)
    BY <1>11, <2>4
  <2>6. ~BelowPair(old, P, x)
    BY <1>11, <2>3, <2>4, CollectSubtreeClosed DEF BelowPair, Closed
  <2> HIDE DEF d
  <2> QED
    BY <2>2, <2>5, <2>6 DEF SaysOf, HasPair, d
<1> QED
  BY <1>3, <1>10, <1>11 DEF P

----------------------------------------------------------------------------
(* The insertions of a patch, and what it says about a paired node.        *)

(* Keeping the first k entries.                                            *)
LEMMA OnlyPrefix ==
    ASSUME NEW S, NEW s \in Seq(S), NEW V, NEW k \in Nat, k <= Len(s),
           \A i \in DOMAIN s : s[i] \in V <=> i <= k
    PROVE  Only(s, V) = SubSeq(s, 1, k)
<1> DEFINE q == SubSeq(s, 1, k)
           I == {i \in DOMAIN s : s[i] \in V}
           at == [i \in 1..k |-> i]
<1>1. Len(s) \in Nat /\ DOMAIN s = 1..Len(s)
  OBVIOUS
<1>2. DOMAIN q = 1..k /\ \A i \in 1..k : q[i] = s[i]
  BY <1>1
<1>3. q \in Seq(S)
  BY <1>1
<1>4. \A i \in DOMAIN s : i \in I <=> i <= k
  OBVIOUS
<1> HIDE DEF q, I
<1>5. Picks(at, q, s, I)
  <2>1. at \in [DOMAIN q -> I]
    BY <1>1, <1>2, <1>4
  <2>2. \A j \in DOMAIN q : q[j] = s[at[j]]
    BY <1>2
  <2>3. \A i, j \in DOMAIN q : i < j => at[i] < at[j]
    BY <1>2
  <2>4. \A i \in I : i \in DOMAIN s
    BY DEF I
  <2>5. \A i \in I : \E j \in DOMAIN q : at[j] = i
    BY <1>1, <1>2, <1>4, <2>4
  <2> QED
    BY <2>1, <2>2, <2>3, <2>5 DEF Picks
<1> HIDE DEF at
<1>6. Only(s, V) = q
  BY <1>3, <1>5, OnlyIs DEF I
<1> QED
  BY <1>6 DEF q

(* Keeping all but the first k entries.                                    *)
LEMMA OnlySuffix ==
    ASSUME NEW S, NEW s \in Seq(S), NEW V, NEW k \in Nat, k <= Len(s),
           \A i \in DOMAIN s : s[i] \in V <=> i > k
    PROVE  Only(s, V) = SubSeq(s, k + 1, Len(s))
<1> DEFINE q == SubSeq(s, k + 1, Len(s))
           I == {i \in DOMAIN s : s[i] \in V}
           at == [i \in 1..(Len(s) - k) |-> i + k]
<1>1. Len(s) \in Nat /\ DOMAIN s = 1..Len(s)
  OBVIOUS
<1>2. DOMAIN q = 1..(Len(s) - k) /\ \A i \in 1..(Len(s) - k) : q[i] = s[i + k]
  BY <1>1
<1>3. q \in Seq(S)
  BY <1>1
<1>4. \A i \in DOMAIN s : i \in I <=> i > k
  OBVIOUS
<1> HIDE DEF q, I
<1>5. Picks(at, q, s, I)
  <2>1. at \in [DOMAIN q -> I]
    BY <1>1, <1>2, <1>4
  <2>2. \A j \in DOMAIN q : q[j] = s[at[j]]
    BY <1>2
  <2>3. \A i, j \in DOMAIN q : i < j => at[i] < at[j]
    BY <1>2
  <2>4. \A i \in I : i \in DOMAIN s
    BY DEF I
  <2>5. \A i \in I : \E j \in DOMAIN q : at[j] = i
    <3> SUFFICES ASSUME NEW i \in I
                 PROVE  \E j \in DOMAIN q : at[j] = i
      OBVIOUS
    <3>1. i \in Nat /\ i > k /\ i <= Len(s)
      BY <1>1, <1>4, <2>4
    <3>2. i - k \in 1..(Len(s) - k)
      BY <1>1, <3>1
    <3>3. at[i - k] = i
      BY <3>1, <3>2
    <3> QED
      BY <1>2, <3>2, <3>3
  <2> QED
    BY <2>1, <2>2, <2>3, <2>5 DEF Picks
<1> HIDE DEF at
<1>6. Only(s, V) = q
  BY <1>3, <1>5, OnlyIs DEF I
<1> QED
  BY <1>6 DEF q

(* Keeping of one entry.                                                   *)
LEMMA OnlyOne ==
    ASSUME NEW S, NEW a \in S, NEW V
    PROVE  Only(<<a>>, V) = IF a \in V THEN <<a>> ELSE << >>
<1>1. <<a>> \in Seq(S) /\ ToSet(<<a>>) = {a}
  BY DEF ToSet
<1>2. CASE a \in V
  BY <1>1, <1>2, OnlyAll
<1>3. CASE a \notin V
  BY <1>1, <1>3, OnlyNone
<1> QED
  BY <1>2, <1>3

(* A sequence is its elements one after the other.                         *)
LEMMA FlattenOnes ==
    ASSUME NEW S, NEW s \in Seq(S)
    PROVE  /\ [i \in DOMAIN s |-> <<s[i]>>] \in Seq(Seq(S))
           /\ FlattenSeq([i \in DOMAIN s |-> <<s[i]>>]) = s
<1> DEFINE ss == [i \in DOMAIN s |-> <<s[i]>>]
<1>1. Len(s) \in Nat /\ DOMAIN s = 1..Len(s) /\ \A i \in DOMAIN s : s[i] \in S
  OBVIOUS
<1>2. ss \in Seq(Seq(S)) /\ Len(ss) = Len(s)
  <2>1. \A i \in DOMAIN s : ss[i] \in Seq(S)
    BY <1>1
  <2>2. DOMAIN ss = 1..Len(s)
    BY <1>1
  <2>3. ss = [i \in 1..Len(s) |-> ss[i]]
    BY <1>1
  <2> HIDE DEF ss
  <2>4. ss \in Seq(Seq(S))
    BY <1>1, <2>1, <2>3
  <2>5. Len(ss) = Len(s)
    BY <1>1, <2>2, <2>4
  <2> QED
    BY <2>4, <2>5
<1>3. \A i \in 1..Len(s) : ss[i] = <<s[i]>>
  BY <1>1
<1> HIDE DEF ss
<1>4. PICK f : Walks(f, ss) /\ \A i \in 0..Len(ss) : f[i] \in Seq(S)
  BY <1>2, FlattenWalk
<1> DEFINE T == {n \in Nat : n <= Len(s) => f[n] = SubSeq(s, 1, n)}
<1>5. 0 \in T
  <2>1. SubSeq(s, 1, 0) = << >>
    OBVIOUS
  <2> QED
    BY <1>4, <2>1 DEF Walks
<1>6. ASSUME NEW n \in Nat, n \in T
      PROVE  n + 1 \in T
  <2> SUFFICES ASSUME n + 1 <= Len(s)
               PROVE  f[n + 1] = SubSeq(s, 1, n + 1)
    OBVIOUS
  <2>1. n + 1 \in 1..Len(ss) /\ n + 1 \in 1..Len(s) /\ (n + 1) - 1 = n /\ n <= Len(s)
    BY <1>1, <1>2
  <2>2. f[n + 1] = f[n] \o <<s[n + 1]>>
    BY <1>3, <1>4, <2>1 DEF Walks
  <2>3. f[n] = SubSeq(s, 1, n)
    BY <1>6, <2>1
  <2>4. SubSeq(s, 1, n + 1) = SubSeq(s, 1, n) \o <<s[n + 1]>>
    <3> DEFINE l == SubSeq(s, 1, n + 1)
               r == SubSeq(s, 1, n) \o <<s[n + 1]>>
    <3>1. s[n + 1] \in S
      BY <1>1, <2>1
    <3>2. SubSeq(s, 1, n) \in Seq(S) /\ Len(SubSeq(s, 1, n)) = n
          /\ \A i \in 1..n : SubSeq(s, 1, n)[i] = s[i]
      BY <1>1, <2>1
    <3>3. l \in Seq(S) /\ Len(l) = n + 1 /\ \A i \in 1..(n + 1) : l[i] = s[i]
      BY <1>1, <2>1
    <3>4. r \in Seq(S) /\ Len(r) = n + 1 /\ \A i \in 1..(n + 1) : r[i] = s[i]
      BY <3>1, <3>2
    <3> HIDE DEF l, r
    <3>5. l = r
      BY <3>3, <3>4
    <3> QED
      BY <3>5 DEF l, r
  <2> QED
    BY <2>2, <2>3, <2>4
<1>7. Len(s) \in T
  <2> HIDE DEF T
  <2> QED
    BY <1>1, <1>5, <1>6, SetInduction
<1>8. SubSeq(s, 1, Len(s)) = s
  BY <1>1
<1>9. FlattenSeq(ss) = s
  BY <1>1, <1>2, <1>4, <1>7, <1>8 DEF Walks
<1> QED
  BY <1>2, <1>9 DEF ss

(* Of a sequence without repetition, what is told element by element to    *)
(* stay.                                                                   *)
LEMMA FlattenWhen ==
    ASSUME NEW S, NEW s \in Seq(S), IsInjective(s), NEW I, I \subseteq DOMAIN s
    PROVE  FlattenSeq([i \in DOMAIN s |-> IF i \in I THEN <<s[i]>> ELSE << >>]) = Retain(s, I)
<1> DEFINE ss == [i \in DOMAIN s |-> <<s[i]>>]
           V == {s[i] : i \in I}
           on == [i \in DOMAIN ss |-> Only(ss[i], V)]
           ww == [i \in DOMAIN s |-> IF i \in I THEN <<s[i]>> ELSE << >>]
<1>1. ss \in Seq(Seq(S)) /\ FlattenSeq(ss) = s
  BY FlattenOnes
<1>2. \A i \in DOMAIN s : s[i] \in V <=> i \in I
  BY DEF IsInjective
<1>3. Only(FlattenSeq(ss), V) = FlattenSeq(on)
  <2> HIDE DEF ss, V
  <2> QED
    BY <1>1, OnlyFlatten
<1>4. on = ww
  <2>1. \A i \in DOMAIN s : on[i] = ww[i]
    <3> TAKE i \in DOMAIN s
    <3>1. s[i] \in S
      OBVIOUS
    <3> HIDE DEF V
    <3>2. Only(<<s[i]>>, V) = IF s[i] \in V THEN <<s[i]>> ELSE << >>
      BY <3>1, OnlyOne
    <3> QED
      BY <1>2, <3>2
  <2>2. on = [i \in DOMAIN s |-> on[i]] /\ ww = [i \in DOMAIN s |-> ww[i]]
    OBVIOUS
  <2> HIDE DEF on, ww
  <2> QED
    BY <2>1, <2>2
<1>5. Only(s, V) = Retain(s, I)
  <2>1. {i \in DOMAIN s : s[i] \in V} = I
    BY <1>2
  <2> QED
    BY <2>1 DEF Only
<1> QED
  BY <1>1, <1>3, <1>4, <1>5

(* The insertions there would be for every child.                          *)
AsInserts(o, new, ns) == [i \in DOMAIN ns |-> Insert(o, i - 1, new.node[ns[i]])]

(* The positions of the new children without a partner.                    *)
NotMet(ns, matches) == {i \in DOMAIN ns : \A m \in matches : m[2] # i}

(* The insertions are those of the children without a partner, in order.   *)
LEMMA InsertionsRetain ==
    ASSUME NEW new, IsTree(new), NEW n \in DOMAIN new.node, NEW o, NEW matches,
           NEW ns, ns = new.node[n].children
    PROVE  Insertions(o, new, ns, matches) =
               Retain(AsInserts(o, new, ns), NotMet(ns, matches))
<1> DEFINE s == AsInserts(o, new, ns)
           I == NotMet(ns, matches)
           S == {s[i] : i \in DOMAIN ns}
<1>1. ns \in Seq(Nat) /\ \A i \in DOMAIN ns : ns[i] \in DOMAIN new.node
  <2>1. ns \in Seq(Nat)
    BY TreeFacts DEF Lists
  <2>2. KidsOf(new, n) = ToSet(ns)
    BY DEF KidsOf, ChildrenOf, IsLive
  <2>3. \A i \in DOMAIN ns : ns[i] \in KidsOf(new, n)
    BY <2>2 DEF ToSet
  <2> QED
    BY <2>1, <2>3, TreeFacts
<1>2. DOMAIN s = DOMAIN ns
  BY DEF AsInserts
<1>3. Len(ns) \in Nat /\ DOMAIN ns = 1..Len(ns)
  BY <1>1
<1>4. s \in Seq(S)
  <2>1. s = [i \in DOMAIN ns |-> s[i]]
    BY DEF AsInserts
  <2>2. \A i \in DOMAIN ns : s[i] \in S
    OBVIOUS
  <2> HIDE DEF s, S
  <2> QED
    BY <1>3, <2>1, <2>2
<1>5. IsInjective(s)
  <2> SUFFICES ASSUME NEW i \in DOMAIN ns, NEW j \in DOMAIN ns, s[i] = s[j]
               PROVE  i = j
    BY <1>2 DEF IsInjective
  <2>1. \A k \in DOMAIN ns : s[k].index = k - 1
    BY DEF AsInserts, Insert
  <2>2. i - 1 = j - 1
    BY <2>1
  <2> QED
    BY <1>3, <2>2
<1>6. Insertions(o, new, ns, matches)
        = FlattenSeq([i \in DOMAIN s |-> IF i \in I THEN <<s[i]>> ELSE << >>])
  <2> DEFINE f == [i \in DOMAIN ns |->
                     When((\A m \in matches : m[2] # i) /\ IsLive(new, ns[i]),
                          Insert(o, i - 1, new.node[ns[i]]))]
             g == [i \in DOMAIN s |-> IF i \in I THEN <<s[i]>> ELSE << >>]
  <2>1. \A i \in DOMAIN ns : f[i] = g[i]
    BY <1>1, <1>2 DEF When, IsLive, NotMet, AsInserts
  <2>2. f = [i \in DOMAIN ns |-> f[i]] /\ g = [i \in DOMAIN ns |-> g[i]]
    BY <1>2
  <2>3. Insertions(o, new, ns, matches) = FlattenSeq(f)
    BY DEF Insertions
  <2> HIDE DEF f, g
  <2>4. f = g
    BY <2>1, <2>2
  <2> QED
    BY <2>3, <2>4 DEF g
<1>7. I \subseteq DOMAIN s
  BY <1>2 DEF NotMet
<1> HIDE DEF s, I, S
<1>8. FlattenSeq([i \in DOMAIN s |-> IF i \in I THEN <<s[i]>> ELSE << >>]) = Retain(s, I)
  BY <1>4, <1>5, <1>7, FlattenWhen
<1> QED
  BY <1>6, <1>8 DEF s, I

(* s says what there is to say of label and value.                         *)
OwnSays(s, o, n) ==
    /\ \A a \in ToSet(s) : \/ a.op = "Relabel" /\ a.label = n.label
                           \/ a.op = "Update" /\ a.value = n.value
    /\ o.label # n.label => \E a \in ToSet(s) : a.op = "Relabel"
    /\ ~SameValue(o.value, n.value) => \E a \in ToSet(s) : a.op = "Update"

(* The operations on the node itself say it.                               *)
LEMMA OwnOpsSay ==
    ASSUME NEW id, NEW o, NEW n
    PROVE  OwnSays(OwnOps(id, o, n), o, n)
<1> DEFINE r == Relabel(id, o.label, n.label)
           u == Update(id, o.value, n.value)
           p == When(o.label # n.label, r)
           q == When(~SameValue(o.value, n.value), u)
<1>1. OwnOps(id, o, n) = p \o q
  BY DEF OwnOps
<1>2. p = (IF o.label # n.label THEN <<r>> ELSE << >>)
      /\ q = IF ~SameValue(o.value, n.value) THEN <<u>> ELSE << >>
  BY DEF When
<1>3. r.op = "Relabel" /\ r.label = n.label /\ u.op = "Update" /\ u.value = n.value
  BY DEF Relabel, Update
<1> HIDE DEF p, q, r, u
<1>5. p \in Seq({r, u}) /\ q \in Seq({r, u})
  <2> DEFINE S == {r, u}
  <2>1. r \in S /\ u \in S
    OBVIOUS
  <2>2. p = << >> \/ p = <<r>>
    BY <1>2
  <2>3. q = << >> \/ q = <<u>>
    BY <1>2
  <2> HIDE DEF S
  <2>4. p \in Seq(S)
    BY <2>1, <2>2, AtMostOne
  <2>5. q \in Seq(S)
    BY <2>1, <2>3, AtMostOne
  <2> QED
    BY <2>4, <2>5 DEF S
<1>6. ToSet(p \o q) = ToSet(p) \union ToSet(q)
  BY <1>5, ConcatPairwise
<1>7. ToSet(p) = (IF o.label # n.label THEN {r} ELSE {})
      /\ ToSet(q) = IF ~SameValue(o.value, n.value) THEN {u} ELSE {}
  BY <1>2 DEF ToSet
<1> QED
  BY <1>1, <1>3, <1>6, <1>7 DEF OwnSays

(* s says what there is to say of a pair, apart from insertions.           *)
SayIs(s, old, new, o, n) ==
    /\ \A a \in ToSet(s) : \/ a.op = "Relabel" /\ a.label = new.node[n].label
                           \/ a.op = "Update" /\ a.value = new.node[n].value
                           \/ a.op = "Insert"
    /\ old.node[o].label # new.node[n].label => \E a \in ToSet(s) : a.op = "Relabel"
    /\ ~SameValue(old.node[o].value, new.node[n].value) => \E a \in ToSet(s) : a.op = "Update"

(* The insertions are kept by what they are.                               *)
LEMMA InsertsOnly ==
    ASSUME NEW S, NEW s \in Seq(S)
    PROVE  Inserts(s) = Only(s, {a \in S : a.op = "Insert"})
<1>1. {i \in DOMAIN s : s[i].op = "Insert"} = {i \in DOMAIN s : s[i] \in {a \in S : a.op = "Insert"}}
  OBVIOUS
<1> QED
  BY <1>1 DEF Inserts, Only

(* Say says it, and its insertions are those of the unmatched new          *)
(* children.                                                               *)
LEMMA SaySays ==
    ASSUME NEW old, IsTree(old), NEW new, IsTree(new),
           NEW o \in DOMAIN old.node, NEW n \in DOMAIN new.node
    PROVE  /\ Say(old, new, o, n) \in Seq(DiffOps(old, new))
           /\ SayIs(Say(old, new, o, n), old, new, o, n)
           /\ Inserts(Say(old, new, o, n)) =
                 Insertions(o, new, new.node[n].children, MatchesOf(old, new, o, n))
<1> DEFINE S == DiffOps(old, new)
           own == OwnOps(o, old.node[o], new.node[n])
           ins == Insertions(o, new, new.node[n].children, MatchesOf(old, new, o, n))
           V == {a \in S : a.op = "Insert"}
<1>1. Say(old, new, o, n) = own \o ins
  BY DEF Say
<1>2. own \in Seq(S) /\ \A a \in ToSet(own) : a.op # "Insert"
  <2>1. /\ own \in Seq(S)
        /\ \A a \in ToSet(own) : IsOn(a, o) /\ (a.op = "Relabel" \/ a.op = "Update")
    BY OwnOpsFit
  <2> HIDE DEF own, S
  <2> QED
    BY <2>1
<1>3. ins \in Seq(S) /\ \A a \in ToSet(ins) : a.op = "Insert"
  <2>1. /\ ins \in Seq(S) /\ Pairwise(ins, Fitting(old, new))
        /\ \A a \in ToSet(ins) : a.op = "Insert" /\ IsOn(a, o)
    BY InsertionsFit
  <2> HIDE DEF ins, S
  <2> QED
    BY <2>1
<1>4. OwnSays(own, old.node[o], new.node[n])
  BY OwnOpsSay
<1> HIDE DEF own, ins, S
<1>5. own \o ins \in Seq(S) /\ ToSet(own \o ins) = ToSet(own) \union ToSet(ins)
  BY <1>2, <1>3, ConcatPairwise
<1>6. SayIs(own \o ins, old, new, o, n)
  BY <1>3, <1>4, <1>5 DEF SayIs, OwnSays
<1>7. Inserts(own \o ins) = ins
  <2>1. Inserts(own \o ins) = Only(own \o ins, V)
    BY <1>5, InsertsOnly
  <2>2. ToSet(own) \intersect V = {}
    BY <1>2
  <2>3. ToSet(ins) \subseteq V
    <3>1. ToSet(ins) \subseteq S
      BY <1>3 DEF ToSet
    <3> QED
      BY <1>3, <3>1
  <2> HIDE DEF V
  <2>4. Only(own \o ins, V) = Only(own, V) \o Only(ins, V)
    BY <1>2, <1>3, OnlyConcat
  <2>5. Only(own, V) = << >>
    BY <1>2, <2>2, OnlyNone
  <2>6. Only(ins, V) = ins
    BY <1>3, <2>3, OnlyAll
  <2>7. << >> \o ins = ins
    BY <1>3
  <2> QED
    BY <2>1, <2>4, <2>5, <2>6, <2>7
<1> QED
  BY <1>1, <1>5, <1>6, <1>7 DEF S, ins

(* The new node c is paired.                                               *)
HasMate(P, c) == \E w : <<w, c>> \in P

(* Of two lists of siblings, those at the same places are paired, and the  *)
(* rest of the longer one is without a partner.                            *)
MatesAt(P, old, new, x, y, key) ==
    /\ \A k \in DOMAIN Siblings(old, x, key) :
          HasPair(P, Siblings(old, x, key)[k]) <=> k \in DOMAIN Siblings(new, y, key)
    /\ \A k \in DOMAIN Siblings(new, y, key) :
          HasMate(P, Siblings(new, y, key)[k]) <=> k \in DOMAIN Siblings(old, x, key)
    /\ \A k : k \in DOMAIN Siblings(old, x, key) /\ k \in DOMAIN Siblings(new, y, key) =>
          <<Siblings(old, x, key)[k], Siblings(new, y, key)[k]>> \in P

(* The children of paired nodes are paired with each other or not at all.  *)
LEMMA KidsPaired ==
    ASSUME NEW old, IsTree(old), NEW new, IsTree(new), NEW P, PairSet(P, old, new),
           NEW x, NEW y, <<x, y>> \in P, NEW w, NEW z, <<w, z>> \in P,
           w \in KidsOf(old, x) \/ z \in KidsOf(new, y)
    PROVE  <<w, z>> \in Meets(old, new, x, y)
<1>1. /\ \A u, c : c \in KidsOf(old, u) => old.parent[c] = u /\ c # RootId
      /\ \A u, c : c \in KidsOf(new, u) => new.parent[c] = u /\ c # RootId
  <2>1. DOMAIN old.parent = DOMAIN old.node \ {RootId} /\ DOMAIN new.parent = DOMAIN new.node \ {RootId}
    BY TreeFacts
  <2>2. \A u, c : c \in KidsOf(old, u) => c \in DOMAIN old.parent /\ old.parent[c] = u
    BY TreeFacts
  <2>3. \A u, c : c \in KidsOf(new, u) => c \in DOMAIN new.parent /\ new.parent[c] = u
    BY TreeFacts
  <2> QED
    BY <2>1, <2>2, <2>3
<1>2. w # RootId
  BY <1>1 DEF PairSet
<1>3. /\ <<old.parent[w], new.parent[z]>> \in P
      /\ <<w, z>> \in Meets(old, new, old.parent[w], new.parent[z])
  BY <1>2 DEF PairSet
<1>4. CASE w \in KidsOf(old, x)
  <2>1. old.parent[w] = x
    BY <1>1, <1>4
  <2>2. new.parent[z] = y
    BY <1>3, <2>1 DEF PairSet, OneToOne
  <2> QED
    BY <1>3, <2>1, <2>2
<1>5. CASE z \in KidsOf(new, y)
  <2>1. new.parent[z] = y
    BY <1>1, <1>5
  <2>2. old.parent[w] = x
    BY <1>3, <2>1 DEF PairSet, OneToOne
  <2> QED
    BY <1>3, <2>1, <2>2
<1> QED
  BY <1>4, <1>5

(* The k-th sibling of a key below one of a pair is paired with the k-th   *)
(* below the other, and with no other.                                     *)
LEMMA SiblingsPair ==
    ASSUME NEW old, IsTree(old), NEW new, IsTree(new), NEW P, PairSet(P, old, new),
           NEW x, NEW y, <<x, y>> \in P, NEW key
    PROVE  MatesAt(P, old, new, x, y, key)
<1> DEFINE mine == Siblings(old, x, key)
           theirs == Siblings(new, y, key)
<1>1. x \in DOMAIN old.node /\ y \in DOMAIN new.node /\ Meets(old, new, x, y) \subseteq P
  BY DEF PairSet
<1>2. ASSUME NEW k, k \in DOMAIN mine, k \in DOMAIN theirs
      PROVE  <<mine[k], theirs[k]>> \in P
  <2>1. Meet(old, new, x, y, key, k, mine[k], theirs[k])
    BY <1>2 DEF Meet
  <2>2. <<mine[k], theirs[k]>> \in Meets(old, new, x, y)
    BY <1>1, <2>1, MeetsAreSiblings
  <2> QED
    BY <1>1, <2>2
<1>3. ASSUME NEW k \in DOMAIN mine, HasPair(P, mine[k])
      PROVE  k \in DOMAIN theirs
  <2> DEFINE w == mine[k]
  <2>1. w \in KidsOf(old, x) /\ Key(old, w) = key
    BY <1>1, SiblingIs
  <2>2. PICK z : <<w, z>> \in P
    BY <1>3 DEF HasPair
  <2> HIDE DEF w
  <2>3. <<w, z>> \in Meets(old, new, x, y)
    BY <2>1, <2>2, KidsPaired
  <2>4. PICK kk, l : Meet(old, new, x, y, kk, l, w, z)
    BY <1>1, <2>3, MeetsAreSiblings
  <2>5. kk = key
    BY <1>1, <2>1, <2>4, SiblingIs DEF Meet
  <2>6. l = k
    BY <1>1, <2>4, <2>5, SiblingsDiffer DEF Meet, w
  <2> QED
    BY <2>4, <2>5, <2>6 DEF Meet
<1>4. ASSUME NEW k \in DOMAIN theirs, HasMate(P, theirs[k])
      PROVE  k \in DOMAIN mine
  <2> DEFINE z == theirs[k]
  <2>1. z \in KidsOf(new, y) /\ Key(new, z) = key
    BY <1>1, SiblingIs
  <2>2. PICK w : <<w, z>> \in P
    BY <1>4 DEF HasMate
  <2> HIDE DEF z
  <2>3. <<w, z>> \in Meets(old, new, x, y)
    BY <2>1, <2>2, KidsPaired
  <2>4. PICK kk, l : Meet(old, new, x, y, kk, l, w, z)
    BY <1>1, <2>3, MeetsAreSiblings
  <2>5. kk = key
    BY <1>1, <2>1, <2>4, SiblingIs DEF Meet
  <2>6. l = k
    BY <1>1, <2>4, <2>5, SiblingsDiffer DEF Meet, z
  <2> QED
    BY <2>4, <2>5, <2>6 DEF Meet
<1> QED
  BY <1>2, <1>3, <1>4 DEF MatesAt, HasPair, HasMate

(* The positions a patch inserts are those of the children that have no    *)
(* mate.                                                                   *)
LEMMA NotMetIs ==
    ASSUME NEW old, IsTree(old), NEW new, IsTree(new), NEW P, PairSet(P, old, new),
           NEW x, NEW y, <<x, y>> \in P, NEW ns, ns = new.node[y].children
    PROVE  NotMet(ns, MatchesOf(old, new, x, y)) = {i \in DOMAIN ns : ~HasMate(P, ns[i])}
<1> DEFINE os == old.node[x].children
           M == MatchesOf(old, new, x, y)
<1>1. x \in DOMAIN old.node /\ y \in DOMAIN new.node /\ Meets(old, new, x, y) \subseteq P
  BY DEF PairSet
<1>2. IsInjective(ns) /\ \A i \in DOMAIN ns : ns[i] \in KidsOf(new, y)
  <2>1. KidsOf(new, y) = ToSet(ns)
    BY <1>1 DEF KidsOf, ChildrenOf, IsLive
  <2> QED
    BY <1>1, <2>1, TreeFacts DEF Agreed, ToSet
<1>3. Meets(old, new, x, y) = {<<os[q[1]], ns[q[2]]>> : q \in M}
  BY DEF Meets, MatchesOf
<1>4. \A q \in M : q[2] \in DOMAIN ns
  BY DEF MatchesOf, Matches
<1> HIDE DEF M, os
<1>5. ASSUME NEW i \in DOMAIN ns, NEW m \in M, m[2] = i
      PROVE  HasMate(P, ns[i])
  <2>1. <<os[m[1]], ns[i]>> \in P
    BY <1>1, <1>3, <1>5
  <2> QED
    BY <2>1 DEF HasMate
<1>6. ASSUME NEW i \in DOMAIN ns, HasMate(P, ns[i])
      PROVE  \E m \in M : m[2] = i
  <2>1. PICK w : <<w, ns[i]>> \in P
    BY <1>6 DEF HasMate
  <2>2. <<w, ns[i]>> \in Meets(old, new, x, y)
    BY <1>2, <2>1, KidsPaired
  <2>3. PICK q \in M : <<w, ns[i]>> = <<os[q[1]], ns[q[2]]>>
    BY <1>3, <2>2
  <2>4. ns[i] = ns[q[2]]
    BY <2>3
  <2>5. q[2] = i
    BY <1>2, <1>4, <2>4 DEF IsInjective
  <2> QED
    BY <2>5
<1>7. NotMet(ns, M) = {i \in DOMAIN ns : ~HasMate(P, ns[i])}
  <2>1. \A i \in DOMAIN ns : (\A m \in M : m[2] # i) <=> ~HasMate(P, ns[i])
    BY <1>5, <1>6
  <2> QED
    BY <2>1 DEF NotMet
<1> QED
  BY <1>7 DEF M

----------------------------------------------------------------------------
(* What a patch brings to a paired node and to its list of children.       *)

(* A paired node stays, and so do its paired children and no other.        *)
StayIs(P, old, d) ==
    /\ \A x : HasPair(P, x) => x \notin Gone(old, d)
    /\ \A x, c : HasPair(P, x) /\ c \in KidsOf(old, x) => (c \in Deleted(d) <=> ~HasPair(P, c))

(* A patch takes away no node that has a partner, and every child that has *)
(* none.                                                                   *)
LEMMA PairedStay ==
    ASSUME NEW old, IsTree(old), NEW new, IsTree(new), NEW d, d = DiffTrees(old, new),
           NEW P, P = Paired(old, new)
    PROVE  StayIs(P, old, d)
<1> DEFINE S == DiffOps(old, new)
<1>1. d \in Seq(S)
  BY DiffTreesIsPatch DEF IsPatch
<1>2. PairSet(P, old, new)
  BY PairedIsPairSet
<1>3. \A x : SaysOf(d, old, new, P, x)
  BY DiffSays
<1>4. \A x : x \in Deleted(d) <=> \E o \in ToSet(OpsOn(d, x)) : o.op = "Delete"
  <2> HIDE DEF S
  <2> QED
    BY <1>1, DeletedByOps
<1>5. ASSUME NEW x, HasPair(P, x)
      PROVE  x \notin Deleted(d)
  <2>1. PICK y : <<x, y>> \in P
    BY <1>5 DEF HasPair
  <2>2. OpsOn(d, x) = Say(old, new, x, y)
    BY <1>3, <2>1 DEF SaysOf
  <2>3. x \in DOMAIN old.node /\ y \in DOMAIN new.node
    BY <1>2, <2>1 DEF PairSet
  <2>4. SayIs(Say(old, new, x, y), old, new, x, y)
    BY <2>3, SaySays
  <2> QED
    BY <1>4, <2>2, <2>4 DEF SayIs
<1>6. ASSUME NEW x, HasPair(P, x), NEW c \in KidsOf(old, x), ~HasPair(P, c)
      PROVE  c \in Deleted(d)
  <2>1. BelowPair(old, P, c)
    BY <1>6 DEF BelowPair
  <2>2. OpsOn(d, c) = <<Delete(c)>>
    BY <1>3, <1>6, <2>1 DEF SaysOf
  <2>3. Delete(c) \in ToSet(<<Delete(c)>>)
    BY DEF ToSet
  <2>4. Delete(c).op = "Delete"
    BY DEF Delete
  <2> QED
    BY <1>4, <2>2, <2>3, <2>4
<1>7. ASSUME NEW x, HasPair(P, x), x \in Gone(old, d)
      PROVE  FALSE
  <2>1. PICK z \in Deleted(d) : x \in CollectSubtree(old, z)
    BY <1>7 DEF Gone
  <2>2. ~HasPair(P, z)
    BY <1>5, <2>1
  <2> QED
    BY <1>2, <1>7, <2>1, <2>2, UnpairedBelow
<1> QED
  BY <1>5, <1>6, <1>7 DEF StayIs

(* x has the label and the value of y, and of its children those that are  *)
(* paired, then those that are inserted.                                   *)
NodePulled(t, old, new, x, y, d) ==
    /\ x \in DOMAIN t.node
    /\ t.node[x].kind = old.node[x].kind
    /\ t.node[x].label = new.node[y].label
    /\ t.node[x].value = new.node[y].value
    /\ \E nn \in Seq(Nat) :
          /\ t.node[x].children = Drop(old.node[x].children, Deleted(d)) \o nn
          /\ Grown(t, old.next, nn,
                   Insertions(x, new, new.node[y].children, MatchesOf(old, new, x, y)))

(* A node with a partner takes its label and value and keeps the children  *)
(* that have one, with the new ones behind.                                *)
LEMMA PullsNode ==
    ASSUME NEW old, IsTree(old), NEW new, IsTree(new), NEW d, d = DiffTrees(old, new),
           NEW t, Effect(t, old, d), NEW x, NEW y, <<x, y>> \in Paired(old, new)
    PROVE  NodePulled(t, old, new, x, y, d)
<1> DEFINE P == Paired(old, new)
           s == Say(old, new, x, y)
           ins == Insertions(x, new, new.node[y].children, MatchesOf(old, new, x, y))
<1>1. PairSet(P, old, new) /\ StayIs(P, old, d)
  BY PairedIsPairSet, PairedStay
<1>2. OpsOn(d, x) = s
  BY DiffSays DEF SaysOf
<1>3. <<x, y>> \in P
  OBVIOUS
<1> HIDE DEF P
<1>4. x \in DOMAIN old.node /\ y \in DOMAIN new.node
  BY <1>1, <1>3 DEF PairSet
<1>5. SayIs(s, old, new, x, y) /\ Inserts(s) = ins
  BY <1>4, SaySays
<1>6. x \in DOMAIN t.node
  <2>1. x \notin Gone(old, d)
    BY <1>1, <1>3 DEF StayIs, HasPair
  <2> QED
    BY <1>4, <2>1 DEF Effect
<1>7. NodeAfter(t, old, x, d)
  BY <1>4, <1>6 DEF Effect
<1>8. \A i \in DOMAIN s : s[i] \in ToSet(s)
  BY DEF ToSet
<1> DEFINE ol == old.node[x].label
           nl == new.node[y].label
           ov == old.node[x].value
           nv == new.node[y].value
           tl == t.node[x].label
           tv == t.node[x].value
<1>9. /\ \A a \in ToSet(s) : \/ a.op = "Relabel" /\ a.label = nl
                             \/ a.op = "Update" /\ a.value = nv
                             \/ a.op = "Insert"
      /\ ol # nl => \E i \in DOMAIN s : s[i].op = "Relabel"
      /\ ~SameValue(ov, nv) => \E i \in DOMAIN s : s[i].op = "Update"
  BY <1>5 DEF SayIs, ToSet
<1>10. LabelIs(ol, s, tl) /\ ValueIs(ov, s, tv)
  BY <1>2, <1>7 DEF NodeAfter
<1>11. t.node[x].kind = old.node[x].kind
  BY <1>7 DEF NodeAfter
<1>12. PICK nn : ListIs(t, old, x, d, nn)
  BY <1>7 DEF NodeAfter
<1>13. nn \in Seq(Nat) /\ t.node[x].children = Drop(old.node[x].children, Deleted(d)) \o nn
       /\ Grown(t, old.next, nn, Inserts(s))
  BY <1>2, <1>12 DEF ListIs
<1>14. ov # nv => ~SameValue(ov, nv)
  BY DEF SameValue
<1> HIDE DEF s, ins, ol, nl, ov, nv, tl, tv
<1>15. tl = nl
  BY <1>8, <1>9, <1>10 DEF LabelIs
<1>16. tv = nv
  BY <1>8, <1>9, <1>10, <1>14 DEF ValueIs
<1> QED
  BY <1>5, <1>6, <1>11, <1>13, <1>15, <1>16 DEF NodePulled, ins, nl, nv, tl, tv

(* What the two copies have in common of a list of siblings.               *)
IsCommon(k, old, new, x, y, key) ==
    /\ k \in Nat
    /\ k <= Len(Siblings(old, x, key)) /\ k <= Len(Siblings(new, y, key))
    /\ k = Len(Siblings(old, x, key)) \/ k = Len(Siblings(new, y, key))

(* The nodes of t with a key.                                              *)
KeyedIn(t, key) == {c \in DOMAIN t.node : Key(t, c) = key}

(* The same-key siblings are the children in that set.                     *)
LEMMA SiblingsKeyed ==
    ASSUME NEW t, IsTree(t), NEW x \in DOMAIN t.node, NEW key
    PROVE  Siblings(t, x, key) = Only(t.node[x].children, KeyedIn(t, key))
<1> DEFINE s == t.node[x].children
           V == KeyedIn(t, key)
<1>1. {i \in DOMAIN s : IsLive(t, s[i]) /\ Key(t, s[i]) = key} = {i \in DOMAIN s : s[i] \in V}
  BY DEF IsLive, KeyedIn
<1> QED
  BY <1>1 DEF Siblings, Only

(* The entries of a suffix.                                                *)
LEMMA SuffixOf ==
    ASSUME NEW S, NEW s \in Seq(S), NEW k \in Nat, k <= Len(s)
    PROVE  /\ Len(SubSeq(s, k + 1, Len(s))) = Len(s) - k
           /\ \A j \in 1..(Len(s) - k) : SubSeq(s, k + 1, Len(s))[j] = s[j + k]
<1>1. Len(s) \in Nat
  OBVIOUS
<1>2. Len(SubSeq(s, k + 1, Len(s))) = Len(s) - k
  BY <1>1
<1>3. \A j \in 1..(Len(s) - k) : SubSeq(s, k + 1, Len(s))[j] = s[j + k]
  BY <1>1
<1> QED
  BY <1>2, <1>3

(* The entries of a concatenation.                                         *)
LEMMA ConcatOf ==
    ASSUME NEW S, NEW a \in Seq(S), NEW b \in Seq(S)
    PROVE  /\ a \o b \in Seq(S)
           /\ Len(a \o b) = Len(a) + Len(b)
           /\ \A i \in 1..Len(a) : (a \o b)[i] = a[i]
           /\ \A j \in 1..Len(b) : (a \o b)[Len(a) + j] = b[j]
OBVIOUS

(* Of the same-key siblings the paired ones are the first k.               *)
LEMMA SiblingsKept ==
    ASSUME NEW old, IsTree(old), NEW new, IsTree(new), NEW d, d = DiffTrees(old, new),
           NEW t, Effect(t, old, d), NEW x, NEW y, <<x, y>> \in Paired(old, new),
           NEW key, NEW k, IsCommon(k, old, new, x, y, key)
    PROVE  Only(Drop(old.node[x].children, Deleted(d)), KeyedIn(t, key))
               = SubSeq(Siblings(old, x, key), 1, k)
<1> DEFINE P == Paired(old, new)
           oc == old.node[x].children
           D == Deleted(d)
           mine == Siblings(old, x, key)
           Kt == KeyedIn(t, key)
           Ko == KeyedIn(old, key)
           V == {c \in Nat : HasPair(P, c)}
<1>1. PairSet(P, old, new) /\ StayIs(P, old, d)
  BY PairedIsPairSet, PairedStay
<1>2. \A w, z : <<w, z>> \in P => NodePulled(t, old, new, w, z, d)
  BY PullsNode
<1>3. x \in DOMAIN old.node /\ y \in DOMAIN new.node /\ <<x, y>> \in P
  BY <1>1 DEF PairSet
<1>4. oc \in Seq(Nat) /\ mine = Only(oc, Ko) /\ mine \in Seq(Nat)
  <2>1. oc \in Seq(Nat) /\ mine \in Seq(Nat)
    BY <1>3, SiblingsOf
  <2>2. mine = Only(oc, Ko)
    BY <1>3, SiblingsKeyed
  <2> QED
    BY <2>1, <2>2
<1>5. Drop(oc, D) = Only(oc, Nat \ D)
  BY DEF Drop
<1>6. MatesAt(P, old, new, x, y, key)
  BY <1>1, <1>3, SiblingsPair
<1> HIDE DEF P
<1>7. ASSUME NEW c \in ToSet(oc)
      PROVE  c \in (Nat \ D) \intersect Kt <=> c \in Ko \intersect V
  <2>1. c \in KidsOf(old, x) /\ c \in Nat /\ c \in DOMAIN old.node
    <3>1. c \in KidsOf(old, x)
      BY <1>3 DEF KidsOf, ChildrenOf, IsLive
    <3> QED
      BY <3>1, TreeFacts
  <2>2. c \in D <=> ~HasPair(P, c)
    BY <1>1, <1>3, <2>1 DEF StayIs, HasPair
  <2>3. ASSUME HasPair(P, c)
        PROVE  c \in Kt <=> c \in Ko
    <3>1. PICK z : <<c, z>> \in P
      BY <2>3 DEF HasPair
    <3>2. <<c, z>> \in Meets(old, new, x, y)
      BY <1>1, <1>3, <2>1, <3>1, KidsPaired
    <3>3. Key(old, c) = Key(new, z)
      BY <1>3, <3>2, MeetsFacts
    <3>4. NodePulled(t, old, new, c, z, d)
      BY <1>2, <3>1
    <3>5. c \in DOMAIN t.node /\ t.node[c].kind = old.node[c].kind /\ t.node[c].label = new.node[z].label
      BY <3>4 DEF NodePulled
    <3>6. Key(t, c) = Key(old, c)
      BY <3>3, <3>5 DEF Key
    <3> QED
      BY <2>1, <3>5, <3>6 DEF KeyedIn
  <2> HIDE DEF D, Kt, Ko
  <2> QED
    BY <2>1, <2>2, <2>3
<1> HIDE DEF D, Kt, Ko, oc
<1>8. Only(Only(oc, Nat \ D), Kt) = Only(oc, (Nat \ D) \intersect Kt)
  BY <1>4, OnlyOnly
<1>9. Only(oc, (Nat \ D) \intersect Kt) = Only(oc, Ko \intersect V)
  <2>1. ((Nat \ D) \intersect Kt) \intersect ToSet(oc) = (Ko \intersect V) \intersect ToSet(oc)
    BY <1>7
  <2> QED
    BY <2>1, OnlySame
<1>10. Only(Only(oc, Ko), V) = Only(oc, Ko \intersect V)
  BY <1>4, OnlyOnly
<1>11. Only(mine, V) = SubSeq(mine, 1, k)
  <2> DEFINE theirs == Siblings(new, y, key)
  <2>1. theirs \in Seq(Nat)
    BY <1>3, SiblingsOf
  <2>2. \A i \in DOMAIN mine : HasPair(P, mine[i]) <=> i \in DOMAIN theirs
    BY <1>6 DEF MatesAt
  <2>3. k \in Nat /\ k <= Len(mine) /\ k <= Len(theirs) /\ (k = Len(mine) \/ k = Len(theirs))
    BY DEF IsCommon
  <2> HIDE DEF mine, theirs
  <2>4. \A i \in DOMAIN mine : mine[i] \in V <=> i <= k
    <3> TAKE i \in DOMAIN mine
    <3>1. mine[i] \in Nat /\ i \in Nat /\ i >= 1 /\ i <= Len(mine) /\ Len(mine) \in Nat
      BY <1>4
    <3>2. i \in DOMAIN theirs <=> i <= Len(theirs)
      BY <2>1, <3>1
    <3>3. mine[i] \in V <=> i <= Len(theirs)
      BY <2>2, <3>1, <3>2
    <3>4. Len(theirs) \in Nat
      BY <2>1
    <3> QED
      BY <2>3, <3>1, <3>3, <3>4
  <2> HIDE DEF V
  <2> QED
    BY <1>4, <2>3, <2>4, OnlyPrefix
<1> QED
  BY <1>4, <1>5, <1>8, <1>9, <1>10, <1>11 DEF D, Kt, oc

(* c is a leaf that looks like z.                                          *)
IsCopy(t, c, new, z) ==
    /\ c \in DOMAIN t.node
    /\ t.node[c].kind = new.node[z].kind
    /\ t.node[c].label = new.node[z].label
    /\ t.node[c].value = new.node[z].value
    /\ t.node[c].children = << >>

(* So are the entries of nn, position by position.                         *)
CopiesAlong(t, nn, new, U) ==
    /\ DOMAIN nn = DOMAIN U
    /\ \A k \in DOMAIN nn : IsCopy(t, nn[k], new, U[k])

(* What a patch inserts are copies of the children that have no mate.      *)
LEMMA InsertedCopies ==
    ASSUME NEW old, IsTree(old), NEW new, IsTree(new),
           NEW P, PairSet(P, old, new), NEW x, NEW y, <<x, y>> \in P,
           NEW t, NEW next, NEW nn,
           Grown(t, next, nn,
                 Insertions(x, new, new.node[y].children, MatchesOf(old, new, x, y)))
    PROVE  CopiesAlong(t, nn, new, Only(new.node[y].children, {c \in Nat : ~HasMate(P, c)}))
<1> DEFINE ns == new.node[y].children
           M == MatchesOf(old, new, x, y)
           F == AsInserts(x, new, ns)
           I == NotMet(ns, M)
           S == {F[i] : i \in DOMAIN ns}
           ins == Retain(F, I)
           U == Retain(ns, I)
<1>1. x \in DOMAIN old.node /\ y \in DOMAIN new.node
  BY DEF PairSet
<1>2. ns \in Seq(Nat)
  BY <1>1, TreeFacts DEF Lists
<1>3. Insertions(x, new, ns, M) = ins
  BY <1>1, InsertionsRetain
<1>4. I = {i \in DOMAIN ns : ~HasMate(P, ns[i])}
  BY NotMetIs
<1>5. U = Only(ns, {c \in Nat : ~HasMate(P, c)})
  <2>1. I = {i \in DOMAIN ns : ns[i] \in {c \in Nat : ~HasMate(P, c)}}
    BY <1>2, <1>4
  <2> QED
    BY <2>1 DEF Only
<1>6. DOMAIN F = DOMAIN ns /\ F \in Seq(S)
  <2>1. DOMAIN ns = 1..Len(ns) /\ Len(ns) \in Nat
    BY <1>2
  <2>2. F = [i \in DOMAIN ns |-> F[i]] /\ DOMAIN F = DOMAIN ns
    BY DEF AsInserts
  <2>3. \A i \in DOMAIN ns : F[i] \in S
    OBVIOUS
  <2> HIDE DEF F, S, ns
  <2>4. F \in Seq(S)
    BY <2>1, <2>2, <2>3
  <2> QED
    BY <2>2, <2>4
<1>7. \A i \in DOMAIN ns : /\ F[i].kind = new.node[ns[i]].kind
                           /\ F[i].label = new.node[ns[i]].label
                           /\ F[i].value = new.node[ns[i]].value
  BY DEF AsInserts, Insert
<1>8. I \subseteq DOMAIN ns
  BY <1>4
<1>9. Grown(t, next, nn, ins)
  BY <1>3
<1> HIDE DEF F, I, S, ins, U, ns
<1>10. RetainTogether(F, ns, I)
  BY <1>2, <1>6, <1>8, RetainAlong
<1>11. PICK at \in [1..Cardinality(I) -> I] :
           \A k \in 1..Cardinality(I) : Retain(F, I)[k] = F[at[k]] /\ Retain(ns, I)[k] = ns[at[k]]
  BY <1>10 DEF RetainTogether
<1>12. DOMAIN ins = 1..Cardinality(I) /\ DOMAIN U = 1..Cardinality(I)
  BY DEF Retain, ins, U
<1>13. DOMAIN nn = DOMAIN U
  BY <1>9, <1>12 DEF Grown
<1>14. ASSUME NEW k \in DOMAIN nn
       PROVE  IsCopy(t, nn[k], new, U[k])
  <2>1. k \in 1..Cardinality(I)
    BY <1>12, <1>13
  <2>2. ins[k] = F[at[k]] /\ U[k] = ns[at[k]] /\ at[k] \in I
    BY <1>11, <2>1 DEF ins, U
  <2>3. at[k] \in DOMAIN ns
    BY <1>8, <2>2
  <2>4. /\ ins[k].kind = new.node[U[k]].kind
        /\ ins[k].label = new.node[U[k]].label
        /\ ins[k].value = new.node[U[k]].value
    BY <1>7, <2>2, <2>3
  <2> QED
    BY <1>9, <2>4 DEF IsCopy, Grown
<1> QED
  BY <1>5, <1>13, <1>14 DEF CopiesAlong, ns

(* r has copies of the siblings of y from the k-th on.                     *)
NewOnes(t, new, y, key, k, r) ==
    /\ r \in Seq(Nat)
    /\ Len(r) = Len(Siblings(new, y, key)) - k
    /\ \A j \in DOMAIN r : IsCopy(t, r[j], new, Siblings(new, y, key)[j + k])

(* Of the inserted nodes those of a key are copies of the siblings that    *)
(* are left.                                                               *)
LEMMA SiblingsNew ==
    ASSUME NEW old, IsTree(old), NEW new, IsTree(new),
           NEW P, PairSet(P, old, new), NEW x, NEW y, <<x, y>> \in P,
           NEW t, NEW nn \in Seq(Nat),
           CopiesAlong(t, nn, new, Only(new.node[y].children, {c \in Nat : ~HasMate(P, c)})),
           NEW key, NEW k, IsCommon(k, old, new, x, y, key)
    PROVE  NewOnes(t, new, y, key, k, Only(nn, KeyedIn(t, key)))
<1> DEFINE ns == new.node[y].children
           V == {c \in Nat : ~HasMate(P, c)}
           U == Only(ns, V)
           theirs == Siblings(new, y, key)
           mine == Siblings(old, x, key)
           Kt == KeyedIn(t, key)
           Kn == KeyedIn(new, key)
           J == {i \in DOMAIN nn : nn[i] \in Kt}
           r == Only(nn, Kt)
           W == Only(U, Kn)
<1>1. x \in DOMAIN old.node /\ y \in DOMAIN new.node
  BY DEF PairSet
<1>2. ns \in Seq(Nat) /\ theirs \in Seq(Nat) /\ theirs = Only(ns, Kn) /\ mine \in Seq(Nat)
  <2>1. ns \in Seq(Nat) /\ theirs \in Seq(Nat) /\ mine \in Seq(Nat)
    BY <1>1, SiblingsOf
  <2>2. theirs = Only(ns, Kn)
    BY <1>1, SiblingsKeyed
  <2> QED
    BY <2>1, <2>2
<1>3. U \in Seq(Nat) /\ ToSet(U) \subseteq ToSet(ns)
  <2> HIDE DEF ns, V
  <2> QED
    BY <1>2, OnlyPicks, OnlySet
<1>4. \A c \in ToSet(ns) : c \in DOMAIN new.node
  <2>1. KidsOf(new, y) = ToSet(ns)
    BY <1>1 DEF KidsOf, ChildrenOf, IsLive
  <2> QED
    BY <2>1, TreeFacts
<1>5. CopiesAlong(t, nn, new, U)
  OBVIOUS
<1>6. MatesAt(P, old, new, x, y, key)
  BY SiblingsPair
<1>7. \A i \in DOMAIN theirs : HasMate(P, theirs[i]) <=> i \in DOMAIN mine
  BY <1>6 DEF MatesAt
<1>8. k \in Nat /\ k <= Len(mine) /\ k <= Len(theirs) /\ (k = Len(mine) \/ k = Len(theirs))
  BY DEF IsCommon
<1>9. W = Only(theirs, V)
  <2> HIDE DEF ns, V, Kn, theirs, U
  <2>1. Only(Only(ns, V), Kn) = Only(ns, V \intersect Kn)
    BY <1>2, OnlyOnly
  <2>2. Only(Only(ns, Kn), V) = Only(ns, Kn \intersect V)
    BY <1>2, OnlyOnly
  <2>3. V \intersect Kn = Kn \intersect V
    OBVIOUS
  <2> QED
    BY <1>2, <2>1, <2>2, <2>3 DEF U
<1>10. Only(theirs, V) = SubSeq(theirs, k + 1, Len(theirs))
  <2> HIDE DEF theirs, mine
  <2>1. \A i \in DOMAIN theirs : theirs[i] \in V <=> i > k
    <3> TAKE i \in DOMAIN theirs
    <3>1. theirs[i] \in Nat /\ i \in Nat /\ i >= 1 /\ i <= Len(theirs) /\ Len(theirs) \in Nat
      BY <1>2
    <3>2. i \in DOMAIN mine <=> i <= Len(mine)
      BY <1>2, <3>1
    <3>3. theirs[i] \in V <=> ~(i <= Len(mine))
      BY <1>7, <3>1, <3>2
    <3>4. Len(mine) \in Nat
      BY <1>2
    <3> QED
      BY <1>8, <3>1, <3>3, <3>4
  <2> HIDE DEF V
  <2> QED
    BY <1>2, <1>8, <2>1, OnlySuffix
<1>11. Len(W) = Len(theirs) - k /\ \A j \in 1..(Len(theirs) - k) : W[j] = theirs[j + k]
  <2> HIDE DEF theirs, W
  <2> DEFINE q == SubSeq(theirs, k + 1, Len(theirs))
  <2>1. Len(theirs) \in Nat /\ theirs \in Seq(Nat) /\ k \in Nat /\ k <= Len(theirs)
    BY <1>2, <1>8
  <2>2. Len(q) = Len(theirs) - k /\ \A j \in 1..(Len(theirs) - k) : q[j] = theirs[j + k]
    BY <2>1, SuffixOf
  <2> HIDE DEF q
  <2>3. W = q
    BY <1>9, <1>10 DEF q
  <2> QED
    BY <2>2, <2>3
<1> HIDE DEF theirs, mine, V, Kt, U
<1>12. J = {i \in DOMAIN U : U[i] \in Kn}
  <2>1. DOMAIN nn = DOMAIN U
    BY <1>5 DEF CopiesAlong
  <2>2. \A i \in DOMAIN U : nn[i] \in Kt <=> U[i] \in Kn
    <3> TAKE i \in DOMAIN U
    <3>1. IsCopy(t, nn[i], new, U[i])
      BY <1>5, <2>1 DEF CopiesAlong
    <3>2. U[i] \in DOMAIN new.node
      BY <1>3, <1>4 DEF ToSet
    <3>3. Key(t, nn[i]) = Key(new, U[i])
      BY <3>1 DEF IsCopy, Key
    <3> QED
      BY <3>1, <3>2, <3>3 DEF IsCopy, KeyedIn, Kt
  <2> QED
    BY <2>1, <2>2
<1>13. r = Retain(nn, J) /\ W = Retain(U, J)
  BY <1>12 DEF Only
<1>14. DOMAIN nn = DOMAIN U /\ J \subseteq DOMAIN nn
  BY <1>5 DEF CopiesAlong
<1> HIDE DEF J, Kn
<1>15. RetainTogether(nn, U, J)
  BY <1>3, <1>14, RetainAlong
<1>16. PICK at \in [1..Cardinality(J) -> J] :
           \A j \in 1..Cardinality(J) : Retain(nn, J)[j] = nn[at[j]] /\ Retain(U, J)[j] = U[at[j]]
  BY <1>15 DEF RetainTogether
<1>17. r \in Seq(Nat) /\ W \in Seq(Nat)
  <2>1. r \in Seq(Nat)
    BY OnlyPicks
  <2>2. W \in Seq(Nat)
    BY <1>3, OnlyPicks
  <2> QED
    BY <2>1, <2>2
<1>18. DOMAIN r = 1..Cardinality(J) /\ DOMAIN W = 1..Cardinality(J)
  BY <1>13 DEF Retain
<1> HIDE DEF r, W
<1>19. Len(r) = Len(W)
  <2>1. DOMAIN r = 1..Len(r) /\ DOMAIN W = 1..Len(W) /\ Len(r) \in Nat /\ Len(W) \in Nat
    BY <1>17
  <2> QED
    BY <1>18, <2>1, SameUpTo
<1>20. \A j \in DOMAIN r : IsCopy(t, r[j], new, theirs[j + k])
  <2> TAKE j \in DOMAIN r
  <2>1. j \in 1..Cardinality(J)
    BY <1>18
  <2>2. r[j] = nn[at[j]] /\ W[j] = U[at[j]] /\ at[j] \in J
    BY <1>13, <1>16, <2>1
  <2>3. IsCopy(t, r[j], new, W[j])
    BY <1>5, <1>14, <2>2 DEF CopiesAlong
  <2>4. DOMAIN r = 1..Len(r)
    BY <1>17
  <2>5. W[j] = theirs[j + k]
    BY <1>11, <1>19, <2>4
  <2> QED
    BY <2>3, <2>5
<1> QED
  BY <1>11, <1>17, <1>19, <1>20 DEF NewOnes, r, theirs, Kt

(* The siblings of one key after a patch: those that were there, as far as *)
(* the other tree has as many, then copies of the rest of its own.         *)
ListPulled(t, old, new, x, y, key) ==
    /\ DOMAIN Siblings(t, x, key) = DOMAIN Siblings(new, y, key)
    /\ \A i \in DOMAIN Siblings(new, y, key) :
          IF i \in DOMAIN Siblings(old, x, key)
          THEN Siblings(t, x, key)[i] = Siblings(old, x, key)[i]
          ELSE IsCopy(t, Siblings(t, x, key)[i], new, Siblings(new, y, key)[i])

(* The patched list of a key is that.                                      *)
LEMMA PullsList ==
    ASSUME NEW old, IsTree(old), NEW new, IsTree(new), NEW d, d = DiffTrees(old, new),
           NEW t, Effect(t, old, d), NEW x, NEW y, <<x, y>> \in Paired(old, new), NEW key
    PROVE  ListPulled(t, old, new, x, y, key)
<1> DEFINE P == Paired(old, new)
           mine == Siblings(old, x, key)
           theirs == Siblings(new, y, key)
           after == Siblings(t, x, key)
           Kt == KeyedIn(t, key)
           kept == Drop(old.node[x].children, Deleted(d))
<1>1. PairSet(P, old, new)
  BY PairedIsPairSet
<1>2. x \in DOMAIN old.node /\ y \in DOMAIN new.node /\ <<x, y>> \in P
  BY <1>1 DEF PairSet
<1> HIDE DEF P
<1>3. NodePulled(t, old, new, x, y, d)
  BY PullsNode
<1>4. PICK nn \in Seq(Nat) :
          /\ t.node[x].children = kept \o nn
          /\ Grown(t, old.next, nn,
                   Insertions(x, new, new.node[y].children, MatchesOf(old, new, x, y)))
  BY <1>3 DEF NodePulled
<1>5. IsTree(t) /\ x \in DOMAIN t.node
  BY <1>3 DEF NodePulled, Effect
<1>6. mine \in Seq(Nat) /\ theirs \in Seq(Nat)
  BY <1>2, SiblingsOf
<1>7. Len(mine) \in Nat /\ Len(theirs) \in Nat
  BY <1>6
<1>8. \E k : IsCommon(k, old, new, x, y, key)
  <2>1. CASE Len(mine) <= Len(theirs)
    <3>1. IsCommon(Len(mine), old, new, x, y, key)
      BY <1>7, <2>1 DEF IsCommon
    <3> QED
      BY <3>1
  <2>2. CASE ~(Len(mine) <= Len(theirs))
    <3>1. IsCommon(Len(theirs), old, new, x, y, key)
      BY <1>7, <2>2 DEF IsCommon
    <3> QED
      BY <3>1
  <2> QED
    BY <2>1, <2>2
<1>9. PICK k : IsCommon(k, old, new, x, y, key)
  BY <1>8
<1>10. Only(kept, Kt) = SubSeq(mine, 1, k)
  BY <1>9, SiblingsKept
<1>11. CopiesAlong(t, nn, new, Only(new.node[y].children, {c \in Nat : ~HasMate(P, c)}))
  BY <1>1, <1>2, <1>4, InsertedCopies
<1>12. NewOnes(t, new, y, key, k, Only(nn, Kt))
  BY <1>1, <1>2, <1>9, <1>11, SiblingsNew
<1>13. after = Only(kept \o nn, Kt)
  <2>1. after = Only(t.node[x].children, Kt)
    BY <1>5, SiblingsKeyed
  <2> QED
    BY <1>4, <2>1
<1>14. kept \in Seq(Nat)
  <2>1. old.node[x].children \in Seq(Nat)
    BY <1>2, SiblingsOf
  <2> QED
    BY <2>1, DropLaws
<1>15. k \in Nat /\ k <= Len(mine) /\ k <= Len(theirs) /\ (k = Len(mine) \/ k = Len(theirs))
  BY <1>9 DEF IsCommon
<1> DEFINE a == SubSeq(mine, 1, k)
           b == Only(nn, Kt)
<1>16. b \in Seq(Nat) /\ Len(b) = Len(theirs) - k
       /\ \A j \in DOMAIN b : IsCopy(t, b[j], new, theirs[j + k])
  BY <1>12 DEF NewOnes
<1> HIDE DEF after, kept, Kt, mine, theirs
<1>17. after = a \o b
  <2>1. Only(kept \o nn, Kt) = Only(kept, Kt) \o Only(nn, Kt)
    BY <1>14, OnlyConcat
  <2> QED
    BY <1>10, <1>13, <2>1
<1>18. a \in Seq(Nat) /\ Len(a) = k /\ \A i \in 1..k : a[i] = mine[i]
  BY <1>6, <1>7, <1>15, SMTT(30)
<1> HIDE DEF a, b
<1>22. /\ after \in Seq(Nat) /\ Len(after) = Len(a) + Len(b)
       /\ \A i \in 1..Len(a) : after[i] = a[i]
       /\ \A j \in 1..Len(b) : after[Len(a) + j] = b[j]
  <2>1. b \in Seq(Nat)
    BY <1>16
  <2>2. a \in Seq(Nat)
    BY <1>18
  <2> QED
    BY <1>17, <2>1, <2>2, ConcatOf
<1> DEFINE lb == Len(b)
           lt == Len(theirs)
           lm == Len(mine)
<1>23. /\ lt \in Nat /\ lm \in Nat /\ k \in Nat /\ k <= lm /\ k <= lt /\ lb = lt - k
  BY <1>7, <1>15, <1>16
<1>24. k = lm \/ k = lt
  BY <1>15
<1>19. Len(after) = Len(theirs) /\ after \in Seq(Nat)
  <2>1. Len(after) = k + lb
    BY <1>18, <1>22
  <2> HIDE DEF lb, lt
  <2>2. Len(after) = lt
    BY <1>23, <2>1
  <2> QED
    BY <1>22, <2>2 DEF lt
<1>20. DOMAIN after = DOMAIN theirs
  BY <1>6, <1>19
<1>21. ASSUME NEW i \in DOMAIN theirs
       PROVE  IF i \in DOMAIN mine THEN after[i] = mine[i]
              ELSE IsCopy(t, after[i], new, theirs[i])
  <2>1. i \in Nat /\ i >= 1 /\ i <= Len(theirs)
    BY <1>6
  <2>2. i \in DOMAIN mine <=> i <= Len(mine)
    BY <1>6, <2>1
  <2>3. CASE i <= k
    <3>1. after[i] = a[i]
      BY <1>16, <1>17, <1>18, <2>1, <2>3
    <3> QED
      BY <1>7, <1>15, <1>18, <2>1, <2>2, <2>3, <3>1
  <2>4. CASE i > k
    <3>1. ~(i <= Len(mine))
      BY <1>7, <1>15, <2>1, <2>4
    <3>6. i <= lt
      BY <2>1
    <3>2. i - k \in 1..lb /\ (i - k) + k = i /\ k + (i - k) = i
      <4> HIDE DEF lb, lt
      <4> QED
        BY <1>23, <2>1, <2>4, <3>6
    <3>3. after[i] = b[i - k]
      BY <1>18, <1>22, <3>2
    <3>4. i - k \in DOMAIN b
      BY <1>16, <3>2
    <3>5. IsCopy(t, b[i - k], new, theirs[(i - k) + k])
      BY <1>16, <3>4
    <3> QED
      BY <2>2, <3>1, <3>2, <3>3, <3>5
  <2> QED
    BY <1>15, <2>1, <2>3, <2>4
<1> QED
  BY <1>20, <1>21 DEF ListPulled, after, mine, theirs

----------------------------------------------------------------------------
(* The tree that is patched says what a diff can carry.                    *)

(* The canonical form of a leaf is the node alone.                         *)
LEMMA CanonOfLeaf ==
    ASSUME NEW t, IsTree(t), NEW c \in DOMAIN t.node, t.node[c].children = << >>
    PROVE  Canon(t, c) = Bare(t.node[c])
<1> DEFINE f == [key \in ChildKeys(t, c) |-> Each(CanonOf(t), Siblings(t, c, key))]
<1>1. ToSet(t.node[c].children) = {}
  BY DEF ToSet
<1>2. ChildKeys(t, c) = {}
  BY <1>1 DEF ChildKeys
<1>3. f = << >>
  BY <1>2
<1>4. Canon(t, c) = CanonNode(CanonOf(t), t, c)
  BY CanonUnfold
<1>5. CanonNode(CanonOf(t), t, c)
        = Shown(t.node[c].kind, t.node[c].label, t.node[c].value, f)
  BY DEF CanonNode
<1> HIDE DEF f
<1> QED
  BY <1>3, <1>4, <1>5 DEF Bare

(* A key is among those of the children if there are siblings of it.       *)
LEMMA ChildKeysAre ==
    ASSUME NEW t, IsTree(t), NEW x \in DOMAIN t.node, NEW key
    PROVE  key \in ChildKeys(t, x) <=> DOMAIN Siblings(t, x, key) # {}
<1> DEFINE s == t.node[x].children
           r == Siblings(t, x, key)
<1>1. s \in Seq(Nat) /\ r = Only(s, KeyedIn(t, key))
  BY SiblingsKeyed, SiblingsOf
<1>2. ToSet(r) = ToSet(s) \intersect KeyedIn(t, key)
  <2> HIDE DEF s, r
  <2> QED
    BY <1>1, OnlySet
<1>3. ToSet(r) # {} <=> DOMAIN r # {}
  BY DEF ToSet
<1>4. key \in ChildKeys(t, x) <=> \E c \in ToSet(s) : c \in DOMAIN t.node /\ Key(t, c) = key
  BY DEF ChildKeys
<1> HIDE DEF r, s
<1>5. key \in ChildKeys(t, x) <=> ToSet(r) # {}
  BY <1>2, <1>4 DEF KeyedIn
<1> QED
  BY <1>3, <1>5 DEF r

(* What is carried of the siblings of a key.                               *)
CarriedList(g, old, new, o, n, key) ==
    [i \in DOMAIN Siblings(new, n, key) |->
        IF i \in DOMAIN Siblings(old, o, key)
        THEN g[<<Siblings(old, o, key)[i], Siblings(new, n, key)[i]>>]
        ELSE Bare(new.node[Siblings(new, n, key)[i]])]

(* What is carried of a pair, said with CarriedList.                       *)
LEMMA CarriedNodeIs ==
    ASSUME NEW g, NEW old, NEW new, NEW o, NEW n
    PROVE  CarriedNode(g, old, new, o, n) =
               Shown(old.node[o].kind, new.node[n].label, new.node[n].value,
                     [key \in ChildKeys(new, n) |-> CarriedList(g, old, new, o, n, key)])
BY DEF CarriedNode, CarriedList

(* What is carried of a pair rests on what is carried of the children.     *)
LEMMA CarriedRestsOnKids ==
    ASSUME NEW old, IsTree(old), NEW new, IsTree(new),
           NEW o \in DOMAIN old.node, NEW n \in DOMAIN new.node, NEW g, NEW h,
           \A c \in KidsOf(old, o) : \A y \in DOMAIN new.node : g[<<c, y>>] = h[<<c, y>>]
    PROVE  CarriedNode(g, old, new, o, n) = CarriedNode(h, old, new, o, n)
<1>1. ASSUME NEW key
      PROVE  CarriedList(g, old, new, o, n, key) = CarriedList(h, old, new, o, n, key)
  <2> DEFINE mine == Siblings(old, o, key)
             theirs == Siblings(new, n, key)
  <2>1. \A i \in DOMAIN mine : mine[i] \in KidsOf(old, o)
    BY SiblingsOf
  <2>2. \A i \in DOMAIN theirs : theirs[i] \in DOMAIN new.node
    BY SiblingsOf
  <2>3. \A i \in DOMAIN theirs : i \in DOMAIN mine =>
            g[<<mine[i], theirs[i]>>] = h[<<mine[i], theirs[i]>>]
    BY <2>1, <2>2
  <2> HIDE DEF mine, theirs
  <2>4. [i \in DOMAIN theirs |-> IF i \in DOMAIN mine THEN g[<<mine[i], theirs[i]>>]
                                                      ELSE Bare(new.node[theirs[i]])]
        = [i \in DOMAIN theirs |-> IF i \in DOMAIN mine THEN h[<<mine[i], theirs[i]>>]
                                                        ELSE Bare(new.node[theirs[i]])]
    BY <2>3
  <2> QED
    BY <2>4 DEF CarriedList, mine, theirs
<1>2. [key \in ChildKeys(new, n) |-> CarriedList(g, old, new, o, n, key)]
        = [key \in ChildKeys(new, n) |-> CarriedList(h, old, new, o, n, key)]
  BY <1>1
<1> QED
  BY <1>2, CarriedNodeIs

(* g gives for each two nodes what is carried.                             *)
IsCarried(g, old, new) ==
    g = [p \in (DOMAIN old.node) \X (DOMAIN new.node) |->
            CarriedNode(g, old, new, p[1], p[2])]

(* There is such a g.                                                      *)
LEMMA CarriedExists ==
    ASSUME NEW old, IsTree(old), NEW new, IsTree(new)
    PROVE  \E g : IsCarried(g, old, new)
<1> DEFINE A == DOMAIN old.node
           B == DOMAIN new.node
           table(g) == [p \in A \X B |-> CarriedNode(g, old, new, p[1], p[2])]
           Holds(g, n) == \A o \in A, y \in B :
                              o + n >= old.next => g[<<o, y>>] = CarriedNode(g, old, new, o, y)
           T == {n \in Nat : \E g : Holds(g, n)}
<1>1. /\ old.next \in Nat /\ A \subseteq Nat /\ \A x \in A : x < old.next
      /\ \A x, c : c \in KidsOf(old, x) => x \in A /\ c \in A /\ x < c
  BY TreeFacts
<1>2. ASSUME NEW o \in A, NEW y \in B, NEW g, NEW h,
             \A c \in KidsOf(old, o) : \A z \in B : g[<<c, z>>] = h[<<c, z>>]
      PROVE  CarriedNode(g, old, new, o, y) = CarriedNode(h, old, new, o, y)
  BY <1>2, CarriedRestsOnKids, SMTT(30)
<1>3. ASSUME NEW n \in Nat, NEW g, Holds(g, n)
      PROVE  Holds(table(g), n + 1)
  <2> DEFINE h == table(g)
  <2>1. \A o \in A, y \in B : h[<<o, y>>] = CarriedNode(g, old, new, o, y)
    OBVIOUS
  <2> HIDE DEF h
  <2>2. ASSUME NEW x \in A, NEW y \in B, x + (n + 1) >= old.next
        PROVE  h[<<x, y>>] = CarriedNode(h, old, new, x, y)
    <3>1. ASSUME NEW c \in KidsOf(old, x), NEW z \in B
          PROVE  g[<<c, z>>] = h[<<c, z>>]
      <4>1. c \in A /\ c \in Nat /\ x \in Nat /\ c > x
        BY <1>1
      <4>2. c + n >= old.next
        BY <1>1, <2>2, <4>1
      <4> QED
        BY <1>3, <2>1, <4>1, <4>2
    <3>2. CarriedNode(g, old, new, x, y) = CarriedNode(h, old, new, x, y)
      BY <1>2, <3>1
    <3> QED
      BY <2>1, <3>2
  <2> QED
    BY <2>2 DEF h
<1>4. old.next \in T
  <2>1. 0 \in T
    <3>1. Holds(0, 0)
      BY <1>1
    <3> HIDE DEF Holds
    <3> QED
      BY <3>1
  <2>2. ASSUME NEW n \in Nat, n \in T
        PROVE  n + 1 \in T
    <3> HIDE DEF Holds, table
    <3>1. PICK g : Holds(g, n)
      BY <2>2
    <3>2. Holds(table(g), n + 1)
      BY <1>3, <3>1
    <3> QED
      BY <3>2
  <2> HIDE DEF T
  <2> QED
    BY <1>1, <2>1, <2>2, SetInduction
<1>5. PICK g : Holds(g, old.next)
  <2> HIDE DEF Holds
  <2> QED
    BY <1>4
<1>6. \A o \in A, y \in B : g[<<o, y>>] = CarriedNode(g, old, new, o, y)
  <2>1. \A o \in A : o + old.next >= old.next
    BY <1>1
  <2> QED
    BY <1>5, <2>1
<1> DEFINE h == table(g)
<1>7. \A o \in A, y \in B : h[<<o, y>>] = g[<<o, y>>]
  BY <1>6
<1>8. \A o \in A, y \in B : CarriedNode(g, old, new, o, y) = CarriedNode(h, old, new, o, y)
  <2> TAKE o \in A, y \in B
  <2>1. \A c \in KidsOf(old, o) : \A z \in B : g[<<c, z>>] = h[<<c, z>>]
    BY <1>1, <1>7
  <2> HIDE DEF h
  <2> QED
    BY <1>2, <2>1
<1>9. h = table(h)
  <2> HIDE DEF h
  <2>1. h = table(g)
    BY DEF h
  <2> QED
    BY <1>8, <2>1
<1> HIDE DEF h
<1> QED
  BY <1>9 DEF IsCarried

(* What is carried of the roots comes from such a g.                       *)
LEMMA CarriedIs ==
    ASSUME NEW old, IsTree(old), NEW new, IsTree(new)
    PROVE  \E g : IsCarried(g, old, new) /\ Carried(old, new) = g[<<RootId, RootId>>]
<1> DEFINE g == CHOOSE g : IsCarried(g, old, new)
<1>1. IsCarried(g, old, new)
  BY CarriedExists
<1>2. Carried(old, new) = g[<<RootId, RootId>>]
  BY Zenon DEF Carried, IsCarried
<1> HIDE DEF g
<1> QED
  BY <1>1, <1>2

(* The paired children of x say in t what g tells.                         *)
KidsShown(t, old, P, x, g) ==
    \A w, z : <<w, z>> \in P /\ w \in KidsOf(old, x) => Canon(t, w) = g[<<w, z>>]

(* The list shown for one key after a patch is the list carried.           *)
LEMMA ShowsCarriedList ==
    ASSUME NEW old, IsTree(old), NEW new, IsTree(new), NEW d, d = DiffTrees(old, new),
           NEW t, Effect(t, old, d), NEW x, NEW y, <<x, y>> \in Paired(old, new), NEW g,
           KidsShown(t, old, Paired(old, new), x, g),
           NEW key
    PROVE  Each(CanonOf(t), Siblings(t, x, key)) = CarriedList(g, old, new, x, y, key)
<1> DEFINE P == Paired(old, new)
           mine == Siblings(old, x, key)
           theirs == Siblings(new, y, key)
           after == Siblings(t, x, key)
           l == Each(CanonOf(t), after)
           r == CarriedList(g, old, new, x, y, key)
<1>1. PairSet(P, old, new)
  BY PairedIsPairSet
<1>2. x \in DOMAIN old.node /\ y \in DOMAIN new.node /\ <<x, y>> \in P
  BY <1>1 DEF PairSet
<1>3. ListPulled(t, old, new, x, y, key)
  BY PullsList
<1>4. IsTree(t)
  BY DEF Effect
<1>5. MatesAt(P, old, new, x, y, key)
  BY <1>1, <1>2, SiblingsPair
<1>6. DOMAIN l = DOMAIN after /\ DOMAIN r = DOMAIN theirs /\ DOMAIN after = DOMAIN theirs
  BY <1>3 DEF Each, CarriedList, ListPulled
<1>7. ASSUME NEW i \in DOMAIN theirs
      PROVE  l[i] = r[i]
  <2>1. CASE i \in DOMAIN mine
    <3>1. <<mine[i], theirs[i]>> \in P
      BY <1>5, <2>1 DEF MatesAt
    <3>2. after[i] = mine[i]
      BY <1>3, <2>1 DEF ListPulled
    <3>3. mine[i] \in KidsOf(old, x)
      BY <1>2, <2>1, SiblingsOf
    <3>4. Canon(t, mine[i]) = g[<<mine[i], theirs[i]>>]
      BY <3>1, <3>3 DEF KidsShown
    <3>5. mine[i] \in DOMAIN t.node
      BY <3>1, PullsNode DEF NodePulled
    <3>6. l[i] = Canon(t, mine[i])
      BY <1>6, <3>2, <3>5 DEF Each, CanonOf
    <3>7. r[i] = g[<<mine[i], theirs[i]>>]
      BY <2>1 DEF CarriedList
    <3> QED
      BY <3>4, <3>6, <3>7
  <2>2. CASE i \notin DOMAIN mine
    <3> DEFINE c == after[i]
    <3>1. IsCopy(t, c, new, theirs[i])
      BY <1>3, <2>2 DEF ListPulled
    <3>2. l[i] = CanonOf(t)[c]
      BY <1>6 DEF Each
    <3> HIDE DEF c, l
    <3>3. c \in DOMAIN t.node /\ t.node[c].children = << >>
      BY <3>1 DEF IsCopy
    <3>4. l[i] = Canon(t, c)
      BY <3>2, <3>3 DEF CanonOf
    <3>5. Canon(t, c) = Bare(t.node[c])
      BY <1>4, <3>3, CanonOfLeaf
    <3>6. Bare(t.node[c]) = Bare(new.node[theirs[i]])
      BY <3>1 DEF IsCopy, Bare
    <3>7. r[i] = Bare(new.node[theirs[i]])
      BY <2>2 DEF CarriedList
    <3> QED
      BY <3>4, <3>5, <3>6, <3>7
  <2> QED
    BY <2>1, <2>2
<1>8. l = [i \in DOMAIN l |-> l[i]] /\ r = [i \in DOMAIN r |-> r[i]]
  BY DEF Each, CarriedList
<1> HIDE DEF l, r
<1>9. l = r
  BY <1>6, <1>7, <1>8
<1> QED
  BY <1>9 DEF l, r

(* A paired node says what is carried of it if its children do.            *)
LEMMA ShowsCarried ==
    ASSUME NEW old, IsTree(old), NEW new, IsTree(new), NEW d, d = DiffTrees(old, new),
           NEW t, Effect(t, old, d), NEW x, NEW y, <<x, y>> \in Paired(old, new), NEW g,
           KidsShown(t, old, Paired(old, new), x, g)
    PROVE  Canon(t, x) = CarriedNode(g, old, new, x, y)
<1>1. x \in DOMAIN old.node /\ y \in DOMAIN new.node
  BY PairedIsPairSet DEF PairSet
<1>2. NodePulled(t, old, new, x, y, d)
  BY PullsNode
<1>3. IsTree(t) /\ x \in DOMAIN t.node
  BY <1>2 DEF Effect, NodePulled
<1>4. ASSUME NEW key
      PROVE  Each(CanonOf(t), Siblings(t, x, key)) = CarriedList(g, old, new, x, y, key)
  BY ShowsCarriedList
<1>5. ChildKeys(t, x) = ChildKeys(new, y)
  <2>1. ASSUME NEW key
        PROVE  key \in ChildKeys(t, x) <=> key \in ChildKeys(new, y)
    <3>1. key \in ChildKeys(t, x) <=> DOMAIN Siblings(t, x, key) # {}
      BY <1>3, ChildKeysAre
    <3>2. key \in ChildKeys(new, y) <=> DOMAIN Siblings(new, y, key) # {}
      BY <1>1, ChildKeysAre
    <3>3. DOMAIN Siblings(t, x, key) = DOMAIN Siblings(new, y, key)
      BY PullsList DEF ListPulled
    <3> QED
      BY <3>1, <3>2, <3>3
  <2> QED
    BY <2>1
<1> DEFINE f == [key \in ChildKeys(t, x) |-> Each(CanonOf(t), Siblings(t, x, key))]
           h == [key \in ChildKeys(new, y) |-> CarriedList(g, old, new, x, y, key)]
<1>6. f = h
  BY <1>4, <1>5
<1>7. Canon(t, x) = CanonNode(CanonOf(t), t, x)
  BY <1>3, CanonUnfold
<1>8. CanonNode(CanonOf(t), t, x) = Shown(t.node[x].kind, t.node[x].label, t.node[x].value, f)
  BY DEF CanonNode
<1>9. CarriedNode(g, old, new, x, y) = Shown(old.node[x].kind, new.node[y].label, new.node[y].value, h)
  BY CarriedNodeIs
<1> HIDE DEF f, h
<1> QED
  BY <1>2, <1>6, <1>7, <1>8, <1>9 DEF NodePulled

(* What a patched tree says is what the diff can carry.                    *)
LEMMA PatchCarries ==
    ASSUME NEW old, IsTree(old), NEW new, IsTree(new), NEW d, d = DiffTrees(old, new),
           NEW t, Effect(t, old, d)
    PROVE  Canon(t, RootId) = Carried(old, new)
<1> DEFINE P == Paired(old, new)
<1>1. PICK g : IsCarried(g, old, new) /\ Carried(old, new) = g[<<RootId, RootId>>]
  BY CarriedIs
<1>2. PairSet(P, old, new)
  BY PairedIsPairSet
<1>3. /\ old.next \in Nat /\ DOMAIN old.node \subseteq Nat
      /\ \A x \in DOMAIN old.node : x < old.next
      /\ \A x, c : c \in KidsOf(old, x) => c \in DOMAIN old.node /\ x \in DOMAIN old.node /\ x < c
  BY TreeFacts
<1> DEFINE T == {n \in Nat : \A x, y :
                    <<x, y>> \in P /\ x + n >= old.next => Canon(t, x) = g[<<x, y>>]}
<1>4. \A x, y : <<x, y>> \in P => g[<<x, y>>] = CarriedNode(g, old, new, x, y)
  <2> SUFFICES ASSUME NEW x, NEW y, <<x, y>> \in P
               PROVE  g[<<x, y>>] = CarriedNode(g, old, new, x, y)
    OBVIOUS
  <2>1. <<x, y>> \in (DOMAIN old.node) \X (DOMAIN new.node)
    BY <1>2 DEF PairSet
  <2> HIDE DEF P
  <2> QED
    BY <1>1, <2>1 DEF IsCarried
<1>5. ASSUME NEW x, NEW y, <<x, y>> \in P,
             KidsShown(t, old, P, x, g)
      PROVE  Canon(t, x) = CarriedNode(g, old, new, x, y)
  BY <1>5, ShowsCarried
<1>6. \A x, y : <<x, y>> \in P => x \in Nat /\ x < old.next
  BY <1>2, <1>3 DEF PairSet
<1> HIDE DEF P
<1>7. 0 \in T
  <2>1. \A x \in Nat : x < old.next => ~(x + 0 >= old.next)
    BY <1>3
  <2> QED
    BY <1>6, <2>1
<1>8. ASSUME NEW n \in Nat, n \in T
      PROVE  n + 1 \in T
  <2> SUFFICES ASSUME NEW x, NEW y, <<x, y>> \in P, x + (n + 1) >= old.next
               PROVE  Canon(t, x) = g[<<x, y>>]
    OBVIOUS
  <2>1. ASSUME NEW w, NEW z, <<w, z>> \in P, w \in KidsOf(old, x)
        PROVE  Canon(t, w) = g[<<w, z>>]
    <3>1. w \in Nat /\ x \in Nat /\ x < w
      BY <1>3, <1>6, <2>1
    <3>2. w + n >= old.next
      BY <1>3, <3>1
    <3> QED
      BY <1>8, <2>1, <3>2
  <2>2. Canon(t, x) = CarriedNode(g, old, new, x, y)
    BY <1>5, <2>1 DEF KidsShown
  <2> QED
    BY <1>4, <2>2
<1>9. old.next \in T
  <2> HIDE DEF T
  <2> QED
    BY <1>3, <1>7, <1>8, SetInduction
<1>10. <<RootId, RootId>> \in P /\ RootId + old.next >= old.next
  BY <1>2, <1>3 DEF PairSet, RootId
<1> QED
  BY <1>1, <1>9, <1>10

(* Below a node of the new tree that has a mate every node has one.        *)
AllMated(P, new) == \A y, z : HasMate(P, y) /\ z \in KidsOf(new, y) => HasMate(P, z)

(* What is paired has the same kind, the roots apart.                      *)
LEMMA PairsSameKey ==
    ASSUME NEW old, IsTree(old), NEW new, IsTree(new), NEW P, PairSet(P, old, new),
           NEW x, NEW y, <<x, y>> \in P, x # RootId
    PROVE  Key(old, x) = Key(new, y)
<1> DEFINE v == old.parent[x]
           w == new.parent[y]
<1>1. <<v, w>> \in P /\ <<x, y>> \in Meets(old, new, v, w)
  BY DEF PairSet
<1> HIDE DEF v, w
<1>2. v \in DOMAIN old.node /\ w \in DOMAIN new.node
  BY <1>1 DEF PairSet
<1> QED
  BY <1>1, <1>2, MeetsFacts

(* The nodes of a pair are of one kind if the roots are.                   *)
LEMMA PairsSameKind ==
    ASSUME NEW old, IsTree(old), NEW new, IsTree(new), NEW P, PairSet(P, old, new),
           old.node[RootId].kind = new.node[RootId].kind,
           NEW x, NEW y, <<x, y>> \in P
    PROVE  old.node[x].kind = new.node[y].kind
<1>1. CASE x = RootId
  <2>1. y = RootId
    BY <1>1 DEF PairSet
  <2> QED
    BY <1>1, <2>1
<1>2. CASE x # RootId
  <2>1. Key(old, x) = Key(new, y)
    BY <1>2, PairsSameKey
  <2> QED
    BY <2>1 DEF Key
<1> QED
  BY <1>1, <1>2

(* Of the paired children of x all is carried.                             *)
KidsCarried(new, old, P, x, g) ==
    \A w, z : <<w, z>> \in P /\ w \in KidsOf(old, x) => g[<<w, z>>] = Canon(new, z)

(* Then all is carried of a list of siblings that have mates.              *)
LEMMA CarriedListIsCanon ==
    ASSUME NEW old, IsTree(old), NEW new, IsTree(new), NEW P, PairSet(P, old, new),
           AllMated(P, new), NEW x, NEW y, <<x, y>> \in P, NEW g,
           KidsCarried(new, old, P, x, g), NEW key
    PROVE  CarriedList(g, old, new, x, y, key) = Each(CanonOf(new), Siblings(new, y, key))
<1> DEFINE mine == Siblings(old, x, key)
           theirs == Siblings(new, y, key)
           l == CarriedList(g, old, new, x, y, key)
           r == Each(CanonOf(new), theirs)
<1>1. x \in DOMAIN old.node /\ y \in DOMAIN new.node
  BY DEF PairSet
<1>2. MatesAt(P, old, new, x, y, key)
  BY SiblingsPair
<1>3. DOMAIN l = DOMAIN theirs /\ DOMAIN r = DOMAIN theirs
  BY DEF CarriedList, Each
<1>4. ASSUME NEW i \in DOMAIN theirs
      PROVE  l[i] = r[i]
  <2>1. theirs[i] \in KidsOf(new, y) /\ theirs[i] \in DOMAIN new.node
    BY <1>1, SiblingsOf
  <2>2. HasMate(P, theirs[i])
    BY <2>1 DEF AllMated, HasMate
  <2>3. i \in DOMAIN mine
    BY <1>2, <2>2 DEF MatesAt
  <2>4. <<mine[i], theirs[i]>> \in P
    BY <1>2, <2>3 DEF MatesAt
  <2>5. mine[i] \in KidsOf(old, x)
    BY <1>1, <2>3, SiblingsOf
  <2>6. g[<<mine[i], theirs[i]>>] = Canon(new, theirs[i])
    BY <2>4, <2>5 DEF KidsCarried
  <2>7. l[i] = g[<<mine[i], theirs[i]>>]
    BY <2>3 DEF CarriedList
  <2>8. r[i] = CanonOf(new)[theirs[i]]
    BY DEF Each
  <2>9. CanonOf(new)[theirs[i]] = Canon(new, theirs[i])
    BY <2>1 DEF CanonOf
  <2> QED
    BY <2>6, <2>7, <2>8, <2>9
<1>5. l = [i \in DOMAIN l |-> l[i]] /\ r = [i \in DOMAIN r |-> r[i]]
  BY DEF Each, CarriedList
<1> HIDE DEF l, r
<1>6. l = r
  BY <1>3, <1>4, <1>5
<1> QED
  BY <1>6 DEF l, r

(* Then all is carried of the node.                                        *)
LEMMA CarriedNodeIsCanon ==
    ASSUME NEW old, IsTree(old), NEW new, IsTree(new), NEW P, PairSet(P, old, new),
           AllMated(P, new), old.node[RootId].kind = new.node[RootId].kind,
           NEW x, NEW y, <<x, y>> \in P, NEW g, KidsCarried(new, old, P, x, g)
    PROVE  CarriedNode(g, old, new, x, y) = Canon(new, y)
<1>1. x \in DOMAIN old.node /\ y \in DOMAIN new.node
  BY DEF PairSet
<1>2. old.node[x].kind = new.node[y].kind
  BY PairsSameKind
<1>3. ASSUME NEW key
      PROVE  CarriedList(g, old, new, x, y, key) = Each(CanonOf(new), Siblings(new, y, key))
  BY CarriedListIsCanon
<1> DEFINE f == [key \in ChildKeys(new, y) |-> Each(CanonOf(new), Siblings(new, y, key))]
           h == [key \in ChildKeys(new, y) |-> CarriedList(g, old, new, x, y, key)]
<1>4. f = h
  BY <1>3
<1>5. Canon(new, y) = CanonNode(CanonOf(new), new, y)
  BY <1>1, CanonUnfold
<1>6. CanonNode(CanonOf(new), new, y) = Shown(new.node[y].kind, new.node[y].label, new.node[y].value, f)
  BY DEF CanonNode
<1>7. CarriedNode(g, old, new, x, y) = Shown(old.node[x].kind, new.node[y].label, new.node[y].value, h)
  BY CarriedNodeIs
<1> HIDE DEF f, h
<1> QED
  BY <1>2, <1>4, <1>5, <1>6, <1>7

(* When nothing is left over, a diff carries the whole new tree.           *)
LEMMA CarriedIsAll ==
    ASSUME NEW old, IsTree(old), NEW new, IsTree(new), AllMated(Paired(old, new), new),
           old.node[RootId].kind = new.node[RootId].kind
    PROVE  Carried(old, new) = Canon(new, RootId)
<1> DEFINE P == Paired(old, new)
<1>1. PICK g : IsCarried(g, old, new) /\ Carried(old, new) = g[<<RootId, RootId>>]
  BY CarriedIs
<1>2. PairSet(P, old, new) /\ AllMated(P, new)
  BY PairedIsPairSet
<1>3. /\ old.next \in Nat /\ DOMAIN old.node \subseteq Nat
      /\ \A x \in DOMAIN old.node : x < old.next
      /\ \A x, c : c \in KidsOf(old, x) => c \in DOMAIN old.node /\ x \in DOMAIN old.node /\ x < c
  BY TreeFacts
<1> HIDE DEF P
<1> DEFINE T == {n \in Nat : \A x, y :
                    <<x, y>> \in P /\ x + n >= old.next => g[<<x, y>>] = Canon(new, y)}
<1>4. \A x, y : <<x, y>> \in P => g[<<x, y>>] = CarriedNode(g, old, new, x, y)
  <2> SUFFICES ASSUME NEW x, NEW y, <<x, y>> \in P
               PROVE  g[<<x, y>>] = CarriedNode(g, old, new, x, y)
    OBVIOUS
  <2>1. <<x, y>> \in (DOMAIN old.node) \X (DOMAIN new.node)
    BY <1>2 DEF PairSet
  <2> QED
    BY <1>1, <2>1 DEF IsCarried
<1>5. ASSUME NEW x, NEW y, <<x, y>> \in P, KidsCarried(new, old, P, x, g)
      PROVE  CarriedNode(g, old, new, x, y) = Canon(new, y)
  BY <1>2, <1>5, CarriedNodeIsCanon
<1>6. \A x, y : <<x, y>> \in P => x \in Nat /\ x < old.next
  BY <1>2, <1>3 DEF PairSet
<1>7. 0 \in T
  <2>1. \A x \in Nat : x < old.next => ~(x + 0 >= old.next)
    BY <1>3
  <2> QED
    BY <1>6, <2>1
<1>8. ASSUME NEW n \in Nat, n \in T
      PROVE  n + 1 \in T
  <2> SUFFICES ASSUME NEW x, NEW y, <<x, y>> \in P, x + (n + 1) >= old.next
               PROVE  g[<<x, y>>] = Canon(new, y)
    OBVIOUS
  <2>1. ASSUME NEW w, NEW z, <<w, z>> \in P, w \in KidsOf(old, x)
        PROVE  g[<<w, z>>] = Canon(new, z)
    <3>1. w \in Nat /\ x \in Nat /\ x < w
      BY <1>3, <1>6, <2>1
    <3>2. w + n >= old.next
      BY <1>3, <3>1
    <3> QED
      BY <1>8, <2>1, <3>2
  <2>2. CarriedNode(g, old, new, x, y) = Canon(new, y)
    BY <1>5, <2>1 DEF KidsCarried
  <2> QED
    BY <1>4, <2>2
<1>9. old.next \in T
  <2> HIDE DEF T
  <2> QED
    BY <1>3, <1>7, <1>8, SetInduction
<1>10. <<RootId, RootId>> \in P /\ RootId + old.next >= old.next
  BY <1>2, <1>3 DEF PairSet, RootId
<1> QED
  BY <1>1, <1>9, <1>10

(* A patch without insertions leaves nothing over.                         *)
LEMMA InsertsWhatIsLeft ==
    ASSUME NEW old, IsTree(old), NEW new, IsTree(new), NEW P, PairSet(P, old, new),
           NEW x, NEW y, <<x, y>> \in P, NEW z \in KidsOf(new, y), ~HasMate(P, z)
    PROVE  Insertions(x, new, new.node[y].children, MatchesOf(old, new, x, y)) # << >>
<1> DEFINE ns == new.node[y].children
           F == AsInserts(x, new, ns)
           I == NotMet(ns, MatchesOf(old, new, x, y))
           S == {F[i] : i \in DOMAIN ns}
<1>1. y \in DOMAIN new.node
  BY DEF PairSet
<1>2. ns \in Seq(Nat) /\ KidsOf(new, y) = ToSet(ns)
  BY <1>1, TreeFacts DEF Lists, KidsOf, ChildrenOf, IsLive
<1>3. I = {i \in DOMAIN ns : ~HasMate(P, ns[i])}
  BY NotMetIs
<1>4. PICK i \in I : TRUE
  BY <1>2, <1>3 DEF ToSet
<1>5. F \in Seq(S) /\ I \subseteq DOMAIN F
  <2>1. DOMAIN ns = 1..Len(ns) /\ Len(ns) \in Nat
    BY <1>2
  <2>2. F = [j \in DOMAIN ns |-> F[j]] /\ DOMAIN F = DOMAIN ns
    BY DEF AsInserts
  <2>3. \A j \in DOMAIN ns : F[j] \in S
    OBVIOUS
  <2> HIDE DEF F, S, ns, I
  <2>4. F \in Seq(S)
    BY <2>1, <2>2, <2>3
  <2> QED
    BY <1>3, <2>2, <2>4
<1>6. Insertions(x, new, ns, MatchesOf(old, new, x, y)) = Retain(F, I)
  BY <1>1, InsertionsRetain
<1> HIDE DEF F, S, ns, I
<1>7. I \in SUBSET (DOMAIN F)
  BY <1>5
<1>8. \E at : Picks(at, Retain(F, I), F, I)
  BY <1>5, <1>7, RetainProperties
<1>9. DOMAIN Retain(F, I) # {}
  BY <1>4, <1>8 DEF Picks
<1>10. Retain(F, I) # << >>
  BY <1>9
<1> QED
  BY <1>6, <1>10 DEF ns

(* After a patch what was paired still is.                                 *)
LEMMA PairsStay ==
    ASSUME NEW old, IsTree(old), NEW new, IsTree(new), NEW d, d = DiffTrees(old, new),
           NEW t, Effect(t, old, d)
    PROVE  Paired(old, new) \subseteq Paired(t, new)
<1> DEFINE P == Paired(old, new)
           Q == Paired(t, new)
           T == {n \in Nat : \A x, y : <<x, y>> \in P /\ x < n => <<x, y>> \in Q}
<1>1. IsTree(t)
  BY DEF Effect
<1>2. PairSet(P, old, new) /\ PairSet(Q, t, new)
  BY <1>1, PairedIsPairSet
<1>3. ASSUME NEW x, NEW y, <<x, y>> \in P, <<x, y>> \in Q
      PROVE  Meets(old, new, x, y) \subseteq Meets(t, new, x, y)
  <2>1. x \in DOMAIN old.node /\ y \in DOMAIN new.node /\ x \in DOMAIN t.node
    BY <1>2, <1>3 DEF PairSet
  <2>2. ASSUME NEW v, NEW w, <<v, w>> \in Meets(old, new, x, y)
        PROVE  <<v, w>> \in Meets(t, new, x, y)
    <3>1. PICK key, k : Meet(old, new, x, y, key, k, v, w)
      BY <2>1, <2>2, MeetsAreSiblings
    <3>2. ListPulled(t, old, new, x, y, key)
      BY <1>3, PullsList
    <3>3. Meet(t, new, x, y, key, k, v, w)
      BY <3>1, <3>2 DEF Meet, ListPulled
    <3> QED
      BY <1>1, <2>1, <3>3, MeetsAreSiblings
  <2>3. \A q \in Meets(old, new, x, y) : q = <<q[1], q[2]>>
    BY DEF Meets
  <2> QED
    BY <2>2, <2>3
<1>4. DOMAIN old.node \subseteq Nat
      /\ \A x, c : c \in KidsOf(old, x) => x \in DOMAIN old.node /\ x < c
  BY TreeFacts
<1>5. \A x, y : <<x, y>> \in P => x \in Nat
  BY <1>2, <1>4 DEF PairSet
<1> HIDE DEF P, Q
<1>6. 0 \in T
  <2>1. \A x \in Nat : ~(x < 0)
    OBVIOUS
  <2> QED
    BY <1>5, <2>1
<1>7. ASSUME NEW n \in Nat, n \in T
      PROVE  n + 1 \in T
  <2>1. ASSUME NEW x, NEW y, <<x, y>> \in P, x < n + 1
        PROVE  <<x, y>> \in Q
    <3>1. CASE x = RootId
      BY <1>2, <2>1, <3>1 DEF PairSet
    <3>2. CASE x # RootId
      <4> DEFINE v == old.parent[x]
                 w == new.parent[y]
      <4>1. <<v, w>> \in P /\ <<x, y>> \in Meets(old, new, v, w)
        BY <1>2, <2>1, <3>2 DEF PairSet
      <4> HIDE DEF v, w
      <4>2. v \in DOMAIN old.node /\ w \in DOMAIN new.node
        BY <1>2, <4>1 DEF PairSet
      <4>3. x \in KidsOf(old, v)
        BY <4>1, <4>2, MeetsFacts
      <4>4. v < x /\ v \in Nat /\ x \in Nat
        BY <1>4, <1>5, <2>1, <4>2, <4>3
      <4>5. v < n
        BY <2>1, <4>4
      <4>6. <<v, w>> \in Q
        BY <1>7, <4>1, <4>5
      <4>7. <<x, y>> \in Meets(t, new, v, w)
        BY <1>3, <4>1, <4>6
      <4> QED
        BY <1>2, <4>6, <4>7 DEF PairSet
    <3> QED
      BY <3>1, <3>2
  <2> QED
    BY <2>1
<1>8. \A n \in Nat : n \in T
  <2> HIDE DEF T
  <2> QED
    BY <1>6, <1>7, SetInduction
<1>9. ASSUME NEW q \in P
      PROVE  q \in Q
  <2>1. q = <<q[1], q[2]>>
    <3>1. q \in (DOMAIN old.node) \X (DOMAIN new.node)
      BY <1>9, PairedLeads DEF PairsFrom, P
    <3> QED
      BY <3>1
  <2>2. q[1] \in Nat
    BY <1>5, <2>1
  <2>3. q[1] + 1 \in T /\ q[1] < q[1] + 1
    BY <1>8, <2>2
  <2> QED
    BY <2>1, <2>3
<1> QED
  BY <1>9 DEF P, Q

(* And what was left over at the top is paired too.                        *)
LEMMA PairsGrow ==
    ASSUME NEW old, IsTree(old), NEW new, IsTree(new), NEW d, d = DiffTrees(old, new),
           NEW t, Effect(t, old, d), ~AllMated(Paired(old, new), new)
    PROVE  Paired(old, new) # Paired(t, new)
<1> DEFINE P == Paired(old, new)
           Q == Paired(t, new)
<1>1. IsTree(t)
  BY DEF Effect
<1>2. PairSet(P, old, new) /\ PairSet(Q, t, new) /\ P \subseteq Q
  BY <1>1, PairedIsPairSet, PairsStay
<1>3. PICK y, z : HasMate(P, y) /\ z \in KidsOf(new, y) /\ ~HasMate(P, z)
  BY DEF AllMated
<1>4. PICK x : <<x, y>> \in P
  BY <1>3 DEF HasMate
<1>5. x \in DOMAIN old.node /\ y \in DOMAIN new.node /\ x \in DOMAIN t.node
  BY <1>2, <1>4 DEF PairSet
<1> DEFINE key == Key(new, z)
<1>6. PICK k \in DOMAIN Siblings(new, y, key) : Siblings(new, y, key)[k] = z
  BY <1>3, <1>5, ChildIsSibling
<1>7. ListPulled(t, old, new, x, y, key)
  BY <1>4, PullsList
<1> DEFINE c == Siblings(t, x, key)[k]
<1>8. Meet(t, new, x, y, key, k, c, z)
  BY <1>6, <1>7 DEF Meet, ListPulled
<1> HIDE DEF P, Q, c, key
<1>9. <<c, z>> \in Meets(t, new, x, y)
  BY <1>1, <1>5, <1>8, MeetsAreSiblings
<1>10. <<c, z>> \in Q
  BY <1>2, <1>4, <1>9 DEF PairSet
<1>11. <<c, z>> \notin P
  BY <1>3 DEF HasMate
<1> QED
  BY <1>10, <1>11 DEF P, Q

----------------------------------------------------------------------------
(* Trees with one canonical form, and diffs that say nothing.              *)

(* What equal canonical forms have in common.                              *)
ShownAlike(t, u, x, y) ==
    /\ t.node[x].kind = u.node[y].kind
    /\ t.node[x].label = u.node[y].label
    /\ t.node[x].value = u.node[y].value
    /\ \A key :
          /\ DOMAIN Siblings(t, x, key) = DOMAIN Siblings(u, y, key)
          /\ \A k \in DOMAIN Siblings(t, x, key) :
                Canon(t, Siblings(t, x, key)[k]) = Canon(u, Siblings(u, y, key)[k])

(* Two nodes with one canonical form agree in kind, label and value, and   *)
(* their children agree key by key.                                        *)
LEMMA CanonsAlike ==
    ASSUME NEW t, IsTree(t), NEW u, IsTree(u), NEW x \in DOMAIN t.node, NEW y \in DOMAIN u.node,
           Canon(t, x) = Canon(u, y)
    PROVE  ShownAlike(t, u, x, y)
<1> DEFINE f == [key \in ChildKeys(t, x) |-> Each(CanonOf(t), Siblings(t, x, key))]
           g == [key \in ChildKeys(u, y) |-> Each(CanonOf(u), Siblings(u, y, key))]
<1>1. /\ Canon(t, x) = Shown(t.node[x].kind, t.node[x].label, t.node[x].value, f)
      /\ Canon(u, y) = Shown(u.node[y].kind, u.node[y].label, u.node[y].value, g)
  <2>1. /\ Canon(t, x) = CanonNode(CanonOf(t), t, x)
        /\ Canon(u, y) = CanonNode(CanonOf(u), u, y)
    BY CanonUnfold
  <2> QED
    BY <2>1 DEF CanonNode
<1>2. /\ t.node[x].kind = u.node[y].kind
      /\ t.node[x].label = u.node[y].label
      /\ t.node[x].value = u.node[y].value
      /\ f = g
  <2> DEFINE r == Canon(t, x)
  <2> HIDE DEF f, g, r
  <2>1. /\ r = Shown(t.node[x].kind, t.node[x].label, t.node[x].value, f)
        /\ r = Shown(u.node[y].kind, u.node[y].label, u.node[y].value, g)
    BY <1>1 DEF r
  <2>2. /\ r.kind = t.node[x].kind /\ r.label = t.node[x].label
        /\ r.value = t.node[x].value /\ r.below = f
    BY <2>1, SMTT(30) DEF Shown
  <2>3. /\ r.kind = u.node[y].kind /\ r.label = u.node[y].label
        /\ r.value = u.node[y].value /\ r.below = g
    BY <2>1, SMTT(30) DEF Shown
  <2> QED
    BY <2>2, <2>3
<1>3. ASSUME NEW key
      PROVE  /\ DOMAIN Siblings(t, x, key) = DOMAIN Siblings(u, y, key)
             /\ \A k \in DOMAIN Siblings(t, x, key) :
                   Canon(t, Siblings(t, x, key)[k]) = Canon(u, Siblings(u, y, key)[k])
  <2> DEFINE s == Siblings(t, x, key)
             r == Siblings(u, y, key)
  <2>1. DOMAIN f = ChildKeys(t, x) /\ DOMAIN g = ChildKeys(u, y)
    OBVIOUS
  <2>2. CASE key \in ChildKeys(t, x)
    <3>1. f[key] = Each(CanonOf(t), s) /\ g[key] = Each(CanonOf(u), r)
      BY <1>2, <2>1, <2>2
    <3>2. Each(CanonOf(t), s) = Each(CanonOf(u), r)
      BY <1>2, <3>1
    <3>3. /\ \A k \in DOMAIN s : s[k] \in DOMAIN t.node
          /\ \A k \in DOMAIN r : r[k] \in DOMAIN u.node
      BY SiblingsOf
    <3> HIDE DEF f, g, s, r
    <3>4. DOMAIN s = DOMAIN r /\ \A k \in DOMAIN s : CanonOf(t)[s[k]] = CanonOf(u)[r[k]]
      <4>1. DOMAIN Each(CanonOf(t), s) = DOMAIN s /\ DOMAIN Each(CanonOf(u), r) = DOMAIN r
        BY DEF Each
      <4>2. /\ \A k \in DOMAIN s : Each(CanonOf(t), s)[k] = CanonOf(t)[s[k]]
            /\ \A k \in DOMAIN r : Each(CanonOf(u), r)[k] = CanonOf(u)[r[k]]
        BY DEF Each
      <4> QED
        BY <3>2, <4>1, <4>2
    <3>5. \A k \in DOMAIN s : Canon(t, s[k]) = Canon(u, r[k])
      BY <3>3, <3>4 DEF CanonOf
    <3> QED
      BY <3>4, <3>5 DEF s, r
  <2>3. CASE key \notin ChildKeys(t, x)
    <3>1. key \notin ChildKeys(u, y)
      BY <1>2, <2>1, <2>3
    <3>2. DOMAIN s = {} /\ DOMAIN r = {}
      BY <2>3, <3>1, ChildKeysAre
    <3> QED
      BY <3>2
  <2> QED
    BY <2>2, <2>3
<1> QED
  BY <1>2, <1>3 DEF ShownAlike

(* Two trees with one canonical form: whatever is paired agrees.           *)
LEMMA PairsAlike ==
    ASSUME NEW old, IsTree(old), NEW new, IsTree(new), Canon(old, RootId) = Canon(new, RootId),
           NEW P, PairSet(P, old, new)
    PROVE  \A x, y : <<x, y>> \in P => ShownAlike(old, new, x, y)
<1> DEFINE T == {n \in Nat : \A x, y : <<x, y>> \in P /\ x < n => Canon(old, x) = Canon(new, y)}
<1>1. DOMAIN old.node \subseteq Nat
      /\ \A x, c : c \in KidsOf(old, x) => x \in DOMAIN old.node /\ x < c
  BY TreeFacts
<1>2. \A x, y : <<x, y>> \in P => x \in Nat /\ x \in DOMAIN old.node /\ y \in DOMAIN new.node
  BY <1>1 DEF PairSet
<1>3. 0 \in T
  <2>1. \A x \in Nat : ~(x < 0)
    OBVIOUS
  <2> QED
    BY <1>2, <2>1
<1>4. ASSUME NEW n \in Nat, n \in T
      PROVE  n + 1 \in T
  <2>1. ASSUME NEW x, NEW y, <<x, y>> \in P, x < n + 1
        PROVE  Canon(old, x) = Canon(new, y)
    <3>1. CASE x = RootId
      <4>1. y = RootId
        BY <2>1, <3>1 DEF PairSet
      <4> QED
        BY <3>1, <4>1
    <3>2. CASE x # RootId
      <4> DEFINE v == old.parent[x]
                 w == new.parent[y]
      <4>1. <<v, w>> \in P /\ <<x, y>> \in Meets(old, new, v, w)
        BY <2>1, <3>2 DEF PairSet
      <4> HIDE DEF v, w
      <4>2. v \in DOMAIN old.node /\ w \in DOMAIN new.node /\ v \in Nat /\ x \in Nat
        BY <1>2, <2>1, <4>1
      <4>3. x \in KidsOf(old, v)
        BY <4>1, <4>2, MeetsFacts
      <4>4. v < n
        BY <1>1, <2>1, <4>2, <4>3
      <4>5. Canon(old, v) = Canon(new, w)
        BY <1>4, <4>1, <4>4
      <4>6. ShownAlike(old, new, v, w)
        BY <4>2, <4>5, CanonsAlike
      <4>7. PICK key, k : Meet(old, new, v, w, key, k, x, y)
        BY <4>1, <4>2, MeetsAreSiblings
      <4> QED
        BY <4>6, <4>7 DEF Meet, ShownAlike
    <3> QED
      BY <3>1, <3>2
  <2> QED
    BY <2>1
<1>5. \A n \in Nat : n \in T
  <2> HIDE DEF T
  <2> QED
    BY <1>3, <1>4, SetInduction
<1>6. ASSUME NEW x, NEW y, <<x, y>> \in P
      PROVE  ShownAlike(old, new, x, y)
  <2>1. x + 1 \in T /\ x < x + 1
    BY <1>2, <1>5, <1>6
  <2>2. Canon(old, x) = Canon(new, y)
    BY <1>6, <2>1
  <2> QED
    BY <1>2, <1>6, <2>2, CanonsAlike
<1> QED
  BY <1>6

(* An operation is among the operations on its target.                     *)
LEMMA OpOnItsTarget ==
    ASSUME NEW S, NEW ops \in Seq(S), NEW i \in DOMAIN ops
    PROVE  ops[i] \in ToSet(OpsOn(ops, ops[i].target))
<1> DEFINE V == At(S, ops[i].target)
<1>1. OpsOn(ops, ops[i].target) = Only(ops, V)
  BY OpsAreOnly
<1>2. ops[i] \in S /\ ops[i] \in V /\ ops[i] \in ToSet(ops)
  BY DEF ToSet, At
<1> HIDE DEF V
<1> QED
  BY <1>1, <1>2, OnlySet

(* The operation says no more than that a value is not == to itself.       *)
IsNaNUpdate(a, nans) == a.op = "Update" /\ a.value \in nans

(* What a diff says about a pair that agrees.                              *)
LEMMA AlikeSaysNothing ==
    ASSUME NEW old, IsTree(old), NEW new, IsTree(new), NEW P, PairSet(P, old, new),
           NEW x, NEW y, <<x, y>> \in P, ShownAlike(old, new, x, y)
    PROVE  \A a \in ToSet(Say(old, new, x, y)) : IsNaNUpdate(a, NaNs)
<1> DEFINE ns == new.node[y].children
           ins == Insertions(x, new, ns, MatchesOf(old, new, x, y))
           own == OwnOps(x, old.node[x], new.node[y])
<1>1. x \in DOMAIN old.node /\ y \in DOMAIN new.node
  BY DEF PairSet
<1>2. NotMet(ns, MatchesOf(old, new, x, y)) = {}
  <2>1. NotMet(ns, MatchesOf(old, new, x, y)) = {i \in DOMAIN ns : ~HasMate(P, ns[i])}
    BY NotMetIs
  <2>2. ASSUME NEW i \in DOMAIN ns
        PROVE  HasMate(P, ns[i])
    <3> DEFINE c == ns[i]
               key == Key(new, c)
    <3>1. c \in KidsOf(new, y)
      BY <1>1 DEF KidsOf, ChildrenOf, IsLive, ToSet
    <3>2. PICK k \in DOMAIN Siblings(new, y, key) : Siblings(new, y, key)[k] = c
      BY <1>1, <3>1, ChildIsSibling
    <3> HIDE DEF c, key
    <3>3. k \in DOMAIN Siblings(old, x, key)
      BY <3>2 DEF ShownAlike
    <3>4. MatesAt(P, old, new, x, y, key)
      BY SiblingsPair
    <3>5. HasMate(P, c)
      BY <3>2, <3>3, <3>4 DEF MatesAt
    <3> QED
      BY <3>5 DEF c
  <2> QED
    BY <2>1, <2>2
<1>3. ins = << >>
  <2>1. ins = Retain(AsInserts(x, new, ns), NotMet(ns, MatchesOf(old, new, x, y)))
    BY <1>1, InsertionsRetain, SMTT(30)
  <2>2. ins = Retain(AsInserts(x, new, ns), {})
    BY <1>2, <2>1
  <2> QED
    BY <2>2, FS_EmptySet DEF Retain
<1>4. Say(old, new, x, y) = own \o ins
  BY DEF Say
<1>5. own \in Seq(DiffOps(old, new))
  BY <1>1, OwnOpsFit
<1>6. Say(old, new, x, y) = own
  BY <1>3, <1>4, <1>5
<1>7. /\ old.node[x].label = new.node[y].label
      /\ old.node[x].value = new.node[y].value
  BY DEF ShownAlike
<1>8. own = When(~SameValue(old.node[x].value, new.node[y].value),
                 Update(x, old.node[x].value, new.node[y].value))
  BY <1>7 DEF OwnOps, When
<1>9. ASSUME NEW a \in ToSet(own)
      PROVE  IsNaNUpdate(a, NaNs)
  <2>1. CASE SameValue(old.node[x].value, new.node[y].value)
    BY <1>8, <2>1 DEF When, ToSet
  <2>2. CASE ~SameValue(old.node[x].value, new.node[y].value)
    <3>1. new.node[y].value \in NaNs
      BY <1>7, <2>2 DEF SameValue
    <3>2. a = Update(x, old.node[x].value, new.node[y].value)
      BY <1>8, <1>9, <2>2 DEF When, ToSet
    <3> QED
      BY <3>1, <3>2 DEF Update, IsNaNUpdate
  <2> QED
    BY <2>1, <2>2
<1> HIDE DEF own
<1> QED
  BY <1>6, <1>9

(* The diff of two trees with one canonical form says no more than that a  *)
(* value is not == to itself.                                              *)
LEMMA DiffOfAlike ==
    ASSUME NEW old, IsTree(old), NEW new, IsTree(new), Canon(old, RootId) = Canon(new, RootId),
           NEW d, d = DiffTrees(old, new)
    PROVE  \A i \in DOMAIN d : IsNaNUpdate(d[i], NaNs)
<1> DEFINE P == Paired(old, new)
<1>1. PairSet(P, old, new)
  BY PairedIsPairSet
<1>2. \A x : SaysOf(d, old, new, P, x)
  BY DiffSays
<1> HIDE DEF P
<1>3. \A x, y : <<x, y>> \in P => ShownAlike(old, new, x, y)
  BY <1>1, PairsAlike
<1>4. d \in Seq(DiffOps(old, new))
  BY DiffTreesIsPatch DEF IsPatch
<1>5. ASSUME NEW x
      PROVE  \A a \in ToSet(OpsOn(d, x)) : IsNaNUpdate(a, NaNs)
  <2>1. CASE HasPair(P, x)
    <3>1. PICK y : <<x, y>> \in P
      BY <2>1 DEF HasPair
    <3>2. OpsOn(d, x) = Say(old, new, x, y)
      BY <1>2, <3>1 DEF SaysOf
    <3> QED
      BY <1>1, <1>3, <3>1, <3>2, AlikeSaysNothing
  <2>2. CASE ~HasPair(P, x)
    <3>1. ~BelowPair(old, P, x)
      <4> SUFFICES ASSUME NEW w, HasPair(P, w), x \in KidsOf(old, w)
                   PROVE  FALSE
        BY DEF BelowPair
      <4>1. PICK y : <<w, y>> \in P
        BY DEF HasPair
      <4> DEFINE key == Key(old, x)
      <4>2. w \in DOMAIN old.node
        BY <1>1, <4>1 DEF PairSet
      <4>3. PICK k \in DOMAIN Siblings(old, w, key) : Siblings(old, w, key)[k] = x
        BY <4>2, ChildIsSibling
      <4> HIDE DEF key
      <4>4. k \in DOMAIN Siblings(new, y, key)
        BY <1>3, <4>1, <4>3 DEF ShownAlike
      <4>5. MatesAt(P, old, new, w, y, key)
        BY <1>1, <4>1, SiblingsPair
      <4>6. HasPair(P, x)
        BY <4>3, <4>4, <4>5 DEF MatesAt
      <4> QED
        BY <2>2, <4>6
    <3>2. OpsOn(d, x) = << >>
      BY <1>2, <2>2, <3>1 DEF SaysOf
    <3> QED
      BY <3>2 DEF ToSet
  <2> QED
    BY <2>1, <2>2
<1>6. ASSUME NEW i \in DOMAIN d
      PROVE  IsNaNUpdate(d[i], NaNs)
  <2>1. d[i] \in ToSet(OpsOn(d, d[i].target))
    BY <1>4, OpOnItsTarget
  <2> QED
    BY <1>5, <2>1
<1> QED
  BY <1>6

(* A diff that says nothing has met every node of the new tree.            *)
LEMMA SilenceMeetsAll ==
    ASSUME NEW old, IsTree(old), NEW new, IsTree(new), DiffTrees(old, new) = << >>
    PROVE  AllMated(Paired(old, new), new)
<1> DEFINE P == Paired(old, new)
<1>1. PairSet(P, old, new)
  BY PairedIsPairSet
<1>2. \A x : SaysOf(<< >>, old, new, P, x)
  BY DiffSays
<1> HIDE DEF P
<1> SUFFICES ASSUME NEW y, NEW z, HasMate(P, y), z \in KidsOf(new, y), ~HasMate(P, z)
             PROVE  FALSE
  BY DEF AllMated, P
<1>3. PICK x : <<x, y>> \in P
  BY DEF HasMate
<1>4. x \in DOMAIN old.node /\ y \in DOMAIN new.node
  BY <1>1, <1>3 DEF PairSet
<1>5. << >> \in Seq(DiffOps(old, new)) /\ x \notin Affected(<< >>)
  BY DEF Affected
<1>6. OpsOn(<< >>, x) = << >>
  BY <1>5, OpsOnOps
<1>7. Say(old, new, x, y) = << >>
  BY <1>2, <1>3, <1>6 DEF SaysOf
<1>8. Inserts(<< >>) = << >>
  <2>1. Inserts(<< >>) = Retain(<< >>, {})
    BY DEF Inserts
  <2> QED
    BY <2>1, FS_EmptySet DEF Retain
<1>9. Insertions(x, new, new.node[y].children, MatchesOf(old, new, x, y)) = << >>
  BY <1>4, <1>7, <1>8, SaySays
<1> QED
  BY <1>1, <1>3, <1>9, InsertsWhatIsLeft

(* A diff that says nothing compares trees with one canonical form.        *)
LEMMA SilenceMeansAlike ==
    ASSUME NEW old, IsTree(old), NEW new, IsTree(new), DiffTrees(old, new) = << >>,
           old.node[RootId].kind = new.node[RootId].kind
    PROVE  Canon(old, RootId) = Canon(new, RootId)
<1>1. Effect(old, old, DiffTrees(old, new))
  BY EffectStart
<1>2. Canon(old, RootId) = Carried(old, new)
  BY <1>1, PatchCarries
<1> QED
  BY <1>2, SilenceMeetsAll, CarriedIsAll

(* Pairs that are added leave fewer nodes without a partner.               *)
LEMMA MorePairs ==
    ASSUME NEW old, IsTree(old), NEW t, IsTree(t), NEW new, IsTree(new),
           Paired(old, new) \subseteq Paired(t, new), Paired(old, new) # Paired(t, new)
    PROVE  /\ Cardinality(Paired(old, new)) \in Nat /\ Cardinality(Paired(t, new)) \in Nat
           /\ Cardinality(Paired(old, new)) < Cardinality(Paired(t, new))
<1> DEFINE P == Paired(old, new)
           Q == Paired(t, new)
<1>1. IsFiniteSet(DOMAIN t.node) /\ IsFiniteSet(DOMAIN new.node)
  BY TreeFacts
<1>2. Q \subseteq (DOMAIN t.node) \X (DOMAIN new.node)
  BY PairedLeads DEF PairsFrom
<1>3. IsFiniteSet((DOMAIN t.node) \X (DOMAIN new.node))
  BY <1>1, FS_Product
<1> HIDE DEF P, Q
<1>4. IsFiniteSet(Q)
  BY <1>2, <1>3, FS_Subset
<1>5. P \subseteq Q /\ P # Q
  BY DEF P, Q
<1>6. IsFiniteSet(P) /\ Cardinality(P) <= Cardinality(Q) /\ Cardinality(P) # Cardinality(Q)
  BY <1>4, <1>5, FS_Subset
<1>7. Cardinality(P) \in Nat /\ Cardinality(Q) \in Nat
  BY <1>4, <1>6, FS_CardinalityType
<1> QED
  BY <1>6, <1>7 DEF P, Q
============================================================================
