------------------------- MODULE ThreeWayMergeProofs -----------------------
(***************************************************************************)
(* Theorems about ThreeWayMerge: whatever two editors do, and whatever is  *)
(* merged and resolved, the scene stays a tree.                            *)
(***************************************************************************)
EXTENDS ThreeWayMerge, AstProofs

----------------------------------------------------------------------------
(* merge_patches and resolve_merge make patches out of what they are given.*)

(* Whatever operations a result has, merged or in conflict, come from the  *)
(* two patches.                                                            *)
IsResult(r, S) ==
    /\ r.merged \in Seq(S)
    /\ Len(r.conflicts) \in Nat /\ DOMAIN r.conflicts = 1..Len(r.conflicts)
    /\ \A i \in DOMAIN r.conflicts :
          r.conflicts[i].a \in Seq(S) /\ r.conflicts[i].b \in Seq(S)

(* merge_patches invents no operation: what it merges and what it reports  *)
(* as a conflict are made of the two patches.                              *)
LEMMA MergeMakesResults ==
    ASSUME NEW S, NEW a \in Seq(S), NEW b \in Seq(S), NEW r \in MergePatches(a, b)
    PROVE  IsResult(r, S)
<1> DEFINE both == Affected(a) \intersect Affected(b)
           agreed(id) == SameOps(OpsOn(a, id), OpsOn(b, id))
           alike(order) == [i \in DOMAIN order |->
                               IF agreed(order[i]) THEN OpsOn(a, order[i]) ELSE << >>]
           clashes(order) == Retain(order, {i \in DOMAIN order : ~agreed(order[i])})
           conflicts(order) == [i \in DOMAIN clashes(order) |->
                                   [node |-> clashes(order)[i],
                                    a |-> OpsOn(a, clashes(order)[i]),
                                    b |-> OpsOn(b, clashes(order)[i])]]
           merged(order) == OpsOff(a, Affected(b)) \o OpsOff(b, Affected(a))
                              \o FlattenSeq(alike(order))
<1>1. PICK order \in SetToSeqs(both) :
          r = [merged |-> merged(order), conflicts |-> conflicts(order)]
  BY DEF MergePatches
<1>2. order \in Seq(both)
  <2>1. IsFiniteSet(Affected(a))
    <3>1. IsFiniteSet(DOMAIN a)
      <4>1. Len(a) \in Nat /\ DOMAIN a = 1..Len(a)
        OBVIOUS
      <4> QED
        BY <4>1, FS_Interval
    <3>2. [i \in DOMAIN a |-> a[i].target] \in Surjection(DOMAIN a, Affected(a))
      BY DEF Affected, Surjection
    <3> QED
      BY <3>1, <3>2, FS_Surjection
  <2>2. Cardinality(both) \in Nat
    BY <2>1, FS_Subset, FS_CardinalityType
  <2>3. order \in [1..Cardinality(both) -> both]
    BY DEF SetToSeqs
  <2> HIDE DEF both
  <2> QED
    BY <2>2, <2>3, SeqDef
<1>3. alike(order) \in Seq(Seq(S))
  <2>1. Len(order) \in Nat /\ DOMAIN order = 1..Len(order)
    BY <1>2
  <2>2. \A id : OpsOn(a, id) \in Seq(S)
    BY OpsOnOff
  <2>3. << >> \in Seq(S)
    BY EmptySeq
  <2> HIDE DEF agreed
  <2>4. alike(order) \in [1..Len(order) -> Seq(S)]
    BY <2>1, <2>2, <2>3
  <2> QED
    BY <2>1, <2>4, SeqDef
<1>4. merged(order) \in Seq(S)
  <2>1. OpsOff(a, Affected(b)) \in Seq(S) /\ OpsOff(b, Affected(a)) \in Seq(S)
    BY OpsOnOff
  <2>2. FlattenSeq(alike(order)) \in Seq(S)
    <3> DEFINE ss == alike(order)
    <3>1. ss \in Seq(Seq(S))
      BY <1>3
    <3> HIDE DEF ss
    <3>2. FlattenSeq(ss) \in Seq(S)
      BY <3>1, FlattenPairwise
    <3> QED
      BY <3>2 DEF ss
  <2> HIDE DEF alike
  <2> QED
    BY <2>1, <2>2, ConcatProperties
<1>5. /\ Len(conflicts(order)) \in Nat
      /\ DOMAIN conflicts(order) = 1..Len(conflicts(order))
      /\ \A i \in DOMAIN conflicts(order) :
            /\ conflicts(order)[i].a \in Seq(S)
            /\ conflicts(order)[i].b \in Seq(S)
  <2>1. clashes(order) \in Seq(both)
    <3> DEFINE I == {i \in DOMAIN order : ~agreed(order[i])}
    <3>1. I \in SUBSET (DOMAIN order)
      OBVIOUS
    <3> HIDE DEF I
    <3>2. Retain(order, I) \in Seq(both)
      BY <1>2, <3>1, RetainProperties
    <3> QED
      BY <3>2 DEF I
  <2> HIDE DEF clashes
  <2>2. Len(clashes(order)) \in Nat /\ DOMAIN clashes(order) = 1..Len(clashes(order))
    BY <2>1
  <2>3. \A id : OpsOn(a, id) \in Seq(S) /\ OpsOn(b, id) \in Seq(S)
    BY OpsOnOff
  <2>4. Len(conflicts(order)) = Len(clashes(order))
    BY <2>2
  <2> QED
    BY <2>2, <2>3, <2>4
<1> HIDE DEF merged, conflicts
<1> QED
  BY <1>1, <1>4, <1>5 DEF IsResult

(* Neither does resolve_merge, whichever strategy picks a side.            *)
LEMMA ResolvedPatch ==
    ASSUME NEW S, NEW r, IsResult(r, S), NEW strategy \in Strategies
    PROVE  ResolveMerge(r, strategy) \in Seq(S)
<1> DEFINE ss == [i \in DOMAIN r.conflicts |-> ResolveConflict(r.conflicts[i], strategy)]
<1>1. \A i \in DOMAIN r.conflicts : ResolveConflict(r.conflicts[i], strategy) \in Seq(S)
  <2> TAKE i \in DOMAIN r.conflicts
  <2>1. r.conflicts[i].a \in Seq(S) /\ r.conflicts[i].b \in Seq(S)
    BY DEF IsResult
  <2>2. r.conflicts[i].a \o r.conflicts[i].b \in Seq(S)
    BY <2>1, ConcatProperties
  <2> QED
    BY <2>1, <2>2, EmptySeq DEF ResolveConflict, Strategies
<1>2. ss \in Seq(Seq(S))
  <2>1. ss \in [1..Len(r.conflicts) -> Seq(S)]
    BY <1>1 DEF IsResult
  <2> QED
    BY <2>1, SeqDef DEF IsResult
<1>3. FlattenSeq(ss) \in Seq(S)
  <2> HIDE DEF ss
  <2> QED
    BY <1>2, FlattenPairwise
<1>4. ResolveMerge(r, strategy) = r.merged \o FlattenSeq(ss)
  BY DEF ResolveMerge
<1> HIDE DEF ss
<1> QED
  BY <1>3, <1>4, ConcatProperties DEF IsResult

----------------------------------------------------------------------------
(* The state.                                                              *)

(* Operations that leave a tree when they are applied to t or to what      *)
(* others of them have made of it.                                         *)
SafeOn(t, S) ==
    \A o \in S : /\ o.target \in Nat /\ o.target < t.next
                 /\ \/ o.op = "Insert" \/ o.op = "Delete"
                    \/ o.op = "Update" \/ o.op = "Relabel"
                 /\ o.op = "Delete" => o.target # RootId

(* In any order and any number.                                            *)
LEMMA SafeOpsKeepTree ==
    ASSUME NEW t, IsTree(t), NEW S, SafeOn(t, S), NEW ops \in Seq(S)
    PROVE  IsTree(ApplyPatch(t, ops))
<1> DEFINE n == Len(ops)
           tree == Applied(t, ops)
           T == {k \in Nat : k <= n => IsTree(tree[k]) /\ tree[k].next >= t.next}
<1>1. n \in Nat /\ \A i \in 1..n : ops[i] \in S
  OBVIOUS
<1>2. tree[0] = t /\ \A i \in 1..n : tree[i] = ApplyOp(tree[i - 1], ops[i])
  BY AppliedSteps
<1>3. t.next \in Nat
  BY TreeFacts
<1> HIDE DEF tree
<1>4. 0 \in T
  BY <1>2, <1>3
<1>5. ASSUME NEW k \in Nat, k \in T
      PROVE  k + 1 \in T
  <2> SUFFICES ASSUME k + 1 <= n
               PROVE  IsTree(tree[k + 1]) /\ tree[k + 1].next >= t.next
    OBVIOUS
  <2> DEFINE u == tree[k]
             o == ops[k + 1]
  <2>1. k + 1 \in 1..n /\ (k + 1) - 1 = k /\ k <= n
    BY <1>1
  <2>2. IsTree(u) /\ u.next >= t.next /\ u.next \in Nat
    BY <1>5, <2>1, TreeFacts
  <2>3. tree[k + 1] = ApplyOp(u, o)
    BY <1>2, <2>1
  <2>4. /\ o.target \in Nat /\ o.target < t.next
        /\ o.op = "Insert" \/ o.op = "Delete" \/ o.op = "Update" \/ o.op = "Relabel"
        /\ o.op = "Delete" => o.target # RootId
    BY <1>1, <2>1 DEF SafeOn
  <2>5. o.target < u.next
    BY <1>3, <2>2, <2>4
  <2> HIDE DEF u, o
  <2>6. IsTree(ApplyOp(u, o)) /\ ApplyOp(u, o).next >= u.next
    BY <2>2, <2>4, <2>5, ApplyKeepsTree
  <2>7. ApplyOp(u, o).next \in Nat
    BY <2>6, TreeFacts
  <2> QED
    BY <1>3, <2>2, <2>3, <2>6, <2>7
<1>6. n \in T
  <2> HIDE DEF T
  <2> QED
    BY <1>1, <1>4, <1>5, SetInduction
<1> QED
  BY <1>1, <1>6 DEF tree, ApplyPatch

(* The base is a tree, and so are the copies.                              *)
MergeInv ==
    /\ session \in Sessions
    /\ edits \in 0..session.edits
    /\ IsTree(base)
    /\ copy = [s \in Sides |-> copy[s]]
    /\ \A s \in Sides : IsTree(copy[s])

(* The operations of both patches.                                         *)
PatchOps == DiffOps(base, copy["ours"]) \union DiffOps(base, copy["theirs"])

(* What a merge gives is made of operations that are safe on the base.     *)
LEMMA ResultsAreSafe ==
    ASSUME MergeInv
    PROVE  SafeOn(base, PatchOps) /\ \A r \in Results : IsResult(r, PatchOps)
<1>1. ASSUME NEW s \in Sides
      PROVE  Patch(s) \in Seq(DiffOps(base, copy[s]))
  BY DiffTreesIsPatch DEF MergeInv, Patch, IsPatch
<1>2. Patch("ours") \in Seq(PatchOps) /\ Patch("theirs") \in Seq(PatchOps)
  <2>1. /\ Patch("ours") \in Seq(DiffOps(base, copy["ours"]))
        /\ Patch("theirs") \in Seq(DiffOps(base, copy["theirs"]))
    BY <1>1 DEF Sides
  <2>2. /\ DiffOps(base, copy["ours"]) \subseteq PatchOps
        /\ DiffOps(base, copy["theirs"]) \subseteq PatchOps
    BY DEF PatchOps
  <2> QED
    BY <2>1, <2>2, SeqMonotonic
<1>3. \A r \in Results : IsResult(r, PatchOps)
  BY <1>2, MergeMakesResults DEF Results
<1>4. ASSUME NEW o \in PatchOps
      PROVE  /\ o.target \in Nat /\ o.target < base.next
             /\ \/ o.op = "Insert" \/ o.op = "Delete"
                \/ o.op = "Update" \/ o.op = "Relabel"
             /\ o.op = "Delete" => o.target # RootId
  <2>1. /\ o.op = "Insert" \/ o.op = "Delete" \/ o.op = "Update" \/ o.op = "Relabel"
        /\ o.target \in DOMAIN base.node
        /\ o.op = "Delete" => o.target # RootId
    BY DiffOpsFields DEF PatchOps
  <2>2. DOMAIN base.node \subseteq Nat /\ \A x \in DOMAIN base.node : x < base.next
    BY TreeFacts DEF MergeInv
  <2> QED
    BY <2>1, <2>2
<1> QED
  BY <1>3, <1>4 DEF SafeOn

(* A session starts with two copies of its base, which is a tree.          *)
LEMMA MergeInit == Init => MergeInv
BY SessionsAssumption DEF Init, MergeInv, Sides

(* Every edit of a copy, every merge and every resolution leaves trees.    *)
LEMMA MergeStep == MergeInv /\ [Next]_vars => MergeInv'
<1> SUFFICES ASSUME MergeInv, [Next]_vars
             PROVE  MergeInv'
  OBVIOUS
<1>1. ASSUME NEW s \in Sides, NEW t, IsTree(t), Edited(s, t)
      PROVE  MergeInv'
  <2>1. edits + 1 \in 0..session.edits
    BY <1>1, SessionsAssumption DEF Edited, MergeInv
  <2> QED
    BY <1>1, <2>1 DEF Edited, MergeInv
<1>2. ASSUME NEW s \in Sides, NEW kind, NEW label, NEW value, NEW p \in DOMAIN copy[s].node,
             AddNode(s, kind, label, value, p)
      PROVE  MergeInv'
  <2>1. IsTree(copy[s])
    BY DEF MergeInv
  <2>2. p \in Nat /\ p < copy[s].next
    BY <2>1, TreeFacts
  <2>3. IsTree(AddNodeWithValue(copy[s], kind, label, value, p))
    BY <2>1, <2>2, AddKeepsTree
  <2> QED
    BY <1>1, <1>2, <2>3 DEF AddNode
<1>3. ASSUME NEW s \in Sides, NEW id \in DOMAIN copy[s].node \ {RootId}, RemoveNode(s, id)
      PROVE  MergeInv'
  <2>1. IsTree(RemoveSubtree(copy[s], id))
    BY RemoveKeepsTree DEF MergeInv
  <2> QED
    BY <1>1, <1>3, <2>1 DEF RemoveNode
<1>4. ASSUME NEW s \in Sides, NEW id, NEW v, ChangeValue(s, id, v)
      PROVE  MergeInv'
  <2>1. IsTree(SetValue(copy[s], id, v))
    BY KidsOfSet, SetGivesNoId, SetKeepsTree DEF MergeInv
  <2> QED
    BY <1>1, <1>4, <2>1 DEF ChangeValue
<1>5. ASSUME NEW s \in Sides, NEW id, NEW l, ChangeLabel(s, id, l)
      PROVE  MergeInv'
  <2>1. IsTree(SetLabel(copy[s], id, l))
    BY KidsOfSet, SetGivesNoId, SetKeepsTree DEF MergeInv
  <2> QED
    BY <1>1, <1>5, <2>1 DEF ChangeLabel
<1>6. ASSUME NEW ops \in Seq(PatchOps), base' = ApplyPatch(base, ops),
             copy' = [s \in Sides |-> base'], UNCHANGED <<session, edits>>
      PROVE  MergeInv'
  <2>1. IsTree(ApplyPatch(base, ops))
    BY ResultsAreSafe, SafeOpsKeepTree DEF MergeInv
  <2> QED
    BY <1>6, <2>1 DEF MergeInv
<1>7. ASSUME NEW result \in Results, Merge(result)
      PROVE  MergeInv'
  <2>1. result.merged \in Seq(PatchOps)
    BY ResultsAreSafe DEF IsResult
  <2> QED
    BY <1>6, <1>7, <2>1 DEF Merge, MergedTree
<1>8. ASSUME NEW result \in Results, NEW strategy \in Strategies, Resolve(result, strategy)
      PROVE  MergeInv'
  <2>1. ResolveMerge(result, strategy) \in Seq(PatchOps)
    BY ResultsAreSafe, ResolvedPatch
  <2> QED
    BY <1>6, <1>8, <2>1 DEF Resolve
<1>9. CASE UNCHANGED vars
  BY <1>9 DEF vars, MergeInv
<1> QED
  BY <1>2, <1>3, <1>4, <1>5, <1>7, <1>8, <1>9 DEF Next

(* Both copies and their base stay trees through every edit, merge and     *)
(* resolution.                                                             *)
THEOREM MergeInvHolds == Spec => []MergeInv
BY MergeInit, MergeStep, PTL DEF Spec

(* Whatever the editors do, and whatever is merged or resolved, by which   *)
(* strategy and in which order, both copies stay trees.                    *)
THEOREM MergeTypeOK == Spec => []TypeOK
<1>1. MergeInv => TypeOK
  BY DEF MergeInv, TypeOK
<1> QED
  BY <1>1, MergeInvHolds, PTL

----------------------------------------------------------------------------
(* merge_patches does not depend on which patch comes first, nor on the    *)
(* order in which it visits the nodes both affect: a result keeps of each  *)
(* node the same operations in the same order, and what a patch makes of a *)
(* tree is determined by that.                                             *)
THEOREM MergeCommutesHolds == Spec => []MergeCommutes
<1>1. MergeInv => MergeCommutes
  <2> SUFFICES ASSUME MergeInv, NEW r \in Results,
                      NEW q \in MergePatches(Patch("theirs"), Patch("ours"))
               PROVE  /\ ConflictNodes(r) = ConflictNodes(q)
                      /\ IsClean(r) => Canon(MergedTree(r), RootId)
                                         = Canon(MergedTree(q), RootId)
    BY DEF MergeCommutes
  <2> DEFINE a == Patch("ours")
             b == Patch("theirs")
             S == DiffOps(base, copy["ours"]) \union DiffOps(base, copy["theirs"])
  <2>1. IsTree(base) /\ IsTree(copy["ours"]) /\ IsTree(copy["theirs"])
    BY DEF MergeInv, Sides
  <2>2. SafeFor(base, S) /\ a \in Seq(S) /\ b \in Seq(S)
    BY <2>1, TwoDiffs DEF Patch
  <2>3. r \in MergePatches(a, b) /\ q \in MergePatches(b, a)
    BY DEF Results
  <2> HIDE DEF a, b, S
  <2> QED
    BY <2>1, <2>2, <2>3, MergesAgree DEF MergedTree
<1> QED
  BY <1>1, MergeInvHolds, PTL

----------------------------------------------------------------------------
(* What an editor did to each node of the base, and what the patch says of *)
(* it.                                                                     *)

(* c lists added nodes, each alone, with their places.                     *)
IsAdded(c) ==
    /\ c \in Seq(ToSet(c))
    /\ \A k \in DOMAIN c : /\ c[k].at \in Nat /\ c[k].at >= 1
                           /\ c[k] = [at |-> c[k].at, node |-> Bare(c[k].node)]

(* ins are the insertions below x that add them.                           *)
Inserting(ins, x, c) ==
    /\ DOMAIN ins = DOMAIN c
    /\ \A k \in DOMAIN c : ins[k] = Insert(x, c[k].at - 1, c[k].node)

(* A sequence is one of its entries.                                       *)
LEMMA SeqOfItsSet ==
    ASSUME NEW n \in Nat, NEW s, s = [i \in 1..n |-> s[i]]
    PROVE  s \in Seq(ToSet(s))
<1>1. DOMAIN s = 1..n
  OBVIOUS
<1>2. \A i \in 1..n : s[i] \in ToSet(s)
  BY <1>1 DEF ToSet
<1> DEFINE T == ToSet(s)
<1> HIDE DEF T
<1>3. s \in [1..n -> T]
  BY <1>2 DEF T
<1>4. s \in Seq(T)
  BY <1>3, SeqDef
<1> QED
  BY <1>4 DEF T

(* The nodes an editor added below a node are those the patch inserts.     *)
LEMMA AddedInserts ==
    ASSUME IsTree(base), NEW s, IsTree(copy[s]), NEW P, P = Paired(base, copy[s]),
           NEW x, NEW y, <<x, y>> \in P
    PROVE  /\ IsAdded(Added(s, y, P))
           /\ Inserting(Insertions(x, copy[s], copy[s].node[y].children,
                                   MatchesOf(base, copy[s], x, y)), x, Added(s, y, P))
<1> DEFINE new == copy[s]
           cs == new.node[y].children
           w == [i \in DOMAIN cs |-> [at |-> i, node |-> Bare(new.node[cs[i]])]]
           v == AsInserts(x, new, cs)
           I == {i \in DOMAIN cs : ~HasMate(P, cs[i])}
           ins == Insertions(x, new, cs, MatchesOf(base, new, x, y))
           c == Added(s, y, P)
<1>1. PairSet(P, base, new) /\ P \subseteq (DOMAIN base.node) \X (DOMAIN new.node)
  BY PairedIsPairSet, PairedLeads DEF PairsFrom
<1>2. x \in DOMAIN base.node /\ y \in DOMAIN new.node
  BY <1>1 DEF PairSet
<1>3. cs \in Seq(Nat) /\ DOMAIN cs = 1..Len(cs) /\ Len(cs) \in Nat
  <2>1. cs \in Seq(Nat)
    BY <1>2, TreeFacts DEF Lists
  <2> QED
    BY <2>1
<1>4. c = Retain(w, I)
  <2>1. ASSUME NEW i \in DOMAIN cs
        PROVE  (\A p \in P : p[2] # cs[i]) <=> ~HasMate(P, cs[i])
    <3>1. \A p \in P : p = <<p[1], p[2]>>
      BY <1>1
    <3> HIDE DEF cs
    <3> QED
      BY <3>1 DEF HasMate
  <2>2. {i \in DOMAIN cs : \A p \in P : p[2] # cs[i]} = I
    BY <2>1
  <2> QED
    BY <2>2 DEF Added
<1>5. ins = Retain(v, I)
  <2>1. NotMet(cs, MatchesOf(base, new, x, y)) = I
    BY <1>1, NotMetIs
  <2>2. ins = Retain(v, NotMet(cs, MatchesOf(base, new, x, y)))
    BY <1>2, InsertionsRetain, SMTT(30)
  <2> QED
    BY <2>1, <2>2
<1>6. DOMAIN w = DOMAIN cs /\ DOMAIN v = DOMAIN cs
  BY DEF AsInserts
<1>7. /\ \A i \in DOMAIN cs : w[i] = [at |-> i, node |-> Bare(new.node[cs[i]])]
      /\ \A i \in DOMAIN cs : v[i] = Insert(x, i - 1, new.node[cs[i]])
  BY DEF AsInserts
<1>8. w = [i \in 1..Len(cs) |-> w[i]] /\ v = [i \in 1..Len(cs) |-> v[i]]
  BY <1>3 DEF AsInserts
<1>9. I \subseteq DOMAIN cs
  OBVIOUS
<1> HIDE DEF w, v, I, ins, c, cs
<1>10. w \in Seq(ToSet(w)) /\ v \in Seq(ToSet(v))
  BY <1>3, <1>8, SeqOfItsSet
<1>11. RetainTogether(w, v, I)
  BY <1>6, <1>9, <1>10, RetainAlong
<1>12. PICK at \in [1..Cardinality(I) -> I] :
           \A k \in 1..Cardinality(I) : Retain(w, I)[k] = w[at[k]] /\ Retain(v, I)[k] = v[at[k]]
  BY <1>11 DEF RetainTogether
<1>13. DOMAIN c = 1..Cardinality(I) /\ DOMAIN ins = 1..Cardinality(I) /\ c \in Seq(ToSet(w))
  BY <1>4, <1>5, <1>6, <1>9, <1>10, RetainProperties
<1>14. \A k \in DOMAIN c : at[k] \in DOMAIN cs /\ c[k] = w[at[k]] /\ ins[k] = v[at[k]]
  BY <1>4, <1>5, <1>9, <1>12, <1>13
<1>15. ASSUME NEW k \in DOMAIN c
       PROVE  /\ c[k].at \in Nat /\ c[k].at >= 1
              /\ c[k] = [at |-> c[k].at, node |-> Bare(c[k].node)]
              /\ ins[k] = Insert(x, c[k].at - 1, c[k].node)
  <2> DEFINE i == at[k]
             n == new.node[cs[i]]
  <2>1. i \in DOMAIN cs /\ i \in Nat /\ i >= 1
    BY <1>3, <1>14
  <2>2. c[k] = [at |-> i, node |-> Bare(n)] /\ ins[k] = Insert(x, i - 1, n)
    BY <1>7, <1>14, <2>1
  <2> HIDE DEF i, n
  <2>3. Bare(Bare(n)) = Bare(n)
    BY DEF Bare, Shown
  <2>4. Insert(x, i - 1, n) = Insert(x, i - 1, Bare(n))
    BY DEF Insert, Bare, Shown
  <2>5. c[k].at = i /\ c[k].node = Bare(n)
    BY <2>2
  <2> QED
    BY <2>1, <2>2, <2>3, <2>4, <2>5
<1>16. c \in Seq(ToSet(c))
  <2> DEFINE T == ToSet(w)
  <2> HIDE DEF T
  <2>0. c \in Seq(T)
    BY <1>13 DEF T
  <2>1. Len(c) \in Nat /\ c = [k \in 1..Len(c) |-> c[k]]
    BY <2>0
  <2> QED
    BY <2>1, SeqOfItsSet
<1>17. IsAdded(c) /\ Inserting(ins, x, c)
  BY <1>13, <1>15, <1>16 DEF IsAdded, Inserting
<1> QED
  BY <1>17 DEF c, ins, cs

(* A node of the base that an editor removed.                              *)
Removed(x) ==
    [gone |-> TRUE, label |-> base.node[x].label,
     value |-> base.node[x].value, added |-> << >>]

(* What an editor did to a node, in terms of the pairs of the diff.        *)
ChangeIs(c, s, P, x) ==
    /\ \A y : <<x, y>> \in P =>
          c = [gone |-> FALSE, label |-> copy[s].node[y].label,
               value |-> copy[s].node[y].value, added |-> Added(s, y, P)]
    /\ ~HasPair(P, x) => c = IF BelowPair(base, P, x) THEN Removed(x) ELSE Unchanged(x)

(* What an editor did to a node, case by case.                             *)
LEMMA ChangesAre ==
    ASSUME IsTree(base), NEW s, IsTree(copy[s]), NEW P, P = Paired(base, copy[s]),
           NEW x \in DOMAIN base.node
    PROVE  ChangeIs(Changes(s)[x], s, P, x)
<1> DEFINE paired(z) == \E p \in P : p[1] = z
           c == Changes(s)[x]
<1>1. PairSet(P, base, copy[s]) /\ P \subseteq (DOMAIN base.node) \X (DOMAIN copy[s].node)
  BY PairedIsPairSet, PairedLeads DEF PairsFrom
<1>2. \A p \in P : p = <<p[1], p[2]>>
  BY <1>1
<1>3. c = IF paired(x)
          THEN [gone |-> FALSE,
                label |-> copy[s].node[(CHOOSE p \in P : p[1] = x)[2]].label,
                value |-> copy[s].node[(CHOOSE p \in P : p[1] = x)[2]].value,
                added |-> Added(s, (CHOOSE p \in P : p[1] = x)[2], P)]
          ELSE [Unchanged(x) EXCEPT !.gone = paired(base.parent[x])]
  BY DEF Changes
<1>4. \A z : paired(z) <=> HasPair(P, z)
  BY <1>2, ZenonT(60) DEF HasPair
<1> HIDE DEF c
<1>5. ASSUME NEW y, <<x, y>> \in P
      PROVE  c = [gone |-> FALSE, label |-> copy[s].node[y].label,
                  value |-> copy[s].node[y].value, added |-> Added(s, y, P)]
  <2> DEFINE q == CHOOSE p \in P : p[1] = x
  <2>1. <<x, y>> \in P /\ <<x, y>>[1] = x
    BY <1>5
  <2>2. q \in P /\ q[1] = x
    BY <2>1
  <2>3. paired(x)
    BY <2>1
  <2>4. q = <<x, q[2]>>
    BY <1>2, <2>2
  <2> HIDE DEF q
  <2>5. q[2] = y
    BY <1>1, <1>5, <2>2, <2>4 DEF PairSet, OneToOne
  <2>6. c = [gone |-> FALSE, label |-> copy[s].node[q[2]].label,
             value |-> copy[s].node[q[2]].value, added |-> Added(s, q[2], P)]
    BY <1>3, <2>3 DEF q
  <2> QED
    BY <2>5, <2>6
<1>6. ASSUME ~HasPair(P, x)
      PROVE  c = IF BelowPair(base, P, x) THEN Removed(x) ELSE Unchanged(x)
  <2>1. c = [Unchanged(x) EXCEPT !.gone = paired(base.parent[x])]
    BY <1>3, <1>4, <1>6
  <2>2. x # RootId
    BY <1>1, <1>6 DEF PairSet, HasPair
  <2>3. paired(base.parent[x]) <=> BelowPair(base, P, x)
    <3>1. x \in DOMAIN base.parent
      BY <2>2, TreeFacts
    <3>2. ASSUME HasPair(P, base.parent[x])
          PROVE  BelowPair(base, P, x)
      <4>1. base.parent[x] \in DOMAIN base.node
        BY <1>1, <3>2 DEF HasPair, PairSet
      <4>2. x \in KidsOf(base, base.parent[x])
        BY <3>1, <4>1, TreeFacts
      <4> QED
        BY <3>2, <4>2 DEF BelowPair
    <3>3. ASSUME BelowPair(base, P, x)
          PROVE  HasPair(P, base.parent[x])
      <4>1. PICK w : HasPair(P, w) /\ x \in KidsOf(base, w)
        BY <3>3 DEF BelowPair
      <4>2. base.parent[x] = w
        BY <4>1, TreeFacts
      <4> QED
        BY <4>1, <4>2
    <3> QED
      BY <1>4, <3>2, <3>3
  <2> DEFINE g == paired(base.parent[x])
  <2>4. c = [gone |-> g, label |-> base.node[x].label,
             value |-> base.node[x].value, added |-> << >>]
    BY <2>1 DEF Unchanged
  <2>5. g \in BOOLEAN
    OBVIOUS
  <2> HIDE DEF g
  <2>6. CASE g
    <3>1. g = TRUE /\ BelowPair(base, P, x)
      BY <2>3, <2>5, <2>6 DEF g
    <3> QED
      BY <2>4, <3>1 DEF Removed
  <2>7. CASE ~g
    <3>1. g = FALSE /\ ~BelowPair(base, P, x)
      BY <2>3, <2>5, <2>7 DEF g
    <3> QED
      BY <2>4, <3>1 DEF Unchanged
  <2> QED
    BY <2>6, <2>7
<1> QED
  BY <1>5, <1>6 DEF ChangeIs, c

(* An Update carries the value its node had.                               *)
LEMMA UpdateOld ==
    ASSUME NEW old, NEW new, NEW a \in DiffOps(old, new), a.op = "Update"
    PROVE  a.old = old.node[a.target].value
BY DEF DiffOps, Insert, Delete, Update, Relabel

(* ops do to the node x of the base what c tells.                          *)
Does(ops, x, c) ==
    /\ c = [gone |-> c.gone, label |-> c.label, value |-> c.value, added |-> c.added]
    /\ c.gone \in BOOLEAN
    /\ IsAdded(c.added) /\ Inserting(Inserts(ops), x, c.added)
    /\ c.gone => ops = <<Delete(x)>> /\ c = Removed(x)
    /\ \A a \in ToSet(ops) :
          /\ a.op = "Delete" => c.gone
          /\ a.op = "Relabel" => a.label = c.label
          /\ a.op = "Update" => a.old = base.node[x].value /\ a.value = c.value
    /\ base.node[x].label # c.label => \E a \in ToSet(ops) : a.op = "Relabel"
    /\ base.node[x].value # c.value => \E a \in ToSet(ops) : a.op = "Update"

(* Nothing is done by no operation.                                        *)
LEMMA NothingDone ==
    ASSUME NEW x
    PROVE  /\ Inserts(<< >>) = << >>
           /\ IsAdded(<< >>) /\ Inserting(<< >>, x, << >>)
           /\ Does(<< >>, x, Unchanged(x))
<1>1. Inserts(<< >>) = << >>
  <2>1. Inserts(<< >>) = Retain(<< >>, {})
    BY DEF Inserts
  <2> QED
    BY <2>1, FS_EmptySet DEF Retain
<1>2. IsAdded(<< >>) /\ Inserting(<< >>, x, << >>)
  BY EmptySeq DEF IsAdded, Inserting
<1>3. Does(<< >>, x, Unchanged(x))
  BY <1>1, <1>2 DEF Does, Unchanged, ToSet
<1> QED
  BY <1>1, <1>2, <1>3

(* A deletion removes the node and does nothing else.                      *)
LEMMA RemovalDone ==
    ASSUME NEW x
    PROVE  Does(<<Delete(x)>>, x, Removed(x))
<1> DEFINE ops == <<Delete(x)>>
<1>1. Inserts(ops) = << >>
  <2>1. {i \in DOMAIN ops : ops[i].op = "Insert"} = {}
    BY DEF Delete
  <2>2. Inserts(ops) = Retain(ops, {})
    BY <2>1 DEF Inserts
  <2> QED
    BY <2>2, FS_EmptySet DEF Retain
<1>2. IsAdded(<< >>) /\ Inserting(<< >>, x, << >>)
  BY NothingDone
<1>3. \A a \in ToSet(ops) : a.op = "Delete"
  BY DEF ToSet, Delete
<1>4. /\ Removed(x) = [gone |-> TRUE, label |-> base.node[x].label,
                       value |-> base.node[x].value, added |-> << >>]
      /\ Removed(x).gone = TRUE /\ Removed(x).label = base.node[x].label
      /\ Removed(x).value = base.node[x].value /\ Removed(x).added = << >>
  BY DEF Removed
<1> HIDE DEF ops
<1> QED
  BY <1>1, <1>2, <1>3, <1>4 DEF Does, ops

(* A patch does to each node what the editor did to it.                    *)
LEMMA SideDoes ==
    ASSUME IsTree(base), NEW s, IsTree(copy[s]), NEW x \in DOMAIN base.node
    PROVE  Does(OpsOn(Patch(s), x), x, Changes(s)[x])
<1> DEFINE P == Paired(base, copy[s])
           c == Changes(s)[x]
           d == Patch(s)
           new == copy[s]
<1>1. PairSet(P, base, new)
  BY PairedIsPairSet
<1>2. SaysOf(d, base, new, P, x)
  BY DiffSays DEF Patch
<1>3. ChangeIs(c, s, P, x)
  BY ChangesAre
<1>4. CASE HasPair(P, x)
  <2>1. PICK y : <<x, y>> \in P
    BY <1>4 DEF HasPair
  <2>2. y \in DOMAIN new.node
    BY <1>1, <2>1 DEF PairSet
  <2> DEFINE ops == Say(base, new, x, y)
             ad == Added(s, y, P)
  <2>3. OpsOn(d, x) = ops
    BY <1>2, <2>1 DEF SaysOf
  <2>4. c = [gone |-> FALSE, label |-> new.node[y].label,
             value |-> new.node[y].value, added |-> ad]
    BY <1>3, <2>1 DEF ChangeIs
  <2>5. ops \in Seq(DiffOps(base, new)) /\ SayIs(ops, base, new, x, y)
    BY <2>2, SaySays
  <2>6. IsAdded(ad) /\ Inserting(Inserts(ops), x, ad)
    BY <2>1, <2>2, SaySays, AddedInserts
  <2>7. \A a \in ToSet(ops) : a.op = "Update" => a.old = base.node[x].value
    <3>1. ASSUME NEW a \in ToSet(ops), a.op = "Update"
          PROVE  a.old = base.node[x].value
      <4>1. a \in DiffOps(base, new)
        BY <2>5, <3>1 DEF ToSet
      <4>2. d \in Seq(DiffOps(base, new))
        BY DiffTreesIsPatch DEF IsPatch, Patch
      <4>3. a.target = x
        BY <2>3, <3>1, <4>2, OpsOnOps
      <4> QED
        BY <3>1, <4>1, <4>3, UpdateOld
    <3> QED
      BY <3>1
  <2>8. /\ c.gone = FALSE /\ c.label = new.node[y].label
        /\ c.value = new.node[y].value /\ c.added = ad
    BY <2>4
  <2>9. base.node[x].value # c.value => ~SameValue(base.node[x].value, new.node[y].value)
    BY <2>8 DEF SameValue
  <2> HIDE DEF ops, ad, c
  <2>10. c = [gone |-> c.gone, label |-> c.label, value |-> c.value, added |-> c.added]
    BY <2>4, <2>8
  <2>11. Does(ops, x, c)
    BY <2>5, <2>6, <2>7, <2>8, <2>9, <2>10 DEF Does, SayIs
  <2> QED
    BY <2>3, <2>11 DEF c
<1>5. CASE ~HasPair(P, x) /\ BelowPair(base, P, x)
  <2>1. c = Removed(x) /\ OpsOn(d, x) = <<Delete(x)>>
    BY <1>2, <1>3, <1>5 DEF ChangeIs, SaysOf
  <2> QED
    BY <2>1, RemovalDone
<1>6. CASE ~HasPair(P, x) /\ ~BelowPair(base, P, x)
  <2>1. c = Unchanged(x) /\ OpsOn(d, x) = << >>
    BY <1>2, <1>3, <1>6 DEF ChangeIs, SaysOf
  <2> QED
    BY <2>1, NothingDone
<1> QED
  BY <1>4, <1>5, <1>6

----------------------------------------------------------------------------
(* Operations and changes: two editors say the same of a node when they    *)
(* changed it alike.                                                       *)

(* The insertions that add the nodes of c below x.                         *)
InsertsFor(x, c) == [k \in DOMAIN c |-> Insert(x, c[k].at - 1, c[k].node)]

(* The operations that do what c tells to the node x of the base.          *)
OpsFor(x, c) ==
    IF c.gone THEN <<Delete(x)>>
    ELSE OwnOps(x, base.node[x], c) \o InsertsFor(x, c.added)

(* What a patch says about a node is determined by what the editor did.    *)
LEMMA OpsFollowChange ==
    ASSUME IsTree(base), NEW s, IsTree(copy[s]), NEW x \in DOMAIN base.node,
           OpsOn(Patch(s), x) # << >>
    PROVE  OpsOn(Patch(s), x) = OpsFor(x, Changes(s)[x])
<1> DEFINE P == Paired(base, copy[s])
           c == Changes(s)[x]
           d == Patch(s)
           new == copy[s]
<1>1. PairSet(P, base, new)
  BY PairedIsPairSet
<1>2. SaysOf(d, base, new, P, x)
  BY DiffSays DEF Patch
<1>3. ChangeIs(c, s, P, x)
  BY ChangesAre
<1>4. CASE HasPair(P, x)
  <2>1. PICK y : <<x, y>> \in P
    BY <1>4 DEF HasPair
  <2>2. y \in DOMAIN new.node
    BY <1>1, <2>1 DEF PairSet
  <2> DEFINE ins == Insertions(x, new, new.node[y].children, MatchesOf(base, new, x, y))
             ad == Added(s, y, P)
  <2>3. OpsOn(d, x) = OwnOps(x, base.node[x], new.node[y]) \o ins
    BY <1>2, <2>1 DEF SaysOf, Say
  <2>4. c = [gone |-> FALSE, label |-> new.node[y].label,
             value |-> new.node[y].value, added |-> ad]
    BY <1>3, <2>1 DEF ChangeIs
  <2>5. Inserting(ins, x, ad)
    BY <2>1, AddedInserts
  <2>6. ins \in Seq(DiffOps(base, new))
    BY <2>2, InsertionsFit
  <2>7. /\ c.gone = FALSE /\ c.label = new.node[y].label
        /\ c.value = new.node[y].value /\ c.added = ad
    BY <2>4
  <2> HIDE DEF ins, ad, c
  <2>8. ins = InsertsFor(x, ad)
    <3>1. ins = [k \in DOMAIN ins |-> ins[k]]
      BY <2>6
    <3> QED
      BY <2>5, <3>1 DEF Inserting, InsertsFor
  <2>9. OwnOps(x, base.node[x], new.node[y]) = OwnOps(x, base.node[x], c)
    BY <2>7 DEF OwnOps
  <2> QED
    BY <2>3, <2>7, <2>8, <2>9 DEF OpsFor, c
<1>5. CASE ~HasPair(P, x) /\ BelowPair(base, P, x)
  <2>1. c = Removed(x) /\ OpsOn(d, x) = <<Delete(x)>>
    BY <1>2, <1>3, <1>5 DEF ChangeIs, SaysOf
  <2>2. c.gone = TRUE
    BY <2>1 DEF Removed
  <2> QED
    BY <2>1, <2>2 DEF OpsFor
<1>6. CASE ~HasPair(P, x) /\ ~BelowPair(base, P, x)
  BY <1>2, <1>6 DEF SaysOf
<1> QED
  BY <1>4, <1>5, <1>6

(* The same insertions add the same nodes.                                 *)
LEMMA InsertingOne ==
    ASSUME NEW x, NEW c, NEW e, IsAdded(c), IsAdded(e), NEW ins,
           Inserting(ins, x, c), Inserting(ins, x, e)
    PROVE  c = e
<1>1. DOMAIN c = DOMAIN e
  BY DEF Inserting
<1>2. ASSUME NEW k \in DOMAIN c
      PROVE  c[k] = e[k]
  <2> DEFINE i == c[k].at
             j == e[k].at
             m == c[k].node
             n == e[k].node
  <2>1. Insert(x, i - 1, m) = Insert(x, j - 1, n)
    BY <1>1 DEF Inserting
  <2>2. /\ i \in Nat /\ j \in Nat
        /\ c[k] = [at |-> i, node |-> Bare(m)] /\ e[k] = [at |-> j, node |-> Bare(n)]
    BY <1>1 DEF IsAdded
  <2> HIDE DEF i, j, m, n
  <2>3. i - 1 = j - 1 /\ m.kind = n.kind /\ m.label = n.label /\ m.value = n.value
    BY <2>1 DEF Insert
  <2>4. i = j
    BY <2>2, <2>3
  <2>5. Bare(m) = Bare(n)
    BY <2>3 DEF Bare
  <2> QED
    BY <2>2, <2>4, <2>5
<1>3. c \in Seq(ToSet(c)) /\ e \in Seq(ToSet(e))
  BY DEF IsAdded
<1>4. c = [k \in DOMAIN c |-> c[k]] /\ e = [k \in DOMAIN e |-> e[k]]
  <2>1. ASSUME NEW T, NEW f \in Seq(T)
        PROVE  f = [k \in DOMAIN f |-> f[k]]
    BY <2>1
  <2> QED
    BY <1>3, <2>1
<1> QED
  BY <1>1, <1>2, <1>4

(* The values an editor gave.                                              *)
ValuesOf(c) == {c.value} \union {c.added[i].node.value : i \in DOMAIN c.added}

(* Two editors did the same to x, and no value in it differs from itself.  *)
AlikeAt(x, c, e) ==
    c = e /\ (c.gone \/ NaNs \intersect (ValuesOf(c) \union {base.node[x].value}) = {})

(* The insertions among operations are among them.                         *)
LEMMA InsertsAmong ==
    ASSUME NEW S, NEW p \in Seq(S)
    PROVE  \A a : a \in ToSet(Inserts(p)) <=> a \in ToSet(p) /\ a.op = "Insert"
<1> DEFINE V == {a \in S : a.op = "Insert"}
<1>1. Inserts(p) = Only(p, V)
  BY InsertsOnly
<1>2. ToSet(Only(p, V)) = ToSet(p) \intersect V
  BY OnlySet
<1>3. ToSet(p) \subseteq S
  BY DEF ToSet
<1> QED
  BY <1>1, <1>2, <1>3

(* Operations that are == do the same, and give no value that differs from *)
(* itself.                                                                 *)
LEMMA AgreedIsAlike ==
    ASSUME NEW x, NEW c, NEW e, NEW S, NEW p \in Seq(S), NEW q \in Seq(S),
           Does(p, x, c), Does(q, x, e), p = OpsFor(x, c), SameOps(p, q)
    PROVE  AlikeAt(x, c, e)
<1> DEFINE v == base.node[x].value
<1>1. p = q
  BY SameOpsSame
<1>2. \A a \in ToSet(p) : SameOp(a, a)
  BY <1>1 DEF SameOps, ToSet
<1>3. CASE c.gone
  <2>1. p = <<Delete(x)>> /\ c = Removed(x)
    BY <1>3 DEF Does
  <2>2. Delete(x) \in ToSet(q) /\ Delete(x).op = "Delete"
    BY <1>1, <2>1 DEF ToSet, Delete
  <2>3. e.gone
    BY <2>2 DEF Does
  <2>4. e = Removed(x)
    BY <2>3 DEF Does
  <2> QED
    BY <1>3, <2>1, <2>4 DEF AlikeAt
<1>4. CASE ~c.gone
  <2>1. ~e.gone
    <3> SUFFICES ASSUME e.gone
                 PROVE  FALSE
      OBVIOUS
    <3>1. q = <<Delete(x)>>
      BY DEF Does
    <3>2. Delete(x) \in ToSet(p) /\ Delete(x).op = "Delete"
      BY <1>1, <3>1 DEF ToSet, Delete
    <3> QED
      BY <1>4, <3>2 DEF Does
  <2>2. c.added = e.added
    BY <1>1, InsertingOne DEF Does
  <2>3. c.label = e.label
    BY <1>1 DEF Does
  <2>4. c.value = e.value
    BY <1>1 DEF Does
  <2>5. c.gone = FALSE /\ e.gone = FALSE
    BY <1>4, <2>1 DEF Does
  <2>6. c = e
    BY <2>2, <2>3, <2>4, <2>5 DEF Does
  <2>7. v \notin NaNs /\ c.value \notin NaNs
    <3>1. CASE SameValue(v, c.value)
      BY <3>1 DEF SameValue
    <3>2. CASE ~SameValue(v, c.value)
      <4> DEFINE own == OwnOps(x, base.node[x], c)
                 ins == InsertsFor(x, c.added)
      <4>1. p = own \o ins
        BY <1>4 DEF OpsFor
      <4>2. \E a \in ToSet(own) : a.op = "Update"
        BY <3>2, OwnOpsSay DEF OwnSays
      <4>3. ToSet(own) \subseteq ToSet(own \o ins)
        <5>1. own \in Seq(ToSet(own))
          <6> DEFINE r == Relabel(x, base.node[x].label, c.label)
                     u == Update(x, v, c.value)
                     T == {r, u}
                     f == When(base.node[x].label # c.label, r)
                     g == When(~SameValue(v, c.value), u)
          <6>1. own = f \o g
            BY DEF OwnOps
          <6>2. r \in T /\ u \in T
            OBVIOUS
          <6> HIDE DEF r, u, T, own
          <6>3. f \in Seq(T) /\ g \in Seq(T)
            BY <6>2 DEF When
          <6> HIDE DEF f, g
          <6>4. own \in Seq(T)
            BY <6>1, <6>3
          <6>5. Len(own) \in Nat /\ own = [k \in 1..Len(own) |-> own[k]]
            BY <6>4
          <6> QED
            BY <6>5, SeqOfItsSet
        <5>2. ins \in Seq(ToSet(ins))
          <6>1. Len(c.added) \in Nat /\ DOMAIN c.added = 1..Len(c.added)
            BY DEF Does, IsAdded
          <6>2. ins = [k \in 1..Len(c.added) |-> ins[k]]
            BY <6>1 DEF InsertsFor
          <6> QED
            BY <6>1, <6>2, SeqOfItsSet
        <5> HIDE DEF own, ins
        <5>3. own \in Seq(ToSet(own) \union ToSet(ins)) /\ ins \in Seq(ToSet(own) \union ToSet(ins))
          BY <5>1, <5>2, SeqMonotonic
        <5> QED
          BY <5>3, ConcatPairwise
      <4>4. PICK a \in ToSet(p) : a.op = "Update"
        BY <4>1, <4>2, <4>3
      <4>5. a.old \notin NaNs /\ a.value \notin NaNs
        BY <1>2, <4>4 DEF SameOp
      <4> QED
        BY <4>4, <4>5 DEF Does
    <3> QED
      BY <3>1, <3>2
  <2>8. ASSUME NEW i \in DOMAIN c.added
        PROVE  c.added[i].node.value \notin NaNs
    <3> DEFINE a == Inserts(p)[i]
    <3>1. i \in DOMAIN Inserts(p) /\ a = Insert(x, c.added[i].at - 1, c.added[i].node)
      BY DEF Does, Inserting
    <3>2. a \in ToSet(Inserts(p))
      BY <3>1 DEF ToSet
    <3>3. a \in ToSet(p)
      BY <3>2, InsertsAmong
    <3>4. a.op = "Insert" /\ a.value = c.added[i].node.value
      BY <3>1 DEF Insert
    <3> HIDE DEF a
    <3> QED
      BY <1>2, <3>3, <3>4 DEF SameOp
  <2>9. NaNs \intersect (ValuesOf(c) \union {v}) = {}
    BY <2>7, <2>8 DEF ValuesOf
  <2> QED
    BY <2>6, <2>9 DEF AlikeAt
<1> QED
  BY <1>3, <1>4

(* The converse.                                                           *)
LEMMA AlikeIsAgreed ==
    ASSUME NEW x, NEW c, NEW e, NEW S, NEW p \in Seq(S), NEW q \in Seq(S),
           Does(p, x, c), p = OpsFor(x, c), q = OpsFor(x, e), AlikeAt(x, c, e)
    PROVE  SameOps(p, q)
<1>1. p = q
  BY DEF AlikeAt
<1>2. ASSUME NEW i \in DOMAIN p
      PROVE  SameOp(p[i], p[i])
  <2> DEFINE a == p[i]
  <2>1. a \in ToSet(p)
    BY DEF ToSet
  <2> HIDE DEF a
  <2>2. CASE c.gone
    <3>1. a.op = "Delete"
      <4>1. p = <<Delete(x)>>
        BY <2>2 DEF Does
      <4> QED
        BY <2>1, <4>1 DEF ToSet, Delete
    <3> QED
      BY <3>1 DEF SameOp, a
  <2>3. CASE ~c.gone
    <3>1. NaNs \intersect (ValuesOf(c) \union {base.node[x].value}) = {}
      BY <2>3 DEF AlikeAt
    <3>2. a.op = "Update" => a.old \notin NaNs /\ a.value \notin NaNs
      BY <2>1, <3>1 DEF Does, ValuesOf
    <3>3. ASSUME a.op = "Insert"
          PROVE  a.value \notin NaNs
      <4>1. a \in ToSet(Inserts(p))
        BY <2>1, <3>3, InsertsAmong
      <4>2. PICK k \in DOMAIN Inserts(p) : a = Inserts(p)[k]
        BY <4>1 DEF ToSet
      <4>3. k \in DOMAIN c.added /\ a = Insert(x, c.added[k].at - 1, c.added[k].node)
        BY <4>2 DEF Does, Inserting
      <4>4. a.value = c.added[k].node.value
        BY <4>3 DEF Insert
      <4>5. a.value \in ValuesOf(c)
        BY <4>3, <4>4 DEF ValuesOf
      <4> QED
        BY <3>1, <4>5
    <3> QED
      BY <3>2, <3>3 DEF SameOp, a
  <2> QED
    BY <2>2, <2>3
<1> QED
  BY <1>1, <1>2 DEF SameOps

(* A patch says something about a node just when the editor changed it, or *)
(* when its value is not == to itself.                                     *)
LEMMA SaysOfChanged ==
    ASSUME IsTree(base), NEW s, IsTree(copy[s]), NEW x \in DOMAIN base.node
    PROVE  OpsOn(Patch(s), x) # << >> <=>
               \/ Changes(s)[x] # Unchanged(x)
               \/ base.node[x].value \in NaNs /\ HasPair(Paired(base, copy[s]), x)
<1> DEFINE P == Paired(base, copy[s])
           c == Changes(s)[x]
           p == OpsOn(Patch(s), x)
           v == base.node[x].value
<1>1. SaysOf(Patch(s), base, copy[s], P, x)
  BY DiffSays DEF Patch
<1>2. ChangeIs(c, s, P, x)
  BY ChangesAre
<1>3. Does(p, x, c)
  BY SideDoes
<1>4. ASSUME c # Unchanged(x)
      PROVE  p # << >>
  <2> SUFFICES ASSUME p = << >>
               PROVE  FALSE
    OBVIOUS
  <2>1. ToSet(p) = {} /\ DOMAIN Inserts(p) = {}
    BY NothingDone DEF ToSet
  <2>2. c.label = base.node[x].label /\ c.value = v
    BY <1>3, <2>1 DEF Does
  <2>3. c.added = << >>
    <3>1. DOMAIN c.added = {} /\ c.added \in Seq(ToSet(c.added))
      BY <1>3, <2>1 DEF Does, Inserting, IsAdded
    <3> DEFINE T == ToSet(c.added)
               f == c.added
    <3> HIDE DEF T, f
    <3>2. DOMAIN f = {} /\ f \in Seq(T)
      BY <3>1 DEF T, f
    <3>3. f = << >>
      BY <3>2
    <3> QED
      BY <3>3 DEF f
  <2>4. c.gone = FALSE
    <3>1. ~c.gone
      <4> SUFFICES ASSUME c.gone
                   PROVE  FALSE
        OBVIOUS
      <4>1. p = <<Delete(x)>>
        BY <1>3 DEF Does
      <4>2. Delete(x) \in ToSet(p)
        BY <4>1 DEF ToSet
      <4> QED
        BY <2>1, <4>2
    <3> QED
      BY <1>3, <3>1 DEF Does
  <2>5. c = Unchanged(x)
    BY <1>3, <2>2, <2>3, <2>4 DEF Does, Unchanged
  <2> QED
    BY <1>4, <2>5
<1>5. ASSUME v \in NaNs, HasPair(P, x)
      PROVE  p # << >>
  <2>1. PICK y : <<x, y>> \in P
    BY <1>5 DEF HasPair
  <2>2. p = Say(base, copy[s], x, y)
    BY <1>1, <2>1 DEF SaysOf
  <2>3. y \in DOMAIN copy[s].node
    BY <2>1, PairedIsPairSet DEF PairSet
  <2>4. \E a \in ToSet(p) : a.op = "Update"
    BY <1>5, <2>2, <2>3, SaySays DEF SayIs, SameValue
  <2> QED
    BY <2>4 DEF ToSet
<1>6. ASSUME c = Unchanged(x), ~(v \in NaNs /\ HasPair(P, x))
      PROVE  p = << >>
  <2> SUFFICES ASSUME p # << >>
               PROVE  FALSE
    OBVIOUS
  <2>1. p = OpsFor(x, c)
    BY OpsFollowChange
  <2>2. /\ c.gone = FALSE /\ c.label = base.node[x].label
        /\ c.value = v /\ c.added = << >>
    BY <1>6 DEF Unchanged
  <2>3. HasPair(P, x)
    <3>1. CASE ~HasPair(P, x) /\ BelowPair(base, P, x)
      BY <1>2, <2>2, <3>1 DEF ChangeIs, Removed
    <3>2. CASE ~HasPair(P, x) /\ ~BelowPair(base, P, x)
      BY <1>1, <3>2 DEF SaysOf
    <3> QED
      BY <3>1, <3>2
  <2>4. SameValue(v, c.value)
    BY <1>6, <2>2, <2>3 DEF SameValue
  <2>5. OwnOps(x, base.node[x], c) = << >>
    BY <2>2, <2>4 DEF OwnOps, When
  <2>6. InsertsFor(x, c.added) = << >>
    BY <2>2 DEF InsertsFor
  <2>7. OpsFor(x, c) = << >> \o << >>
    BY <2>2, <2>5, <2>6 DEF OpsFor
  <2> QED
    BY <2>1, <2>7
<1> QED
  BY <1>4, <1>5, <1>6

(* Only nodes below the root of the base are affected.                     *)
LEMMA AffectedIs ==
    ASSUME IsTree(base), NEW s, IsTree(copy[s])
    PROVE  \A x : x \in Affected(Patch(s)) <=> x \in Reachable(base) /\ OpsOn(Patch(s), x) # << >>
<1> DEFINE d == Patch(s)
           S == DiffOps(base, copy[s])
<1>1. d \in Seq(S) /\ \A a \in ToSet(d) : IsIn(base, a, RootId)
  BY DiffTreesIsPatch DEF IsPatch, Patch
<1>2. ASSUME NEW x, x \in Affected(d)
      PROVE  x \in Reachable(base) /\ OpsOn(d, x) # << >>
  <2>1. PICK i \in DOMAIN d : x = d[i].target
    BY <1>2 DEF Affected
  <2>2. d[i] \in ToSet(d) /\ d[i] \in S
    BY <1>1 DEF ToSet
  <2>3. x \in CollectSubtree(base, RootId)
    BY <1>1, <2>1, <2>2 DEF IsIn
  <2>4. x \in DOMAIN base.node
    BY <2>1, <2>2, DiffOpsFields
  <2>5. d[i] \in ToSet(OpsOn(d, x))
    BY <1>1, <2>1, OpOnItsTarget
  <2>6. OpsOn(d, x) # << >>
    BY <2>5 DEF ToSet
  <2> QED
    BY <2>3, <2>4, <2>6 DEF Reachable
<1>3. ASSUME NEW x, x \notin Affected(d)
      PROVE  OpsOn(d, x) = << >>
  BY <1>1, <1>3, OpsOnOps
<1> QED
  BY <1>2, <1>3

----------------------------------------------------------------------------
(* The conflicts merge_patches reports.                                    *)

(* The nodes two editors changed, in terms of what the patches say.        *)
LEMMA ClashesAre ==
    ASSUME MergeInv
    PROVE  \A x : x \in Clashes <=>
               /\ x \in Reachable(base)
               /\ \A s \in Sides : OpsOn(Patch(s), x) # << >>
               /\ ~AlikeAt(x, Changes("ours")[x], Changes("theirs")[x])
<1> DEFINE change == [s \in Sides |-> Changes(s)]
           changed(s, x) ==
               \/ change[s][x] # Unchanged(x)
               \/ /\ base.node[x].value \in NaNs
                  /\ \E p \in Paired(base, copy[s]) : p[1] = x
           values(c) == {c.value} \union {c.added[i].node.value : i \in DOMAIN c.added}
           alike(x) ==
               /\ change["ours"][x] = change["theirs"][x]
               /\ \/ change["ours"][x].gone
                  \/ NaNs \intersect (values(change["ours"][x])
                                        \union {base.node[x].value}) = {}
<1>1. Clashes = {x \in Reachable(base) : (\A s \in Sides : changed(s, x)) /\ ~alike(x)}
  BY DEF Clashes
<1>2. \A s \in Sides : change[s] = Changes(s)
  OBVIOUS
<1>3. ASSUME NEW x
      PROVE  alike(x) <=> AlikeAt(x, Changes("ours")[x], Changes("theirs")[x])
  <2>1. change["ours"] = Changes("ours") /\ change["theirs"] = Changes("theirs")
    BY <1>2 DEF Sides
  <2> HIDE DEF change
  <2> QED
    BY <2>1 DEF AlikeAt, ValuesOf
<1>4. ASSUME NEW s \in Sides, NEW x \in Reachable(base)
      PROVE  changed(s, x) <=> OpsOn(Patch(s), x) # << >>
  <2> DEFINE P == Paired(base, copy[s])
  <2>1. IsTree(base) /\ IsTree(copy[s]) /\ x \in DOMAIN base.node
    BY DEF MergeInv, Reachable
  <2>2. P \subseteq (DOMAIN base.node) \X (DOMAIN copy[s].node)
    BY <2>1, PairedLeads DEF PairsFrom
  <2>3. \A p \in P : p = <<p[1], p[2]>>
    BY <2>2
  <2> HIDE DEF P
  <2>4. (\E p \in P : p[1] = x) <=> HasPair(P, x)
    BY <2>3 DEF HasPair
  <2>5. OpsOn(Patch(s), x) # << >> <=>
            \/ Changes(s)[x] # Unchanged(x)
            \/ base.node[x].value \in NaNs /\ HasPair(P, x)
    BY <2>1, SaysOfChanged DEF P
  <2>6. change[s] = Changes(s)
    BY <1>2
  <2> HIDE DEF change
  <2> QED
    BY <2>4, <2>5, <2>6 DEF P
<1> HIDE DEF changed, alike, change
<1> QED
  BY <1>1, <1>3, <1>4

(* Both patches are made of operations that are safe on the base.          *)
LEMMA SidesAreSafe ==
    ASSUME MergeInv
    PROVE  /\ SafeFor(base, PatchOps)
           /\ \A s \in Sides : Patch(s) \in Seq(PatchOps)
<1>1. IsTree(base) /\ IsTree(copy["ours"]) /\ IsTree(copy["theirs"])
  BY DEF MergeInv, Sides
<1>2. /\ SafeFor(base, PatchOps)
      /\ Patch("ours") \in Seq(PatchOps) /\ Patch("theirs") \in Seq(PatchOps)
  BY <1>1, TwoDiffs DEF Patch, PatchOps
<1> QED
  BY <1>2 DEF Sides

(* A node that both patches affect: whether they agree on it.              *)
LEMMA AgreedWhenAlike ==
    ASSUME MergeInv, NEW x \in DOMAIN base.node,
           \A s \in Sides : OpsOn(Patch(s), x) # << >>
    PROVE  AgreedOn(Patch("ours"), Patch("theirs"), x) <=>
               AlikeAt(x, Changes("ours")[x], Changes("theirs")[x])
<1> DEFINE p == OpsOn(Patch("ours"), x)
           q == OpsOn(Patch("theirs"), x)
           c == Changes("ours")[x]
           e == Changes("theirs")[x]
<1>1. "ours" \in Sides /\ "theirs" \in Sides
  BY DEF Sides
<1>2. IsTree(base) /\ IsTree(copy["ours"]) /\ IsTree(copy["theirs"])
  BY <1>1 DEF MergeInv
<1>3. p \in Seq(PatchOps) /\ q \in Seq(PatchOps)
  BY <1>1, SidesAreSafe, OpsOnOps
<1>4. Does(p, x, c) /\ Does(q, x, e)
  BY <1>2, SideDoes
<1>5. p = OpsFor(x, c) /\ q = OpsFor(x, e)
  BY <1>1, <1>2, OpsFollowChange
<1> HIDE DEF p, q, c, e
<1>6. SameOps(p, q) <=> AlikeAt(x, c, e)
  BY <1>3, <1>4, <1>5, AgreedIsAlike, AlikeIsAgreed
<1> QED
  BY <1>6 DEF AgreedOn, p, q, c, e

(* The contested nodes are those both editors changed, each in its own way.*)
LEMMA ContestedAreClashes ==
    ASSUME MergeInv
    PROVE  Contested(Patch("ours"), Patch("theirs")) = Clashes
<1> DEFINE a == Patch("ours")
           b == Patch("theirs")
<1>1. /\ IsTree(base)
      /\ \A s \in Sides : IsTree(copy[s])
  BY DEF MergeInv
<1>2. \A x : x \in Affected(a) \intersect Affected(b) <=>
                x \in Reachable(base) /\ \A s \in Sides : OpsOn(Patch(s), x) # << >>
  BY <1>1, AffectedIs DEF Sides
<1>3. \A x : x \in Reachable(base) => x \in DOMAIN base.node
  BY DEF Reachable
<1>4. ASSUME NEW x
      PROVE  x \in Contested(a, b) <=> x \in Clashes
  <2>1. x \in Contested(a, b) <=> x \in Affected(a) \intersect Affected(b) /\ ~AgreedOn(a, b, x)
    BY DEF Contested
  <2> HIDE DEF a, b
  <2>2. CASE x \in Affected(a) \intersect Affected(b)
    <3>1. /\ x \in Reachable(base) /\ x \in DOMAIN base.node
          /\ \A s \in Sides : OpsOn(Patch(s), x) # << >>
      BY <1>2, <1>3, <2>2
    <3>2. AgreedOn(a, b, x) <=> AlikeAt(x, Changes("ours")[x], Changes("theirs")[x])
      BY <3>1, AgreedWhenAlike DEF a, b
    <3> QED
      BY <2>1, <2>2, <3>1, <3>2, ClashesAre
  <2>3. CASE x \notin Affected(a) \intersect Affected(b)
    BY <1>2, <2>1, <2>3, ClashesAre
  <2> QED
    BY <2>2, <2>3
<1> HIDE DEF a, b
<1>5. Contested(a, b) = Clashes
  BY <1>4
<1> QED
  BY <1>5 DEF a, b

(* The nodes merge_patches reports are those both editors changed, each in *)
(* its own way.                                                            *)
THEOREM ConflictsAreClashesHolds == Spec => []ConflictsAreClashes
<1>1. MergeInv => ConflictsAreClashes
  <2> SUFFICES ASSUME MergeInv, NEW result \in Results
               PROVE  ConflictNodes(result) = Clashes
    BY DEF ConflictsAreClashes
  <2> DEFINE a == Patch("ours")
             b == Patch("theirs")
  <2>1. a \in Seq(PatchOps) /\ b \in Seq(PatchOps)
    BY SidesAreSafe DEF Sides
  <2>2. result \in MergePatches(a, b)
    BY DEF Results
  <2>3. Contested(a, b) = Clashes
    BY ContestedAreClashes
  <2> HIDE DEF a, b
  <2>4. MergeSays(result, a, b, PatchOps)
    BY <2>1, <2>2, MergeKeeps
  <2> QED
    BY <2>3, <2>4 DEF MergeSays
<1> QED
  BY <1>1, MergeInvHolds, PTL

----------------------------------------------------------------------------
(* A tree that is patched shows what the patch does to each node.          *)

(* ops do to every node of the base what change tells, which gives no node *)
(* but the root another label.                                             *)
DoesAll(ops, change) ==
    /\ \A x \in DOMAIN base.node : Does(OpsOn(ops, x), x, change[x])
    /\ \A x \in DOMAIN base.node : x # RootId => change[x].label = base.node[x].label

(* The nodes the operations delete are those the change removes.           *)
LEMMA DeletedAreGone ==
    ASSUME IsTree(base), NEW S, SafeFor(base, S), NEW ops \in Seq(S),
           NEW change, DoesAll(ops, change)
    PROVE  \A x \in DOMAIN base.node : x \in Deleted(ops) <=> change[x].gone
<1> SUFFICES ASSUME NEW x \in DOMAIN base.node
             PROVE  x \in Deleted(ops) <=> change[x].gone
  OBVIOUS
<1> DEFINE p == OpsOn(ops, x)
           c == change[x]
<1>1. Does(p, x, c)
  BY DEF DoesAll
<1>2. x \in Deleted(ops) <=> \E o \in ToSet(p) : o.op = "Delete"
  BY DeletedByOps
<1> HIDE DEF p, c
<1>3. c.gone => p = <<Delete(x)>>
  BY <1>1 DEF Does
<1>4. \A o \in ToSet(p) : o.op = "Delete" => c.gone
  BY <1>1 DEF Does
<1>5. Delete(x).op = "Delete"
  BY DEF Delete
<1>6. c.gone => Delete(x) \in ToSet(p)
  BY <1>3 DEF ToSet
<1>7. x \in Deleted(ops) <=> c.gone
  BY <1>2, <1>4, <1>5, <1>6
<1> QED
  BY <1>7 DEF c

(* The children that are not gone are those that are not deleted.          *)
LEMMA KeptStay ==
    ASSUME IsTree(base), NEW S, SafeFor(base, S), NEW ops \in Seq(S),
           NEW change, DoesAll(ops, change), NEW x \in DOMAIN base.node
    PROVE  /\ Kept(change, x) = Drop(base.node[x].children, Deleted(ops))
           /\ Kept(change, x) \in Seq(Nat)
           /\ ToSet(Kept(change, x)) = KidsOf(base, x) \ Deleted(ops)
<1> DEFINE s == base.node[x].children
<1>1. s \in Seq(Nat) /\ KidsOf(base, x) = ToSet(s) /\ \A c \in ToSet(s) : c \in DOMAIN base.node
  <2>1. Lists(base, Nat) /\ \A c \in KidsOf(base, x) : c \in DOMAIN base.node
    BY TreeFacts
  <2> QED
    BY <2>1 DEF Lists, KidsOf, ChildrenOf, IsLive
<1>2. \A i \in DOMAIN s : s[i] \in Nat /\ s[i] \in DOMAIN base.node
  BY <1>1 DEF ToSet
<1>3. \A c \in DOMAIN base.node : c \in Deleted(ops) <=> change[c].gone
  BY DeletedAreGone
<1>4. Kept(change, x) = Retain(s, {i \in DOMAIN s : ~change[s[i]].gone})
  BY DEF Kept
<1> HIDE DEF s
<1>5. {i \in DOMAIN s : ~change[s[i]].gone} = {i \in DOMAIN s : s[i] \in Nat \ Deleted(ops)}
  BY <1>2, <1>3
<1>6. Kept(change, x) = Drop(s, Deleted(ops))
  BY <1>4, <1>5 DEF Drop, Only
<1>7. Drop(s, Deleted(ops)) \in Seq(Nat) /\ ToSet(Drop(s, Deleted(ops))) = ToSet(s) \ Deleted(ops)
  BY <1>1, DropLaws
<1> QED
  BY <1>1, <1>6, <1>7 DEF s

(* new are the nodes of t that stand for the added ones.                   *)
Adds(t, new, added) ==
    /\ DOMAIN new = DOMAIN added
    /\ \A k \in DOMAIN new :
          /\ new[k] \in DOMAIN t.node
          /\ t.node[new[k]].kind = added[k].node.kind
          /\ t.node[new[k]].label = added[k].node.label
          /\ t.node[new[k]].value = added[k].node.value
          /\ t.node[new[k]].children = << >>

(* What the change makes of a node.                                        *)
Becomes(t, change, x) ==
    /\ t.node[x].kind = base.node[x].kind
    /\ t.node[x].label = change[x].label
    /\ t.node[x].value = change[x].value
    /\ \E new \in Seq(Nat) :
          /\ t.node[x].children = Kept(change, x) \o new
          /\ Adds(t, new, change[x].added)

(* Patched nodes are what the change makes of them.                        *)
LEMMA NodeBecomes ==
    ASSUME IsTree(base), NEW S, SafeFor(base, S), NEW ops \in Seq(S),
           NEW change, DoesAll(ops, change), NEW t, Effect(t, base, ops),
           NEW x \in DOMAIN base.node, x \in DOMAIN t.node
    PROVE  Becomes(t, change, x)
<1> DEFINE p == OpsOn(ops, x)
           c == change[x]
           ol == base.node[x].label
           ov == base.node[x].value
           tl == t.node[x].label
           tv == t.node[x].value
<1>1. Does(p, x, c)
  BY DEF DoesAll
<1>2. NodeAfter(t, base, x, ops)
  BY DEF Effect
<1>3. LabelIs(ol, p, tl) /\ ValueIs(ov, p, tv) /\ t.node[x].kind = base.node[x].kind
  BY <1>2 DEF NodeAfter
<1>4. PICK new : ListIs(t, base, x, ops, new)
  BY <1>2 DEF NodeAfter
<1>5. /\ new \in Seq(Nat)
      /\ t.node[x].children = Drop(base.node[x].children, Deleted(ops)) \o new
      /\ Grown(t, base.next, new, Inserts(p))
  BY <1>4 DEF ListIs
<1>6. Kept(change, x) = Drop(base.node[x].children, Deleted(ops))
  BY KeptStay
<1>7. \A i \in DOMAIN p : p[i] \in ToSet(p)
  BY DEF ToSet
<1>8. /\ \A a \in ToSet(p) : /\ a.op = "Relabel" => a.label = c.label
                             /\ a.op = "Update" => a.value = c.value
      /\ ol # c.label => \E i \in DOMAIN p : p[i].op = "Relabel"
      /\ ov # c.value => \E i \in DOMAIN p : p[i].op = "Update"
  BY <1>1 DEF Does, ToSet
<1> HIDE DEF p, ol, ov, tl, tv, c
<1>9. tl = c.label
  BY <1>3, <1>7, <1>8 DEF LabelIs
<1>10. tv = c.value
  BY <1>3, <1>7, <1>8 DEF ValueIs
<1>11. Adds(t, new, c.added)
  <2>1. IsAdded(c.added) /\ Inserting(Inserts(p), x, c.added)
    BY <1>1 DEF Does
  <2>2. \A k \in DOMAIN c.added :
            Inserts(p)[k] = Insert(x, c.added[k].at - 1, c.added[k].node)
    BY <2>1 DEF Inserting
  <2>3. \A k \in DOMAIN c.added :
            /\ Inserts(p)[k].kind = c.added[k].node.kind
            /\ Inserts(p)[k].label = c.added[k].node.label
            /\ Inserts(p)[k].value = c.added[k].node.value
    <3> TAKE k \in DOMAIN c.added
    <3>1. Inserts(p)[k] = Insert(x, c.added[k].at - 1, c.added[k].node)
      BY <2>2
    <3> QED
      BY <3>1 DEF Insert
  <2>4. DOMAIN new = DOMAIN c.added
    BY <1>5, <2>1 DEF Grown, Inserting
  <2> QED
    BY <1>5, <2>3, <2>4 DEF Grown, Adds
<1> QED
  BY <1>3, <1>5, <1>6, <1>9, <1>10, <1>11 DEF Becomes, c, tl, tv

(* A node of the base keeps its key.                                       *)
LEMMA KeysStay ==
    ASSUME IsTree(base), NEW S, SafeFor(base, S), NEW ops \in Seq(S),
           NEW change, DoesAll(ops, change), NEW t, Effect(t, base, ops),
           NEW x \in DOMAIN base.node, x \in DOMAIN t.node, x # RootId
    PROVE  Key(t, x) = Key(base, x)
<1>1. Becomes(t, change, x)
  BY NodeBecomes
<1>2. change[x].label = base.node[x].label
  BY DEF DoesAll
<1> QED
  BY <1>1, <1>2 DEF Becomes, Key

(* The children of a patched node that the base had, key by key.           *)
LEMMA KeptSiblings ==
    ASSUME IsTree(base), NEW S, SafeFor(base, S), NEW ops \in Seq(S),
           NEW change, DoesAll(ops, change), NEW t, Effect(t, base, ops),
           NEW x \in DOMAIN base.node, x \in DOMAIN t.node, NEW kept, kept = Kept(change, x)
    PROVE  /\ kept \in Seq(Nat)
           /\ \A i \in DOMAIN kept : /\ kept[i] \in KidsOf(base, x)
                                     /\ kept[i] \in DOMAIN base.node
                                     /\ kept[i] \in DOMAIN t.node
                                     /\ Key(t, kept[i]) = Key(base, kept[i])
           /\ \A key : KeptAs(kept, key) = Only(kept, KeyedIn(t, key))
<1>1. kept \in Seq(Nat) /\ ToSet(kept) = KidsOf(base, x) \ Deleted(ops)
  BY KeptStay
<1>2. \A c \in KidsOf(base, x) : c \in DOMAIN base.node /\ c # RootId
  BY TreeFacts DEF RootId
<1>3. PICK new \in Seq(Nat) : t.node[x].children = kept \o new
  <2>1. Becomes(t, change, x)
    BY NodeBecomes
  <2> QED
    BY <2>1, Zenon DEF Becomes
<1>4. IsTree(t)
  BY DEF Effect
<1>5. \A i \in DOMAIN kept : kept[i] \in ToSet(t.node[x].children)
  <2>1. ToSet(kept \o new) = ToSet(kept) \union ToSet(new)
    BY <1>1, ConcatPairwise, ZenonT(60)
  <2>2. \A i \in DOMAIN kept : kept[i] \in ToSet(kept)
    BY DEF ToSet
  <2> QED
    BY <1>3, <2>1, <2>2
<1>6. \A c \in ToSet(t.node[x].children) : c \in DOMAIN t.node
  BY <1>4, TreeFacts DEF KidsOf, ChildrenOf, IsLive
<1>7. \A i \in DOMAIN kept : kept[i] \in KidsOf(base, x)
  BY <1>1 DEF ToSet
<1>8. ASSUME NEW i \in DOMAIN kept
      PROVE  /\ kept[i] \in DOMAIN base.node /\ kept[i] \in DOMAIN t.node
             /\ Key(t, kept[i]) = Key(base, kept[i])
  <2>1. kept[i] \in DOMAIN base.node /\ kept[i] \in DOMAIN t.node /\ kept[i] # RootId
    BY <1>2, <1>5, <1>6, <1>7
  <2> QED
    BY <2>1, KeysStay
<1>9. ASSUME NEW key
      PROVE  KeptAs(kept, key) = Only(kept, KeyedIn(t, key))
  <2>1. {i \in DOMAIN kept : Key(base, kept[i]) = key}
            = {i \in DOMAIN kept : kept[i] \in KeyedIn(t, key)}
    BY <1>8 DEF KeyedIn
  <2> QED
    BY <2>1 DEF KeptAs, Only
<1> QED
  BY <1>1, <1>7, <1>8, <1>9

(* Each goes through a concatenation.                                      *)
LEMMA EachConcat ==
    ASSUME NEW S, NEW s \in Seq(S), NEW u \in Seq(S), NEW f
    PROVE  Each(f, s \o u) = Each(f, s) \o Each(f, u)
<1> DEFINE l == Each(f, s \o u)
           r == Each(f, s) \o Each(f, u)
           T == {f[e] : e \in S}
<1>1. Len(s) \in Nat /\ Len(u) \in Nat /\ DOMAIN s = 1..Len(s) /\ DOMAIN u = 1..Len(u)
  OBVIOUS
<1>2. /\ Len(s \o u) = Len(s) + Len(u) /\ DOMAIN (s \o u) = 1..(Len(s) + Len(u))
      /\ \A i \in 1..Len(s) : (s \o u)[i] = s[i]
      /\ \A j \in 1..Len(u) : (s \o u)[Len(s) + j] = u[j]
  BY ConcatOf
<1>3. /\ DOMAIN Each(f, s) = 1..Len(s) /\ \A i \in 1..Len(s) : Each(f, s)[i] = f[s[i]]
      /\ DOMAIN Each(f, u) = 1..Len(u) /\ \A i \in 1..Len(u) : Each(f, u)[i] = f[u[i]]
  BY <1>1 DEF Each
<1>4. /\ \A i \in 1..Len(s) : s[i] \in S
      /\ \A i \in 1..Len(u) : u[i] \in S
  BY <1>1
<1>5. \A e \in S : f[e] \in T
  OBVIOUS
<1> HIDE DEF T
<1>6. Each(f, s) \in Seq(T) /\ Each(f, u) \in Seq(T)
  <2>1. Each(f, s) \in [1..Len(s) -> T]
    BY <1>1, <1>4, <1>5 DEF Each
  <2>2. Each(f, u) \in [1..Len(u) -> T]
    BY <1>1, <1>4, <1>5 DEF Each
  <2> DEFINE a == Each(f, s)
             b == Each(f, u)
  <2> HIDE DEF a, b
  <2>3. a \in Seq(T)
    BY <1>1, <2>1, SeqDef DEF a
  <2>4. b \in Seq(T)
    BY <1>1, <2>2, SeqDef DEF b
  <2> QED
    BY <2>3, <2>4 DEF a, b
<1>7. Len(Each(f, s)) = Len(s) /\ Len(Each(f, u)) = Len(u)
  BY <1>1, <1>3, <1>6
<1>8. /\ r \in Seq(T) /\ Len(r) = Len(s) + Len(u)
      /\ \A i \in 1..Len(s) : r[i] = f[s[i]]
      /\ \A j \in 1..Len(u) : r[Len(s) + j] = f[u[j]]
  <2> DEFINE a == Each(f, s)
             b == Each(f, u)
  <2>1. a \in Seq(T) /\ b \in Seq(T) /\ Len(a) = Len(s) /\ Len(b) = Len(u)
    BY <1>6, <1>7
  <2>2. /\ \A i \in 1..Len(s) : a[i] = f[s[i]]
        /\ \A j \in 1..Len(u) : b[j] = f[u[j]]
    BY <1>3
  <2> HIDE DEF a, b
  <2>3. a \o b \in Seq(T) /\ Len(a \o b) = Len(a) + Len(b)
    BY <2>1, SMTT(30)
  <2>4. \A i \in 1..Len(a) : (a \o b)[i] = a[i]
    BY <2>1, SMTT(30)
  <2>5. \A j \in 1..Len(b) : (a \o b)[Len(a) + j] = b[j]
    BY <2>1, SMTT(30)
  <2>6. r = a \o b
    BY DEF a, b
  <2> QED
    BY <2>1, <2>2, <2>3, <2>4, <2>5, <2>6, ZenonT(60)
<1>9. /\ DOMAIN l = 1..(Len(s) + Len(u))
      /\ \A i \in 1..(Len(s) + Len(u)) : l[i] = f[(s \o u)[i]]
      /\ l = [i \in 1..(Len(s) + Len(u)) |-> l[i]]
  BY <1>2 DEF Each
<1>10. r = [i \in 1..(Len(s) + Len(u)) |-> r[i]]
  <2> HIDE DEF r
  <2> QED
    BY <1>8
<1> HIDE DEF l, r
<1>11. ASSUME NEW i \in 1..(Len(s) + Len(u))
       PROVE  l[i] = r[i]
  <2>1. CASE i <= Len(s)
    <3>1. i \in 1..Len(s)
      BY <1>1, <2>1
    <3> QED
      BY <1>2, <1>8, <1>9, <3>1
  <2>2. CASE i > Len(s)
    <3>1. i - Len(s) \in 1..Len(u) /\ i = Len(s) + (i - Len(s))
      BY <1>1, <2>2
    <3> DEFINE j == i - Len(s)
    <3> HIDE DEF j
    <3>2. j \in 1..Len(u) /\ i = Len(s) + j
      BY <3>1 DEF j
    <3>3. l[i] = f[u[j]]
      BY <1>2, <1>9, <3>2
    <3>4. r[i] = f[u[j]]
      BY <1>8, <3>2
    <3> QED
      BY <3>3, <3>4
  <2> QED
    BY <1>1, <2>1, <2>2
<1> QED
  BY <1>9, <1>10, <1>11 DEF l, r

(* The added nodes with a key, in the patched tree.                        *)
LEMMA AddedSiblings ==
    ASSUME NEW t, IsTree(t), NEW new \in Seq(Nat), NEW added, IsAdded(added),
           Adds(t, new, added), NEW key
    PROVE  Each(CanonOf(t), Only(new, KeyedIn(t, key))) = AddedAs(added, key)
<1> DEFINE nodes == [i \in DOMAIN added |-> added[i].node]
           I == {i \in DOMAIN new : new[i] \in KeyedIn(t, key)}
           U == {added[i].node : i \in DOMAIN added}
           n == Cardinality(I)
           l == Each(CanonOf(t), Only(new, KeyedIn(t, key)))
           r == AddedAs(added, key)
<1>1. /\ DOMAIN new = DOMAIN added
      /\ \A k \in DOMAIN new :
            /\ new[k] \in DOMAIN t.node
            /\ t.node[new[k]].kind = added[k].node.kind
            /\ t.node[new[k]].label = added[k].node.label
            /\ t.node[new[k]].value = added[k].node.value
            /\ t.node[new[k]].children = << >>
  BY DEF Adds
<1>2. \A k \in DOMAIN added : nodes[k] = added[k].node
  OBVIOUS
<1>3. DOMAIN nodes = DOMAIN new
  BY <1>1
<1>4. nodes \in Seq(U)
  <2>1. DOMAIN new = 1..Len(new) /\ Len(new) \in Nat
    OBVIOUS
  <2>2. \A k \in DOMAIN added : added[k].node \in U
    OBVIOUS
  <2> HIDE DEF U
  <2>3. nodes \in [1..Len(new) -> U]
    BY <1>1, <2>1, <2>2
  <2> HIDE DEF nodes
  <2> QED
    BY <2>1, <2>3, SeqDef
<1>5. {i \in DOMAIN nodes : <<nodes[i].kind, nodes[i].label>> = key} = I
  <2>1. \A i \in DOMAIN new : new[i] \in KeyedIn(t, key) <=>
                              <<added[i].node.kind, added[i].node.label>> = key
    BY <1>1 DEF KeyedIn, Key
  <2> QED
    BY <1>1, <1>2, <1>3, <2>1
<1>6. r = Retain(nodes, I) /\ Only(new, KeyedIn(t, key)) = Retain(new, I)
  BY <1>5 DEF AddedAs, Only
<1>7. \A k \in DOMAIN added : added[k].node = Bare(added[k].node)
  <2> TAKE k \in DOMAIN added
  <2>1. added[k] = [at |-> added[k].at, node |-> Bare(added[k].node)]
    BY DEF IsAdded
  <2> DEFINE w == Bare(added[k].node)
             z == added[k]
  <2>2. z = [at |-> z.at, node |-> w]
    BY <2>1
  <2> HIDE DEF w, z
  <2>3. z.node = w
    BY <2>2
  <2> QED
    BY <2>3 DEF w, z
<1>8. I \subseteq DOMAIN new /\ n = Cardinality(I)
  OBVIOUS
<1>9. \A k \in DOMAIN new : CanonOf(t)[new[k]] = nodes[k]
  <2> TAKE k \in DOMAIN new
  <2>1. CanonOf(t)[new[k]] = Canon(t, new[k])
    BY <1>1 DEF CanonOf
  <2>2. Canon(t, new[k]) = Bare(t.node[new[k]])
    BY <1>1, CanonOfLeaf
  <2>3. Bare(t.node[new[k]]) = Bare(added[k].node)
    BY <1>1 DEF Bare
  <2> QED
    BY <1>1, <1>2, <1>7, <2>1, <2>2, <2>3
<1> HIDE DEF nodes, I, U
<1>10. PICK at \in [1..n -> I] :
           \A k \in 1..n : Retain(new, I)[k] = new[at[k]] /\ Retain(nodes, I)[k] = nodes[at[k]]
  <2>1. RetainTogether(new, nodes, I)
    BY <1>3, <1>4, <1>8, RetainAlong
  <2> QED
    BY <2>1 DEF RetainTogether
<1>11. Retain(new, I) = [k \in 1..n |-> Retain(new, I)[k]]
       /\ Retain(nodes, I) = [k \in 1..n |-> Retain(nodes, I)[k]]
       /\ DOMAIN Retain(new, I) = 1..n
  BY DEF Retain
<1>12. \A k \in 1..n : CanonOf(t)[Retain(new, I)[k]] = Retain(nodes, I)[k]
  <2> TAKE k \in 1..n
  <2>1. at[k] \in DOMAIN new
    BY <1>8
  <2> QED
    BY <1>9, <1>10, <2>1
<1>13. Each(CanonOf(t), Retain(new, I)) = [k \in 1..n |-> CanonOf(t)[Retain(new, I)[k]]]
  BY <1>11 DEF Each
<1> DEFINE a == Retain(nodes, I)
           e == [k \in 1..n |-> CanonOf(t)[Retain(new, I)[k]]]
<1>14. e = [k \in 1..n |-> a[k]]
  BY <1>12
<1>15. a = [k \in 1..n |-> a[k]]
  BY <1>11
<1> HIDE DEF a, e
<1>16. e = a
  BY <1>14, <1>15
<1> QED
  BY <1>6, <1>13, <1>16 DEF a, e

(* The keys of the children a node has after the change.                   *)
KeysAfter(change, x) ==
    {Key(base, y) : y \in ToSet(Kept(change, x))}
      \union {<<a.node.kind, a.node.label>> : a \in ToSet(change[x].added)}

(* The subtrees below it that have a key.                                  *)
ListAfter(g, change, x, key) ==
    Each(g, KeptAs(Kept(change, x), key)) \o AddedAs(change[x].added, key)

(* The node with them.                                                     *)
LEMMA MergedNodeIs ==
    ASSUME NEW g, NEW change, NEW x
    PROVE  MergedNode(g, change, x) =
               Shown(base.node[x].kind, change[x].label, change[x].value,
                     [key \in KeysAfter(change, x) |-> ListAfter(g, change, x, key)])
BY DEF MergedNode, KeysAfter, ListAfter

(* g has the canonical form of the children of x that are kept.            *)
KeptShown(t, change, x, g) ==
    \A y \in ToSet(Kept(change, x)) : Canon(t, y) = g[y]

(* A patched node has the keys below it that the change leaves and brings. *)
LEMMA KeysBecome ==
    ASSUME IsTree(base), NEW S, SafeFor(base, S), NEW ops \in Seq(S),
           NEW change, DoesAll(ops, change), NEW t, Effect(t, base, ops),
           NEW x \in DOMAIN base.node, x \in DOMAIN t.node
    PROVE  ChildKeys(t, x) = KeysAfter(change, x)
<1> DEFINE kept == Kept(change, x)
           added == change[x].added
<1>1. PICK new \in Seq(Nat) : /\ t.node[x].children = kept \o new
                              /\ Adds(t, new, added)
  <2>1. Becomes(t, change, x)
    BY NodeBecomes
  <2> QED
    BY <2>1, Zenon DEF Becomes
<1>2. /\ kept \in Seq(Nat)
      /\ \A i \in DOMAIN kept : /\ kept[i] \in DOMAIN t.node
                                /\ Key(t, kept[i]) = Key(base, kept[i])
  BY KeptSiblings
<1>3. \A y \in ToSet(kept) : y \in DOMAIN t.node /\ Key(t, y) = Key(base, y)
  <2> HIDE DEF kept
  <2> QED
    BY <1>2 DEF ToSet
<1> HIDE DEF kept, added
<1>4. ToSet(t.node[x].children) = ToSet(kept) \union ToSet(new)
  BY <1>1, <1>2, ConcatPairwise, ZenonT(60)
<1>5. /\ DOMAIN new = DOMAIN added
      /\ \A k \in DOMAIN new :
            /\ new[k] \in DOMAIN t.node
            /\ Key(t, new[k]) = <<added[k].node.kind, added[k].node.label>>
  BY <1>1 DEF Adds, Key
<1>6. ChildKeys(t, x) = {Key(t, c) : c \in ToSet(kept) \union ToSet(new)}
  <2>1. \A c \in ToSet(new) : c \in DOMAIN t.node
    BY <1>5 DEF ToSet
  <2>2. ToSet(t.node[x].children) \intersect DOMAIN t.node = ToSet(kept) \union ToSet(new)
    BY <1>3, <1>4, <2>1
  <2> QED
    BY <2>2 DEF ChildKeys
<1>7. {Key(t, c) : c \in ToSet(new)} = {<<a.node.kind, a.node.label>> : a \in ToSet(added)}
  BY <1>5 DEF ToSet
<1>8. {Key(t, c) : c \in ToSet(kept)} = {Key(base, y) : y \in ToSet(kept)}
  BY <1>3
<1>9. ChildKeys(t, x) = {Key(base, y) : y \in ToSet(kept)}
                          \union {<<a.node.kind, a.node.label>> : a \in ToSet(added)}
  BY <1>6, <1>7, <1>8
<1> QED
  BY <1>9 DEF KeysAfter, kept, added

(* What a patched node shows below it under a key.                         *)
LEMMA ListBecomes ==
    ASSUME IsTree(base), NEW S, SafeFor(base, S), NEW ops \in Seq(S),
           NEW change, DoesAll(ops, change), NEW t, Effect(t, base, ops),
           NEW x \in DOMAIN base.node, x \in DOMAIN t.node,
           NEW g, KeptShown(t, change, x, g), NEW key
    PROVE  Each(CanonOf(t), Siblings(t, x, key)) = ListAfter(g, change, x, key)
<1> DEFINE kept == Kept(change, x)
           added == change[x].added
           K == KeyedIn(t, key)
<1>1. PICK new \in Seq(Nat) : /\ t.node[x].children = kept \o new
                              /\ Adds(t, new, added)
  <2>1. Becomes(t, change, x)
    BY NodeBecomes
  <2> QED
    BY <2>1, Zenon DEF Becomes
<1>2. /\ kept \in Seq(Nat)
      /\ \A i \in DOMAIN kept : kept[i] \in DOMAIN t.node
      /\ KeptAs(kept, key) = Only(kept, K)
  BY KeptSiblings
<1>3. IsTree(t)
  BY DEF Effect
<1>4. IsAdded(added)
  BY DEF DoesAll, Does
<1>5. \A y \in ToSet(kept) : Canon(t, y) = g[y]
  BY DEF KeptShown
<1> HIDE DEF kept, added, K
<1>6. \A y \in ToSet(kept) : y \in DOMAIN t.node
  BY <1>2 DEF ToSet
<1>7. Siblings(t, x, key) = Only(kept, K) \o Only(new, K)
  <2>1. Siblings(t, x, key) = Only(t.node[x].children, K)
    BY <1>3, SiblingsKeyed DEF K
  <2>2. Only(kept \o new, K) = Only(kept, K) \o Only(new, K)
    <3>1. ASSUME NEW a \in Seq(Nat), NEW b \in Seq(Nat), NEW V
          PROVE  Only(a \o b, V) = Only(a, V) \o Only(b, V)
      BY OnlyConcat
    <3>2. kept \in Seq(Nat) /\ new \in Seq(Nat)
      BY <1>2
    <3> QED
      BY <3>1, <3>2
  <2> QED
    BY <1>1, <2>1, <2>2
<1>8. Only(kept, K) \in Seq(Nat) /\ Only(new, K) \in Seq(Nat)
  BY <1>2, OnlyPicks
<1> DEFINE s == Only(kept, K)
           u == Only(new, K)
<1>9. ToSet(s) \subseteq ToSet(kept)
  BY <1>2, OnlySet
<1>10. Each(CanonOf(t), u) = AddedAs(added, key)
  BY <1>1, <1>3, <1>4, AddedSiblings DEF K
<1> HIDE DEF s, u
<1>11. Each(CanonOf(t), s \o u) = Each(CanonOf(t), s) \o Each(CanonOf(t), u)
  BY <1>8, EachConcat DEF s, u
<1>12. Each(CanonOf(t), s) = Each(g, s)
  <2>1. \A i \in DOMAIN s : s[i] \in ToSet(kept)
    BY <1>9 DEF ToSet
  <2>2. \A i \in DOMAIN s : CanonOf(t)[s[i]] = g[s[i]]
    BY <1>5, <1>6, <2>1 DEF CanonOf
  <2> QED
    BY <2>2 DEF Each
<1>13. Each(CanonOf(t), Siblings(t, x, key)) = Each(g, s) \o AddedAs(added, key)
  BY <1>7, <1>10, <1>11, <1>12 DEF s, u
<1> QED
  BY <1>2, <1>13 DEF ListAfter, kept, added, s

(* What a patched node shows is what the change makes of it.               *)
LEMMA ShowsMerged ==
    ASSUME IsTree(base), NEW S, SafeFor(base, S), NEW ops \in Seq(S),
           NEW change, DoesAll(ops, change), NEW t, Effect(t, base, ops),
           NEW x \in DOMAIN base.node, x \in DOMAIN t.node,
           NEW g, KeptShown(t, change, x, g)
    PROVE  Canon(t, x) = MergedNode(g, change, x)
<1>1. ChildKeys(t, x) = KeysAfter(change, x)
  BY KeysBecome
<1>2. ASSUME NEW key
      PROVE  Each(CanonOf(t), Siblings(t, x, key)) = ListAfter(g, change, x, key)
  BY ListBecomes
<1> DEFINE f == [key \in ChildKeys(t, x) |-> Each(CanonOf(t), Siblings(t, x, key))]
           h == [key \in KeysAfter(change, x) |-> ListAfter(g, change, x, key)]
<1>3. f = h
  BY <1>1, <1>2
<1>4. Canon(t, x) = CanonNode(CanonOf(t), t, x)
  BY CanonUnfold DEF Effect
<1>5. CanonNode(CanonOf(t), t, x) = Shown(t.node[x].kind, t.node[x].label, t.node[x].value, f)
  BY DEF CanonNode
<1>6. MergedNode(g, change, x) =
          Shown(base.node[x].kind, change[x].label, change[x].value, h)
  BY MergedNodeIs
<1>7. Becomes(t, change, x)
  BY NodeBecomes
<1> HIDE DEF f, h
<1> QED
  BY <1>3, <1>4, <1>5, <1>6, <1>7 DEF Becomes

----------------------------------------------------------------------------
(* The merged tree as a recursion over the base.                           *)

(* A merged node rests on the children that are kept.                      *)
LEMMA MergedRestsOnKids ==
    ASSUME IsTree(base), NEW change, NEW x \in DOMAIN base.node, NEW g, NEW h,
           \A c \in KidsOf(base, x) : g[c] = h[c]
    PROVE  MergedNode(g, change, x) = MergedNode(h, change, x)
<1> DEFINE s == base.node[x].children
           I == {i \in DOMAIN s : ~change[s[i]].gone}
           kept == Kept(change, x)
<1>1. s \in Seq(Nat) /\ ToSet(s) = KidsOf(base, x)
  BY TreeFacts DEF Lists, KidsOf, ChildrenOf, IsLive
<1>2. kept = Retain(s, I)
  BY DEF Kept
<1>3. I \in SUBSET (DOMAIN s)
  OBVIOUS
<1> HIDE DEF s, I, kept
<1>4. kept \in Seq(Nat) /\ \A i \in DOMAIN kept : kept[i] \in ToSet(s)
  <2>1. kept \in Seq(Nat) /\ \E at : Picks(at, kept, s, I)
    BY <1>1, <1>2, <1>3, RetainProperties, Zenon
  <2>2. PICK at : Picks(at, kept, s, I)
    BY <2>1
  <2> QED
    BY <1>3, <2>1, <2>2 DEF Picks, ToSet
<1>5. ASSUME NEW key
      PROVE  ListAfter(g, change, x, key) = ListAfter(h, change, x, key)
  <2> DEFINE J == {i \in DOMAIN kept : Key(base, kept[i]) = key}
             r == Retain(kept, J)
  <2>1. KeptAs(kept, key) = r
    BY DEF KeptAs
  <2>2. J \in SUBSET (DOMAIN kept)
    OBVIOUS
  <2> HIDE DEF J, r
  <2>3. \E at : Picks(at, r, kept, J)
    BY <1>4, <2>2, RetainProperties, Zenon DEF r
  <2>4. PICK at : Picks(at, r, kept, J)
    BY <2>3
  <2>5. \A i \in DOMAIN r : r[i] \in KidsOf(base, x)
    BY <1>1, <1>4, <2>2, <2>4 DEF Picks
  <2>6. Each(g, r) = Each(h, r)
    BY <2>5 DEF Each
  <2> QED
    BY <2>1, <2>6 DEF ListAfter, kept
<1>6. [key \in KeysAfter(change, x) |-> ListAfter(g, change, x, key)]
        = [key \in KeysAfter(change, x) |-> ListAfter(h, change, x, key)]
  BY <1>5
<1> QED
  BY <1>6, MergedNodeIs

(* g answers every call of the recursion.                                  *)
IsMerged(g, change) ==
    g = [x \in DOMAIN base.node |-> MergedNode(g, change, x)]

(* The recursion ends: there is a function that answers every call.        *)
LEMMA MergedExists ==
    ASSUME IsTree(base), NEW change
    PROVE  \E g : IsMerged(g, change)
<1> DEFINE A == DOMAIN base.node
           next == base.next
           table(g) == [x \in A |-> MergedNode(g, change, x)]
           Holds(g, n) == \A x \in A : x + n >= next => g[x] = MergedNode(g, change, x)
           T == {n \in Nat : \E g : Holds(g, n)}
<1>1. /\ next \in Nat /\ A \subseteq Nat /\ \A x \in A : x < next
      /\ \A x, c : c \in KidsOf(base, x) => x \in A /\ c \in A /\ x < c
  BY TreeFacts
<1>2. ASSUME NEW x \in A, NEW g, NEW h, \A c \in KidsOf(base, x) : g[c] = h[c]
      PROVE  MergedNode(g, change, x) = MergedNode(h, change, x)
  BY <1>2, MergedRestsOnKids
<1> HIDE DEF A, next
<1>3. ASSUME NEW n \in Nat, NEW g, Holds(g, n)
      PROVE  Holds(table(g), n + 1)
  <2> DEFINE h == table(g)
  <2>1. \A x \in A : h[x] = MergedNode(g, change, x)
    OBVIOUS
  <2> HIDE DEF h
  <2>2. ASSUME NEW x \in A, x + (n + 1) >= next
        PROVE  h[x] = MergedNode(h, change, x)
    <3>1. ASSUME NEW c \in KidsOf(base, x)
          PROVE  g[c] = h[c]
      <4>1. c \in A /\ c \in Nat /\ x \in Nat /\ c > x
        BY <1>1
      <4>2. c + n >= next
        BY <1>1, <2>2, <4>1
      <4> QED
        BY <1>3, <2>1, <4>1, <4>2
    <3>2. MergedNode(g, change, x) = MergedNode(h, change, x)
      BY <1>2, <3>1
    <3> QED
      BY <2>1, <3>2
  <2> QED
    BY <2>2 DEF h
<1>4. next \in T
  <2>1. 0 \in T
    <3>1. Holds(0, 0)
      BY <1>1
    <3> HIDE DEF Holds
    <3> QED
      BY <3>1
  <2>2. ASSUME NEW n \in Nat, n \in T
        PROVE  n + 1 \in T
    <3> HIDE DEF Holds, table
    <3>1. PICK g : Holds(g, n)
      BY <2>2
    <3>2. Holds(table(g), n + 1)
      BY <1>3, <3>1
    <3> QED
      BY <3>2
  <2> HIDE DEF T
  <2> QED
    BY <1>1, <2>1, <2>2, SetInduction
<1>5. PICK g : Holds(g, next)
  <2> HIDE DEF Holds
  <2> QED
    BY <1>4
<1>6. \A x \in A : g[x] = MergedNode(g, change, x)
  <2>1. \A x \in A : x + next >= next
    BY <1>1
  <2> QED
    BY <1>5, <2>1
<1> DEFINE h == table(g)
<1>7. \A x \in A : h[x] = g[x]
  BY <1>6
<1>8. \A x \in A : MergedNode(g, change, x) = MergedNode(h, change, x)
  <2> TAKE x \in A
  <2>1. \A c \in KidsOf(base, x) : g[c] = h[c]
    BY <1>1, <1>7
  <2> HIDE DEF h
  <2> QED
    BY <1>2, <2>1
<1>9. h = table(h)
  <2> HIDE DEF h
  <2>1. h = table(g)
    BY DEF h
  <2> QED
    BY <1>8, <2>1
<1> HIDE DEF h
<1> QED
  BY <1>9 DEF IsMerged, A

(* The change of every node that is taken.                                 *)
TakenChanges(pick) ==
    [x \in DOMAIN base.node |-> Taken([s \in Sides |-> Changes(s)], pick, x)]

(* MergedBy is the answer for the root.                                    *)
LEMMA MergedByIs ==
    ASSUME IsTree(base), NEW pick
    PROVE  \E g : IsMerged(g, TakenChanges(pick)) /\ MergedBy(pick) = g[RootId]
<1> DEFINE g == CHOOSE g : IsMerged(g, TakenChanges(pick))
<1>1. IsMerged(g, TakenChanges(pick))
  BY MergedExists
<1>2. MergedBy(pick) = g[RootId]
  BY Zenon DEF MergedBy, IsMerged, TakenChanges
<1> HIDE DEF g
<1> QED
  BY <1>1, <1>2

(* A patch that does what is taken makes the merged tree.                  *)
LEMMA PatchMerges ==
    ASSUME IsTree(base), NEW S, SafeFor(base, S), NEW ops \in Seq(S),
           NEW pick, DoesAll(ops, TakenChanges(pick))
    PROVE  Canon(ApplyPatch(base, ops), RootId) = MergedBy(pick)
<1> DEFINE t == ApplyPatch(base, ops)
           change == TakenChanges(pick)
           A == DOMAIN base.node
           next == base.next
<1>1. PICK g : IsMerged(g, change) /\ MergedBy(pick) = g[RootId]
  BY MergedByIs
<1>2. Effect(t, base, ops)
  BY PatchEffect
<1>3. /\ next \in Nat /\ A \subseteq Nat /\ RootId \in A
      /\ \A x \in A : x < next
      /\ \A x, c : c \in KidsOf(base, x) => c \in A /\ x \in A /\ x < c
  BY TreeFacts
<1>4. \A x \in A : g[x] = MergedNode(g, change, x)
  BY <1>1 DEF IsMerged
<1>5. DoesAll(ops, change)
  OBVIOUS
<1> HIDE DEF t, change
<1>6. ASSUME NEW x \in A, x \in DOMAIN t.node, KeptShown(t, change, x, g)
      PROVE  Canon(t, x) = MergedNode(g, change, x)
  BY <1>2, <1>5, <1>6, ShowsMerged
<1>7. ASSUME NEW x \in A, x \in DOMAIN t.node, NEW y \in ToSet(Kept(change, x))
      PROVE  y \in KidsOf(base, x) /\ y \in DOMAIN t.node
  <2> DEFINE kept == Kept(change, x)
  <2>1. \A i \in DOMAIN kept : kept[i] \in KidsOf(base, x) /\ kept[i] \in DOMAIN t.node
    BY <1>2, <1>5, <1>7, KeptSiblings
  <2>2. y \in ToSet(kept)
    BY <1>7
  <2> HIDE DEF kept
  <2> QED
    BY <2>1, <2>2 DEF ToSet
<1> HIDE DEF A, next
<1> DEFINE T == {n \in Nat : \A x \in A :
                    x \in DOMAIN t.node /\ x + n >= next => Canon(t, x) = g[x]}
<1>8. 0 \in T
  <2>1. \A x \in Nat : x < next => ~(x + 0 >= next)
    BY <1>3
  <2> QED
    BY <1>3, <2>1
<1>9. ASSUME NEW n \in Nat, n \in T
      PROVE  n + 1 \in T
  <2> SUFFICES ASSUME NEW x \in A, x \in DOMAIN t.node, x + (n + 1) >= next
               PROVE  Canon(t, x) = g[x]
    OBVIOUS
  <2>1. ASSUME NEW y \in ToSet(Kept(change, x))
        PROVE  Canon(t, y) = g[y]
    <3>1. y \in KidsOf(base, x) /\ y \in DOMAIN t.node
      BY <1>7, <2>1
    <3>2. y \in A /\ y \in Nat /\ x \in Nat /\ x < y
      BY <1>3, <3>1
    <3>3. y + n >= next
      BY <1>3, <3>2
    <3> QED
      BY <1>9, <3>1, <3>2, <3>3
  <2>2. Canon(t, x) = MergedNode(g, change, x)
    BY <1>6, <2>1 DEF KeptShown
  <2> QED
    BY <1>4, <2>2
<1>10. next \in T
  <2> HIDE DEF T
  <2> QED
    BY <1>3, <1>8, <1>9, SetInduction
<1>11. RootId \in DOMAIN t.node /\ RootId + next >= next
  BY <1>2, <1>3, TreeFacts DEF Effect, RootId
<1> QED
  BY <1>1, <1>3, <1>10, <1>11 DEF t

----------------------------------------------------------------------------
(* Clean merges.                                                           *)

(* An editor's change gives no node but the root another label.            *)
LEMMA SideKeepsLabels ==
    ASSUME IsTree(base), NEW s, IsTree(copy[s]), NEW x \in DOMAIN base.node, x # RootId
    PROVE  Changes(s)[x].label = base.node[x].label
<1> DEFINE P == Paired(base, copy[s])
           c == Changes(s)[x]
<1>1. PairSet(P, base, copy[s])
  BY PairedIsPairSet
<1>2. ChangeIs(c, s, P, x)
  BY ChangesAre
<1> HIDE DEF c, P
<1>3. CASE HasPair(P, x)
  <2>1. PICK y : <<x, y>> \in P
    BY <1>3 DEF HasPair
  <2>2. Key(base, x) = Key(copy[s], y)
    BY <1>1, <2>1, PairsSameKey
  <2>3. c.label = copy[s].node[y].label
    BY <1>2, <2>1 DEF ChangeIs
  <2> QED
    BY <2>2, <2>3 DEF Key, c
<1>4. CASE ~HasPair(P, x)
  BY <1>2, <1>4 DEF ChangeIs, Removed, Unchanged, c
<1> QED
  BY <1>3, <1>4

(* What is taken is what one of the editors did, or nothing.               *)
LEMMA TakenIs ==
    ASSUME NEW pick, NEW x \in DOMAIN base.node,
           NEW c, c = Changes("ours")[x], NEW e, e = Changes("theirs")[x]
    PROVE  TakenChanges(pick)[x] =
               IF x \in DOMAIN pick
               THEN CASE pick[x] = "Ours"   -> c
                      [] pick[x] = "Theirs" -> e
                      [] pick[x] = "Drop"   -> Unchanged(x)
               ELSE IF c # Unchanged(x) THEN c ELSE e
<1> DEFINE changed == [s \in Sides |-> Changes(s)]
<1>1. changed["ours"] = Changes("ours") /\ changed["theirs"] = Changes("theirs")
  BY DEF Sides
<1>2. TakenChanges(pick)[x] = Taken(changed, pick, x)
  BY DEF TakenChanges
<1> HIDE DEF changed
<1> QED
  BY <1>1, <1>2 DEF Taken

(* A choice is made between the editors, or to drop both changes.          *)
Preferences == {"Ours", "Theirs", "Drop"}

(* What is taken gives no node but the root another label.                 *)
LEMMA TakenKeepsLabels ==
    ASSUME MergeInv, NEW pick, \A x \in DOMAIN pick : pick[x] \in Preferences,
           NEW x \in DOMAIN base.node, x # RootId
    PROVE  TakenChanges(pick)[x].label = base.node[x].label
<1> DEFINE c == Changes("ours")[x]
           e == Changes("theirs")[x]
<1>1. IsTree(base) /\ IsTree(copy["ours"]) /\ IsTree(copy["theirs"])
  BY DEF MergeInv, Sides
<1>2. c.label = base.node[x].label /\ e.label = base.node[x].label
  BY <1>1, SideKeepsLabels
<1>3. Unchanged(x).label = base.node[x].label
  BY DEF Unchanged
<1>4. TakenChanges(pick)[x] =
          IF x \in DOMAIN pick
          THEN CASE pick[x] = "Ours"   -> c
                 [] pick[x] = "Theirs" -> e
                 [] pick[x] = "Drop"   -> Unchanged(x)
          ELSE IF c # Unchanged(x) THEN c ELSE e
  BY TakenIs
<1> HIDE DEF c, e
<1> QED
  BY <1>2, <1>3, <1>4 DEF Preferences

(* Where there is no conflict and no choice, what merge_patches keeps does *)
(* what is taken.                                                          *)
LEMMA UncontestedDone ==
    ASSUME MergeInv, NEW pick, NEW x \in DOMAIN base.node, x \notin DOMAIN pick,
           x \notin Contested(Patch("ours"), Patch("theirs"))
    PROVE  Does(MergedOn(Patch("ours"), Patch("theirs"), x), x, TakenChanges(pick)[x])
<1> DEFINE a == Patch("ours")
           b == Patch("theirs")
           p == OpsOn(a, x)
           q == OpsOn(b, x)
           c == Changes("ours")[x]
           e == Changes("theirs")[x]
           m == MergedOn(a, b, x)
           taken == TakenChanges(pick)[x]
<1>0. "ours" \in Sides /\ "theirs" \in Sides /\ Sides = {"ours", "theirs"}
  BY DEF Sides
<1>1. IsTree(base) /\ IsTree(copy["ours"]) /\ IsTree(copy["theirs"])
  BY <1>0 DEF MergeInv
<1>2. a \in Seq(PatchOps) /\ b \in Seq(PatchOps)
  BY <1>0, SidesAreSafe
<1>3. Does(p, x, c) /\ Does(q, x, e)
  BY <1>1, SideDoes
<1>4. taken = IF c # Unchanged(x) THEN c ELSE e
  BY TakenIs
<1>5. (p = << >> => c = Unchanged(x)) /\ (q = << >> => e = Unchanged(x))
  BY <1>1, SaysOfChanged
<1>6. /\ x \in Affected(a) <=> x \in Reachable(base) /\ p # << >>
      /\ x \in Affected(b) <=> x \in Reachable(base) /\ q # << >>
  BY <1>1, AffectedIs
<1>7. /\ x \notin Affected(a) => p = << >>
      /\ x \notin Affected(b) => q = << >>
  BY <1>2, OpsOnOps
<1>8. p # << >> /\ q # << >> => (AgreedOn(a, b, x) <=> AlikeAt(x, c, e))
  <2> HAVE p # << >> /\ q # << >>
  <2>1. \A s \in Sides : OpsOn(Patch(s), x) # << >>
    BY <1>0
  <2> QED
    BY <2>1, AgreedWhenAlike
<1>9. x \in Affected(a) \intersect Affected(b) => AgreedOn(a, b, x)
  BY DEF Contested
<1>10. m = IF x \in Affected(a) \intersect Affected(b)
           THEN IF AgreedOn(a, b, x) THEN p ELSE << >>
           ELSE p \o q
  BY DEF MergedOn
<1>11. p \in Seq(PatchOps) /\ q \in Seq(PatchOps)
  BY <1>2, OpsOnOps
<1> HIDE DEF a, b, p, q, c, e, m, taken
<1>12. CASE x \in Affected(a) \intersect Affected(b)
  <2>1. AlikeAt(x, c, e)
    BY <1>6, <1>8, <1>9, <1>12
  <2>2. m = p /\ taken = c
    BY <1>4, <1>9, <1>10, <1>12, <2>1 DEF AlikeAt
  <2> QED
    BY <1>3, <2>2 DEF m, taken, a, b
<1>13. CASE x \notin Affected(a)
  <2>1. m = q /\ taken = e
    <3>1. << >> \o q = q
      BY <1>11
    <3> QED
      BY <1>4, <1>5, <1>7, <1>10, <1>13, <3>1
  <2> QED
    BY <1>3, <2>1 DEF m, taken, a, b
<1>14. CASE x \in Affected(a) /\ x \notin Affected(b)
  <2>1. m = p /\ taken = c
    <3>1. p \o << >> = p
      BY <1>11
    <3> QED
      BY <1>4, <1>5, <1>7, <1>10, <1>14, <3>1
  <2> QED
    BY <1>3, <2>1 DEF m, taken, a, b
<1> QED
  BY <1>12, <1>13, <1>14

(* A clean merge is the tree with everybody's changes.                     *)
THEOREM CleanMergeIsThreeWayHolds == Spec => []CleanMergeIsThreeWay
<1>1. MergeInv => CleanMergeIsThreeWay
  <2> SUFFICES ASSUME MergeInv, NEW result \in Results, IsClean(result)
               PROVE  Canon(MergedTree(result), RootId) = MergedBy(<< >>)
    BY DEF CleanMergeIsThreeWay
  <2> DEFINE a == Patch("ours")
             b == Patch("theirs")
             none == << >>
  <2>1. SafeFor(base, PatchOps) /\ a \in Seq(PatchOps) /\ b \in Seq(PatchOps)
    BY SidesAreSafe DEF Sides
  <2>2. IsTree(base)
    BY DEF MergeInv
  <2>3. MergeSays(result, a, b, PatchOps)
    BY <2>1, MergeKeeps DEF Results
  <2>4. DOMAIN none = {}
    OBVIOUS
  <2>5. /\ result.merged \in Seq(PatchOps) /\ Contested(a, b) = {}
        /\ \A x : OpsOn(result.merged, x) = MergedOn(a, b, x)
    BY <2>3 DEF MergeSays
  <2>6. ASSUME NEW x \in DOMAIN base.node
        PROVE  Does(MergedOn(a, b, x), x, TakenChanges(none)[x])
    <3>1. x \notin DOMAIN none /\ x \notin Contested(a, b)
      BY <2>4, <2>5
    <3> QED
      BY <3>1, UncontestedDone
  <2>7. ASSUME NEW x \in DOMAIN base.node, x # RootId
        PROVE  TakenChanges(none)[x].label = base.node[x].label
    <3>1. \A y \in DOMAIN none : none[y] \in Preferences
      BY <2>4
    <3> QED
      BY <2>7, <3>1, TakenKeepsLabels
  <2> HIDE DEF none, a, b
  <2>8. DoesAll(result.merged, TakenChanges(none))
    BY <2>5, <2>6, <2>7 DEF DoesAll
  <2>9. Canon(ApplyPatch(base, result.merged), RootId) = MergedBy(none)
    BY <2>1, <2>2, <2>5, <2>8, PatchMerges
  <2> QED
    BY <2>9 DEF MergedTree, none
<1> QED
  BY <1>1, MergeInvHolds, PTL

----------------------------------------------------------------------------
(* Resolving conflict by conflict.                                         *)

(* The conflicts of a result: one a node, with what the patches say of it. *)
ConflictsListed(r, a, b) ==
    /\ \E n \in Nat : DOMAIN r.conflicts = 1..n
    /\ \A i \in DOMAIN r.conflicts :
          /\ r.conflicts[i].a = OpsOn(a, r.conflicts[i].node)
          /\ r.conflicts[i].b = OpsOn(b, r.conflicts[i].node)
    /\ \A i, j \in DOMAIN r.conflicts :
          r.conflicts[i].node = r.conflicts[j].node => i = j

(* merge_patches reports no node twice.                                    *)
LEMMA MergeListsConflicts ==
    ASSUME NEW S, NEW a \in Seq(S), NEW b \in Seq(S), NEW r \in MergePatches(a, b)
    PROVE  ConflictsListed(r, a, b)
<1> DEFINE both == Affected(a) \intersect Affected(b)
<1>1. PICK order \in SetToSeqs(both) : Visit(r, a, b, order)
  BY MergeVisits
<1>2. IsFiniteSet(both)
  BY AffectedFinite, FS_Subset
<1> HIDE DEF both
<1>3. order \in Seq(both) /\ (\A i, j \in DOMAIN order : order[i] = order[j] => i = j)
  BY <1>2, VisitsAll
<1> DEFINE I == {i \in DOMAIN order : ~AgreedOn(a, b, order[i])}
           c == Clashing(a, b, order)
<1>4. I \in SUBSET (DOMAIN order) /\ c = Retain(order, I)
  BY DEF Clashing
<1> HIDE DEF I, c
<1>5. c \in Seq(both) /\ \E at : Picks(at, c, order, I)
  BY <1>3, <1>4, RetainProperties, Zenon
<1>6. PICK at : Picks(at, c, order, I)
  BY <1>5
<1>7. DOMAIN c = 1..Len(c) /\ Len(c) \in Nat
  BY <1>5
<1>8. \A i, j \in DOMAIN c : c[i] = c[j] => i = j
  <2> TAKE i, j \in DOMAIN c
  <2> HAVE c[i] = c[j]
  <2>1. at[i] \in DOMAIN order /\ at[j] \in DOMAIN order /\ at[i] \in Nat /\ at[j] \in Nat
    BY <1>3, <1>4, <1>6 DEF Picks
  <2>2. at[i] = at[j]
    BY <1>3, <1>6, <2>1 DEF Picks
  <2>3. i \in Nat /\ j \in Nat
    BY <1>7
  <2>4. (i < j => at[i] < at[j]) /\ (j < i => at[j] < at[i])
    BY <1>6 DEF Picks
  <2> QED
    BY <2>1, <2>2, <2>3, <2>4
<1>9. r.conflicts = [i \in DOMAIN c |-> [node |-> c[i], a |-> OpsOn(a, c[i]),
                                         b |-> OpsOn(b, c[i])]]
  BY <1>1 DEF Visit, c
<1>10. DOMAIN r.conflicts = DOMAIN c
  BY <1>9
<1>11. \A i \in DOMAIN c : /\ r.conflicts[i].node = c[i]
                           /\ r.conflicts[i].a = OpsOn(a, c[i])
                           /\ r.conflicts[i].b = OpsOn(b, c[i])
  <2> TAKE i \in DOMAIN c
  <2>1. r.conflicts[i] = [node |-> c[i], a |-> OpsOn(a, c[i]), b |-> OpsOn(b, c[i])]
    BY <1>9
  <2> QED
    BY <2>1
<1> QED
  BY <1>7, <1>8, <1>10, <1>11, ZenonT(60) DEF ConflictsListed

(* ss[i] has operations on node[i] alone.                                  *)
Sorted(ss, node) ==
    \A i \in DOMAIN ss : \A x :
        OpsOn(ss[i], x) = IF x = node[i] THEN ss[i] ELSE << >>

(* Operations that are sorted by node keep apart when they are put together.*)
LEMMA SortedOps ==
    ASSUME NEW S, NEW ss \in Seq(Seq(S)), NEW node, Sorted(ss, node),
           \A i, j \in DOMAIN ss : node[i] = node[j] => i = j
    PROVE  /\ \A i \in DOMAIN ss : OpsOn(FlattenSeq(ss), node[i]) = ss[i]
           /\ \A x : (\A i \in DOMAIN ss : node[i] # x) => OpsOn(FlattenSeq(ss), x) = << >>
<1> DEFINE us(x) == [i \in DOMAIN ss |-> OpsOn(ss[i], x)]
<1>1. \A x : OpsOn(FlattenSeq(ss), x) = FlattenSeq(us(x))
  BY OpsOnFlatten
<1>2. ASSUME NEW x
      PROVE  us(x) \in Seq(Seq(S)) /\ DOMAIN us(x) = DOMAIN ss
  <2>1. Len(ss) \in Nat /\ DOMAIN ss = 1..Len(ss) /\ \A i \in DOMAIN ss : ss[i] \in Seq(S)
    OBVIOUS
  <2>2. \A i \in DOMAIN ss : OpsOn(ss[i], x) \in Seq(S)
    BY <2>1, OpsOnOps
  <2>3. us(x) \in [1..Len(ss) -> Seq(S)]
    BY <2>1, <2>2
  <2>4. DOMAIN us(x) = DOMAIN ss
    OBVIOUS
  <2> DEFINE u == us(x)
             n == Len(ss)
  <2>5. u \in [1..n -> Seq(S)] /\ n \in Nat
    BY <2>1, <2>3
  <2> HIDE DEF us, u, n
  <2>6. u \in Seq(Seq(S))
    BY <2>5, SeqDef
  <2> QED
    BY <2>4, <2>6 DEF u
<1>3. \A x : \A i \in DOMAIN ss : us(x)[i] = IF x = node[i] THEN ss[i] ELSE << >>
  BY DEF Sorted
<1> HIDE DEF us
<1>4. ASSUME NEW i \in DOMAIN ss
      PROVE  OpsOn(FlattenSeq(ss), node[i]) = ss[i]
  <2> DEFINE x == node[i]
  <2>1. us(x)[i] = ss[i] /\ \A j \in DOMAIN us(x) : j # i => us(x)[j] = << >>
    BY <1>2, <1>3
  <2>2. us(x) \in Seq(Seq(S)) /\ i \in DOMAIN us(x)
    BY <1>2
  <2> HIDE DEF x
  <2>3. FlattenSeq(us(x)) = us(x)[i]
    BY <2>1, <2>2, FlattenSingle, Zenon
  <2> QED
    BY <1>1, <2>1, <2>3 DEF x
<1>5. ASSUME NEW x, \A i \in DOMAIN ss : node[i] # x
      PROVE  OpsOn(FlattenSeq(ss), x) = << >>
  <2>1. \A j \in DOMAIN us(x) : us(x)[j] = << >>
    BY <1>2, <1>3, <1>5
  <2>2. FlattenSeq(us(x)) = << >>
    BY <1>2, <2>1, FlattenNone, Zenon
  <2> QED
    BY <1>1, <2>2
<1> QED
  BY <1>4, <1>5

(* The operations that settle a conflict on the node x.                    *)
PickedOps(pick, a, b, x) ==
    CASE pick[x] = "Ours"   -> OpsOn(a, x)
      [] pick[x] = "Theirs" -> OpsOn(b, x)
      [] pick[x] = "Drop"   -> << >>

(* The same for each conflict of a result.                                 *)
Settled(r, pick, a, b) ==
    [i \in DOMAIN r.conflicts |-> PickedOps(pick, a, b, r.conflicts[i].node)]

(* They are operations of the patches, on the node of the conflict alone.  *)
LEMMA SettledSorted ==
    ASSUME NEW S, NEW a \in Seq(S), NEW b \in Seq(S), NEW r, ConflictsListed(r, a, b),
           NEW pick, \A x \in ConflictNodes(r) : pick[x] \in Preferences
    PROVE  /\ Settled(r, pick, a, b) \in Seq(Seq(S))
           /\ Sorted(Settled(r, pick, a, b), [i \in DOMAIN r.conflicts |-> r.conflicts[i].node])
<1> DEFINE ss == Settled(r, pick, a, b)
           node == [i \in DOMAIN r.conflicts |-> r.conflicts[i].node]
<1>1. PICK n \in Nat : DOMAIN r.conflicts = 1..n
  BY DEF ConflictsListed
<1>2. ASSUME NEW i \in DOMAIN r.conflicts
      PROVE  /\ ss[i] \in Seq(S)
             /\ \A x : OpsOn(ss[i], x) = IF x = node[i] THEN ss[i] ELSE << >>
  <2> DEFINE y == r.conflicts[i].node
  <2>1. ss[i] = PickedOps(pick, a, b, y) /\ node[i] = y
    BY DEF Settled
  <2>2. pick[y] \in Preferences
    BY DEF ConflictNodes
  <2> HIDE DEF y, ss, node
  <2>3. ss[i] = OpsOn(a, y) \/ ss[i] = OpsOn(b, y) \/ ss[i] = << >>
    BY <2>1, <2>2 DEF PickedOps, Preferences
  <2>4. /\ OpsOn(a, y) \in Seq(S)
        /\ \A x : OpsOn(OpsOn(a, y), x) = IF x = y THEN OpsOn(a, y) ELSE << >>
    <3>1. \A x : OpsOn(OpsOn(a, y), x) = IF x = y THEN OpsOn(a, x) ELSE << >>
      BY OpsOnOps
    <3> QED
      BY <3>1, OpsOnOps
  <2>5. /\ OpsOn(b, y) \in Seq(S)
        /\ \A x : OpsOn(OpsOn(b, y), x) = IF x = y THEN OpsOn(b, y) ELSE << >>
    <3>1. \A x : OpsOn(OpsOn(b, y), x) = IF x = y THEN OpsOn(b, x) ELSE << >>
      BY OpsOnOps
    <3> QED
      BY <3>1, OpsOnOps
  <2>6. << >> \in Seq(S) /\ \A x : OpsOn(<< >>, x) = << >>
    <3>1. << >> \in Seq(S) /\ \A x : x \notin Affected(<< >>)
      BY EmptySeq DEF Affected
    <3> QED
      BY <3>1, OpsOnOps
  <2> QED
    BY <2>1, <2>3, <2>4, <2>5, <2>6
<1>3. ss = [i \in 1..n |-> ss[i]] /\ DOMAIN ss = 1..n
  BY <1>1 DEF Settled
<1> HIDE DEF ss, node
<1>4. ss \in Seq(Seq(S))
  <2>1. ss \in [1..n -> Seq(S)]
    BY <1>1, <1>2, <1>3
  <2> QED
    BY <2>1, SeqDef
<1>5. Sorted(ss, node)
  BY <1>1, <1>2, <1>3 DEF Sorted
<1> QED
  BY <1>4, <1>5 DEF ss, node

(* resolve_selective, with a choice for every conflict, appends the picked *)
(* operations, in the order of the conflicts.                              *)
LEMMA SelectiveIs ==
    ASSUME NEW a, NEW b, NEW r, ConflictsListed(r, a, b),
           NEW pick, \A x \in ConflictNodes(r) : pick[x] \in Preferences,
           NEW chosen, chosen = [i \in DOMAIN r.conflicts |-> pick[r.conflicts[i].node]]
    PROVE  ResolveSelective(r, chosen, "Drop")
               = r.merged \o FlattenSeq(Settled(r, pick, a, b))
<1> DEFINE rs == [i \in DOMAIN r.conflicts |->
                     ResolveConflict(r.conflicts[i],
                         IF i \in DOMAIN chosen THEN chosen[i] ELSE "Drop")]
<1>1. ResolveSelective(r, chosen, "Drop") = r.merged \o FlattenSeq(rs)
  BY DEF ResolveSelective
<1>2. ASSUME NEW i \in DOMAIN r.conflicts
      PROVE  ResolveConflict(r.conflicts[i], IF i \in DOMAIN chosen THEN chosen[i] ELSE "Drop")
               = PickedOps(pick, a, b, r.conflicts[i].node)
  <2> DEFINE y == r.conflicts[i].node
             z == pick[y]
  <2>1. i \in DOMAIN chosen /\ chosen[i] = z
    OBVIOUS
  <2>2. z \in Preferences
    BY DEF ConflictNodes
  <2>3. r.conflicts[i].a = OpsOn(a, y) /\ r.conflicts[i].b = OpsOn(b, y)
    BY DEF ConflictsListed
  <2>4. PickedOps(pick, a, b, y) =
            CASE z = "Ours"   -> OpsOn(a, y)
              [] z = "Theirs" -> OpsOn(b, y)
              [] z = "Drop"   -> << >>
    BY DEF PickedOps
  <2> HIDE DEF y, z
  <2>5. ResolveConflict(r.conflicts[i], z) =
            CASE z = "Ours"   -> OpsOn(a, y)
              [] z = "Theirs" -> OpsOn(b, y)
              [] z = "Drop"   -> << >>
    BY <2>2, <2>3 DEF ResolveConflict, Preferences
  <2> QED
    BY <2>1, <2>4, <2>5 DEF y
<1>3. rs = Settled(r, pick, a, b)
  BY <1>2 DEF Settled
<1> HIDE DEF rs
<1> QED
  BY <1>1, <1>3

(* The conflicts are settled as picked.                                    *)
THEOREM ResolutionIsPickedHolds == Spec => []ResolutionIsPicked
<1>1. MergeInv => ResolutionIsPicked
  <2> SUFFICES ASSUME MergeInv, NEW result \in Results,
                      NEW pick \in [ConflictNodes(result) -> {"Ours", "Theirs", "Drop"}],
                      NEW chosen,
                      chosen = [i \in DOMAIN result.conflicts |->
                                   pick[result.conflicts[i].node]]
               PROVE  Canon(ApplyPatch(base, ResolveSelective(result, chosen, "Drop")), RootId)
                          = MergedBy(pick)
    BY DEF ResolutionIsPicked
  <2> DEFINE a == Patch("ours")
             b == Patch("theirs")
             m == result.merged
             ss == Settled(result, pick, a, b)
             node == [i \in DOMAIN result.conflicts |-> result.conflicts[i].node]
             f == FlattenSeq(ss)
  <2>1. SafeFor(base, PatchOps) /\ a \in Seq(PatchOps) /\ b \in Seq(PatchOps)
    BY SidesAreSafe DEF Sides
  <2>2. IsTree(base) /\ IsTree(copy["ours"]) /\ IsTree(copy["theirs"])
    BY DEF MergeInv, Sides
  <2>3. result \in MergePatches(a, b)
    BY DEF Results
  <2>4. DOMAIN pick = ConflictNodes(result) /\ \A x \in DOMAIN pick : pick[x] \in Preferences
    BY DEF Preferences
  <2>5. \A x \in DOMAIN base.node : /\ Does(OpsOn(a, x), x, Changes("ours")[x])
                                    /\ Does(OpsOn(b, x), x, Changes("theirs")[x])
    BY <2>2, SideDoes
  <2>6. ASSUME NEW x \in DOMAIN base.node, x \notin DOMAIN pick, x \notin Contested(a, b)
        PROVE  Does(MergedOn(a, b, x), x, TakenChanges(pick)[x])
    BY <2>6, UncontestedDone
  <2> HIDE DEF a, b
  <2>7. MergeSays(result, a, b, PatchOps) /\ ConflictsListed(result, a, b)
    BY <2>1, <2>3, MergeKeeps, MergeListsConflicts
  <2>8. /\ m \in Seq(PatchOps) /\ DOMAIN pick = Contested(a, b)
        /\ \A x : OpsOn(m, x) = MergedOn(a, b, x)
    BY <2>4, <2>7 DEF MergeSays
  <2>9. ss \in Seq(Seq(PatchOps)) /\ Sorted(ss, node)
    BY <2>1, <2>4, <2>7, SettledSorted
  <2>10. ResolveSelective(result, chosen, "Drop") = m \o f
    BY <2>4, <2>7, SelectiveIs
  <2>11. \A i, j \in DOMAIN ss : node[i] = node[j] => i = j
    BY <2>7 DEF ConflictsListed, Settled
  <2>12. /\ DOMAIN ss = DOMAIN result.conflicts
         /\ \A i \in DOMAIN ss : ss[i] = PickedOps(pick, a, b, node[i])
         /\ \A x : x \in DOMAIN pick <=> \E i \in DOMAIN ss : node[i] = x
    BY <2>4 DEF Settled, ConflictNodes
  <2> HIDE DEF ss, node
  <2>13. /\ \A i \in DOMAIN ss : OpsOn(f, node[i]) = ss[i]
         /\ \A x : (\A i \in DOMAIN ss : node[i] # x) => OpsOn(f, x) = << >>
    BY <2>9, <2>11, SortedOps, ZenonT(60)
  <2>14. f \in Seq(PatchOps)
    BY <2>9, FlattenPairwise
  <2> HIDE DEF m, f
  <2>15. m \o f \in Seq(PatchOps) /\ \A x : OpsOn(m \o f, x) = OpsOn(m, x) \o OpsOn(f, x)
    BY <2>8, <2>14, OpsOnConcat, ConcatProperties
  <2>16. ASSUME NEW x \in DOMAIN base.node
         PROVE  Does(OpsOn(m \o f, x), x, TakenChanges(pick)[x])
    <3>1. OpsOn(m, x) \in Seq(PatchOps) /\ OpsOn(f, x) \in Seq(PatchOps)
      BY <2>8, <2>14, OpsOnOps
    <3>2. CASE x \in DOMAIN pick
      <4>1. PICK i \in DOMAIN ss : node[i] = x
        BY <2>12, <3>2
      <4>2. OpsOn(f, x) = PickedOps(pick, a, b, x)
        BY <2>12, <2>13, <4>1
      <4>3. OpsOn(m, x) = << >>
        BY <2>8, <3>2 DEF MergedOn, Contested
      <4>4. OpsOn(m \o f, x) = PickedOps(pick, a, b, x)
        BY <2>15, <3>1, <4>2, <4>3, ConcatEmptySeq
      <4> DEFINE c == Changes("ours")[x]
                 e == Changes("theirs")[x]
      <4>5. Does(OpsOn(a, x), x, c) /\ Does(OpsOn(b, x), x, e)
        BY <2>5
      <4>6. TakenChanges(pick)[x] =
                CASE pick[x] = "Ours"   -> c
                  [] pick[x] = "Theirs" -> e
                  [] pick[x] = "Drop"   -> Unchanged(x)
        BY <3>2, TakenIs
      <4>7. Does(<< >>, x, Unchanged(x))
        BY NothingDone
      <4>8. pick[x] \in Preferences
        BY <2>4, <3>2
      <4> DEFINE z == pick[x]
                 p == OpsOn(a, x)
                 q == OpsOn(b, x)
                 taken == TakenChanges(pick)[x]
                 ops == OpsOn(m \o f, x)
      <4>9. ops = CASE z = "Ours"   -> p
                    [] z = "Theirs" -> q
                    [] z = "Drop"   -> << >>
        BY <4>4 DEF PickedOps
      <4> HIDE DEF c, e, z, p, q, taken, ops
      <4>10. CASE z = "Ours"
        <5>1. ops = p /\ taken = c
          BY <4>6, <4>9, <4>10 DEF taken, z
        <5> QED
          BY <4>5, <5>1 DEF p, ops, taken
      <4>11. CASE z = "Theirs"
        <5>1. ops = q /\ taken = e
          BY <4>6, <4>9, <4>11 DEF taken, z
        <5> QED
          BY <4>5, <5>1 DEF q, ops, taken
      <4>12. CASE z = "Drop"
        <5>1. ops = << >> /\ taken = Unchanged(x)
          BY <4>6, <4>9, <4>12 DEF taken, z
        <5> QED
          BY <4>7, <5>1 DEF ops, taken
      <4> QED
        BY <4>8, <4>10, <4>11, <4>12 DEF Preferences, z
    <3>3. CASE x \notin DOMAIN pick
      <4>1. OpsOn(f, x) = << >>
        BY <2>12, <2>13, <3>3
      <4>2. OpsOn(m \o f, x) = OpsOn(m, x)
        BY <2>15, <3>1, <4>1, ConcatEmptySeq
      <4>3. OpsOn(m, x) = MergedOn(a, b, x)
        BY <2>8
      <4>4. Does(MergedOn(a, b, x), x, TakenChanges(pick)[x])
        BY <2>6, <2>8, <3>3
      <4> QED
        BY <4>2, <4>3, <4>4
    <3> QED
      BY <3>2, <3>3
  <2>17. ASSUME NEW x \in DOMAIN base.node, x # RootId
         PROVE  TakenChanges(pick)[x].label = base.node[x].label
    BY <2>4, <2>17, TakenKeepsLabels
  <2> DEFINE ops == m \o f
  <2> HIDE DEF ops
  <2>18. DoesAll(ops, TakenChanges(pick)) /\ ops \in Seq(PatchOps)
    BY <2>15, <2>16, <2>17 DEF DoesAll, ops
  <2>19. Canon(ApplyPatch(base, ops), RootId) = MergedBy(pick)
    BY <2>1, <2>2, <2>18, PatchMerges
  <2> QED
    BY <2>10, <2>19 DEF ops
<1> QED
  BY <1>1, MergeInvHolds, PTL
============================================================================
