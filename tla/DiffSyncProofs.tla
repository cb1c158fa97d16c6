---------------------------- MODULE DiffSyncProofs -------------------------
(***************************************************************************)
(* Theorems about DiffSync.                                                *)
(***************************************************************************)
EXTENDS DiffSync, AstProofs

(* Both copies are trees without orphans, and their roots are of one kind: *)
(* no edit and no operation of a patch changes the kind of a node.         *)
SyncInv ==
    /\ IsTree(mine) /\ Rooted(mine)
    /\ IsTree(theirs) /\ Rooted(theirs)
    /\ mine.node[RootId].kind = theirs.node[RootId].kind
    /\ edits \in 0..MaxEdits

(* A new tree has its root and nothing else.                               *)
LEMMA NewTreeRooted == IsTree(NewTree) /\ Rooted(NewTree)
<1> DEFINE t == NewTree
<1>1. /\ DOMAIN t.node = {0} /\ t.parent = << >> /\ t.next = 1
      /\ t.node[0].children = << >>
  BY DEF NewTree, NewNode, RootId
<1>2. DOMAIN t.parent = {}
  BY <1>1
<1> HIDE DEF t
<1>3. KidsOf(t, 0) = {}
  BY <1>1 DEF KidsOf, ChildrenOf, IsLive, ToSet
<1>4. Agreed(t)
  BY <1>1, <1>3 DEF Agreed, IsInjective
<1>5. Lists(t, Nat)
  <2>1. \A x \in DOMAIN t.node : t.node[x].children = << >>
    BY <1>1
  <2> QED
    BY <2>1, EmptySeq DEF Lists
<1>6. \A x \in DOMAIN t.node : x \in Nat /\ x < t.next
  BY <1>1
<1>7. IsTree(t)
  BY <1>1, <1>2, <1>4, <1>5, <1>6, TreeByFacts DEF RootId
<1> QED
  BY <1>2, <1>7 DEF Rooted, t

(* The edits a caller makes leave a tree without orphans: a node is added  *)
(* below a live one, and a removal takes all that is below.                *)
LEMMA AddKeepsRooted ==
    ASSUME NEW t, IsTree(t), Rooted(t), NEW kind, NEW label, NEW value, NEW p \in DOMAIN t.node
    PROVE  IsTree(AddNodeWithValue(t, kind, label, value, p))
           /\ Rooted(AddNodeWithValue(t, kind, label, value, p))
<1>1. Follows(t, t, << >>, 0)
  BY TreeFacts DEF Follows
<1> QED
  BY <1>1, InsertFollows DEF Follows

(* remove_subtree of a node other than the root leaves no orphan.          *)
LEMMA RemoveKeepsRooted ==
    ASSUME NEW t, IsTree(t), Rooted(t), NEW id \in DOMAIN t.node \ {RootId}
    PROVE  IsTree(RemoveSubtree(t, id)) /\ Rooted(RemoveSubtree(t, id))
<1> DEFINE ops == <<Delete(id)>>
<1>1. Follows(t, t, ops, 0)
  BY TreeFacts DEF Follows
<1>2. ops[0 + 1].op = "Delete" /\ ops[0 + 1].target = id
  BY DEF Delete
<1> HIDE DEF ops
<1>3. Follows(RemoveSubtree(t, id), t, ops, 0 + 1)
  BY <1>1, <1>2, DeleteFollows
<1> QED
  BY <1>3 DEF Follows

(* An edit of a value or a label leaves the shape alone.                   *)
LEMMA SetKeepsRooted ==
    ASSUME NEW t, IsTree(t), Rooted(t), NEW u, SameLists(t, u), u.next = t.next
    PROVE  IsTree(u) /\ Rooted(u)
BY SetKeepsTree DEF Rooted, IsLive, SameLists

(* No edit changes the kind of the root.                                   *)
LEMMA EditsKeepKind ==
    ASSUME NEW t, IsTree(t)
    PROVE  /\ \A kind, label, value : \A p \in DOMAIN t.node :
                 AddNodeWithValue(t, kind, label, value, p).node[RootId].kind
                     = t.node[RootId].kind
           /\ \A id : id # RootId =>
                 RemoveSubtree(t, id).node[RootId].kind = t.node[RootId].kind
           /\ \A id, v : /\ SetValue(t, id, v).node[RootId].kind = t.node[RootId].kind
                         /\ SetLabel(t, id, v).node[RootId].kind = t.node[RootId].kind
<1>0. RootId \in DOMAIN t.node
  BY DEF IsTree
<1>1. ASSUME NEW kind, NEW label, NEW value, NEW p \in DOMAIN t.node
      PROVE  AddNodeWithValue(t, kind, label, value, p).node[RootId].kind = t.node[RootId].kind
  <2>1. p \in Nat /\ p < t.next
    BY TreeFacts
  <2> DEFINE u == AddNodeWithValue(t, kind, label, value, p)
  <2>2. \A x \in DOMAIN t.node : SameNode(u, t, x)
    BY <2>1, AddedNodes
  <2> QED
    BY <1>0, <2>2 DEF SameNode
<1>2. ASSUME NEW id, id # RootId
      PROVE  RemoveSubtree(t, id).node[RootId].kind = t.node[RootId].kind
  <2> DEFINE u == RemoveSubtree(t, id)
  <2>1. \A x \in DOMAIN u.node : SameNode(u, t, x)
    BY <1>2, RemovedNodes
  <2>2. IsTree(u)
    BY <1>2, RemoveKeepsTree
  <2> QED
    BY <2>1, <2>2 DEF IsTree, SameNode
<1>3. \A id, v : /\ SetValue(t, id, v).node[RootId].kind = t.node[RootId].kind
                /\ SetLabel(t, id, v).node[RootId].kind = t.node[RootId].kind
  BY <1>0, SetNodes
<1> QED
  BY <1>1, <1>2, <1>3

(* The patch from mine to theirs is one that can be applied to mine.       *)
LEMMA PendingIsPatch ==
    ASSUME SyncInv
    PROVE  IsPatch(Pending, mine, theirs, RootId)
BY DiffTreesIsPatch DEF SyncInv, Pending

(* What the patch from mine to theirs makes of mine.                       *)
LEMMA PullEffect ==
    ASSUME SyncInv
    PROVE  Effect(ApplyPatch(mine, Pending), mine, Pending)
<1> DEFINE S == DiffOps(mine, theirs) \union DiffOps(mine, theirs)
<1>1. SafeFor(mine, S) /\ Pending \in Seq(S)
  BY TwoDiffs DEF SyncInv, Pending
<1> HIDE DEF S
<1> QED
  BY <1>1, PatchEffect DEF SyncInv

(* A pull keeps the kind of the root.                                      *)
LEMMA PullKeepsKind ==
    ASSUME SyncInv
    PROVE  ApplyPatch(mine, Pending).node[RootId].kind = mine.node[RootId].kind
<1>1. <<RootId, RootId>> \in Paired(mine, theirs)
  BY PairedIsPairSet DEF SyncInv, PairSet
<1>2. NodePulled(ApplyPatch(mine, Pending), mine, theirs, RootId, RootId, Pending)
  BY <1>1, PullEffect, PullsNode DEF SyncInv, Pending
<1> QED
  BY <1>2 DEF NodePulled

(* Both sides start from a fresh tree.                                     *)
LEMMA SyncInit == Init => SyncInv
BY NewTreeRooted, MaxEditsAssumption DEF Init, SyncInv

(* Every step keeps both copies trees without orphans: an edit of one, the *)
(* copy of a clone, and a patch, each of whose operations finds its node.  *)
LEMMA SyncStep == SyncInv /\ [Next]_vars => SyncInv'
<1> SUFFICES ASSUME SyncInv, [Next]_vars
             PROVE  SyncInv'
  OBVIOUS
<1> USE DEF SyncInv
<1>1. ASSUME NEW t, IsTree(t), Rooted(t), t.node[RootId].kind = theirs.node[RootId].kind,
             Edited(t)
      PROVE  SyncInv'
  <2>1. edits + 1 \in 0..MaxEdits
    BY <1>1, MaxEditsAssumption DEF Edited
  <2> QED
    BY <1>1, <2>1 DEF Edited
<1>2. ASSUME NEW kind, NEW label, NEW value, NEW p \in DOMAIN theirs.node,
             AddNode(kind, label, value, p)
      PROVE  SyncInv'
  BY <1>1, <1>2, AddKeepsRooted, EditsKeepKind DEF AddNode
<1>3. ASSUME NEW id \in DOMAIN theirs.node \ {RootId}, RemoveNode(id)
      PROVE  SyncInv'
  BY <1>1, <1>3, RemoveKeepsRooted, EditsKeepKind DEF RemoveNode
<1>4. ASSUME NEW id, NEW v, ChangeValue(id, v)
      PROVE  SyncInv'
  BY <1>1, <1>4, SetKeepsRooted, KidsOfSet, SetGivesNoId, EditsKeepKind DEF ChangeValue
<1>5. ASSUME NEW id, NEW l, ChangeLabel(id, l)
      PROVE  SyncInv'
  BY <1>1, <1>5, SetKeepsRooted, KidsOfSet, SetGivesNoId, EditsKeepKind DEF ChangeLabel
<1>6. CASE Clone
  BY <1>6 DEF Clone
<1>7. CASE Pull
  <2>1. IsPatch(Pending, mine, theirs, RootId)
    BY PendingIsPatch
  <2>2. IsTree(ApplyPatch(mine, Pending)) /\ Rooted(ApplyPatch(mine, Pending))
    BY <2>1, PatchApplies
  <2>3. mine' = ApplyPatch(mine, Pending) /\ theirs' = theirs /\ edits' = edits
    BY <1>7 DEF Pull, Pending
  <2> QED
    BY <2>2, <2>3, PullKeepsKind
<1>8. CASE UNCHANGED vars
  BY <1>8 DEF vars
<1> QED
  BY <1>2, <1>3, <1>4, <1>5, <1>6, <1>7, <1>8 DEF Next

(* Both copies are trees without orphans, whatever is edited, cloned and   *)
(* pulled in whatever order.                                               *)
THEOREM SyncInvHolds == Spec => []SyncInv
BY SyncInit, SyncStep, PTL DEF Spec

(* Through any sequence of edits, clones and pulls both copies stay trees  *)
(* whose child lists and parent_index agree, and nothing in the copy that  *)
(* is patched is cut off from the root.                                    *)
THEOREM SyncTypeOK == Spec => []TypeOK
<1>1. SyncInv => TypeOK
  BY RootedReaches DEF SyncInv, TypeOK
<1> QED
  BY <1>1, SyncInvHolds, PTL

(* Every operation of a patch finds its node when apply_patch comes to it. *)
THEOREM SyncOpsHitLiveNodes == Spec => []OpsHitLiveNodes
<1>1. SyncInv => OpsHitLiveNodes
  BY PendingIsPatch, PatchApplies DEF SyncInv, OpsHitLiveNodes
<1> QED
  BY <1>1, SyncInvHolds, PTL

(* A patch deletes a node by one operation that is the only one on it, and *)
(* gives no other kind of operation but an insertion twice for a node.     *)
THEOREM SyncCoherentOnTarget == Spec => []CoherentOnTarget
<1>1. SyncInv => CoherentOnTarget
  <2> SUFFICES ASSUME SyncInv
               PROVE  CoherentOnTarget
    OBVIOUS
  <2> DEFINE ops == Pending
  <2>1. IsPatch(ops, mine, theirs, RootId) /\ IsFiniteSet(DOMAIN mine.node)
    BY PendingIsPatch, TreeFacts DEF SyncInv
  <2>2. /\ \A i \in DOMAIN ops : ops[i] \in DiffOps(mine, theirs)
        /\ DOMAIN ops = 1..Len(ops) /\ Len(ops) \in Nat
    BY <2>1 DEF IsPatch
  <2>3. \A i, j \in DOMAIN ops : i # j => Fits(mine, ops[i], ops[j])
    BY <2>1 DEF IsPatch, Pairwise, Fitting
  <2> HIDE DEF ops
  <2>4. ASSUME NEW i \in DOMAIN ops, NEW j \in DOMAIN ops, i < j,
               ops[i].target = ops[j].target
        PROVE  /\ ops[i].op # "Delete" /\ ops[j].op # "Delete"
               /\ ops[i].op = ops[j].op => ops[i].op = "Insert"
    <3>1. Fits(mine, ops[i], ops[j])
      BY <2>2, <2>3, <2>4
    <3>2. ops[i].target \in CollectSubtree(mine, ops[i].target)
      BY <2>1, CollectSubtreeClosed
    <3> QED
      BY <2>4, <3>1, <3>2 DEF Fits
  <2> QED
    BY <2>4 DEF CoherentOnTarget, ops
<1> QED
  BY <1>1, SyncInvHolds, PTL

(* One pull brings over precisely what a diff can carry.                   *)
THEOREM PullCarriesHolds == Spec => []PullCarries
<1>1. SyncInv => PullCarries
  BY PullEffect, PatchCarries DEF SyncInv, PullCarries, Pending
<1> QED
  BY <1>1, SyncInvHolds, PTL

(* diff_trees is silent exactly when there is nothing to say.              *)
THEOREM SilentIffSameHolds == Spec => []SilentIffSame
<1>1. SyncInv => SilentIffSame
  <2> SUFFICES ASSUME SyncInv
               PROVE  SilentIffSame
    OBVIOUS
  <2>1. ASSUME SameContent, NEW i \in DOMAIN Pending
        PROVE  Pending[i].op = "Update" /\ Pending[i].value \in NaNs
    BY <2>1, DiffOfAlike DEF SyncInv, SameContent, Pending, IsNaNUpdate
  <2>2. Pending = << >> => SameContent
    BY SilenceMeansAlike DEF SyncInv, SameContent, Pending
  <2> QED
    BY <2>1, <2>2 DEF SilentIffSame
<1> QED
  BY <1>1, SyncInvHolds, PTL

(* A pull that does not leave the copies with the same content leaves      *)
(* fewer nodes of theirs without a partner in mine: what it inserts is     *)
(* paired next time, and no pair is lost.                                  *)
LEMMA PullsConverge ==
    ASSUME SyncInv, NEW t, t = ApplyPatch(mine, Pending)
    PROVE  \/ Canon(t, RootId) = Canon(theirs, RootId)
           \/ Unpaired(t, theirs) < Unpaired(mine, theirs)
<1>1. Effect(t, mine, Pending) /\ IsTree(mine) /\ IsTree(theirs)
  BY PullEffect DEF SyncInv
<1>2. CASE AllMated(Paired(mine, theirs), theirs)
  <2>1. Canon(t, RootId) = Carried(mine, theirs)
    BY <1>1, PatchCarries DEF Pending
  <2> QED
    BY <1>1, <1>2, <2>1, CarriedIsAll DEF SyncInv
<1>3. CASE ~AllMated(Paired(mine, theirs), theirs)
  <2>1. Paired(mine, theirs) \subseteq Paired(t, theirs)
    BY <1>1, PairsStay DEF Pending
  <2>2. Paired(mine, theirs) # Paired(t, theirs)
    BY <1>1, <1>3, PairsGrow DEF Pending
  <2> DEFINE m == Cardinality(Paired(mine, theirs))
             n == Cardinality(Paired(t, theirs))
             r == Cardinality(Reachable(theirs))
  <2>3. m \in Nat /\ n \in Nat /\ m < n
    <3>1. IsTree(t)
      BY <1>1 DEF Effect
    <3> QED
      BY <1>1, <2>1, <2>2, <3>1, MorePairs
  <2>4. r \in Nat
    <3>1. IsFiniteSet(DOMAIN theirs.node)
      BY <1>1, TreeFacts
    <3>2. IsFiniteSet(Reachable(theirs))
      BY <3>1, FS_Subset DEF Reachable
    <3> QED
      BY <3>2, FS_CardinalityType
  <2>5. Unpaired(t, theirs) = r - n /\ Unpaired(mine, theirs) = r - m
    BY DEF Unpaired
  <2> HIDE DEF m, n, r
  <2>6. r - n < r - m
    BY <2>3, <2>4
  <2> QED
    BY <2>5, <2>6
<1> QED
  BY <1>2, <1>3

(* Pulling again and again comes to an end.                                *)
THEOREM PullConvergesHolds == Spec => PullConverges
<1>1. SyncInv /\ [Next]_vars =>
         [theirs' = theirs =>
             \/ SameContent'
             \/ Unpaired(mine, theirs)' < Unpaired(mine, theirs)]_vars
  <2> SUFFICES ASSUME SyncInv, Next, theirs' = theirs
               PROVE  \/ SameContent'
                      \/ Unpaired(mine, theirs)' < Unpaired(mine, theirs)
    BY DEF vars
  <2>1. Clone \/ Pull
    BY DEF Next, AddNode, RemoveNode, ChangeValue, ChangeLabel, Edited
  <2>2. CASE Clone
    BY <2>2 DEF Clone, SameContent
  <2>3. CASE Pull
    <3>1. mine' = ApplyPatch(mine, Pending)
      BY <2>3 DEF Pull, Pending
    <3>2. \/ Canon(mine', RootId) = Canon(theirs, RootId)
          \/ Unpaired(mine', theirs) < Unpaired(mine, theirs)
      BY <3>1, PullsConverge
    <3>3. Unpaired(mine, theirs)' = Unpaired(mine', theirs)
      OBVIOUS
    <3> QED
      BY <3>2, <3>3 DEF SameContent
  <2> QED
    BY <2>1, <2>2, <2>3
<1> QED
  BY <1>1, SyncInvHolds, PTL DEF Spec, PullConverges
============================================================================
