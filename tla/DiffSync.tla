------------------------------ MODULE DiffSync -----------------------------
(***************************************************************************)
(* Two copies of a scene kept in step by patches, as the callers of        *)
(* src/src/diff.rs use it: `theirs` is edited through the AstTree          *)
(* interface, `mine` follows it, by clone or by applying the patch that    *)
(* diff_trees computes.  After a few rounds the two copies number their    *)
(* nodes differently and list siblings in different orders.                *)
(***************************************************************************)
EXTENDS AstDiff

CONSTANTS
    MaxEdits    \* bound on the edits made to `theirs`

ASSUME MaxEditsAssumption == MaxEdits \in Nat

VARIABLES
    mine,       \* the tree that is brought up to date
    theirs,     \* the tree that is edited
    edits       \* edits made so far (only for the bound)

vars == <<mine, theirs, edits>>

Init ==
    /\ mine = NewTree
    /\ theirs = NewTree
    /\ edits = 0

Edited(t) ==
    /\ edits < MaxEdits
    /\ t # theirs
    /\ theirs' = t
    /\ edits' = edits + 1
    /\ UNCHANGED mine

AddNode(kind, label, value, p) ==
    Edited(AddNodeWithValue(theirs, kind, label, value, p))

RemoveNode(id) == Edited(RemoveSubtree(theirs, id))

ChangeValue(id, v) == Edited(SetValue(theirs, id, v))

ChangeLabel(id, l) == Edited(SetLabel(theirs, id, l))

(* mine = theirs.clone()                                                   *)
Clone ==
    /\ mine' = theirs
    /\ UNCHANGED <<theirs, edits>>

(* apply_patch(&mut mine, &diff_trees(&mine, &theirs))                     *)
Pull ==
    /\ mine' = ApplyPatch(mine, DiffTrees(mine, theirs))
    /\ UNCHANGED <<theirs, edits>>

Next ==
    \/ \E kind \in Kinds, label \in Labels, value \in Values \union {NoValue},
          p \in DOMAIN theirs.node : AddNode(kind, label, value, p)
    \/ \E id \in DOMAIN theirs.node \ {RootId} : RemoveNode(id)
    \/ \E id \in DOMAIN theirs.node, v \in Values \union {NoValue} : ChangeValue(id, v)
    \/ \E id \in DOMAIN theirs.node, l \in Labels : ChangeLabel(id, l)
    \/ Clone
    \/ Pull

Spec == Init /\ [][Next]_vars

----------------------------------------------------------------------------
Pending == DiffTrees(mine, theirs)

SameContent == Canon(mine, RootId) = Canon(theirs, RootId)

(* Both copies stay trees: child lists and parent_index tell the same      *)
(* parent for every node, through any sequence of edits and patches, so    *)
(* that diff and remove_subtree can walk them and a Delete detaches the    *)
(* node it removes.                                                        *)
TypeOK ==
    /\ IsTree(mine)
    /\ IsTree(theirs)
    /\ Reachable(mine) = DOMAIN mine.node
    /\ Reachable(theirs) = DOMAIN theirs.node
    /\ edits \in 0..MaxEdits

(* diff_trees is silent exactly when there is nothing to say: an empty     *)
(* patch means equal content, and equal content gives an empty patch       *)
(* unless a value in it is not == to itself.                               *)
SilentIffSame ==
    LET ops == Pending IN
    IF SameContent
    THEN \A i \in DOMAIN ops : ops[i].op = "Update" /\ ops[i].value \in NaNs
    ELSE ops # << >>

(* apply_patch brings over precisely what a diff can carry: matched nodes  *)
(* take the new label and value, unmatched old subtrees go, unmatched new  *)
(* nodes arrive without their descendants, and same-key siblings end in    *)
(* the order of the new tree, whatever ids and positions the copies use.   *)
PullCarries ==
    Canon(ApplyPatch(mine, Pending), RootId) = Carried(mine, theirs)

(* A patch never refers to a node of the other tree, nor to one an earlier *)
(* operation of the same patch has removed: apply_patch would skip such an *)
(* operation in silence, or leave an orphan.                               *)
OpsHitLiveNodes ==
    LET ops == Pending IN
    \A i \in DOMAIN ops : IsLive(Applied(mine, ops)[i - 1], ops[i].target)

(* merge_patches pairs the operations of two branches by their target, so  *)
(* what a patch says about one node must be coherent: it is deleted by one *)
(* operation that is the only one on it, and apart from insertions below   *)
(* it no kind of operation is given twice.                                 *)
CoherentOnTarget ==
    LET ops == Pending IN
    \A i, j \in DOMAIN ops :
        i < j /\ ops[i].target = ops[j].target =>
            /\ "Delete" \notin {ops[i].op, ops[j].op}
            /\ ops[i].op = ops[j].op => ops[i].op = "Insert"

(* Pulling again and again comes to an end: a step of `mine` that does not *)
(* leave the copies with the same content leaves fewer nodes of `theirs`   *)
(* without a partner in `mine` than there were before it.                  *)
Unpaired(old, new) ==
    Cardinality(Reachable(new)) - Cardinality(Paired(old, new))

PullConverges ==
    [][theirs' = theirs =>
          \/ SameContent'
          \/ Unpaired(mine, theirs)' < Unpaired(mine, theirs)]_vars

(* "Compute diff operations to transform `old` tree into `new` tree"       *)
(* (diff.rs:65): the patched tree says what the new one says.              *)
PatchReproducesTree ==
    Canon(ApplyPatch(mine, Pending), RootId) = Canon(theirs, RootId)
============================================================================
