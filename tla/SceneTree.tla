------------------------------ MODULE SceneTree -----------------------------
(***************************************************************************)
(* What an AstTree of src/src/ast.rs is to its callers: a map from ids to  *)
(* nodes, with the operators of AstTree for its operations.  Ids are drawn *)
(* from a counter of finite width.  Any id may be given for a parent or    *)
(* for the node to work on, live or not.                                   *)
(***************************************************************************)
EXTENDS AstDiff

CONSTANT IdMod      \* 2^32, the number of ids

VARIABLE tree

Ids == 0..(IdMod - 1)

Init == tree = NewTree

AddNode(kind, label, value, p) ==
    tree' = [AddNodeWithValue(tree, kind, label, value, p) EXCEPT !.next = @ % IdMod]

RemoveNode(id) == tree' = RemoveSubtree(tree, id)

ChangeValue(id, v) == tree' = SetValue(tree, id, v)

ChangeLabel(id, l) == tree' = SetLabel(tree, id, l)

MoveChild(id, p) == tree' = MoveNode(tree, id, p)

Next ==
    \/ \E kind \in Kinds, label \in Labels, value \in Values, p \in Ids :
          AddNode(kind, label, value, p)
    \/ \E id \in Ids : RemoveNode(id)
    \/ \E id \in Ids, v \in Values \union {NoValue} : ChangeValue(id, v)
    \/ \E id \in Ids, l \in Labels : ChangeLabel(id, l)
    \/ \E id, p \in Ids : MoveChild(id, p)

Spec == Init /\ [][Next]_tree
============================================================================
