----------------------------- MODULE SceneCalls ----------------------------
(***************************************************************************)
(* The functions of the C interface (src/src/ffi.rs) that work on a tree,  *)
(* as a program calls them that keeps what they answer and gives it back:  *)
(* the answer of one call is the parent or the node of a later one.  A     *)
(* call that fails answers an id, too.                                     *)
(*                                                                         *)
(* A handle is the tree it points to, or Null, as in a moved-from object   *)
(* of AliceVcs.h.  A label is given as bytes, which may be no UTF-8.       *)
(***************************************************************************)
EXTENDS AstDiff, CInterface

CONSTANTS
    NotText,    \* a label that is not UTF-8
    MaxId,      \* u32::MAX
    MaxNodes    \* bound on the nodes a program adds

ASSUME MaxNodesAssumption == MaxNodes \in 1..(MaxId - 1)

VARIABLES
    scene,      \* the tree
    answers     \* the ids the program was answered, and whether a call that
                \* failed is behind them

sceneVars == <<scene, answers>>

(* Mutant of NoId: 0 stands for failure, as in the other functions.        *)
NoIdZero == 0

NoId == MaxId

----------------------------------------------------------------------------
(* The functions that only answer.                                         *)

NodeCount(tree) == IF tree = Null THEN 0 ELSE Cardinality(DOMAIN tree.node)

TreeRootId(tree) == IF tree = Null THEN NoId ELSE RootId

(* The label, or a null pointer.  A label that came as a C string has no   *)
(* NUL in it, so CString::new takes it.                                    *)
GetLabel(tree, id) ==
    IF tree # Null /\ IsLive(tree, id) THEN tree.node[id].label ELSE Null

(* The kind, or 255, which is the kind Custom.                             *)
GetKind(tree, id) ==
    IF tree # Null /\ IsLive(tree, id) THEN tree.node[id].kind ELSE "Custom"

(* The set of what was hashed: the hash 0 of a null handle is empty.       *)
SubtreeHash(tree, id) == IF tree = Null THEN {} ELSE {HashedText(tree, id)}

(* AliceVcsDiffStats, or nothing when a handle is null.  The size of the   *)
(* patch in bytes is left out.                                             *)
DiffStats(old, new) ==
    IF Null \in {old, new} THEN {}
    ELSE LET ops == DiffTrees(old, new)
             count(op) == Cardinality({i \in DOMAIN ops : ops[i].op = op})
         IN {[insert |-> count("Insert"), delete |-> count("Delete"),
              update |-> count("Update"), relabel |-> count("Relabel"),
              move   |-> count("Move"),   total   |-> Len(ops)]}

----------------------------------------------------------------------------
(* The calls of the program.                                               *)

SceneInit == scene = NewTree /\ answers = {}

Answered(id, sound) == answers' = answers \union {[id |-> id, sound |-> sound]}

AskRootId(tree) ==
    /\ Answered(TreeRootId(tree), tree # Null)
    /\ UNCHANGED scene

(* A node is added with a null handle or label, or one that is not UTF-8.  *)
AddFails(tree, label) == tree = Null \/ label \in {Null, NotText}

TreeAddNode(tree, kind, label, value, parent) ==
    IF AddFails(tree, label)
    THEN Answered(NoId, FALSE) /\ UNCHANGED scene
    ELSE /\ scene.next <= MaxNodes
         /\ scene' = AddNodeWithValue(scene, kind, label, value, parent.id)
         /\ Answered(scene.next, parent.sound)

AddNode(tree, kind, label, parent) ==
    TreeAddNode(tree, kind, label, NoValue, parent)

AddNodeFloat(tree, kind, label, value, parent) ==
    TreeAddNode(tree, kind, label, value, parent)

(* Mutant of TreeRemoveSubtree: the ids from the removed one on are given  *)
(* out again.                                                              *)
TreeRemoveSubtreeReuse(tree, node) ==
    /\ tree # Null
    /\ scene' = [RemoveSubtree(scene, node.id) EXCEPT
                    !.next = IF IsLive(scene, node.id) THEN node.id ELSE @]
    /\ UNCHANGED answers

TreeRemoveSubtree(tree, node) ==
    /\ tree # Null
    /\ scene' = RemoveSubtree(scene, node.id)
    /\ UNCHANGED answers

SceneNext ==
    \E tree \in {scene, Null} :
        \/ AskRootId(tree)
        \/ \E a \in answers, kind \in Kinds, label \in Labels \union {Null, NotText} :
              \/ AddNode(tree, kind, label, a)
              \/ \E value \in Values : AddNodeFloat(tree, kind, label, value, a)
        \/ \E a \in answers : TreeRemoveSubtree(tree, a)

----------------------------------------------------------------------------
(* A call that fails leaves no trace.  When its answer is the parent of a  *)
(* node, and that node the parent of others, those calls succeed, and      *)
(* node_count counts the nodes; but no hash of any other node, no diff     *)
(* with the tree itself and none with an empty one shows them, whatever is *)
(* added and removed around them.                                          *)
FailuresLeaveNoTrace ==
    LET behind == {a.id : a \in {b \in answers : ~b.sound}} \ {NoId}
        rest   == [scene EXCEPT !.node = Restrict(@, DOMAIN @ \ behind)]
    IN /\ \A id \in DOMAIN rest.node :
             SubtreeHash(scene, id) = SubtreeHash(rest, id)
       /\ \A other \in {scene, NewTree} :
             /\ DiffStats(other, scene) = DiffStats(other, rest)
             /\ DiffStats(scene, other) = DiffStats(rest, other)
       /\ NodeCount(scene)
            = NodeCount(rest) + Cardinality(behind \intersect DOMAIN scene.node)

(* An id the program was answered keeps its meaning: the node it names     *)
(* keeps its label and kind until it is removed, and no later node has the *)
(* id of one that was removed, nor the id that stands for failure.         *)
IdsKeepMeaning ==
    [][\A a \in answers :
          IsLive(scene', a.id) =>
             /\ GetLabel(scene', a.id) = GetLabel(scene, a.id)
             /\ GetKind(scene', a.id) = GetKind(scene, a.id)]_sceneVars
============================================================================
