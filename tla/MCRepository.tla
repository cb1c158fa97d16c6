---------------------------- MODULE MCRepository ---------------------------
(* Repository for TLC, with the trees, diff and merge of AstMerge and with *)
(* the symbolic hash.                                                      *)
EXTENDS Repository, AstMerge, SymbolicHash

CONSTANTS group, la, lb, v1, v2

(* What an editor commits: the empty tree, one node with either value, and *)
(* a second node below it, or beside it and below it.                      *)
OneNode(v) == AddNodeWithValue(NewTree, group, la, v, RootId)

Drawings == {NewTree, OneNode(v1), OneNode(v2),
             AddNodeWithValue(OneNode(v1), group, lb, v1, 1),
             AddNodeWithValue(
               AddNodeWithValue(OneNode(v1), group, lb, v1, RootId),
               group, lb, v1, 1)}
============================================================================
