-------------------------- MODULE MCThreeWayMerge --------------------------
(* ThreeWayMerge for TLC: the editors start from a chain, from two         *)
(* siblings of different keys or from two siblings of the same key, and    *)
(* use many names for few edits or few names for more.                     *)
EXTENDS ThreeWayMerge

CONSTANTS group, la, lb, v1, nan

Chain ==
    LET t == AddNodeWithValue(NewTree, group, la, NoValue, RootId)
    IN AddNodeWithValue(t, group, lb, NoValue, 1)

Pair(l, m) ==
    LET t == AddNodeWithValue(NewTree, group, l, NoValue, RootId)
    IN AddNodeWithValue(t, group, m, NoValue, RootId)

Wide == [bases |-> {Chain, Pair(la, lb), Pair(la, la)},
         labels |-> {la, lb}, values |-> {v1, nan}, edits |-> 2]

Deep == [bases |-> {Chain, Pair(la, la)},
         labels |-> {la}, values |-> {v1}, edits |-> 3]

WideAndDeep == {Wide, Deep}

WideOnly == {Wide}
============================================================================
