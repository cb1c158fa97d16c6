------------------------------ MODULE AstDiff ------------------------------
(***************************************************************************)
(* The diff engine of src/src/diff.rs: patches, the patch that leads from  *)
(* one tree to another, and what applying a patch does to a tree.          *)
(***************************************************************************)
EXTENDS AstTree

(* DiffOp.  old_value, old_label and the indexes are carried by the code   *)
(* and compared by ==, though apply_patch reads none of them.              *)
Insert(p, i, n) ==
    [op |-> "Insert", target |-> p, index |-> i,
     kind |-> n.kind, label |-> n.label, value |-> n.value]
Delete(id) == [op |-> "Delete", target |-> id]
Update(id, v, w) == [op |-> "Update", target |-> id, old |-> v, value |-> w]
Relabel(id, l, m) == [op |-> "Relabel", target |-> id, old |-> l, label |-> m]
Move(id, p, i) == [op |-> "Move", target |-> id, parent |-> p, index |-> i]

(* PartialEq of DiffOp: fieldwise, hence through SameValue.                *)
SameOp(a, b) ==
    /\ a = b
    /\ a.op \in {"Insert", "Update"} => a.value \notin NaNs
    /\ a.op = "Update" => a.old \notin NaNs

----------------------------------------------------------------------------
(* diff_trees                                                              *)

(* How many of the first i children in s are live and have the key of the  *)
(* i-th: the position of the i-th in the candidate list of its key.        *)
Rank(t, s, i) ==
    Cardinality({j \in 1..i : IsLive(t, s[j]) /\ Key(t, s[j]) = Key(t, s[i])})

(* Mutant of Matches: matched_new is never set.                            *)
MatchesByKeyAlone(old, new, os, ns) ==
    {p \in (DOMAIN os) \X (DOMAIN ns) :
        /\ IsLive(old, os[p[1]])
        /\ IsLive(new, ns[p[2]])
        /\ Key(old, os[p[1]]) = Key(new, ns[p[2]])}

(* The pairs of positions the first pass matches: candidates are taken in  *)
(* order, so the k-th old child of a key meets the k-th new child of it.   *)
Matches(old, new, os, ns) ==
    {p \in (DOMAIN os) \X (DOMAIN ns) :
        /\ IsLive(old, os[p[1]])
        /\ IsLive(new, ns[p[2]])
        /\ Key(old, os[p[1]]) = Key(new, ns[p[2]])
        /\ Rank(old, os, p[1]) = Rank(new, ns, p[2])}

When(cond, op) == IF cond THEN <<op>> ELSE << >>

(* Mutant of OwnOps: a value that is taken away is no change.              *)
OwnOpsUnlessCleared(id, o, n) ==
    When(o.label # n.label, Relabel(id, o.label, n.label))
      \o When(n.value # NoValue /\ ~SameValue(o.value, n.value),
              Update(id, o.value, n.value))

OwnOps(id, o, n) ==
    When(o.label # n.label, Relabel(id, o.label, n.label))
      \o When(~SameValue(o.value, n.value), Update(id, o.value, n.value))

(* Mutant of Deletions: matched_old is never set.                          *)
DeletionsOfAll(os, matches) ==
    [i \in DOMAIN os |-> Delete(os[i])]

Deletions(os, matches) ==
    FlattenSeq([i \in DOMAIN os |->
        When(\A m \in matches : m[1] # i, Delete(os[i]))])

(* Mutant of Insertions: the parent is named by its id in the new tree.    *)
InsertionsBelowNew(id, new, ns, matches) ==
    FlattenSeq([i \in DOMAIN ns |->
        When((\A m \in matches : m[2] # i) /\ IsLive(new, ns[i]),
             Insert(new.parent[ns[i]], i - 1, new.node[ns[i]]))])

(* Mutant of Insertions: the scan starts at the second child.              *)
InsertionsAfterFirst(id, new, ns, matches) ==
    FlattenSeq([i \in DOMAIN ns |->
        When(i > 1 /\ (\A m \in matches : m[2] # i) /\ IsLive(new, ns[i]),
             Insert(id, i - 1, new.node[ns[i]]))])

(* The position is that in the new list, counted from 0.                   *)
Insertions(id, new, ns, matches) ==
    FlattenSeq([i \in DOMAIN ns |->
        When((\A m \in matches : m[2] # i) /\ IsLive(new, ns[i]),
             Insert(id, i - 1, new.node[ns[i]]))])

(* diff_subtree, with the answers of its recursive calls.                  *)
DiffSubtree(diff, old, new, oid, nid) ==
    LET os == old.node[oid].children
        ns == new.node[nid].children
        matches == Matches(old, new, os, ns)
        partner(i) == ns[(CHOOSE m \in matches : m[1] = i)[2]]
    IN OwnOps(oid, old.node[oid], new.node[nid])
         \o FlattenSeq([i \in DOMAIN os |->
                IF \E m \in matches : m[1] = i
                THEN diff[<<os[i], partner(i)>>] ELSE << >>])
         \o Deletions(os, matches)
         \o Insertions(oid, new, ns, matches)

DiffTrees(old, new) ==
    LET diff[p \in (DOMAIN old.node) \X (DOMAIN new.node)] ==
            DiffSubtree(diff, old, new, p[1], p[2])
    IN IF IsLive(old, RootId) /\ IsLive(new, RootId)
       THEN diff[<<RootId, RootId>>] ELSE << >>

----------------------------------------------------------------------------
(* apply_patch                                                             *)

(* The node leaves the list of the parent parent_index names and joins the *)
(* list of the new one; parent_index keeps its old entry.                  *)
MoveNode(t, id, p) ==
    LET out == Detach(t, id) IN
    IF IsLive(t, p)
    THEN [out EXCEPT !.node[p].children = Append(@, id)] ELSE out

ApplyOp(t, o) ==
    CASE o.op = "Insert"  -> AddNodeWithValue(t, o.kind, o.label, o.value, o.target)
      [] o.op = "Delete"  -> RemoveSubtree(t, o.target)
      [] o.op = "Update"  -> SetValue(t, o.target, o.value)
      [] o.op = "Relabel" -> SetLabel(t, o.target, o.label)
      [] o.op = "Move"    -> MoveNode(t, o.target, o.parent)

(* The tree at each step of apply_patch: the i-th is what i operations     *)
(* have made of it.                                                        *)
Applied(t, ops) ==
    LET tree[i \in 0..Len(ops)] ==
            IF i = 0 THEN t ELSE ApplyOp(tree[i - 1], ops[i])
    IN tree

ApplyPatch(t, ops) == Applied(t, ops)[Len(ops)]

----------------------------------------------------------------------------
(* What a patch can carry over (reference definitions).                    *)

(* The node alone.                                                         *)
Bare(node) == Shown(node.kind, node.label, node.value, << >>)

(* The root keeps its kind: no operation changes one.  A child the old     *)
(* tree has no partner for arrives without its descendants.                *)
CarriedNode(carried, old, new, oid, nid) ==
    Shown(old.node[oid].kind, new.node[nid].label, new.node[nid].value,
          [key \in ChildKeys(new, nid) |->
              LET theirs == Siblings(new, nid, key)
                  mine   == Siblings(old, oid, key)
              IN [i \in DOMAIN theirs |->
                     IF i \in DOMAIN mine THEN carried[<<mine[i], theirs[i]>>]
                                          ELSE Bare(new.node[theirs[i]])]])

(* Carried(old, new) is the canonical form of the tree that keeps of `new` *)
(* what one diff brings to `old`: everything matched, and of every         *)
(* unmatched subtree its top node alone.                                   *)
Carried(old, new) ==
    LET carried[p \in (DOMAIN old.node) \X (DOMAIN new.node)] ==
            CarriedNode(carried, old, new, p[1], p[2])
    IN carried[<<RootId, RootId>>]

(* The nodes of the two trees that one diff pairs, down from the roots.    *)
PairsBelow(paired, old, new, oid, nid) ==
    LET os == old.node[oid].children
        ns == new.node[nid].children
    IN {<<oid, nid>>}
         \union UNION {paired[<<os[q[1]], ns[q[2]]>>] :
                          q \in Matches(old, new, os, ns)}

Paired(old, new) ==
    LET paired[p \in (DOMAIN old.node) \X (DOMAIN new.node)] ==
            PairsBelow(paired, old, new, p[1], p[2])
    IN paired[<<RootId, RootId>>]
============================================================================
