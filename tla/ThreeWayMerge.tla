--------------------------- MODULE ThreeWayMerge ---------------------------
(***************************************************************************)
(* Two editors start from copies of one tree, edit them through the        *)
(* AstTree interface and merge: diff_trees from the base to each copy,     *)
(* merge_patches, and apply_patch of the result to the base, the steps of  *)
(* Repository::merge in src/src/commit.rs.  A result with conflicts is     *)
(* resolved first (src/src/resolve.rs).                                    *)
(***************************************************************************)
EXTENDS AstResolve

CONSTANTS
    Sessions    \* [bases, labels, values, edits]: the trees two editors may
                \* start from, the names and values they use, and the bound
                \* on their edits together

ASSUME SessionsAssumption ==
    \A s \in Sessions : s.edits \in Nat /\ \A t \in s.bases : IsTree(t)

VARIABLES
    session,    \* one of Sessions, chosen at the start
    base,       \* the tree both copies were made from
    copy,       \* copy["ours"] and copy["theirs"]
    edits       \* edits made so far (only for the bound)

vars == <<session, base, copy, edits>>

Sides == {"ours", "theirs"}

Init ==
    /\ session \in Sessions
    /\ base \in session.bases
    /\ copy = [s \in Sides |-> base]
    /\ edits = 0

Edited(s, t) ==
    /\ edits < session.edits
    /\ t # copy[s]
    /\ copy' = [copy EXCEPT ![s] = t]
    /\ edits' = edits + 1
    /\ UNCHANGED <<session, base>>

AddNode(s, kind, label, value, p) ==
    Edited(s, AddNodeWithValue(copy[s], kind, label, value, p))

RemoveNode(s, id) == Edited(s, RemoveSubtree(copy[s], id))

ChangeValue(s, id, v) == Edited(s, SetValue(copy[s], id, v))

ChangeLabel(s, id, l) == Edited(s, SetLabel(copy[s], id, l))

Patch(s) == DiffTrees(base, copy[s])

Results == MergePatches(Patch("ours"), Patch("theirs"))

MergedTree(result) == ApplyPatch(base, result.merged)

(* A clean merge; both editors go on from its tree.                        *)
Merge(result) ==
    /\ IsClean(result)
    /\ base' = MergedTree(result)
    /\ copy' = [s \in Sides |-> base']
    /\ UNCHANGED <<session, edits>>

(* A merge with conflicts, settled by one strategy for all of them.        *)
Resolve(result, strategy) ==
    /\ ~IsClean(result)
    /\ base' = ApplyPatch(base, ResolveMerge(result, strategy))
    /\ copy' = [s \in Sides |-> base']
    /\ UNCHANGED <<session, edits>>

Next ==
    \/ \E s \in Sides, kind \in Kinds, label \in session.labels,
          value \in session.values \union {NoValue} :
          \E p \in DOMAIN copy[s].node : AddNode(s, kind, label, value, p)
    \/ \E s \in Sides : \E id \in DOMAIN copy[s].node \ {RootId} :
          RemoveNode(s, id)
    \/ \E s \in Sides, v \in session.values : \E id \in DOMAIN copy[s].node :
          ChangeValue(s, id, v)
    \/ \E s \in Sides, l \in session.labels : \E id \in DOMAIN copy[s].node :
          ChangeLabel(s, id, l)
    \/ \E result \in Results : Merge(result)
    \/ \E result \in Results, strategy \in Strategies :
          Resolve(result, strategy)

Spec == Init /\ [][Next]_vars

----------------------------------------------------------------------------
(* What a three-way merge means, said of the trees and not of the patches. *)

(* The nodes copy[s] has below y that stand for no node of the base (with  *)
(* their places), given the pairs that diff_trees matches.                 *)
Added(s, y, pairs) ==
    LET cs == copy[s].node[y].children IN
    Retain([i \in DOMAIN cs |-> [at |-> i, node |-> Bare(copy[s].node[cs[i]])]],
           {i \in DOMAIN cs : \A p \in pairs : p[2] # cs[i]})

Unchanged(x) ==
    [gone |-> FALSE, label |-> base.node[x].label,
     value |-> base.node[x].value, added |-> << >>]

(* What an editor did to each node of the base itself: nothing is said of  *)
(* a node below one that was removed.                                      *)
Changes(s) ==
    LET pairs == Paired(base, copy[s])
        paired(x) == \E p \in pairs : p[1] = x
    IN [x \in DOMAIN base.node |->
          IF paired(x)
          THEN LET y == (CHOOSE p \in pairs : p[1] = x)[2] IN
               [gone |-> FALSE, label |-> copy[s].node[y].label,
                value |-> copy[s].node[y].value, added |-> Added(s, y, pairs)]
          ELSE [Unchanged(x) EXCEPT !.gone = paired(base.parent[x])]]

(* The nodes both editors changed, each in a way of its own; a value that  *)
(* is not == to itself counts as changed by both, and never as changed     *)
(* alike.                                                                  *)
Clashes ==
    LET change == [s \in Sides |-> Changes(s)]
        changed(s, x) ==
            \/ change[s][x] # Unchanged(x)
            \/ /\ base.node[x].value \in NaNs
               /\ \E p \in Paired(base, copy[s]) : p[1] = x
        values(c) == {c.value} \union {c.added[i].node.value : i \in DOMAIN c.added}
        alike(x) ==
            /\ change["ours"][x] = change["theirs"][x]
            /\ \/ change["ours"][x].gone
               \/ NaNs \intersect (values(change["ours"][x])
                                     \union {base.node[x].value}) = {}
    IN {x \in Reachable(base) :
          (\A s \in Sides : changed(s, x)) /\ ~alike(x)}

(* The change of x that is taken: the one pick tells, otherwise that of    *)
(* the editor who made one.                                                *)
Taken(changed, pick, x) ==
    IF x \in DOMAIN pick
    THEN CASE pick[x] = "Ours"   -> changed["ours"][x]
           [] pick[x] = "Theirs" -> changed["theirs"][x]
           [] pick[x] = "Drop"   -> Unchanged(x)
    ELSE IF changed["ours"][x] # Unchanged(x)
         THEN changed["ours"][x] ELSE changed["theirs"][x]

(* The children of x in the base that are not gone.                        *)
Kept(change, x) ==
    LET s == base.node[x].children IN
    Retain(s, {i \in DOMAIN s : ~change[s[i]].gone})

(* Those with a given key, and the added nodes with that key.              *)
KeptAs(kept, key) ==
    Retain(kept, {i \in DOMAIN kept : Key(base, kept[i]) = key})

AddedAs(added, key) ==
    LET nodes == [i \in DOMAIN added |-> added[i].node] IN
    Retain(nodes, {i \in DOMAIN nodes : <<nodes[i].kind, nodes[i].label>> = key})

MergedNode(merged, change, x) ==
    LET kept  == Kept(change, x)
        added == change[x].added
        keys  == {Key(base, y) : y \in ToSet(kept)}
                   \union {<<a.node.kind, a.node.label>> : a \in ToSet(added)}
    IN Shown(base.node[x].kind, change[x].label, change[x].value,
             [key \in keys |-> Each(merged, KeptAs(kept, key)) \o AddedAs(added, key)])

(* The tree of the base in which every node carries the change of the      *)
(* editor who changed it and, where both did, the change pick tells.       *)
MergedBy(pick) ==
    LET changed == [s \in Sides |-> Changes(s)]
        change == [x \in DOMAIN base.node |-> Taken(changed, pick, x)]
        merged[x \in DOMAIN base.node] == MergedNode(merged, change, x)
    IN merged[RootId]

----------------------------------------------------------------------------
(* Both copies stay trees, also when the next round starts from a merged   *)
(* or resolved one: child lists and parent_index agree on every node.      *)
TypeOK ==
    /\ \A s \in Sides : IsTree(copy[s])
    /\ edits \in 0..session.edits

(* The nodes merge_patches reports are those both editors changed, each in *)
(* its own way; a change both made alike is no conflict, and neither is a  *)
(* change inside a subtree the other removed.                              *)
ConflictsAreClashes ==
    \A result \in Results : ConflictNodes(result) = Clashes

(* A clean merge gives the tree in which every node carries the change of  *)
(* the editor who changed it, whatever the order of the two patches and of *)
(* the set of common nodes: filtering, deduplicating and concatenating     *)
(* operations loses no change and makes none twice.                        *)
CleanMergeIsThreeWay ==
    \A result \in Results :
        IsClean(result) => Canon(MergedTree(result), RootId) = MergedBy(<< >>)

(* Resolving conflict by conflict gives the tree in which each contested   *)
(* node carries the change that was picked for it and every other node the *)
(* change that was made to it, although the picked operations come last,   *)
(* in the order of a hash set, and the strategies go by position.          *)
ResolutionIsPicked ==
    \A result \in Results :
        \A pick \in [ConflictNodes(result) -> {"Ours", "Theirs", "Drop"}] :
            LET chosen == [i \in DOMAIN result.conflicts |->
                              pick[result.conflicts[i].node]]
                patch  == ResolveSelective(result, chosen, "Drop")
            IN Canon(ApplyPatch(base, patch), RootId) = MergedBy(pick)

(* Merging theirs into ours and ours into theirs agree on the conflicts    *)
(* and, when there are none, on the content.                               *)
MergeCommutes ==
    \A r \in Results, q \in MergePatches(Patch("theirs"), Patch("ours")) :
        /\ ConflictNodes(r) = ConflictNodes(q)
        /\ IsClean(r) => Canon(MergedTree(r), RootId)
                           = Canon(MergedTree(q), RootId)

(* "Conflict Resolution - structural merge on non-overlapping subtrees,    *)
(* manual merge on conflicts" (README.md:24): when a merge is clean, every *)
(* node an editor added or gave a value is in the merged tree.             *)
CleanMergeKeepsEdits ==
    \A result \in Results : IsClean(result) =>
        \A s \in Sides : \A i \in DOMAIN Patch(s) :
            Patch(s)[i].op \in {"Insert", "Update"} =>
                Patch(s)[i].target \in Reachable(MergedTree(result))
============================================================================
