------------------------------ MODULE AstMerge -----------------------------
(***************************************************************************)
(* merge_patches of src/src/merge.rs: two patches against one tree become  *)
(* one patch and a list of conflicts.                                      *)
(***************************************************************************)
EXTENDS AstDiff

(* op_target_node is the field `target`; an Insert targets its parent.     *)
Affected(ops) == {ops[i].target : i \in DOMAIN ops}

OpsOn(ops, id) == Retain(ops, {i \in DOMAIN ops : ops[i].target = id})

(* Mutant of OpsOff: insertions are never held back.                       *)
OpsOffOrInsert(ops, ids) ==
    Retain(ops, {i \in DOMAIN ops :
                    ops[i].target \notin ids \/ ops[i].op = "Insert"})

OpsOff(ops, ids) == Retain(ops, {i \in DOMAIN ops : ops[i].target \notin ids})

(* Mutant of SameOps: only the number of operations is compared.           *)
SameOpsByCount(s, u) == Len(s) = Len(u)

(* Mutant of SameOps: the comparison stops at the end of the first.        *)
SameOpsByZip(s, u) ==
    /\ Len(s) <= Len(u)
    /\ \A i \in DOMAIN s : SameOp(s[i], u[i])

(* == of two vectors of operations.                                        *)
SameOps(s, u) ==
    /\ Len(s) = Len(u)
    /\ \A i \in DOMAIN s : SameOp(s[i], u[i])

(* The results merge_patches may return.  The nodes both patches affect    *)
(* are visited in the iteration order of a HashSet, which is any order (in *)
(* a no_std build the set is a BTreeSet and the order is ascending, one of *)
(* them).                                                                  *)
MergePatches(a, b) ==
    LET both == Affected(a) \intersect Affected(b)
        agreed(id) == SameOps(OpsOn(a, id), OpsOn(b, id))
        visit(order) ==
            [merged |->
                 OpsOff(a, Affected(b)) \o OpsOff(b, Affected(a))
                   \o FlattenSeq([i \in DOMAIN order |->
                          IF agreed(order[i]) THEN OpsOn(a, order[i])
                                              ELSE << >>]),
             conflicts |->
                 LET clashes == Retain(order, {i \in DOMAIN order :
                                                  ~agreed(order[i])}) IN
                 [i \in DOMAIN clashes |->
                     [node |-> clashes[i],
                      a |-> OpsOn(a, clashes[i]),
                      b |-> OpsOn(b, clashes[i])]]]
    IN {visit(order) : order \in SetToSeqs(both)}

IsClean(result) == result.conflicts = << >>

ConflictNodes(result) ==
    {result.conflicts[i].node : i \in DOMAIN result.conflicts}
============================================================================
