----------------------------- MODULE AstResolve ----------------------------
(***************************************************************************)
(* Conflict resolution of src/src/resolve.rs: a merge result and a choice  *)
(* of strategies become one patch.                                         *)
(***************************************************************************)
EXTENDS AstMerge

Strategies == {"Ours", "Theirs", "Union", "Drop"}

ResolveConflict(conflict, strategy) ==
    CASE strategy = "Ours"   -> conflict.a
      [] strategy = "Theirs" -> conflict.b
      [] strategy = "Union"  -> conflict.a \o conflict.b
      [] strategy = "Drop"   -> << >>

(* Mutant of ResolveSelective: strategies are counted from 0.              *)
ResolveSelectiveFromZero(result, strategies, default) ==
    result.merged
      \o FlattenSeq([i \in DOMAIN result.conflicts |->
            ResolveConflict(result.conflicts[i],
                IF i + 1 \in DOMAIN strategies THEN strategies[i + 1]
                                               ELSE default)])

(* The i-th strategy is for the i-th conflict, the default for the rest.   *)
ResolveSelective(result, strategies, default) ==
    result.merged
      \o FlattenSeq([i \in DOMAIN result.conflicts |->
            ResolveConflict(result.conflicts[i],
                IF i \in DOMAIN strategies THEN strategies[i] ELSE default)])

(* resolve_merge, through resolve_all.                                     *)
ResolveMerge(result, strategy) ==
    result.merged
      \o FlattenSeq([i \in DOMAIN result.conflicts |->
            ResolveConflict(result.conflicts[i], strategy)])
============================================================================
