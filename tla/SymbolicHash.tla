---------------------------- MODULE SymbolicHash ---------------------------
(***************************************************************************)
(* The hashes of src/src/store.rs as symbols: FNV-1a of two texts is taken *)
(* to collide only when the texts are the same, and mixing in a parent     *)
(* (store.rs:53-54) keeps what its construction forces and nothing else.   *)
(* A hash is a set of atoms: xor is the symmetric difference, and the      *)
(* multiplication by an odd prime is injective and keeps 0, the empty set. *)
(***************************************************************************)
EXTENDS AstTree

SymbolicTreeHash(t) == {<<"tree", HashedText(t, RootId)>>}

SymbolicMix(h, p) ==
    LET x == SymDiff(h, p) IN IF x = {} THEN {} ELSE {<<"mul", x>>}

ZeroHash == {}
============================================================================
