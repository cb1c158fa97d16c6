----------------------------- MODULE MCDiffSync ----------------------------
(* DiffSync for TLC: kinds are interchangeable, and so are labels.         *)
EXTENDS DiffSync

NameSymmetry == Permutations(Labels) \union Permutations(Kinds)
============================================================================
