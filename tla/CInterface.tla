----------------------------- MODULE CInterface ----------------------------
(***************************************************************************)
(* The C interface (src/src/ffi.rs) as the bindings see it: boxes at       *)
(* addresses, made for objects of two classes.                             *)
(***************************************************************************)
CONSTANTS
    Trees,      \* objects of class AstTree (FAstTree)
    Repos,      \* objects of class Repository (FRepository)
    Addresses,  \* what the allocator hands out
    Null        \* the null pointer

ASSUME NullAssumption == Null \notin Addresses /\ Trees \intersect Repos = {}

Objects == Trees \union Repos
============================================================================
