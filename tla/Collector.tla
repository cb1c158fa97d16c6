------------------------------ MODULE Collector -----------------------------
(***************************************************************************)
(* What collect_garbage and dry_run of src/src/gc.rs promise the owner of  *)
(* a snapshot store.  The owner calls one of them with some roots, and     *)
(* cannot touch the store until it answers.  collect_garbage answers when, *)
(* in one step, everything has gone that cannot be reached from those      *)
(* roots, and nothing else; dry_run answers the same and leaves the store  *)
(* as it is.                                                               *)
(***************************************************************************)
EXTENDS Naturals, Sequences, FiniteSets, SequencesExt, Functions, Maps

CONSTANTS
    Hashes,     \* the hashes of snapshots
    Snapshots   \* what is stored: sequences of parent hashes

VARIABLES
    store,      \* hash -> sequence of parent hashes
    call        \* the function that runs, its roots, and its answer if any

vars == <<store, call>>

Idle == [f |-> "none", roots |-> {}, answers |-> {}]

Init == store = << >> /\ call = Idle

(* S has the stored hashes of R and all that can be reached from them.     *)
Closed(R, S) ==
    /\ R \intersect DOMAIN store \subseteq S
    /\ \A h \in S : ToSet(store[h]) \intersect DOMAIN store \subseteq S

ReachableFrom(R) ==
    {h \in DOMAIN store : \A S \in SUBSET DOMAIN store : Closed(R, S) => h \in S}

(* The owner, between two calls.                                           *)
StoreSnapshot(h, parents) ==
    /\ call = Idle
    /\ store' = Put(store, h, parents)
    /\ UNCHANGED call

RemoveSnapshot(h) ==
    /\ call = Idle
    /\ store' = Restrict(store, DOMAIN store \ {h})
    /\ UNCHANGED call

Call(f, R) ==
    /\ call = Idle
    /\ call' = [f |-> f, roots |-> R, answers |-> {}]
    /\ UNCHANGED store

(* The figures of a call: they are those of the store it was made on.      *)
Answer ==
    LET kept == ReachableFrom(call.roots) IN
    [retained  |-> Cardinality(kept),
     collected |-> Cardinality(DOMAIN store \ kept),
     total     |-> Cardinality(DOMAIN store)]

CollectGarbage ==
    /\ call.f = "collect" /\ call.answers = {}
    /\ store' = Restrict(store, ReachableFrom(call.roots))
    /\ call' = [call EXCEPT !.answers = {Answer}]

DryRun ==
    /\ call.f = "dry" /\ call.answers = {}
    /\ call' = [call EXCEPT !.answers = {Answer}]
    /\ UNCHANGED store

Return ==
    /\ call.answers # {}
    /\ call' = Idle
    /\ UNCHANGED store

Next ==
    \/ \E h \in Hashes, parents \in Snapshots : StoreSnapshot(h, parents)
    \/ \E h \in Hashes : RemoveSnapshot(h)
    \/ \E f \in {"collect", "dry"}, R \in SUBSET Hashes : Call(f, R)
    \/ CollectGarbage
    \/ DryRun
    \/ Return

Spec == Init /\ [][Next]_vars
============================================================================
