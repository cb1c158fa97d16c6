--------------------------- MODULE GarbageCollect --------------------------
(***************************************************************************)
(* collect_garbage and dry_run of src/src/gc.rs over a SnapshotStore that  *)
(* an application owns and fills through the methods of src/src/store.rs.  *)
(* Trees are left out: a snapshot is its parents.  Nothing stops the store *)
(* from lacking a parent (remove takes any hash) or, through colliding     *)
(* hashes, from having a snapshot below itself.                            *)
(***************************************************************************)
EXTENDS Naturals, Sequences, FiniteSets, SequencesExt, Functions, Maps

CONSTANTS
    Hashes,         \* the hashes of snapshots, stored or not
    MaxParents,     \* bound on the parents a snapshot is stored with
    MaxRoots        \* bound on the roots a collection is given

ASSUME BoundsAssumption == MaxParents \in Nat /\ MaxRoots \in Nat

VARIABLES
    store,      \* hash -> sequence of parent hashes
    pc,         \* "idle", "mark", "sweep" or "returned"
    mode,       \* the function that runs: "collect" or "dry"
    roots,      \* root_hashes
    all,        \* the store when the function was called (all_hashes)
    pending,    \* roots or parents the loop of mark has still to look at
    queue,      \* the queue of mark, used as a stack
    reachable,  \* the set mark returns
    todo,       \* the hashes of all_hashes the sweep has still to look at
    result      \* the GcResult of the last call

vars == <<store, pc, mode, roots, all, pending, queue, reachable, todo, result>>

SeqsUpTo(n) == UNION {[1..k -> Hashes] : k \in 0..n}

NoResult == [retained |-> 0, collected |-> 0, total |-> 0]

Init ==
    /\ store = << >>
    /\ pc = "idle"
    /\ mode = "dry"
    /\ roots = << >>
    /\ all = << >>
    /\ pending = << >>
    /\ queue = << >>
    /\ reachable = {}
    /\ todo = {}
    /\ result = NoResult

gcvars == <<mode, roots, all, pending, queue, reachable, todo, result>>

----------------------------------------------------------------------------
(* The application, between two calls.                                     *)

StoreSnapshot(h, parents) ==
    /\ pc = "idle"
    /\ store' = Put(store, h, parents)
    /\ UNCHANGED <<pc, gcvars>>

RemoveSnapshot(h) ==
    /\ pc = "idle"
    /\ store' = Restrict(store, DOMAIN store \ {h})
    /\ UNCHANGED <<pc, gcvars>>

Call(m, rs) ==
    /\ pc = "idle"
    /\ pc' = "mark"
    /\ mode' = m
    /\ roots' = rs
    /\ all' = store
    /\ pending' = rs
    /\ UNCHANGED <<store, queue, reachable, todo, result>>

----------------------------------------------------------------------------
(* mark                                                                    *)

(* Mutant of Visit: what is marked is not queued.                          *)
VisitWithoutQueue ==
    /\ pc = "mark"
    /\ pending # << >>
    /\ pending' = Tail(pending)
    /\ reachable' = reachable \union ({Head(pending)} \intersect DOMAIN store)
    /\ UNCHANGED <<store, pc, mode, roots, all, queue, todo, result>>

(* Mutant of Visit: the store is not asked whether it has the hash.        *)
VisitUnstored ==
    /\ pc = "mark"
    /\ pending # << >>
    /\ pending' = Tail(pending)
    /\ LET h == Head(pending) IN
       IF h \notin reachable
       THEN /\ reachable' = reachable \union {h}
            /\ queue' = Append(queue, h)
       ELSE UNCHANGED <<reachable, queue>>
    /\ UNCHANGED <<store, pc, mode, roots, all, todo, result>>

(* Mutant of Visit: only what waits in the queue is not queued again.      *)
VisitIfNotQueued ==
    /\ pc = "mark"
    /\ pending # << >>
    /\ pending' = Tail(pending)
    /\ LET h == Head(pending) IN
       IF h \in DOMAIN store /\ h \notin ToSet(queue)
       THEN /\ reachable' = reachable \union {h}
            /\ queue' = Append(queue, h)
       ELSE UNCHANGED <<reachable, queue>>
    /\ UNCHANGED <<store, pc, mode, roots, all, todo, result>>

(* One turn of the loop over the roots, or of the loop over the parents of *)
(* the snapshot that was popped.                                           *)
Visit ==
    /\ pc = "mark"
    /\ pending # << >>
    /\ pending' = Tail(pending)
    /\ LET h == Head(pending) IN
       IF h \in DOMAIN store /\ h \notin reachable
       THEN /\ reachable' = reachable \union {h}
            /\ queue' = Append(queue, h)
       ELSE UNCHANGED <<reachable, queue>>
    /\ UNCHANGED <<store, pc, mode, roots, all, todo, result>>

Pop ==
    /\ pc = "mark"
    /\ pending = << >>
    /\ queue # << >>
    /\ queue' = Front(queue)
    /\ pending' = IF Last(queue) \in DOMAIN store
                  THEN store[Last(queue)] ELSE << >>
    /\ UNCHANGED <<store, pc, mode, roots, all, reachable, todo, result>>

Marked ==
    /\ pc = "mark"
    /\ pending = << >>
    /\ queue = << >>

(* dry_run counts and returns.                                             *)
Count ==
    /\ Marked
    /\ mode = "dry"
    /\ pc' = "returned"
    /\ result' = [retained  |-> Cardinality(reachable),
                  collected |-> Cardinality(DOMAIN all) - Cardinality(reachable),
                  total     |-> Cardinality(DOMAIN all)]
    /\ UNCHANGED <<store, mode, roots, all, pending, queue, reachable, todo>>

----------------------------------------------------------------------------

(* Mutant of Sweep: what is not itself a root goes.                        *)
SweepAllButRoots(h) ==
    /\ pc = "sweep"
    /\ h \in todo
    /\ todo' = todo \ {h}
    /\ IF h \in ToSet(roots)
       THEN UNCHANGED <<store, result>>
       ELSE /\ store' = Restrict(store, DOMAIN store \ {h})
            /\ result' = [result EXCEPT !.collected = @ + 1]
    /\ UNCHANGED <<pc, mode, roots, all, pending, queue, reachable>>

(* Mutant of Sweep: snapshots that stay are counted as collected.          *)
SweepCountsAll(h) ==
    /\ pc = "sweep"
    /\ h \in todo
    /\ todo' = todo \ {h}
    /\ store' = IF h \in reachable THEN store
                ELSE Restrict(store, DOMAIN store \ {h})
    /\ result' = [result EXCEPT !.collected = @ + 1]
    /\ UNCHANGED <<pc, mode, roots, all, pending, queue, reachable>>

(* Mutant of StartSweep: dry_run goes on to the sweep, too.                *)
StartSweepAlways ==
    /\ Marked
    /\ pc' = "sweep"
    /\ todo' = DOMAIN all
    /\ result' = NoResult
    /\ UNCHANGED <<store, mode, roots, all, pending, queue, reachable>>

(* The sweep of collect_garbage, over the hashes of all_hashes in the      *)
(* order of a HashMap.                                                     *)
StartSweep ==
    /\ Marked
    /\ mode = "collect"
    /\ pc' = "sweep"
    /\ todo' = DOMAIN all
    /\ result' = NoResult
    /\ UNCHANGED <<store, mode, roots, all, pending, queue, reachable>>

Sweep(h) ==
    /\ pc = "sweep"
    /\ h \in todo
    /\ todo' = todo \ {h}
    /\ IF h \in reachable
       THEN UNCHANGED <<store, result>>
       ELSE /\ store' = Restrict(store, DOMAIN store \ {h})
            /\ result' = [result EXCEPT !.collected = @ + 1]
    /\ UNCHANGED <<pc, mode, roots, all, pending, queue, reachable>>

EndSweep ==
    /\ pc = "sweep"
    /\ todo = {}
    /\ pc' = "returned"
    /\ LET total == Cardinality(DOMAIN all) IN
       result' = [retained |-> total - result.collected,
                  collected |-> result.collected, total |-> total]
    /\ UNCHANGED <<store, mode, roots, all, pending, queue, reachable, todo>>

(* The locals of the call go.                                              *)
Return ==
    /\ pc = "returned"
    /\ pc' = "idle"
    /\ roots' = << >>
    /\ all' = << >>
    /\ reachable' = {}
    /\ result' = NoResult
    /\ mode' = "dry"
    /\ UNCHANGED <<store, pending, queue, todo>>

GcStep ==
    \/ Visit
    \/ Pop
    \/ Count
    \/ StartSweep
    \/ \E h \in todo : Sweep(h)
    \/ EndSweep
    \/ Return

Next ==
    \/ \E h \in Hashes, parents \in SeqsUpTo(MaxParents) :
          StoreSnapshot(h, parents)
    \/ \E h \in Hashes : RemoveSnapshot(h)
    \/ \E m \in {"collect", "dry"}, rs \in SeqsUpTo(MaxRoots) : Call(m, rs)
    \/ GcStep

(* A call runs to its end: it is a loop of the thread that made it.        *)
Spec == Init /\ [][Next]_vars /\ WF_vars(GcStep)

----------------------------------------------------------------------------
(* What is live: the least set that holds the roots and, with a snapshot,  *)
(* its parents, as far as the store has them.                              *)
Closed(s, rs, S) ==
    /\ ToSet(rs) \intersect DOMAIN s \subseteq S
    /\ \A h \in S \intersect DOMAIN s :
          ToSet(s[h]) \intersect DOMAIN s \subseteq S

Live(s, rs) ==
    {h \in DOMAIN s : \A S \in SUBSET DOMAIN s : Closed(s, rs, S) => h \in S}

(* The locals of a call stay hashes, sets and sequences of them: the part   *)
(* of GcInv below that its other conjuncts are typed by.                   *)
TypeOK ==
    /\ DOMAIN store \subseteq Hashes
    /\ \A h \in DOMAIN store : store[h] \in Seq(Hashes)
    /\ DOMAIN all \subseteq Hashes
    /\ \A h \in DOMAIN all : all[h] \in Seq(Hashes)
    /\ pc \in {"idle", "mark", "sweep", "returned"}
    /\ mode \in {"collect", "dry"}
    /\ {roots, pending, queue} \subseteq Seq(Hashes)
    /\ reachable \subseteq Hashes
    /\ todo \subseteq Hashes

(* The loop invariants of mark and of the sweep, together inductive.       *)

(* Nothing is marked, or waits to be looked at, that a closed set could    *)
(* leave out.                                                              *)
MarkIsSound ==
    \A S \in SUBSET DOMAIN all : Closed(all, roots, S) =>
        /\ reachable \subseteq S
        /\ ToSet(pending) \intersect DOMAIN all \subseteq S

(* Every root, and every parent of a marked snapshot that has left the     *)
(* queue, is marked, waits to be looked at, or is not in the store.        *)
MarkIsComplete ==
    /\ ToSet(roots) \intersect DOMAIN all \subseteq reachable \union ToSet(pending)
    /\ \A h \in reachable \ ToSet(queue) :
          ToSet(all[h]) \intersect DOMAIN all
             \subseteq reachable \union ToSet(pending)

(* What holds at every point of a call: of mark the two halves above, and  *)
(* of the sweep that the store still has what is reachable or not yet      *)
(* looked at.                                                              *)
GcInv ==
    /\ TypeOK
    /\ pc = "idle" =>
          /\ roots = << >> /\ all = << >> /\ pending = << >> /\ queue = << >>
          /\ reachable = {}
    /\ pc = "mark" =>
          /\ store = all
          /\ reachable \subseteq DOMAIN all
          /\ ToSet(queue) \subseteq reachable
          /\ MarkIsSound
          /\ MarkIsComplete
    /\ pc \in {"sweep", "returned"} =>
          /\ pending = << >> /\ queue = << >>
          /\ reachable = Live(all, roots)
          /\ \A h \in DOMAIN store : h \in DOMAIN all /\ store[h] = all[h]
    /\ pc = "sweep" =>
          /\ mode = "collect"
          /\ todo \subseteq DOMAIN all
          /\ DOMAIN store = reachable \union todo
    /\ pc = "returned" =>
          DOMAIN store = IF mode = "collect" THEN reachable ELSE DOMAIN all

(* While mark runs it marks nothing that is not live, and when the sweep   *)
(* starts it has marked everything that is, in whatever order roots and    *)
(* parents come, repeat themselves, are missing or go in circles.          *)
MarkIsExact ==
    /\ reachable \subseteq Live(all, roots)
    /\ pc \in {"sweep", "returned"} => reachable = Live(all, roots)

(* No live snapshot is ever removed, and at the end nothing else is left:  *)
(* a history that could be walked from a root before the collection can be *)
(* walked as far after it.                                                 *)
SweepIsExact ==
    /\ pc \in {"mark", "sweep", "returned"} =>
          /\ Live(all, roots) \subseteq DOMAIN store
          /\ \A h \in DOMAIN store : h \in DOMAIN all /\ store[h] = all[h]
    /\ pc = "returned" =>
          DOMAIN store = IF mode = "collect" THEN Live(all, roots)
                                             ELSE DOMAIN all

(* The statistics are those of the collection, and dry_run, which computes *)
(* them another way, gives the ones collect_garbage would.                 *)
ResultIsExact ==
    pc = "returned" =>
        /\ result.total = Cardinality(DOMAIN all)
        /\ result.retained = Cardinality(Live(all, roots))
        /\ result.collected = Cardinality(DOMAIN all \ Live(all, roots))

(* What the owner of the store sees.  collect_garbage has the store to     *)
(* itself while it runs, so what its sweep takes away is seen at once,     *)
(* when it answers; of the call its function, its roots and its answer are *)
(* seen.                                                                   *)
StoreSeen == IF pc = "sweep" THEN all ELSE store

CallSeen ==
    [f       |-> IF pc = "idle" THEN "none" ELSE mode,
     roots   |-> ToSet(roots),
     answers |-> IF pc = "returned" THEN {result} ELSE {}]

Abs == INSTANCE Collector
           WITH store <- StoreSeen, call <- CallSeen,
                Snapshots <- SeqsUpTo(MaxParents)

(* A call is what Collector says of it: with its loops, queue and sweep    *)
(* one step, on the roots it was given, with the figures of that step, and *)
(* for dry_run one that leaves the store alone.                            *)
Implements == Abs!Spec

(* Every call returns, also when parents form a circle.                    *)
CallsReturn == pc = "mark" ~> pc = "idle"
============================================================================
