------------------------ MODULE GarbageCollectProofs -----------------------
(***************************************************************************)
(* Theorems about the collector, for every set of hashes, every store and  *)
(* every list of roots: marking finds exactly the live snapshots and the   *)
(* sweep leaves exactly those.                                             *)
(***************************************************************************)
EXTENDS GarbageCollect, FiniteSetTheorems, TLAPS

----------------------------------------------------------------------------
(* What the list operations of mark do to the set of listed hashes.        *)

LEMMA ToSetOfEmpty == ToSet(<< >>) = {}
BY DEF ToSet

(* A loop over the roots or the parents takes the first hash and leaves    *)
(* the rest.                                                               *)
LEMMA HeadTailSet ==
    ASSUME NEW X, NEW s \in Seq(X), s # << >>
    PROVE  /\ Head(s) \in X
           /\ Tail(s) \in Seq(X)
           /\ ToSet(s) = {Head(s)} \union ToSet(Tail(s))
<1>1. /\ Len(s) \in Nat \ {0}
      /\ DOMAIN s = 1..Len(s)
      /\ Tail(s) \in Seq(X)
      /\ Len(Tail(s)) = Len(s) - 1
      /\ DOMAIN Tail(s) = 1..(Len(s) - 1)
      /\ Head(s) = s[1]
      /\ \A i \in 1..(Len(s) - 1) : Tail(s)[i] = s[i + 1]
  OBVIOUS
<1>2. ToSet(s) \subseteq {Head(s)} \union ToSet(Tail(s))
  <2>1. ASSUME NEW i \in DOMAIN s
        PROVE  s[i] \in {Head(s)} \union ToSet(Tail(s))
    <3>1. CASE i = 1
      BY <1>1, <3>1
    <3>2. CASE i # 1
      <4>1. i - 1 \in DOMAIN Tail(s) /\ Tail(s)[i - 1] = s[i]
        BY <1>1, <3>2
      <4>2. QED
        BY <4>1 DEF ToSet
    <3>3. QED
      BY <3>1, <3>2
  <2>2. QED
    BY <2>1 DEF ToSet
<1>3. {Head(s)} \union ToSet(Tail(s)) \subseteq ToSet(s)
  <2>1. Head(s) \in ToSet(s)
    BY <1>1 DEF ToSet
  <2>2. ASSUME NEW i \in DOMAIN Tail(s) PROVE Tail(s)[i] \in ToSet(s)
    BY <1>1 DEF ToSet
  <2>3. QED
    BY <2>1, <2>2 DEF ToSet
<1>4. QED
  BY <1>1, <1>2, <1>3

(* push adds one hash to the queue.                                        *)
LEMMA AppendSet ==
    ASSUME NEW X, NEW s \in Seq(X), NEW e \in X
    PROVE  /\ Append(s, e) \in Seq(X)
           /\ ToSet(Append(s, e)) = ToSet(s) \union {e}
<1>1. /\ Append(s, e) \in Seq(X)
      /\ DOMAIN s = 1..Len(s)
      /\ DOMAIN Append(s, e) = 1..(Len(s) + 1)
      /\ Len(s) \in Nat
      /\ \A i \in 1..Len(s) : Append(s, e)[i] = s[i]
      /\ Append(s, e)[Len(s) + 1] = e
  OBVIOUS
<1>2. ASSUME NEW i \in DOMAIN Append(s, e)
      PROVE  Append(s, e)[i] \in ToSet(s) \union {e}
  BY <1>1 DEF ToSet
<1>3. ASSUME NEW i \in DOMAIN s PROVE s[i] \in ToSet(Append(s, e))
  BY <1>1 DEF ToSet
<1>4. e \in ToSet(Append(s, e))
  BY <1>1 DEF ToSet
<1>5. QED
  BY <1>1, <1>2, <1>3, <1>4 DEF ToSet

(* pop takes the last hash of the queue and leaves the rest.               *)
LEMMA FrontLastSet ==
    ASSUME NEW X, NEW s \in Seq(X), s # << >>
    PROVE  /\ Last(s) \in X
           /\ Front(s) \in Seq(X)
           /\ ToSet(s) = {Last(s)} \union ToSet(Front(s))
<1>1. /\ Len(s) \in Nat \ {0}
      /\ DOMAIN s = 1..Len(s)
      /\ Front(s) \in Seq(X)
      /\ DOMAIN Front(s) = 1..(Len(s) - 1)
      /\ Last(s) = s[Len(s)]
      /\ \A i \in 1..(Len(s) - 1) : Front(s)[i] = s[i]
  BY DEF Front, Last
<1>2. ASSUME NEW i \in DOMAIN s
      PROVE  s[i] \in {Last(s)} \union ToSet(Front(s))
  <2>1. CASE i = Len(s)
    BY <1>1, <2>1
  <2>2. CASE i # Len(s)
    <3>1. i \in DOMAIN Front(s) /\ Front(s)[i] = s[i]
      BY <1>1, <2>2
    <3>2. QED
      BY <3>1 DEF ToSet
  <2>3. QED
    BY <2>1, <2>2
<1>3. ASSUME NEW i \in DOMAIN Front(s) PROVE Front(s)[i] \in ToSet(s)
  BY <1>1 DEF ToSet
<1>4. Last(s) \in ToSet(s) /\ Last(s) \in X
  BY <1>1 DEF ToSet
<1>5. QED
  BY <1>1, <1>2, <1>3, <1>4 DEF ToSet

(* A list of bounded length is a list.                                     *)
LEMMA SeqsUpToAreSeqs ==
    ASSUME NEW n \in Nat
    PROVE  SeqsUpTo(n) \subseteq Seq(Hashes)
BY DEF SeqsUpTo

----------------------------------------------------------------------------
(* The variables keep their types.                                         *)
THEOREM TypeCorrect == Spec => []TypeOK
<1>1. Init => TypeOK
  BY DEF Init, TypeOK
<1>2. TypeOK /\ [Next]_vars => TypeOK'
  <2> SUFFICES ASSUME TypeOK, [Next]_vars PROVE TypeOK'
    OBVIOUS
  <2>1. ASSUME NEW h \in Hashes, NEW parents \in SeqsUpTo(MaxParents),
               StoreSnapshot(h, parents)
        PROVE  TypeOK'
    <3>1. parents \in Seq(Hashes)
      BY SeqsUpToAreSeqs, BoundsAssumption
    <3>2. QED
      BY <2>1, <3>1 DEF StoreSnapshot, Put, TypeOK, gcvars
  <2>2. ASSUME NEW h \in Hashes, RemoveSnapshot(h) PROVE TypeOK'
    BY <2>2 DEF RemoveSnapshot, Restrict, TypeOK, gcvars
  <2>3. ASSUME NEW m \in {"collect", "dry"}, NEW rs \in SeqsUpTo(MaxRoots),
               Call(m, rs)
        PROVE  TypeOK'
    <3>1. rs \in Seq(Hashes)
      BY SeqsUpToAreSeqs, BoundsAssumption
    <3>2. QED
      BY <2>3, <3>1 DEF Call, TypeOK
  <2>4. CASE Visit
    <3>1. Head(pending) \in Hashes /\ pending' \in Seq(Hashes)
      BY <2>4, HeadTailSet DEF Visit, TypeOK
    <3>2. queue' \in Seq(Hashes) /\ reachable' \subseteq Hashes
      <4>1. CASE Head(pending) \in DOMAIN store /\ Head(pending) \notin reachable
        <5>1. queue' = Append(queue, Head(pending))
          BY <2>4, <4>1 DEF Visit
        <5>2. queue \in Seq(Hashes)
          BY DEF TypeOK
        <5>3. queue' \in Seq(Hashes)
          BY <3>1, <5>1, <5>2, AppendSet
        <5>4. QED
          BY <2>4, <3>1, <4>1, <5>3 DEF Visit, TypeOK
      <4>2. CASE ~(Head(pending) \in DOMAIN store /\ Head(pending) \notin reachable)
        BY <2>4, <4>2 DEF Visit, TypeOK
      <4>3. QED
        BY <4>1, <4>2
    <3>3. QED
      BY <2>4, <3>1, <3>2 DEF Visit, TypeOK
  <2>5. CASE Pop
    <3>1. queue' \in Seq(Hashes)
      BY <2>5, FrontLastSet DEF Pop, TypeOK
    <3>2. pending' \in Seq(Hashes)
      BY <2>5 DEF Pop, TypeOK
    <3>3. QED
      BY <2>5, <3>1, <3>2 DEF Pop, TypeOK
  <2>6. CASE Count
    BY <2>6 DEF Count, TypeOK
  <2>7. CASE StartSweep
    BY <2>7 DEF StartSweep, TypeOK
  <2>8. ASSUME NEW h \in todo, Sweep(h) PROVE TypeOK'
    BY <2>8 DEF Sweep, Restrict, TypeOK
  <2>9. CASE EndSweep
    BY <2>9 DEF EndSweep, TypeOK
  <2>10. CASE Return
    BY <2>10 DEF Return, TypeOK
  <2>11. CASE UNCHANGED vars
    BY <2>11 DEF vars, TypeOK
  <2>12. QED
    BY <2>1, <2>2, <2>3, <2>4, <2>5, <2>6, <2>7, <2>8, <2>9, <2>10, <2>11
       DEF Next, GcStep
<1>3. QED
  BY <1>1, <1>2, PTL DEF Spec

----------------------------------------------------------------------------
(* When nothing is left to look at, the marked set is the live set: it is  *)
(* closed, and every closed set contains it.                               *)
LEMMA MarkedIsLive ==
    ASSUME GcInv, Marked
    PROVE  reachable = Live(all, roots)
<1>1. /\ reachable \subseteq DOMAIN all
      /\ MarkIsSound
      /\ MarkIsComplete
      /\ ToSet(pending) = {} /\ ToSet(queue) = {}
  BY ToSetOfEmpty DEF GcInv, Marked
<1>2. Closed(all, roots, reachable)
  BY <1>1 DEF MarkIsComplete, Closed
<1>3. Live(all, roots) \subseteq reachable
  BY <1>1, <1>2 DEF Live
<1>4. reachable \subseteq Live(all, roots)
  BY <1>1 DEF MarkIsSound, Live
<1>5. QED
  BY <1>3, <1>4

(* GcInv is inductive.                                                     *)
LEMMA GcInvHolds == Spec => []GcInv
<1>1. Init => GcInv
  BY DEF Init, GcInv, TypeOK
<1>2. GcInv /\ TypeOK' /\ [Next]_vars => GcInv'
  <2> SUFFICES ASSUME GcInv, TypeOK', [Next]_vars PROVE GcInv'
    OBVIOUS
  <2>1. ASSUME NEW h \in Hashes, NEW parents \in SeqsUpTo(MaxParents),
               StoreSnapshot(h, parents)
        PROVE  GcInv'
    BY <2>1 DEF StoreSnapshot, gcvars, GcInv
  <2>2. ASSUME NEW h \in Hashes, RemoveSnapshot(h) PROVE GcInv'
    BY <2>2 DEF RemoveSnapshot, gcvars, GcInv
  <2>3. ASSUME NEW m \in {"collect", "dry"}, NEW rs \in SeqsUpTo(MaxRoots),
               Call(m, rs)
        PROVE  GcInv'
    BY <2>3, ToSetOfEmpty
       DEF Call, GcInv, MarkIsSound, MarkIsComplete, Closed
  <2>4. CASE Visit
    <3> DEFINE h == Head(pending)
    <3>1. ToSet(pending) = {h} \union ToSet(pending')
      BY <2>4, HeadTailSet DEF Visit, GcInv, TypeOK
    <3>2. /\ pc = "mark" /\ pc' = "mark"
          /\ store = all /\ store' = store /\ all' = all /\ roots' = roots
          /\ reachable \subseteq DOMAIN all
          /\ ToSet(queue) \subseteq reachable
          /\ MarkIsSound
          /\ MarkIsComplete
      BY <2>4 DEF Visit, GcInv
    <3>3. CASE h \in DOMAIN store /\ h \notin reachable
      <4>1. reachable' = reachable \union {h}
        BY <2>4, <3>3 DEF Visit
      <4>2. ToSet(queue') = ToSet(queue) \union {h}
        <5>1. queue' = Append(queue, h) /\ queue \in Seq(Hashes)
          BY <2>4, <3>3 DEF Visit, GcInv, TypeOK
        <5>2. h \in Hashes
          BY <2>4, HeadTailSet DEF Visit, GcInv, TypeOK
        <5>3. QED
          BY <5>1, <5>2, AppendSet
      <4> HIDE DEF h
      <4>3. MarkIsSound'
        BY <3>1, <3>2, <3>3, <4>1 DEF MarkIsSound, Closed
      <4>4. MarkIsComplete'
        BY <3>1, <3>2, <3>3, <4>1, <4>2 DEF MarkIsComplete
      <4>5. QED
        BY <3>2, <3>3, <4>1, <4>2, <4>3, <4>4 DEF GcInv
    <3>4. CASE ~(h \in DOMAIN store /\ h \notin reachable)
      <4>1. reachable' = reachable /\ queue' = queue
        BY <2>4, <3>4 DEF Visit
      <4> HIDE DEF h
      <4>2. MarkIsSound'
        BY <3>1, <3>2, <4>1 DEF MarkIsSound, Closed
      <4>3. MarkIsComplete'
        BY <3>1, <3>2, <3>4, <4>1 DEF MarkIsComplete
      <4>4. QED
        BY <3>2, <4>1, <4>2, <4>3 DEF GcInv
    <3>5. QED
      BY <3>3, <3>4
  <2>5. CASE Pop
    <3> DEFINE h == Last(queue)
    <3>1. ToSet(queue) = {h} \union ToSet(queue')
      BY <2>5, FrontLastSet DEF Pop, GcInv, TypeOK
    <3>2. /\ pc = "mark" /\ pc' = "mark"
          /\ store = all /\ store' = store /\ all' = all /\ roots' = roots
          /\ reachable' = reachable
          /\ reachable \subseteq DOMAIN all
          /\ ToSet(queue) \subseteq reachable
          /\ MarkIsSound
          /\ MarkIsComplete
          /\ ToSet(pending) = {}
      BY <2>5, ToSetOfEmpty DEF Pop, GcInv
    <3>3. h \in reachable /\ pending' = all[h]
      BY <2>5, <3>1, <3>2 DEF Pop
    <3> HIDE DEF h
    <3>4. MarkIsSound'
      BY <3>2, <3>3 DEF MarkIsSound, Closed
    <3>5. MarkIsComplete'
      BY <3>1, <3>2, <3>3 DEF MarkIsComplete
    <3>6. QED
      BY <3>1, <3>2, <3>4, <3>5 DEF GcInv
  <2>6. CASE Count
    <3>1. reachable = Live(all, roots)
      BY <2>6, MarkedIsLive DEF Count
    <3>2. QED
      BY <2>6, <3>1 DEF Count, Marked, GcInv, Live, Closed
  <2>7. CASE StartSweep
    <3>1. reachable = Live(all, roots)
      BY <2>7, MarkedIsLive DEF StartSweep
    <3>2. QED
      BY <2>7, <3>1 DEF StartSweep, Marked, GcInv, Live, Closed
  <2>8. ASSUME NEW h \in todo, Sweep(h) PROVE GcInv'
    <3>1. /\ pc = "sweep" /\ pc' = "sweep" /\ mode' = mode
          /\ all' = all /\ roots' = roots /\ reachable' = reachable
          /\ pending' = pending /\ queue' = queue
          /\ todo' = todo \ {h}
      BY <2>8 DEF Sweep
    <3>2. /\ DOMAIN store = reachable \union todo
          /\ \A g \in DOMAIN store : g \in DOMAIN all /\ store[g] = all[g]
      BY <3>1 DEF GcInv
    <3>3. /\ DOMAIN store' = reachable \union todo'
          /\ \A g \in DOMAIN store' : g \in DOMAIN all /\ store'[g] = all[g]
      <4>1. CASE h \in reachable
        BY <2>8, <3>1, <3>2, <4>1 DEF Sweep
      <4>2. CASE h \notin reachable
        <5>1. store' = [g \in DOMAIN store \ {h} |-> store[g]]
          BY <2>8, <4>2 DEF Sweep, Restrict
        <5>2. QED
          BY <3>1, <3>2, <4>2, <5>1
      <4>3. QED
        BY <4>1, <4>2
    <3>4. reachable' = Live(all, roots)'
      BY <3>1 DEF GcInv, Live, Closed
    <3>5. QED
      BY <3>1, <3>3, <3>4 DEF GcInv
  <2>9. CASE EndSweep
    BY <2>9 DEF EndSweep, GcInv, Live, Closed
  <2>10. CASE Return
    BY <2>10 DEF Return, GcInv
  <2>11. CASE UNCHANGED vars
    BY <2>11 DEF vars, GcInv, MarkIsSound, MarkIsComplete, Live, Closed
  <2>12. QED
    BY <2>1, <2>2, <2>3, <2>4, <2>5, <2>6, <2>7, <2>8, <2>9, <2>10, <2>11
       DEF Next, GcStep
<1>3. QED
  BY <1>1, <1>2, TypeCorrect, PTL DEF Spec

----------------------------------------------------------------------------
(* mark never marks a snapshot that is not live, and when it is done it    *)
(* has marked them all.                                                    *)
THEOREM MarkIsExactHolds == Spec => []MarkIsExact
<1>1. GcInv => MarkIsExact
  <2> SUFFICES ASSUME GcInv PROVE MarkIsExact
    OBVIOUS
  <2>1. pc \in {"idle", "mark", "sweep", "returned"}
    BY DEF GcInv, TypeOK
  <2>2. CASE pc = "idle"
    BY <2>2 DEF GcInv, MarkIsExact
  <2>3. CASE pc = "mark"
    BY <2>3 DEF GcInv, MarkIsSound, MarkIsExact, Live
  <2>4. CASE pc \in {"sweep", "returned"}
    BY <2>4 DEF GcInv, MarkIsExact
  <2>5. QED
    BY <2>1, <2>2, <2>3, <2>4
<1>2. QED
  BY <1>1, GcInvHolds, PTL

(* No live snapshot is removed at any moment of a sweep, and at its end    *)
(* the live ones are all that is left.                                     *)
THEOREM SweepIsExactHolds == Spec => []SweepIsExact
<1>1. GcInv => SweepIsExact
  BY DEF GcInv, SweepIsExact, Live
<1>2. QED
  BY <1>1, GcInvHolds, PTL
----------------------------------------------------------------------------
(* What the sweep has counted is what it has removed, and both ways of     *)
(* counting come to the numbers of live and of other snapshots.            *)
Swept == DOMAIN all \ (reachable \union todo)

CountInv ==
    /\ IsFiniteSet(DOMAIN store)
    /\ IsFiniteSet(DOMAIN all)
    /\ pc = "sweep" =>
          result = [retained |-> 0, collected |-> Cardinality(Swept), total |-> 0]
    /\ pc = "returned" =>
          result = [retained  |-> Cardinality(reachable),
                    collected |-> Cardinality(DOMAIN all \ reachable),
                    total     |-> Cardinality(DOMAIN all)]

(* The rest of a finite set of snapshots, by subtraction.                  *)
LEMMA Rest ==
    ASSUME NEW A, IsFiniteSet(A), NEW R \in SUBSET A
    PROVE  /\ Cardinality(A) \in Nat
           /\ Cardinality(R) \in Nat
           /\ Cardinality(A \ R) = Cardinality(A) - Cardinality(R)
<1>1. A \intersect R = R
  OBVIOUS
<1>2. Cardinality(A \ R) = Cardinality(A) - Cardinality(R)
  BY <1>1, FS_Difference
<1>3. QED
  BY <1>2, FS_Subset, FS_CardinalityType

(* The count of what is collected keeps pace with the sweep, and the three *)
(* counts that are returned are those of the sets they count.              *)
LEMMA CountInvHolds == Spec => []CountInv
<1>1. Init => CountInv
  BY FS_EmptySet DEF Init, CountInv
<1>2. CountInv /\ GcInv /\ GcInv' /\ [Next]_vars => CountInv'
  <2> SUFFICES ASSUME CountInv, GcInv, GcInv', [Next]_vars PROVE CountInv'
    OBVIOUS
  <2>1. ASSUME NEW h \in Hashes, NEW parents \in SeqsUpTo(MaxParents),
               StoreSnapshot(h, parents)
        PROVE  CountInv'
    <3>1. DOMAIN store' = DOMAIN store \union {h}
      BY <2>1 DEF StoreSnapshot, Put
    <3>2. IsFiniteSet(DOMAIN store')
      BY <3>1, FS_AddElement DEF CountInv
    <3>3. QED
      BY <2>1, <3>2 DEF StoreSnapshot, gcvars, CountInv
  <2>2. ASSUME NEW h \in Hashes, RemoveSnapshot(h) PROVE CountInv'
    <3>1. DOMAIN store' = DOMAIN store \ {h}
      BY <2>2 DEF RemoveSnapshot, Restrict
    <3>2. IsFiniteSet(DOMAIN store')
      BY <3>1, FS_RemoveElement DEF CountInv
    <3>3. QED
      BY <2>2, <3>2 DEF RemoveSnapshot, gcvars, CountInv
  <2>3. ASSUME NEW m \in {"collect", "dry"}, NEW rs \in SeqsUpTo(MaxRoots),
               Call(m, rs)
        PROVE  CountInv'
    BY <2>3 DEF Call, CountInv
  <2>4. CASE Visit
    BY <2>4 DEF Visit, CountInv
  <2>5. CASE Pop
    BY <2>5 DEF Pop, CountInv
  <2>6. CASE Count
    <3>1. reachable \subseteq DOMAIN all
      BY <2>6 DEF Count, Marked, GcInv
    <3>2. Cardinality(DOMAIN all \ reachable)
             = Cardinality(DOMAIN all) - Cardinality(reachable)
      BY <3>1, Rest DEF CountInv
    <3>3. QED
      BY <2>6, <3>2 DEF Count, CountInv
  <2>7. CASE StartSweep
    <3>1. Swept' = {}
      BY <2>7 DEF StartSweep, Swept
    <3>2. QED
      BY <2>7, <3>1, FS_EmptySet DEF StartSweep, NoResult, CountInv
  <2>8. ASSUME NEW h \in todo, Sweep(h) PROVE CountInv'
    <3>1. /\ pc = "sweep" /\ pc' = "sweep"
          /\ all' = all /\ reachable' = reachable /\ todo' = todo \ {h}
      BY <2>8 DEF Sweep
    <3>2. h \in DOMAIN all
      BY <3>1 DEF GcInv
    <3>3. CASE h \in reachable
      <4>1. Swept' = Swept
        BY <3>1, <3>3 DEF Swept
      <4>2. QED
        BY <2>8, <3>1, <3>3, <4>1 DEF Sweep, CountInv
    <3>4. CASE h \notin reachable
      <4>1. Swept' = Swept \union {h} /\ h \notin Swept
        BY <3>1, <3>2, <3>4 DEF Swept
      <4>2. IsFiniteSet(Swept)
        BY FS_Difference DEF Swept, CountInv
      <4>3. Cardinality(Swept') = Cardinality(Swept) + 1
        BY <4>1, <4>2, FS_AddElement
      <4>4. DOMAIN store' = DOMAIN store \ {h}
        BY <2>8, <3>4 DEF Sweep, Restrict
      <4>5. IsFiniteSet(DOMAIN store')
        BY <4>4, FS_RemoveElement DEF CountInv
      <4>6. result' = [result EXCEPT !.collected = @ + 1]
        BY <2>8, <3>4 DEF Sweep
      <4>7. QED
        BY <3>1, <4>3, <4>5, <4>6 DEF CountInv
    <3>5. QED
      BY <3>3, <3>4
  <2>9. CASE EndSweep
    <3>1. /\ pc = "sweep" /\ todo = {} /\ pc' = "returned"
          /\ all' = all /\ reachable' = reachable /\ store' = store
      BY <2>9 DEF EndSweep
    <3>2. reachable \subseteq DOMAIN all
      BY <3>1 DEF GcInv
    <3>3. Swept = DOMAIN all \ reachable
      BY <3>1 DEF Swept
    <3>4. /\ Cardinality(DOMAIN all) \in Nat
          /\ Cardinality(reachable) \in Nat
          /\ Cardinality(Swept)
                = Cardinality(DOMAIN all) - Cardinality(reachable)
      BY <3>2, <3>3, Rest DEF CountInv
    <3>5. result.collected = Cardinality(Swept)
      BY <3>1 DEF CountInv
    <3>6. result' = [retained  |-> Cardinality(DOMAIN all) - Cardinality(Swept),
                     collected |-> Cardinality(Swept),
                     total     |-> Cardinality(DOMAIN all)]
      BY <2>9, <3>5 DEF EndSweep
    <3>7. Cardinality(DOMAIN all) - Cardinality(Swept) = Cardinality(reachable)
      BY <3>4
    <3>8. QED
      BY <3>1, <3>3, <3>6, <3>7 DEF CountInv
  <2>10. CASE Return
    BY <2>10, FS_EmptySet DEF Return, CountInv
  <2>11. CASE UNCHANGED vars
    BY <2>11 DEF vars, CountInv, Swept
  <2>12. QED
    BY <2>1, <2>2, <2>3, <2>4, <2>5, <2>6, <2>7, <2>8, <2>9, <2>10, <2>11
       DEF Next, GcStep
<1>3. QED
  BY <1>1, <1>2, GcInvHolds, PTL DEF Spec

(* The statistics of collect_garbage, which counts what it removes, and of *)
(* dry_run, which subtracts what it marked, are the numbers of live and of *)
(* other snapshots.                                                        *)
THEOREM ResultIsExactHolds == Spec => []ResultIsExact
<1>1. CountInv /\ GcInv => ResultIsExact
  <2> SUFFICES ASSUME CountInv, GcInv, pc = "returned" PROVE ResultIsExact
    BY DEF ResultIsExact
  <2>1. reachable = Live(all, roots)
    BY DEF GcInv
  <2>2. QED
    BY <2>1 DEF CountInv, ResultIsExact
<1>2. QED
  BY <1>1, CountInvHolds, GcInvHolds, PTL
----------------------------------------------------------------------------
(* The store is a function, whatever has become of it.                     *)
StoreIsMap == store = [h \in DOMAIN store |-> store[h]]

(* Every step leaves the store a function of its hashes.                   *)
LEMMA StoreIsMapHolds == Spec => []StoreIsMap
<1>1. Init => StoreIsMap
  BY DEF Init, StoreIsMap
<1>2. StoreIsMap /\ [Next]_vars => StoreIsMap'
  <2> SUFFICES ASSUME StoreIsMap, [Next]_vars PROVE StoreIsMap'
    OBVIOUS
  <2>1. ASSUME NEW h \in Hashes, NEW parents \in SeqsUpTo(MaxParents),
               StoreSnapshot(h, parents)
        PROVE  StoreIsMap'
    BY <2>1 DEF StoreSnapshot, Put, StoreIsMap
  <2>2. ASSUME NEW h \in Hashes, RemoveSnapshot(h) PROVE StoreIsMap'
    BY <2>2 DEF RemoveSnapshot, Restrict, StoreIsMap
  <2>3. ASSUME NEW h \in todo, Sweep(h) PROVE StoreIsMap'
    BY <2>3 DEF Sweep, Restrict, StoreIsMap
  <2>4. CASE store' = store
    BY <2>4 DEF StoreIsMap
  <2>5. QED
    BY <2>1, <2>2, <2>3, <2>4
       DEF Next, GcStep, Call, Visit, Pop, Count, StartSweep, EndSweep, Return, vars
<1>3. QED
  BY <1>1, <1>2, PTL DEF Spec

(* What Collector calls reachable from the roots is what is live.          *)
LEMMA LiveIsReachable ==
    ASSUME StoreSeen = all
    PROVE  Live(all, roots) = Abs!ReachableFrom(CallSeen.roots)
<1>1. CallSeen.roots = ToSet(roots)
  BY DEF CallSeen
<1>2. QED
  BY <1>1, ZenonT(60) DEF Live, Closed, Abs!ReachableFrom, Abs!Closed

(* Collector counts as FiniteSets does.                                    *)
LEMMA SameCount == \A S : Abs!Cardinality(S) = Cardinality(S)
BY Zenon DEF Abs!Cardinality, Cardinality

(* The last step of a call gives it the answer that Collector gives on the *)
(* store the call was made on.                                             *)
LEMMA AnswerIsExact ==
    ASSUME StoreSeen = all, pc # "idle", pc # "returned",
           pc' = "returned", mode' = mode, roots' = roots, all' = all,
           GcInv', CountInv'
    PROVE  CallSeen' = [CallSeen EXCEPT !.answers = {Abs!Answer}]
<1> DEFINE live == Live(all, roots)
<1>1. result' = [retained  |-> Cardinality(live),
                 collected |-> Cardinality(DOMAIN all \ live),
                 total     |-> Cardinality(DOMAIN all)]
  <2>1. reachable' = Live(all, roots)'
    BY DEF GcInv
  <2>2. Live(all, roots)' = live
    BY DEF Live, Closed
  <2>3. QED
    BY <2>1, <2>2 DEF CountInv
<1>2. Abs!Answer = result'
  BY <1>1, LiveIsReachable, SameCount DEF Abs!Answer
<1> HIDE DEF live
<1>3. CallSeen = [f |-> mode, roots |-> ToSet(roots), answers |-> {}]
  BY DEF CallSeen
<1>4. CallSeen' = [f |-> mode, roots |-> ToSet(roots), answers |-> {result'}]
  BY DEF CallSeen
<1>5. QED
  BY <1>2, <1>3, <1>4

(* To the owner a call is a call of the abstract collector: the turns of   *)
(* mark and of the sweep are steps nobody sees, what collect_garbage does  *)
(* is one step on the roots of the call, and dry_run leaves the store.     *)
THEOREM ImplementsHolds == Spec => Implements
<1>1. Init => Abs!Init
  BY ToSetOfEmpty DEF Init, Abs!Init, Abs!Idle, StoreSeen, CallSeen
<1>2. GcInv /\ GcInv' /\ CountInv' /\ StoreIsMap /\ [Next]_vars
        => [Abs!Next]_<<StoreSeen, CallSeen>>
  <2> SUFFICES ASSUME GcInv, GcInv', CountInv', StoreIsMap, [Next]_vars
               PROVE  [Abs!Next]_<<StoreSeen, CallSeen>>
    OBVIOUS
  <2>1. pc = "idle" => CallSeen = Abs!Idle /\ StoreSeen = store
    BY ToSetOfEmpty DEF GcInv, CallSeen, StoreSeen, Abs!Idle
  <2>2. ASSUME NEW h \in Hashes, NEW parents \in SeqsUpTo(MaxParents),
               StoreSnapshot(h, parents)
        PROVE  Abs!Next
    <3>1. StoreSeen' = store' /\ CallSeen' = CallSeen
      BY <2>2 DEF StoreSnapshot, gcvars, StoreSeen, CallSeen
    <3>2. Abs!StoreSnapshot(h, parents)
      BY <2>1, <2>2, <3>1
         DEF StoreSnapshot, Abs!StoreSnapshot, Abs!Put, Put
    <3>3. QED
      BY <3>2 DEF Abs!Next
  <2>3. ASSUME NEW h \in Hashes, RemoveSnapshot(h) PROVE Abs!Next
    <3>1. StoreSeen' = store' /\ CallSeen' = CallSeen
      BY <2>3 DEF RemoveSnapshot, gcvars, StoreSeen, CallSeen
    <3>2. Abs!RemoveSnapshot(h)
      BY <2>1, <2>3, <3>1
         DEF RemoveSnapshot, Abs!RemoveSnapshot, Abs!Restrict, Restrict
    <3>3. QED
      BY <3>2 DEF Abs!Next
  <2>4. ASSUME NEW m \in {"collect", "dry"}, NEW rs \in SeqsUpTo(MaxRoots),
               Call(m, rs)
        PROVE  Abs!Next
    <3>1. /\ StoreSeen' = StoreSeen
          /\ CallSeen' = [f |-> m, roots |-> ToSet(rs), answers |-> {}]
      BY <2>4 DEF Call, StoreSeen, CallSeen
    <3>2. CallSeen = Abs!Idle
      BY <2>1, <2>4 DEF Call
    <3>3. ToSet(rs) \in SUBSET Hashes
      BY SeqsUpToAreSeqs, BoundsAssumption DEF ToSet
    <3>4. Abs!Call(m, ToSet(rs))
      BY <3>1, <3>2 DEF Abs!Call
    <3>5. QED
      BY <3>3, <3>4 DEF Abs!Next
  <2>5. CASE Visit \/ Pop
    BY <2>5 DEF Visit, Pop, StoreSeen, CallSeen
  <2>6. CASE Count
    <3>1. StoreSeen = all /\ StoreSeen' = StoreSeen
      BY <2>6 DEF Count, Marked, StoreSeen, GcInv
    <3>2. CallSeen.f = "dry" /\ CallSeen.answers = {}
      BY <2>6 DEF Count, CallSeen, Marked
    <3>3. CallSeen' = [CallSeen EXCEPT !.answers = {Abs!Answer}]
      BY <2>6, <3>1, AnswerIsExact DEF Count, Marked
    <3>4. Abs!DryRun
      BY <3>1, <3>2, <3>3 DEF Abs!DryRun
    <3>5. QED
      BY <3>4 DEF Abs!Next
  <2>7. CASE StartSweep
    BY <2>7 DEF StartSweep, Marked, StoreSeen, CallSeen, GcInv
  <2>8. ASSUME NEW h \in todo, Sweep(h)
        PROVE  StoreSeen' = StoreSeen /\ CallSeen' = CallSeen
    BY <2>8 DEF Sweep, StoreSeen, CallSeen
  <2>9. CASE EndSweep
    <3>1. StoreSeen = all /\ StoreSeen' = store
      BY <2>9 DEF EndSweep, StoreSeen
    <3>2. CallSeen.f = "collect" /\ CallSeen.answers = {}
      BY <2>9 DEF EndSweep, CallSeen, GcInv
    <3>3. CallSeen' = [CallSeen EXCEPT !.answers = {Abs!Answer}]
      BY <2>9, <3>1, AnswerIsExact DEF EndSweep
    <3>4. /\ DOMAIN store = Abs!ReachableFrom(CallSeen.roots)
          /\ \A h \in DOMAIN store : store[h] = all[h]
      BY <2>9, <3>1, LiveIsReachable DEF EndSweep, GcInv
    <3>5. StoreSeen' = Abs!Restrict(StoreSeen, Abs!ReachableFrom(CallSeen.roots))
      BY <3>1, <3>4 DEF StoreIsMap, Abs!Restrict
    <3>6. Abs!CollectGarbage
      BY <3>2, <3>3, <3>5 DEF Abs!CollectGarbage
    <3>7. QED
      BY <3>6 DEF Abs!Next
  <2>10. CASE Return
    <3>1. StoreSeen' = StoreSeen /\ CallSeen.answers # {}
      BY <2>10 DEF Return, StoreSeen, CallSeen
    <3>2. CallSeen' = Abs!Idle
      BY <2>10, ToSetOfEmpty DEF Return, CallSeen, Abs!Idle
    <3>3. QED
      BY <3>1, <3>2 DEF Abs!Return, Abs!Next
  <2>11. CASE UNCHANGED vars
    BY <2>11 DEF vars, StoreSeen, CallSeen
  <2>12. QED
    BY <2>2, <2>3, <2>4, <2>5, <2>6, <2>7, <2>8, <2>9, <2>10, <2>11
       DEF Next, GcStep
<1>3. QED
  BY <1>1, <1>2, GcInvHolds, CountInvHolds, StoreIsMapHolds, PTL
     DEF Spec, Implements, Abs!Spec, Abs!vars
============================================================================
