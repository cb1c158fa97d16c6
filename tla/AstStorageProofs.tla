--------------------------- MODULE AstStorageProofs ------------------------
(***************************************************************************)
(* Theorems about the flat storage of a scene tree, for every width of an  *)
(* id and every kind, label and value.                                     *)
(***************************************************************************)
EXTENDS AstStorage, AstProofs

----------------------------------------------------------------------------
(* The index a vector has.                                                 *)

IdsIn(ns) == {ns[i].id : i \in DOMAIN ns}

(* The rebuilt index leads every id to the last node that has it.          *)
LEMMA PositionsProperties ==
    ASSUME NEW R, NEW ns \in Seq(R), NEW id \in IdsIn(ns)
    PROVE  /\ Positions(ns)[id] \in DOMAIN ns
           /\ ns[Positions(ns)[id]].id = id
           /\ \A i \in DOMAIN ns : ns[i].id = id => i <= Positions(ns)[id]
<1> DEFINE I == {i \in DOMAIN ns : ns[i].id = id}
<1>1. Len(ns) \in Nat /\ DOMAIN ns = 1..Len(ns)
  OBVIOUS
<1>2. I \in SUBSET (1..Len(ns)) /\ I # {}
  BY <1>1 DEF IdsIn
<1>3. Max(I) \in I /\ \A i \in I : i <= Max(I)
  <2> HIDE DEF I
  <2> QED
    BY <1>1, <1>2, MaxOfPositions
<1>4. Positions(ns)[id] = Max(I)
  BY DEF Positions, IdsIn
<1> QED
  BY <1>3, <1>4

(* It is the only one that does.                                           *)
LEMMA PositionsUnique ==
    ASSUME NEW R, NEW ns \in Seq(R), NEW at,
           at = [id \in DOMAIN at |-> at[id]], DOMAIN at = IdsIn(ns),
           \A id \in DOMAIN at :
              /\ at[id] \in DOMAIN ns
              /\ ns[at[id]].id = id
              /\ \A i \in DOMAIN ns : ns[i].id = id => i <= at[id]
    PROVE  at = Positions(ns)
<1>1. Len(ns) \in Nat /\ DOMAIN ns = 1..Len(ns)
  OBVIOUS
<1>2. ASSUME NEW id \in IdsIn(ns)
      PROVE  at[id] = Positions(ns)[id]
  <2>1. /\ Positions(ns)[id] \in DOMAIN ns
        /\ ns[Positions(ns)[id]].id = id
        /\ \A i \in DOMAIN ns : ns[i].id = id => i <= Positions(ns)[id]
    BY PositionsProperties
  <2>2. at[id] <= Positions(ns)[id] /\ Positions(ns)[id] <= at[id]
    BY <2>1
  <2> QED
    BY <1>1, <2>1, <2>2
<1>3. Positions(ns) = [id \in IdsIn(ns) |-> Positions(ns)[id]]
  BY DEF Positions, IdsIn
<1> QED
  BY <1>2, <1>3

(* A change that keeps every node its id keeps the index.                  *)
LEMMA PositionsOfSameIds ==
    ASSUME NEW ns, NEW ms, DOMAIN ms = DOMAIN ns,
           \A i \in DOMAIN ns : ms[i].id = ns[i].id
    PROVE  Positions(ms) = Positions(ns)
<1>1. {ms[i].id : i \in DOMAIN ms} = {ns[i].id : i \in DOMAIN ns}
  OBVIOUS
<1>2. \A id : {i \in DOMAIN ms : ms[i].id = id} = {i \in DOMAIN ns : ns[i].id = id}
  OBVIOUS
<1> QED
  BY <1>1, <1>2 DEF Positions

----------------------------------------------------------------------------
(* What get_node answers when the index is exact, and how the changes of   *)
(* the vector change it.                                                   *)

Look(ns) == [id \in IdsIn(ns) |-> ns[Positions(ns)[id]]]

(* Positions finds the place of every node that is asked for, no two ids   *)
(* at the same.                                                            *)
LEMMA LookProperties ==
    ASSUME NEW R, NEW ns \in Seq(R)
    PROVE  /\ DOMAIN Positions(ns) = IdsIn(ns)
           /\ \A id \in IdsIn(ns) : /\ Positions(ns)[id] \in DOMAIN ns
                                    /\ Look(ns)[id] = ns[Positions(ns)[id]]
                                    /\ Look(ns)[id].id = id
                                    /\ Look(ns)[id] \in R
<1>1. \A i \in DOMAIN ns : ns[i] \in R
  OBVIOUS
<1>2. DOMAIN Positions(ns) = IdsIn(ns)
  BY DEF Positions, IdsIn
<1>3. \A id \in IdsIn(ns) : /\ Positions(ns)[id] \in DOMAIN ns
                            /\ ns[Positions(ns)[id]].id = id
  BY PositionsProperties
<1> QED
  BY <1>1, <1>2, <1>3 DEF Look

(* A node that is exchanged for another with the same id.                  *)
LEMMA LookOfChanged ==
    ASSUME NEW R, NEW ns \in Seq(R), NEW p \in IdsIn(ns), NEW n \in R, n.id = p
    PROVE  LET ms == [ns EXCEPT ![Positions(ns)[p]] = n] IN
           /\ ms \in Seq(R)
           /\ Positions(ms) = Positions(ns)
           /\ Look(ms) = [Look(ns) EXCEPT ![p] = n]
<1> DEFINE at == Positions(ns)
           ms == [ns EXCEPT ![at[p]] = n]
<1>1. /\ DOMAIN at = IdsIn(ns)
      /\ \A id \in IdsIn(ns) : at[id] \in DOMAIN ns /\ ns[at[id]].id = id
  BY LookProperties
<1> HIDE DEF at
<1>2. DOMAIN ns = 1..Len(ns) /\ at[p] \in 1..Len(ns)
  BY <1>1
<1>3. /\ ms \in Seq(R) /\ DOMAIN ms = DOMAIN ns
      /\ \A i \in DOMAIN ns : ms[i] = IF i = at[p] THEN n ELSE ns[i]
  BY <1>2, ExceptSeq
<1> HIDE DEF ms
<1>4. \A i \in DOMAIN ns : ms[i].id = ns[i].id
  BY <1>1, <1>3
<1>5. Positions(ms) = at
  BY <1>3, <1>4, PositionsOfSameIds DEF at
<1>6. IdsIn(ms) = IdsIn(ns)
  BY <1>3, <1>4 DEF IdsIn
<1>7. \A id \in IdsIn(ns) : ms[at[id]] = IF id = p THEN n ELSE ns[at[id]]
  BY <1>1, <1>3
<1>8. Look(ms) = [id \in IdsIn(ns) |-> ms[at[id]]]
  BY <1>5, <1>6 DEF Look
<1>9. Look(ns) = [id \in IdsIn(ns) |-> ns[at[id]]]
  BY DEF Look, at
<1>10. Look(ms) = [Look(ns) EXCEPT ![p] = n]
  BY <1>7, <1>8, <1>9
<1> QED
  BY <1>3, <1>5, <1>10 DEF at, ms

(* A node that is pushed, under a new id or under one that is in use.      *)
LEMMA LookOfAppended ==
    ASSUME NEW R, NEW ns \in Seq(R), NEW n \in R
    PROVE  LET ms == Append(ns, n) IN
           /\ ms \in Seq(R) /\ IdsIn(ms) = IdsIn(ns) \union {n.id}
           /\ Positions(ms) = Put(Positions(ns), n.id, Len(ms))
           /\ Look(ms) = Put(Look(ns), n.id, n)
<1> DEFINE at == Positions(ns)
           ms == Append(ns, n)
           to == Put(at, n.id, Len(ms))
<1>1. /\ DOMAIN at = IdsIn(ns)
      /\ \A id \in IdsIn(ns) : /\ at[id] \in DOMAIN ns /\ ns[at[id]].id = id
                               /\ \A i \in DOMAIN ns : ns[i].id = id => i <= at[id]
  BY LookProperties, PositionsProperties
<1> HIDE DEF at
<1>2. /\ ms \in Seq(R) /\ Len(ms) = Len(ns) + 1 /\ Len(ns) \in Nat
      /\ DOMAIN ns = 1..Len(ns) /\ DOMAIN ms = 1..Len(ms)
      /\ ms[Len(ms)] = n /\ \A i \in DOMAIN ns : ms[i] = ns[i]
  BY AppendProperties
<1> HIDE DEF ms
<1>3. \A i \in DOMAIN ms : i = Len(ms) \/ i \in DOMAIN ns
  BY <1>2
<1>4. DOMAIN ns \subseteq DOMAIN ms /\ Len(ms) \in DOMAIN ms
  BY <1>2
<1>5. IdsIn(ms) = IdsIn(ns) \union {n.id}
  BY <1>2, <1>3, <1>4 DEF IdsIn
<1>6. to = [id \in IdsIn(ms) |-> IF id = n.id THEN Len(ms) ELSE at[id]]
  BY <1>1, <1>5 DEF Put
<1>7. ASSUME NEW id \in IdsIn(ms)
      PROVE  /\ to[id] \in DOMAIN ms /\ ms[to[id]].id = id
             /\ \A i \in DOMAIN ms : ms[i].id = id => i <= to[id]
  <2> HIDE DEF to
  <2>1. CASE id = n.id
    BY <1>2, <1>4, <1>6, <2>1
  <2>2. CASE id # n.id
    <3>1. id \in IdsIn(ns) /\ to[id] = at[id]
      BY <1>5, <1>6, <2>2
    <3>2. ASSUME NEW i \in DOMAIN ms, ms[i].id = id
          PROVE  i <= at[id]
      <4>1. i \in DOMAIN ns
        BY <1>2, <1>3, <2>2, <3>2
      <4> QED
        BY <1>1, <1>2, <3>1, <3>2, <4>1
    <3> QED
      BY <1>1, <1>2, <1>4, <3>1, <3>2
  <2> QED
    BY <2>1, <2>2
<1>8. to = Positions(ms)
  <2>1. DOMAIN to = IdsIn(ms) /\ to = [id \in DOMAIN to |-> to[id]]
    BY <1>6
  <2> HIDE DEF to
  <2> QED
    BY <1>2, <1>7, <2>1, PositionsUnique
<1>9. Look(ns) = [id \in IdsIn(ns) |-> ns[at[id]]]
  BY DEF Look, at
<1>10. Look(ms) = Put(Look(ns), n.id, n)
  <2>1. Look(ms) = [id \in IdsIn(ms) |-> ms[to[id]]]
    BY <1>8 DEF Look
  <2>2. Put(Look(ns), n.id, n) = [id \in IdsIn(ms) |-> IF id = n.id THEN n ELSE ns[at[id]]]
    BY <1>5, <1>9 DEF Put
  <2>3. \A id \in IdsIn(ms) : ms[to[id]] = IF id = n.id THEN n ELSE ns[at[id]]
    <3> HIDE DEF to
    <3> QED
      BY <1>1, <1>2, <1>5, <1>6
  <2> HIDE DEF to
  <2> QED
    BY <2>1, <2>2, <2>3
<1> QED
  BY <1>2, <1>5, <1>8, <1>10 DEF at, ms

(* The nodes that are retained: every node of the ids that stay.           *)
Remaining(ns, gone) == Retain(ns, {i \in DOMAIN ns : ns[i].id \notin gone})

(* Vec::retain keeps the nodes of the ids that stay, each as it was.       *)
LEMMA LookOfRetained ==
    ASSUME NEW R, NEW ns \in Seq(R), NEW gone
    PROVE  /\ Remaining(ns, gone) \in Seq(R)
           /\ IdsIn(Remaining(ns, gone)) = IdsIn(ns) \ gone
           /\ Look(Remaining(ns, gone)) = Restrict(Look(ns), IdsIn(ns) \ gone)
<1> DEFINE I == {i \in DOMAIN ns : ns[i].id \notin gone}
           ms == Retain(ns, I)
<1>1. I \in SUBSET (DOMAIN ns) /\ ms = Remaining(ns, gone)
  BY DEF Remaining
<1>2. \A i \in DOMAIN ns : i \in I <=> ns[i].id \notin gone
  OBVIOUS
<1> HIDE DEF I
<1>3. ms \in Seq(R) /\ \E at : Picks(at, ms, ns, I)
  BY <1>1, RetainProperties
<1>4. PICK at : Picks(at, ms, ns, I)
  BY <1>3
<1> HIDE DEF ms
<1>5. /\ DOMAIN ms = 1..Len(ms) /\ Len(ms) \in Nat
      /\ DOMAIN ns = 1..Len(ns) /\ Len(ns) \in Nat
  BY <1>3
<1>6. \A k \in DOMAIN ms : at[k] \in I /\ at[k] \in DOMAIN ns /\ ms[k] = ns[at[k]]
  BY <1>1, <1>4 DEF Picks
<1>7. \A i \in I : \E k \in DOMAIN ms : at[k] = i
  BY <1>4 DEF Picks
<1>8. IdsIn(ms) = IdsIn(ns) \ gone
  <2>1. IdsIn(ms) \subseteq IdsIn(ns) \ gone
    BY <1>2, <1>6 DEF IdsIn
  <2>2. ASSUME NEW i \in DOMAIN ns, ns[i].id \notin gone
        PROVE  ns[i].id \in IdsIn(ms)
    BY <1>2, <1>6, <1>7, <2>2 DEF IdsIn
  <2> QED
    BY <2>1, <2>2 DEF IdsIn
<1>9. ASSUME NEW id \in IdsIn(ms)
      PROVE  Look(ms)[id] = Look(ns)[id]
  <2>1. /\ Positions(ns)[id] \in DOMAIN ns /\ ns[Positions(ns)[id]].id = id
        /\ \A i \in DOMAIN ns : ns[i].id = id => i <= Positions(ns)[id]
        /\ Look(ns)[id] = ns[Positions(ns)[id]]
    BY <1>8, PositionsProperties, LookProperties
  <2>2. /\ Positions(ms)[id] \in DOMAIN ms /\ ms[Positions(ms)[id]].id = id
        /\ \A i \in DOMAIN ms : ms[i].id = id => i <= Positions(ms)[id]
        /\ Look(ms)[id] = ms[Positions(ms)[id]]
    BY <1>3, PositionsProperties, LookProperties
  <2>3. PICK k \in DOMAIN ms : at[k] = Positions(ns)[id]
    BY <1>2, <1>7, <1>8, <2>1
  <2>4. ms[k].id = id
    BY <1>6, <2>1, <2>3
  <2>5. k <= Positions(ms)[id] /\ at[Positions(ms)[id]] <= at[k]
    BY <1>6, <2>1, <2>2, <2>3, <2>4
  <2>6. k = Positions(ms)[id]
    <3>1. at[k] \in Nat /\ at[Positions(ms)[id]] \in Nat /\ k \in Nat /\ Positions(ms)[id] \in Nat
      BY <1>5, <1>6, <2>2
    <3>2. ~(k < Positions(ms)[id])
      BY <1>4, <2>2, <2>5, <3>1 DEF Picks
    <3> QED
      BY <2>5, <3>1, <3>2
  <2> QED
    BY <1>6, <2>1, <2>2, <2>3, <2>6
<1>10. Look(ms) = Restrict(Look(ns), IdsIn(ns) \ gone)
  BY <1>8, <1>9 DEF Look, Restrict
<1> QED
  BY <1>1, <1>3, <1>8, <1>10

----------------------------------------------------------------------------
(* The nodes the callers see, and how the changes of the vector show.      *)

Plain(n) == [kind |-> n.kind, label |-> n.label, value |-> n.value,
             children |-> n.children]

Seen(ns) == [id \in IdsIn(ns) |-> Plain(Look(ns)[id])]

(* A stored node with one field changed, and how it shows.                 *)
LEMMA FieldChange ==
    ASSUME NEW n \in StoredNodes
    PROVE  /\ n.id \in Ids /\ n.children \in Seq(Ids)
           /\ \A cs \in Seq(Ids) :
                 /\ [n EXCEPT !.children = cs] \in StoredNodes
                 /\ [n EXCEPT !.children = cs].id = n.id
                 /\ Plain([n EXCEPT !.children = cs]) = [Plain(n) EXCEPT !.children = cs]
           /\ \A v \in Values \union {NoValue} :
                 /\ [n EXCEPT !.value = v] \in StoredNodes
                 /\ [n EXCEPT !.value = v].id = n.id
                 /\ Plain([n EXCEPT !.value = v]) = [Plain(n) EXCEPT !.value = v]
           /\ \A l \in Labels :
                 /\ [n EXCEPT !.label = l] \in StoredNodes
                 /\ [n EXCEPT !.label = l].id = n.id
                 /\ Plain([n EXCEPT !.label = l]) = [Plain(n) EXCEPT !.label = l]
<1>1. n.id \in Ids /\ n.children \in Seq(Ids)
  BY DEF StoredNodes
<1>2. ASSUME NEW cs \in Seq(Ids)
      PROVE  /\ [n EXCEPT !.children = cs] \in StoredNodes
             /\ [n EXCEPT !.children = cs].id = n.id
             /\ Plain([n EXCEPT !.children = cs]) = [Plain(n) EXCEPT !.children = cs]
  BY DEF StoredNodes, Plain
<1>3. ASSUME NEW v \in Values \union {NoValue}
      PROVE  /\ [n EXCEPT !.value = v] \in StoredNodes
             /\ [n EXCEPT !.value = v].id = n.id
             /\ Plain([n EXCEPT !.value = v]) = [Plain(n) EXCEPT !.value = v]
  BY DEF StoredNodes, Plain
<1>4. ASSUME NEW l \in Labels
      PROVE  /\ [n EXCEPT !.label = l] \in StoredNodes
             /\ [n EXCEPT !.label = l].id = n.id
             /\ Plain([n EXCEPT !.label = l]) = [Plain(n) EXCEPT !.label = l]
  BY DEF StoredNodes, Plain
<1> QED
  BY <1>1, <1>2, <1>3, <1>4

Changed(ns, p, n) == [ns EXCEPT ![Positions(ns)[p]] = n]

(* A write to the node stored for an id changes what its callers see of    *)
(* that id and of no other, and moves no node.                             *)
LEMMA SeenOfChanged ==
    ASSUME NEW ns \in Seq(StoredNodes), NEW p \in IdsIn(ns),
           NEW n \in StoredNodes, n.id = p
    PROVE  /\ Changed(ns, p, n) \in Seq(StoredNodes)
           /\ Positions(Changed(ns, p, n)) = Positions(ns)
           /\ Seen(Changed(ns, p, n)) = [Seen(ns) EXCEPT ![p] = Plain(n)]
<1> DEFINE ms == Changed(ns, p, n)
<1>1. ms \in Seq(StoredNodes) /\ Positions(ms) = Positions(ns) /\ Look(ms) = [Look(ns) EXCEPT ![p] = n]
  BY LookOfChanged DEF Changed
<1>2. DOMAIN Look(ms) = IdsIn(ms) /\ DOMAIN Look(ns) = IdsIn(ns)
  BY DEF Look
<1> HIDE DEF ms
<1>3. Seen(ms) = [Seen(ns) EXCEPT ![p] = Plain(n)]
  BY <1>1, <1>2 DEF Seen
<1> QED
  BY <1>1, <1>3 DEF ms

(* A node is listed last by p, if p is there.                              *)
LEMMA SeenOfListed ==
    ASSUME NEW ns \in Seq(StoredNodes), NEW id \in Ids, NEW p
    PROVE  /\ Listed(ns, Positions(ns), id, p) \in Seq(StoredNodes)
           /\ Positions(Listed(ns, Positions(ns), id, p)) = Positions(ns)
           /\ Seen(Listed(ns, Positions(ns), id, p)) =
                         IF p \in IdsIn(ns)
                         THEN [Seen(ns) EXCEPT ![p].children = Append(@, id)]
                         ELSE Seen(ns)
<1> DEFINE at == Positions(ns)
           old == Look(ns)[p]
           n == [old EXCEPT !.children = Append(@, id)]
<1>1. DOMAIN at = IdsIn(ns)
  BY LookProperties
<1>2. CASE p \in IdsIn(ns)
  <2>1. old \in StoredNodes /\ old = ns[at[p]] /\ old.id = p /\ Seen(ns)[p] = Plain(old)
    BY <1>2, LookProperties DEF Seen
  <2>2. /\ n \in StoredNodes /\ n.id = p
        /\ Plain(n) = [Plain(old) EXCEPT !.children = Append(old.children, id)]
    <3> HIDE DEF old
    <3>1. Append(old.children, id) \in Seq(Ids)
      BY <2>1, FieldChange, AppendProperties
    <3> QED
      BY <2>1, <3>1, FieldChange, ZenonT(60)
  <2>3. Listed(ns, at, id, p) = Changed(ns, p, n)
    BY <1>1, <1>2, <2>1 DEF Listed, Changed
  <2>4. Plain(old).children = old.children
    BY DEF Plain
  <2>5. [Seen(ns) EXCEPT ![p].children = Append(@, id)] = [Seen(ns) EXCEPT ![p] = Plain(n)]
    <3> HIDE DEF n, old
    <3> QED
      BY <2>1, <2>2, <2>4
  <2> HIDE DEF n, old
  <2>6. /\ Changed(ns, p, n) \in Seq(StoredNodes) /\ Positions(Changed(ns, p, n)) = at
        /\ Seen(Changed(ns, p, n)) = [Seen(ns) EXCEPT ![p] = Plain(n)]
    BY <1>2, <2>2, SeenOfChanged
  <2> QED
    BY <1>2, <2>3, <2>5, <2>6
<1>3. CASE p \notin IdsIn(ns)
  BY <1>1, <1>3 DEF Listed
<1> QED
  BY <1>2, <1>3

(* A node is struck from the list of its parent, if parent_index and the   *)
(* vector know one.                                                        *)
LEMMA SeenOfStruck ==
    ASSUME nodes \in Seq(StoredNodes), index = Positions(nodes), NEW id
    PROVE  /\ Struck(id) \in Seq(StoredNodes) /\ Positions(Struck(id)) = index
           /\ Seen(Struck(id)) =
                 IF id \in DOMAIN parentIndex /\ parentIndex[id] \in IdsIn(nodes)
                 THEN [Seen(nodes) EXCEPT ![parentIndex[id]].children = Without(@, id)]
                 ELSE Seen(nodes)
<1> DEFINE p == parentIndex[id]
           old == Look(nodes)[p]
           n == [old EXCEPT !.children = Without(@, id)]
<1>1. DOMAIN index = IdsIn(nodes)
  BY LookProperties
<1>2. CASE id \in DOMAIN parentIndex /\ p \in IdsIn(nodes)
  <2>1. old \in StoredNodes /\ old = nodes[index[p]] /\ old.id = p /\ Seen(nodes)[p] = Plain(old)
    BY <1>2, LookProperties DEF Seen
  <2>2. /\ n \in StoredNodes /\ n.id = p
        /\ Plain(n) = [Plain(old) EXCEPT !.children = Without(old.children, id)]
    <3> HIDE DEF old
    <3> QED
      BY <2>1, FieldChange, WithoutProperties
  <2>3. Struck(id) = Changed(nodes, p, n)
    BY <1>1, <1>2, <2>1 DEF Struck, Changed
  <2>4. Plain(old).children = old.children
    BY DEF Plain
  <2>5. [Seen(nodes) EXCEPT ![p].children = Without(@, id)] = [Seen(nodes) EXCEPT ![p] = Plain(n)]
    <3> HIDE DEF n, old
    <3> QED
      BY <2>1, <2>2, <2>4
  <2> HIDE DEF n, old
  <2>6. /\ Changed(nodes, p, n) \in Seq(StoredNodes) /\ Positions(Changed(nodes, p, n)) = index
        /\ Seen(Changed(nodes, p, n)) = [Seen(nodes) EXCEPT ![p] = Plain(n)]
    BY <1>2, <2>2, SeenOfChanged
  <2> QED
    BY <1>2, <2>3, <2>5, <2>6
<1>3. CASE ~(id \in DOMAIN parentIndex /\ p \in IdsIn(nodes))
  BY <1>1, <1>3 DEF Struck
<1> QED
  BY <1>2, <1>3

----------------------------------------------------------------------------
(* The invariant of the storage, and what every operation does to the view *)
(* of the callers: TypeOK and IndexIsExact are inductive together.         *)

StorageInv == TypeOK /\ IndexIsExact

(* While the index is exact, reading through it shows every stored node,   *)
(* and no read panics.                                                     *)
LEMMA SeenByIndex ==
    ASSUME NEW ns \in Seq(StoredNodes), NEW at, at = Positions(ns)
    PROVE  [id \in DOMAIN at |->
               IF at[id] \in DOMAIN ns
               THEN [kind |-> ns[at[id]].kind, label |-> ns[at[id]].label,
                     value |-> ns[at[id]].value, children |-> ns[at[id]].children]
               ELSE "panic"] = Seen(ns)
BY LookProperties DEF Seen, Plain

(* The view while the index is exact.                                      *)
LEMMA ViewIs ==
    StorageInv => /\ View = [node |-> Seen(nodes), parent |-> parentIndex, next |-> nextId]
                  /\ DOMAIN index = IdsIn(nodes) /\ DOMAIN View.node = IdsIn(nodes)
                  /\ IdsIn(nodes) \subseteq Ids /\ IsFiniteSet(IdsIn(nodes))
<1> SUFFICES ASSUME StorageInv
             PROVE  /\ View = [node |-> Seen(nodes), parent |-> parentIndex, next |-> nextId]
                    /\ DOMAIN index = IdsIn(nodes) /\ DOMAIN View.node = IdsIn(nodes)
                    /\ IdsIn(nodes) \subseteq Ids /\ IsFiniteSet(IdsIn(nodes))
  OBVIOUS
<1>1. nodes \in Seq(StoredNodes) /\ index = Positions(nodes)
  BY DEF StorageInv, TypeOK, IndexIsExact
<1>2. View = [node |-> Seen(nodes), parent |-> parentIndex, next |-> nextId]
  BY <1>1, SeenByIndex DEF View, Node
<1>3. DOMAIN index = IdsIn(nodes)
  BY <1>1, LookProperties
<1>4. \A i \in DOMAIN nodes : nodes[i] \in StoredNodes
  BY <1>1
<1>5. IdsIn(nodes) \subseteq Ids
  BY <1>4, FieldChange DEF IdsIn
<1>6. IsFiniteSet(Ids)
  BY IdModAssumption, FS_Interval DEF Ids
<1>7. IsFiniteSet(IdsIn(nodes))
  BY <1>5, <1>6, FS_Subset
<1>8. DOMAIN View.node = IdsIn(nodes)
  BY <1>2 DEF Seen
<1> QED
  BY <1>2, <1>3, <1>5, <1>7, <1>8

(* A fresh tree is one root, indexed at position 0.                        *)
LEMMA InitStorage == Init => StorageInv /\ View = NewTree
<1> SUFFICES ASSUME Init PROVE StorageInv /\ View = NewTree
  OBVIOUS
<1> DEFINE n == StoredNode(RootId, "Root", "root", NoValue)
<1>1. RootId \in Ids /\ 1 \in Ids /\ n.id = RootId
  BY IdModAssumption DEF Ids, RootId, StoredNode
<1>2. n \in StoredNodes
  BY <1>1, EmptySeq DEF StoredNode, StoredNodes
<1>3. /\ nodes = <<n>> /\ index = [id \in {RootId} |-> 1] /\ parentIndex = << >>
      /\ nextId = 1 /\ overflown = FALSE
  BY DEF Init
<1> HIDE DEF n
<1>4. nodes \in Seq(StoredNodes) /\ DOMAIN nodes = {1} /\ nodes[1] = n
  BY <1>2, <1>3
<1>5. index = [x \in {RootId} |-> 1]
  BY <1>3
<1>6. IdsIn(nodes) = {RootId}
  BY <1>1, <1>4 DEF IdsIn
<1>7. index = Positions(nodes)
  <2>1. DOMAIN index = IdsIn(nodes) /\ index = [x \in DOMAIN index |-> index[x]]
    BY <1>5, <1>6
  <2>2. \A id \in DOMAIN index : /\ index[id] \in DOMAIN nodes /\ nodes[index[id]].id = id
                                 /\ \A i \in DOMAIN nodes : nodes[i].id = id => i <= index[id]
    BY <1>1, <1>4, <1>5
  <2> QED
    BY <1>4, <2>1, <2>2, PositionsUnique
<1>8. StorageInv
  <2>1. DOMAIN parentIndex = {}
    BY <1>3
  <2> QED
    BY <1>1, <1>3, <1>4, <1>7, <2>1 DEF StorageInv, TypeOK, IndexIsExact
<1>9. Look(nodes)[RootId] = n
  BY <1>4, <1>5, <1>6, <1>7 DEF Look
<1>10. Seen(nodes) = [x \in {RootId} |-> Plain(n)]
  BY <1>6, <1>9 DEF Seen
<1>11. Plain(n) = NewNode("Root", "root", NoValue)
  BY DEF n, Plain, StoredNode, NewNode
<1>12. View = NewTree
  BY <1>3, <1>8, <1>10, <1>11, ViewIs DEF NewTree
<1> QED
  BY <1>8, <1>12

(* What the view becomes, for a step that leaves the index exact.          *)
LEMMA ViewNext ==
    StorageInv' => View' = [node |-> Seen(nodes'), parent |-> parentIndex', next |-> nextId']
<1>1. StorageInv' => (View = [node |-> Seen(nodes), parent |-> parentIndex, next |-> nextId])'
  BY ViewIs, PTL
<1> QED
  BY <1>1

(* add_node_with_value: the node pushed and the index entry inserted       *)
(* together are the insertion of AstTree, its id wrapped.                  *)
LEMMA AddNodeStep ==
    ASSUME StorageInv, NEW kind \in Kinds, NEW label \in Labels, NEW value \in Values,
           NEW p \in Ids, AddNode(kind, label, value, p)
    PROVE  /\ StorageInv'
           /\ View' = [AddNodeWithValue(View, kind, label, value, p) EXCEPT !.next = @ % IdMod]
<1> DEFINE n == StoredNode(nextId, kind, label, value)
           grown == Append(nodes, n)
<1>1. /\ nodes \in Seq(StoredNodes) /\ index = Positions(nodes) /\ nextId \in Ids
      /\ DOMAIN parentIndex \subseteq Ids /\ overflown \in BOOLEAN
      /\ \A id \in DOMAIN parentIndex : parentIndex[id] \in Ids
  BY DEF StorageInv, TypeOK, IndexIsExact
<1>2. n \in StoredNodes /\ n.id = nextId /\ Plain(n) = NewNode(kind, label, value)
  BY <1>1, EmptySeq DEF StoredNode, StoredNodes, Plain, NewNode
<1>3. /\ index' = Put(index, nextId, Len(grown))
      /\ nodes' = Listed(grown, index', nextId, p)
      /\ parentIndex' = Put(parentIndex, nextId, p)
      /\ nextId' = (nextId + 1) % IdMod /\ overflown' = overflown
  BY DEF AddNode, Indexed, IdAfter
<1> HIDE DEF n
<1>4. /\ grown \in Seq(StoredNodes) /\ IdsIn(grown) = IdsIn(nodes) \union {nextId}
      /\ Positions(grown) = index' /\ Look(grown) = Put(Look(nodes), nextId, n)
  BY <1>1, <1>2, <1>3, LookOfAppended
<1> HIDE DEF grown
<1>5. /\ nodes' \in Seq(StoredNodes) /\ Positions(nodes') = index'
      /\ Seen(nodes') = IF p \in IdsIn(grown)
                        THEN [Seen(grown) EXCEPT ![p].children = Append(@, nextId)]
                        ELSE Seen(grown)
  <2>1. nodes' = Listed(grown, Positions(grown), nextId, p)
    BY <1>3, <1>4
  <2>2. /\ Listed(grown, Positions(grown), nextId, p) \in Seq(StoredNodes)
        /\ Positions(Listed(grown, Positions(grown), nextId, p)) = Positions(grown)
        /\ Seen(Listed(grown, Positions(grown), nextId, p)) =
              IF p \in IdsIn(grown)
              THEN [Seen(grown) EXCEPT ![p].children = Append(@, nextId)]
              ELSE Seen(grown)
    BY <1>1, <1>4, SeenOfListed
  <2> QED
    BY <1>4, <2>1, <2>2
<1>6. StorageInv'
  <2>1. nextId' \in Ids
    BY <1>1, <1>3, IdModAssumption DEF Ids
  <2>2. DOMAIN parentIndex' \subseteq Ids /\ \A id \in DOMAIN parentIndex' : parentIndex'[id] \in Ids
    BY <1>1, <1>3 DEF Put
  <2> QED
    BY <1>1, <1>3, <1>5, <2>1, <2>2 DEF StorageInv, TypeOK, IndexIsExact
<1>7. Seen(grown) = Put(Seen(nodes), nextId, NewNode(kind, label, value))
  <2>1. DOMAIN Look(nodes) = IdsIn(nodes)
    BY DEF Look
  <2> QED
    BY <1>2, <1>4, <2>1 DEF Seen, Put
<1>8. View = [node |-> Seen(nodes), parent |-> parentIndex, next |-> nextId]
  BY ViewIs
<1>9. DOMAIN Seen(grown) = IdsIn(grown)
  BY DEF Seen
<1>10. AddNodeWithValue(View, kind, label, value, p) =
         [node |-> Seen(nodes'), parent |-> parentIndex', next |-> nextId + 1]
  BY <1>3, <1>5, <1>7, <1>8, <1>9 DEF AddNodeWithValue
<1>11. View' = [node |-> Seen(nodes'), parent |-> parentIndex', next |-> (nextId + 1) % IdMod]
  BY <1>3, <1>6, ViewNext
<1> QED
  BY <1>6, <1>10, <1>11

(* A call of a recursion that ends on the view.                            *)
LEMMA RemoveNodeStep ==
    ASSUME StorageInv, NEW id \in Ids, RemoveNode(id)
    PROVE  /\ StorageInv'
           /\ \/ View' = RemoveSubtree(View, id)
              \/ UNCHANGED View
<1>1. /\ nodes \in Seq(StoredNodes) /\ index = Positions(nodes) /\ nextId \in Ids
      /\ DOMAIN parentIndex \subseteq Ids /\ overflown \in BOOLEAN
      /\ \A c \in DOMAIN parentIndex : parentIndex[c] \in Ids
  BY DEF StorageInv, TypeOK, IndexIsExact
<1>2. CASE UNCHANGED <<nodes, index, parentIndex, nextId>> /\ overflown' = TRUE
  BY <1>1, <1>2 DEF StorageInv, TypeOK, IndexIsExact, View, Node
<1>3. CASE Ends(View, id)
  <2> DEFINE gone == CollectSubtree(View, id)
             struck == Struck(id)
  <2>1. /\ nodes' = Kept(id, gone) /\ index' = Positions(nodes')
        /\ parentIndex' = Restrict(parentIndex, DOMAIN parentIndex \ gone)
        /\ nextId' = nextId /\ overflown' = overflown
    BY <1>3 DEF RemoveNode
  <2> HIDE DEF gone
  <2>2. /\ struck \in Seq(StoredNodes) /\ Positions(struck) = index
        /\ Seen(struck) = IF id \in DOMAIN parentIndex /\ parentIndex[id] \in IdsIn(nodes)
                          THEN [Seen(nodes) EXCEPT ![parentIndex[id]].children = Without(@, id)]
                          ELSE Seen(nodes)
    BY <1>1, SeenOfStruck
  <2>3. IdsIn(struck) = IdsIn(nodes)
    BY <1>1, <2>2, LookProperties
  <2> HIDE DEF struck
  <2>4. nodes' = Remaining(struck, gone)
    BY <2>1 DEF Kept, Remaining, struck
  <2>5. /\ nodes' \in Seq(StoredNodes) /\ IdsIn(nodes') = IdsIn(struck) \ gone
        /\ Look(nodes') = Restrict(Look(struck), IdsIn(struck) \ gone)
    BY <2>2, <2>4, LookOfRetained
  <2>6. StorageInv'
    BY <1>1, <2>1, <2>5 DEF StorageInv, TypeOK, IndexIsExact, Restrict
  <2>7. Seen(nodes') = Restrict(Seen(struck), IdsIn(nodes) \ gone)
    BY <2>3, <2>5 DEF Seen, Restrict
  <2>8. /\ View = [node |-> Seen(nodes), parent |-> parentIndex, next |-> nextId]
        /\ DOMAIN Seen(nodes) = IdsIn(nodes)
    BY ViewIs DEF Seen
  <2>9. Detach(View, id).node = Seen(struck)
    BY <2>2, <2>8 DEF Detach, IsLive
  <2>10. RemoveSubtree(View, id) = [node   |-> Restrict(Seen(struck), IdsIn(nodes) \ gone),
                                    parent |-> Restrict(parentIndex, DOMAIN parentIndex \ gone),
                                    next   |-> nextId]
    <3>1. RemoveSubtree(View, id) =
            [View EXCEPT !.node   = Restrict(Detach(View, id).node, DOMAIN View.node \ gone),
                         !.parent = Restrict(View.parent, DOMAIN View.parent \ gone)]
      BY DEF RemoveSubtree, gone
    <3>2. DOMAIN View.node = IdsIn(nodes) /\ View.parent = parentIndex
      BY <2>8
    <3> QED
      BY <2>8, <2>9, <3>1, <3>2
  <2>11. View' = [node |-> Seen(nodes'), parent |-> parentIndex', next |-> nextId']
    BY <2>6, ViewNext
  <2> QED
    BY <2>1, <2>6, <2>7, <2>10, <2>11
<1> QED
  BY <1>2, <1>3 DEF RemoveNode

(* The write through get_node_mut of a value is SetValue of AstTree.       *)
LEMMA ChangeValueStep ==
    ASSUME StorageInv, NEW id \in Ids, NEW v \in Values \union {NoValue}, ChangeValue(id, v)
    PROVE  StorageInv' /\ View' = SetValue(View, id, v)
<1> DEFINE n == [Look(nodes)[id] EXCEPT !.value = v]
<1>1. /\ nodes \in Seq(StoredNodes) /\ index = Positions(nodes) /\ id \in IdsIn(nodes)
      /\ View = [node |-> Seen(nodes), parent |-> parentIndex, next |-> nextId]
      /\ UNCHANGED <<index, parentIndex, nextId, overflown>>
  BY ViewIs DEF StorageInv, TypeOK, IndexIsExact, ChangeValue
<1>2. /\ Look(nodes)[id] \in StoredNodes /\ Look(nodes)[id] = nodes[index[id]]
      /\ Look(nodes)[id].id = id
  BY <1>1, LookProperties
<1>3. n \in StoredNodes /\ n.id = id /\ Plain(n) = [Plain(Look(nodes)[id]) EXCEPT !.value = v]
  BY <1>2, FieldChange
<1>4. nodes' = Changed(nodes, id, n)
  BY <1>1, <1>2 DEF ChangeValue, Changed
<1> HIDE DEF n
<1>5. /\ nodes' \in Seq(StoredNodes) /\ Positions(nodes') = index
      /\ Seen(nodes') = [Seen(nodes) EXCEPT ![id] = Plain(n)]
  BY <1>1, <1>3, <1>4, SeenOfChanged
<1>6. Seen(nodes)[id] = Plain(Look(nodes)[id]) /\ DOMAIN Seen(nodes) = IdsIn(nodes)
  BY <1>1 DEF Seen
<1>7. StorageInv'
  BY <1>1, <1>5 DEF StorageInv, TypeOK, IndexIsExact
<1>8. View' = [node |-> Seen(nodes'), parent |-> parentIndex, next |-> nextId]
  BY <1>1, <1>7, ViewNext
<1>9. [Seen(nodes) EXCEPT ![id] = Plain(n)] = [Seen(nodes) EXCEPT ![id].value = v]
  BY <1>3, <1>6
<1> QED
  BY <1>1, <1>5, <1>6, <1>7, <1>8, <1>9 DEF SetValue, IsLive

(* The same of a label.                                                    *)
LEMMA ChangeLabelStep ==
    ASSUME StorageInv, NEW id \in Ids, NEW l \in Labels, ChangeLabel(id, l)
    PROVE  StorageInv' /\ View' = SetLabel(View, id, l)
<1> DEFINE n == [Look(nodes)[id] EXCEPT !.label = l]
<1>1. /\ nodes \in Seq(StoredNodes) /\ index = Positions(nodes) /\ id \in IdsIn(nodes)
      /\ View = [node |-> Seen(nodes), parent |-> parentIndex, next |-> nextId]
      /\ UNCHANGED <<index, parentIndex, nextId, overflown>>
  BY ViewIs DEF StorageInv, TypeOK, IndexIsExact, ChangeLabel
<1>2. /\ Look(nodes)[id] \in StoredNodes /\ Look(nodes)[id] = nodes[index[id]]
      /\ Look(nodes)[id].id = id
  BY <1>1, LookProperties
<1>3. n \in StoredNodes /\ n.id = id /\ Plain(n) = [Plain(Look(nodes)[id]) EXCEPT !.label = l]
  BY <1>2, FieldChange
<1>4. nodes' = Changed(nodes, id, n)
  BY <1>1, <1>2 DEF ChangeLabel, Changed
<1> HIDE DEF n
<1>5. /\ nodes' \in Seq(StoredNodes) /\ Positions(nodes') = index
      /\ Seen(nodes') = [Seen(nodes) EXCEPT ![id] = Plain(n)]
  BY <1>1, <1>3, <1>4, SeenOfChanged
<1>6. Seen(nodes)[id] = Plain(Look(nodes)[id]) /\ DOMAIN Seen(nodes) = IdsIn(nodes)
  BY <1>1 DEF Seen
<1>7. StorageInv'
  BY <1>1, <1>5 DEF StorageInv, TypeOK, IndexIsExact
<1>8. View' = [node |-> Seen(nodes'), parent |-> parentIndex, next |-> nextId]
  BY <1>1, <1>7, ViewNext
<1>9. [Seen(nodes) EXCEPT ![id] = Plain(n)] = [Seen(nodes) EXCEPT ![id].label = l]
  BY <1>3, <1>6
<1> QED
  BY <1>1, <1>5, <1>6, <1>7, <1>8, <1>9 DEF SetLabel, IsLive

(* The move that apply_patch makes, through the index and the parent map,  *)
(* is MoveNode of AstTree.                                                 *)
LEMMA MoveChildStep ==
    ASSUME StorageInv, NEW id \in Ids, NEW p \in Ids, MoveChild(id, p)
    PROVE  StorageInv' /\ View' = MoveNode(View, id, p)
<1> DEFINE struck == Struck(id)
<1>1. /\ nodes \in Seq(StoredNodes) /\ index = Positions(nodes)
      /\ View = [node |-> Seen(nodes), parent |-> parentIndex, next |-> nextId]
      /\ UNCHANGED <<index, parentIndex, nextId, overflown>>
      /\ nodes' = Listed(struck, index, id, p)
  BY ViewIs DEF StorageInv, TypeOK, IndexIsExact, MoveChild
<1>2. /\ struck \in Seq(StoredNodes) /\ Positions(struck) = index
      /\ Seen(struck) = IF id \in DOMAIN parentIndex /\ parentIndex[id] \in IdsIn(nodes)
                        THEN [Seen(nodes) EXCEPT ![parentIndex[id]].children = Without(@, id)]
                        ELSE Seen(nodes)
  BY <1>1, SeenOfStruck
<1>3. IdsIn(struck) = IdsIn(nodes)
  BY <1>1, <1>2, LookProperties
<1> HIDE DEF struck
<1>4. /\ nodes' \in Seq(StoredNodes) /\ Positions(nodes') = index
      /\ Seen(nodes') = IF p \in IdsIn(struck)
                        THEN [Seen(struck) EXCEPT ![p].children = Append(@, id)]
                        ELSE Seen(struck)
  <2>1. nodes' = Listed(struck, Positions(struck), id, p)
    BY <1>1, <1>2
  <2>2. /\ Listed(struck, Positions(struck), id, p) \in Seq(StoredNodes)
        /\ Positions(Listed(struck, Positions(struck), id, p)) = Positions(struck)
        /\ Seen(Listed(struck, Positions(struck), id, p)) =
              IF p \in IdsIn(struck)
              THEN [Seen(struck) EXCEPT ![p].children = Append(@, id)]
              ELSE Seen(struck)
    BY <1>2, SeenOfListed
  <2> QED
    BY <1>2, <2>1, <2>2
<1>5. StorageInv'
  BY <1>1, <1>4 DEF StorageInv, TypeOK, IndexIsExact
<1>6. View' = [node |-> Seen(nodes'), parent |-> parentIndex, next |-> nextId]
  BY <1>1, <1>5, ViewNext
<1>7. DOMAIN Seen(nodes) = IdsIn(nodes)
  BY DEF Seen
<1>8. Detach(View, id) = [node |-> Seen(struck), parent |-> parentIndex, next |-> nextId]
  BY <1>1, <1>2, <1>7 DEF Detach, IsLive
<1>9. MoveNode(View, id, p) = [node |-> Seen(nodes'), parent |-> parentIndex, next |-> nextId]
  <2>1. IsLive(View, p) <=> p \in IdsIn(nodes)
    BY <1>1, <1>7 DEF IsLive
  <2>2. CASE p \in IdsIn(nodes)
    <3>1. MoveNode(View, id, p) = [Detach(View, id) EXCEPT !.node[p].children = Append(@, id)]
      BY <2>1, <2>2 DEF MoveNode
    <3>2. Seen(nodes') = [Seen(struck) EXCEPT ![p].children = Append(@, id)]
      BY <1>3, <1>4, <2>2
    <3> QED
      BY <1>8, <3>1, <3>2
  <2>3. CASE p \notin IdsIn(nodes)
    BY <1>3, <1>4, <1>8, <2>1, <2>3 DEF MoveNode
  <2> QED
    BY <2>2, <2>3
<1> QED
  BY <1>5, <1>6, <1>9

----------------------------------------------------------------------------
(* The invariant, and the map the storage implements.                      *)

(* A step of the storage keeps its invariant, and is a step of the map.    *)
LEMMA StorageStep ==
    ASSUME StorageInv, Next
    PROVE  /\ StorageInv'
           /\ \/ \E kind \in Kinds, label \in Labels, value \in Values, p \in Ids :
                    View' = [AddNodeWithValue(View, kind, label, value, p)
                                EXCEPT !.next = @ % IdMod]
              \/ \E id \in Ids : View' = RemoveSubtree(View, id)
              \/ \E id \in Ids, v \in Values \union {NoValue} : View' = SetValue(View, id, v)
              \/ \E id \in Ids, l \in Labels : View' = SetLabel(View, id, l)
              \/ \E id \in Ids, p \in Ids : View' = MoveNode(View, id, p)
              \/ UNCHANGED View
<1>1. CASE \E kind \in Kinds, label \in Labels, value \in Values, p \in Ids :
              AddNode(kind, label, value, p)
  BY <1>1, AddNodeStep
<1>2. CASE \E id \in Ids : RemoveNode(id)
  BY <1>2, RemoveNodeStep
<1>3. CASE \E id \in Ids, v \in Values \union {NoValue} : ChangeValue(id, v)
  BY <1>3, ChangeValueStep
<1>4. CASE \E id \in Ids, l \in Labels : ChangeLabel(id, l)
  BY <1>4, ChangeLabelStep
<1>5. CASE \E id, p \in Ids : MoveChild(id, p)
  BY <1>5, MoveChildStep
<1> QED
  BY <1>1, <1>2, <1>3, <1>4, <1>5 DEF Next

(* Whatever ids the callers pass, the vector and its indexes are what they *)
(* are documented to be, and the index is what a rebuild would give.       *)
THEOREM StorageInvHolds == Spec => []StorageInv
<1>1. Init => StorageInv
  BY InitStorage
<1>2. StorageInv /\ [Next]_vars => StorageInv'
  <2> SUFFICES ASSUME StorageInv, [Next]_vars
               PROVE  StorageInv'
    OBVIOUS
  <2>1. CASE Next
    BY <2>1, StorageStep
  <2>2. CASE UNCHANGED vars
    BY <2>2 DEF vars, tvars, StorageInv, TypeOK, IndexIsExact
  <2> QED
    BY <2>1, <2>2
<1> QED
  BY <1>1, <1>2, PTL DEF Spec

(* The types of the storage, for every number of ids.                      *)
THEOREM StorageTypeOK == Spec => []TypeOK
<1>1. StorageInv => TypeOK
  BY DEF StorageInv
<1> QED
  BY <1>1, StorageInvHolds, PTL

(* The id index is at any time what a rebuild from the vector would give.  *)
THEOREM StorageIndexIsExact == Spec => []IndexIsExact
<1>1. StorageInv => IndexIsExact
  BY DEF StorageInv
<1> QED
  BY <1>1, StorageInvHolds, PTL

(* The operators of the map are those the storage is described with.       *)
LEMMA SameOperators ==
    /\ Abs!NewTree = NewTree
    /\ \A t, kind, label, value, p :
          Abs!AddNodeWithValue(t, kind, label, value, p) = AddNodeWithValue(t, kind, label, value, p)
    /\ \A t, id : Abs!RemoveSubtree(t, id) = RemoveSubtree(t, id)
    /\ \A t, id, v : Abs!SetValue(t, id, v) = SetValue(t, id, v)
    /\ \A t, id, l : Abs!SetLabel(t, id, l) = SetLabel(t, id, l)
    /\ \A t, id, p : Abs!MoveNode(t, id, p) = MoveNode(t, id, p)
    /\ Abs!Ids = Ids
<1>1. Abs!NewTree = NewTree
  BY DEF Abs!NewTree, NewTree, Abs!NewNode, NewNode, Abs!RootId, RootId, Abs!NoValue, NoValue
<1>2. ASSUME NEW t, NEW kind, NEW label, NEW value, NEW p
      PROVE  Abs!AddNodeWithValue(t, kind, label, value, p) = AddNodeWithValue(t, kind, label, value, p)
  BY DEF Abs!AddNodeWithValue, AddNodeWithValue, Abs!NewNode, NewNode, Abs!Put, Put
<1>3. \A S : Abs!Cardinality(S) = Cardinality(S)
  BY DEF Abs!Cardinality, Cardinality
<1>4. ASSUME NEW t, NEW id
      PROVE  Abs!CollectSubtree(t, id) = CollectSubtree(t, id)
  BY <1>3 DEF Abs!CollectSubtree, CollectSubtree, Abs!WithChildren, WithChildren,
         Abs!ChildrenOf, ChildrenOf, Abs!IsLive, IsLive, Abs!ToSet, ToSet
<1>5. ASSUME NEW t, NEW id
      PROVE  Abs!Detach(t, id) = Detach(t, id)
  <2>1. \A s, I : Abs!Retain(s, I) = Retain(s, I)
    BY DEF Abs!Retain, Retain, Abs!Cardinality, Cardinality
  <2>2. \A s, e : Abs!Without(s, e) = Without(s, e)
    BY <2>1 DEF Abs!Without, Without
  <2> QED
    BY <2>2 DEF Abs!Detach, Detach, Abs!IsLive, IsLive
<1>6. ASSUME NEW t, NEW id
      PROVE  Abs!RemoveSubtree(t, id) = RemoveSubtree(t, id)
  BY <1>4, <1>5 DEF Abs!RemoveSubtree, RemoveSubtree, Abs!Restrict, Restrict
<1>7. ASSUME NEW t, NEW id, NEW v
      PROVE  Abs!SetValue(t, id, v) = SetValue(t, id, v) /\ Abs!SetLabel(t, id, v) = SetLabel(t, id, v)
  BY DEF Abs!SetValue, SetValue, Abs!SetLabel, SetLabel, Abs!IsLive, IsLive
<1>8. ASSUME NEW t, NEW id, NEW p
      PROVE  Abs!MoveNode(t, id, p) = MoveNode(t, id, p)
  BY <1>5 DEF Abs!MoveNode, MoveNode, Abs!IsLive, IsLive
<1> QED
  BY <1>1, <1>2, <1>6, <1>7, <1>8 DEF Abs!Ids, Ids

(* The vector and its two indexes implement the map the callers see, ids   *)
(* that wrap and ids that are not there included.                          *)
THEOREM StorageImplements == Spec => Implements
<1>1. Init => Abs!Init
  BY InitStorage, SameOperators DEF Abs!Init
<1>2. StorageInv /\ [Next]_vars => [Abs!Next]_View
  <2> SUFFICES ASSUME StorageInv, [Next]_vars
               PROVE  [Abs!Next]_View
    OBVIOUS
  <2>1. CASE Next
    <3> HIDE DEF View
    <3> QED
      BY <2>1, StorageStep, SameOperators
      DEF Abs!Next, Abs!NoValue, NoValue, Abs!AddNode, Abs!RemoveNode, Abs!ChangeValue, Abs!ChangeLabel, Abs!MoveChild
  <2>2. CASE UNCHANGED vars
    BY <2>2 DEF vars, tvars, View, Node
  <2> QED
    BY <2>1, <2>2
<1> QED
  BY <1>1, <1>2, StorageInvHolds, PTL DEF Spec, Implements, Abs!Spec

----------------------------------------------------------------------------
(* The action properties, in terms of the view.                            *)

(* What the lists of the view are made of.                                 *)
LEMMA ViewLists ==
    StorageInv => /\ Lists(View, Ids) /\ View.next \in Ids /\ IsFiniteSet(DOMAIN View.node)
                  /\ DOMAIN index = DOMAIN View.node /\ View.next = nextId
                  /\ View.parent = parentIndex
                  /\ \A p \in DOMAIN index : /\ Node(p).children = View.node[p].children
                                             /\ ToSet(Node(p).children) = KidsOf(View, p)
<1> SUFFICES ASSUME StorageInv
             PROVE  /\ Lists(View, Ids) /\ View.next \in Ids /\ IsFiniteSet(DOMAIN View.node)
                    /\ DOMAIN index = DOMAIN View.node /\ View.next = nextId
                    /\ View.parent = parentIndex
                    /\ \A p \in DOMAIN index : /\ Node(p).children = View.node[p].children
                                               /\ ToSet(Node(p).children) = KidsOf(View, p)
  OBVIOUS
<1>1. nodes \in Seq(StoredNodes) /\ index = Positions(nodes) /\ nextId \in Ids
  BY DEF StorageInv, TypeOK, IndexIsExact
<1>2. /\ View = [node |-> Seen(nodes), parent |-> parentIndex, next |-> nextId]
      /\ DOMAIN index = IdsIn(nodes) /\ DOMAIN View.node = IdsIn(nodes)
      /\ IsFiniteSet(IdsIn(nodes))
  BY ViewIs
<1>3. ASSUME NEW p \in IdsIn(nodes)
      PROVE  /\ View.node[p].children = Look(nodes)[p].children
             /\ Node(p) = Look(nodes)[p]
             /\ Look(nodes)[p].children \in Seq(Ids)
  <2>1. Look(nodes)[p] \in StoredNodes /\ Look(nodes)[p] = nodes[index[p]]
    BY <1>1, LookProperties
  <2> QED
    BY <1>2, <2>1, FieldChange DEF Node, Seen, Plain
<1>4. \A p \in IdsIn(nodes) : KidsOf(View, p) = ToSet(View.node[p].children)
  BY <1>2 DEF KidsOf, ChildrenOf, IsLive
<1>5. View.next = nextId /\ View.parent = parentIndex
  BY <1>2
<1> HIDE DEF View
<1> QED
  BY <1>1, <1>2, <1>3, <1>4, <1>5 DEF Lists

(* The agreement of the lists and the absence of circles, of the storage   *)
(* and of its view.                                                        *)
LEMMA OfTheView ==
    StorageInv => (ListsAgree <=> Agreed(View)) /\ (Acyclic <=> NoCircle(View))
<1> SUFFICES ASSUME StorageInv
             PROVE  (ListsAgree <=> Agreed(View)) /\ (Acyclic <=> NoCircle(View))
  OBVIOUS
<1>1. /\ DOMAIN index = DOMAIN View.node /\ View.parent = parentIndex
      /\ \A p \in DOMAIN index : /\ Node(p).children = View.node[p].children
                                 /\ ToSet(Node(p).children) = KidsOf(View, p)
  BY ViewLists
<1> HIDE DEF View
<1>2. ListsAgree <=> Agreed(View)
  BY <1>1 DEF ListsAgree, Agreed
<1>3. Acyclic <=> NoCircle(View)
  BY <1>1 DEF Acyclic, NoCircle, Below, KidsOf
<1> QED
  BY <1>2, <1>3

(* What the view becomes in one step, with the call that was made.         *)
LEMMA ViewStep ==
    ASSUME StorageInv, Next
    PROVE  \/ \E kind \in Kinds, label \in Labels, value \in Values, p \in Ids :
                 /\ View'.node = AddNodeWithValue(View, kind, label, value, p).node
                 /\ View'.parent = AddNodeWithValue(View, kind, label, value, p).parent
                 /\ parentIndex'[nextId] = p /\ nextId' # nextId
           \/ \E id \in Ids : View' = RemoveSubtree(View, id)
           \/ SameLists(View, View')
           \/ \E id \in Ids, p \in Ids : MoveChild(id, p) /\ View' = MoveNode(View, id, p)
<1>1. CASE \E kind \in Kinds, label \in Labels, value \in Values, p \in Ids :
              AddNode(kind, label, value, p)
  <2>1. PICK kind \in Kinds, label \in Labels, value \in Values, p \in Ids :
              AddNode(kind, label, value, p)
    BY <1>1
  <2>2. View' = [AddNodeWithValue(View, kind, label, value, p) EXCEPT !.next = @ % IdMod]
    BY <2>1, AddNodeStep
  <2>3. parentIndex'[nextId] = p
    BY <2>1 DEF AddNode, Put
  <2>4. nextId' # nextId
    <3>1. nextId \in 0..(IdMod - 1) /\ nextId' = (nextId + 1) % IdMod
      BY <2>1 DEF AddNode, IdAfter, StorageInv, TypeOK, Ids
    <3>2. CASE nextId + 1 = IdMod
      BY <3>1, <3>2, IdModAssumption
    <3>3. CASE nextId + 1 < IdMod
      BY <3>1, <3>3, IdModAssumption
    <3> QED
      BY <3>1, <3>2, <3>3, IdModAssumption
  <2>5. /\ View'.node = AddNodeWithValue(View, kind, label, value, p).node
        /\ View'.parent = AddNodeWithValue(View, kind, label, value, p).parent
    <3> HIDE DEF View
    <3> QED
      BY <2>2 DEF AddNodeWithValue
  <2> QED
    BY <2>3, <2>4, <2>5
<1>2. CASE \E id \in Ids : RemoveNode(id)
  <2>1. (\E id \in Ids : View' = RemoveSubtree(View, id)) \/ View' = View
    BY <1>2, RemoveNodeStep
  <2> HIDE DEF View
  <2> QED
    BY <2>1 DEF SameLists
<1>3. CASE \E id \in Ids, v \in Values \union {NoValue} : ChangeValue(id, v)
  BY <1>3, ChangeValueStep, KidsOfSet
<1>4. CASE \E id \in Ids, l \in Labels : ChangeLabel(id, l)
  BY <1>4, ChangeLabelStep, KidsOfSet
<1>5. CASE \E id, p \in Ids : MoveChild(id, p)
  BY <1>5, MoveChildStep
<1> QED
  BY <1>1, <1>2, <1>3, <1>4, <1>5 DEF Next

(* OfTheView of the next state.                                            *)
LEMMA OfTheNextView ==
    StorageInv' => (ListsAgree' <=> Agreed(View')) /\ (Acyclic' <=> NoCircle(View'))
<1>1. StorageInv' => ((ListsAgree <=> Agreed(View)) /\ (Acyclic <=> NoCircle(View)))'
  BY OfTheView, PTL
<1> QED
  BY <1>1

(* Additions and removals leave the child lists and parent_index in        *)
(* agreement: a Move or an id given out again is all that parts them.      *)
THEOREM StorageListsStayAgreed == Spec => ListsStayAgreed
<1>1. StorageInv /\ StorageInv' /\ [Next]_vars => [ListsAgree => ListsAgree' \/ Moved \/ Reused]_vars
  <2> SUFFICES ASSUME StorageInv, StorageInv', Next, ListsAgree, ~Moved, ~Reused
               PROVE  ListsAgree'
    OBVIOUS
  <2>1. /\ Lists(View, Ids) /\ View.next \in Ids /\ IsFiniteSet(DOMAIN View.node)
        /\ DOMAIN index = DOMAIN View.node /\ View.next = nextId
    BY ViewLists
  <2>2. Agreed(View)
    BY OfTheView
  <2>3. CASE \E kind \in Kinds, label \in Labels, value \in Values, p \in Ids :
                /\ View'.node = AddNodeWithValue(View, kind, label, value, p).node
                /\ View'.parent = AddNodeWithValue(View, kind, label, value, p).parent
                /\ parentIndex'[nextId] = p /\ nextId' # nextId
    <3>1. View.next \notin DOMAIN View.node
      BY <2>1, <2>3 DEF Reused
    <3> HIDE DEF View
    <3>2. Agreed(View')
      BY <2>1, <2>2, <2>3, <3>1, AddAgrees
    <3> QED
      BY <3>2, OfTheNextView
  <2>4. CASE \E id \in Ids : View' = RemoveSubtree(View, id)
    <3> HIDE DEF View
    <3>1. Agreed(View')
      BY <2>1, <2>2, <2>4, RemoveAgrees
    <3> QED
      BY <3>1, OfTheNextView
  <2>5. CASE SameLists(View, View')
    <3> HIDE DEF View
    <3>1. Agreed(View')
      BY <2>2, <2>5, SetAgrees
    <3> QED
      BY <3>1, OfTheNextView
  <2> QED
    BY <2>3, <2>4, <2>5, ViewStep DEF Moved
<1> QED
  BY <1>1, StorageInvHolds, PTL DEF Spec, ListsStayAgreed

(* What the root does not reach it never reaches again without a Move, and *)
(* what is added is reached only if its parent is.                         *)
THEOREM StorageOrphansStay == Spec => OrphansStay
<1> DEFINE Stay == \A id \in Reachable(View)' :
                       \/ id \in Reachable(View)
                       \/ id = nextId /\ (parentIndex'[id] \in Reachable(View) \/ id = RootId)
<1>1. StorageInv /\ StorageInv' /\ [Next]_vars => [ListsAgree /\ ~Moved => Stay]_vars
  <2> SUFFICES ASSUME StorageInv, StorageInv', Next, ListsAgree, ~Moved,
                      NEW y \in Reachable(View')
               PROVE  \/ y \in Reachable(View)
                      \/ y = nextId /\ (parentIndex'[y] \in Reachable(View) \/ y = RootId)
    OBVIOUS
  <2>1. /\ Lists(View, Ids) /\ View.next \in Ids /\ IsFiniteSet(DOMAIN View.node)
        /\ View.next = nextId
    BY ViewLists
  <2>2. Agreed(View)
    BY OfTheView
  <2>3. View'.parent = parentIndex'
    BY ViewNext
  <2> HIDE DEF View
  <2>4. CASE \E kind \in Kinds, label \in Labels, value \in Values, p \in Ids :
                /\ View'.node = AddNodeWithValue(View, kind, label, value, p).node
                /\ View'.parent = AddNodeWithValue(View, kind, label, value, p).parent
                /\ parentIndex'[nextId] = p /\ nextId' # nextId
    <3>1. \/ y \in Reachable(View)
          \/ y = View.next /\ (View'.parent[y] \in Reachable(View) \/ y = RootId)
      BY <2>1, <2>2, <2>4, AddReaches
    <3> QED
      BY <2>1, <2>3, <3>1
  <2>5. CASE \E id \in Ids : View' = RemoveSubtree(View, id)
    <3>1. PICK id \in Ids : View' = RemoveSubtree(View, id)
      BY <2>5
    <3>2. DOMAIN View'.node \subseteq DOMAIN View.node /\ \A x : KidsOf(View', x) \subseteq KidsOf(View, x)
      BY <2>1, <3>1, RemoveShrinks
    <3> QED
      BY <2>1, <3>2, ShrinkReaches
  <2>6. CASE SameLists(View, View')
    <3>1. DOMAIN View'.node = DOMAIN View.node /\ \A x : KidsOf(View', x) = KidsOf(View, x)
      BY <2>6, KidsOfSame DEF SameLists
    <3> QED
      BY <2>1, <3>1, ShrinkReaches
  <2> QED
    BY <2>4, <2>5, <2>6, ViewStep DEF Moved
<1>2. OrphansStay <=> [][ListsAgree /\ ~Moved => Stay]_vars
  BY DEF OrphansStay
<1> QED
  BY <1>1, <1>2, StorageInvHolds, PTL DEF Spec

(* The recursions over the child lists go on ending: nothing but a node    *)
(* added below itself or moved below itself closes a circle.               *)
THEOREM StorageOnlySelfCloses == Spec => OnlySelfCloses
<1>1. StorageInv /\ StorageInv' /\ [Next]_vars =>
          [Acyclic => \/ Acyclic'
                      \/ nextId' # nextId /\ parentIndex'[nextId] = nextId
                      \/ \E id \in Ids : \E p \in CollectSubtree(View, id) :
                            MoveChild(id, p)]_vars
  <2> SUFFICES ASSUME StorageInv, StorageInv', Next, Acyclic,
                      ~(nextId' # nextId /\ parentIndex'[nextId] = nextId),
                      ~(\E id \in Ids : \E p \in CollectSubtree(View, id) : MoveChild(id, p))
               PROVE  Acyclic'
    OBVIOUS
  <2>1. /\ Lists(View, Ids) /\ View.next \in Ids /\ IsFiniteSet(DOMAIN View.node)
        /\ View.next = nextId
    BY ViewLists
  <2>2. NoCircle(View)
    BY OfTheView
  <2> HIDE DEF View
  <2>3. CASE \E kind \in Kinds, label \in Labels, value \in Values, p \in Ids :
                /\ View'.node = AddNodeWithValue(View, kind, label, value, p).node
                /\ View'.parent = AddNodeWithValue(View, kind, label, value, p).parent
                /\ parentIndex'[nextId] = p /\ nextId' # nextId
    <3>1. NoCircle(View')
      BY <2>1, <2>2, <2>3, AddNoCircle
    <3> QED
      BY <3>1, OfTheNextView
  <2>4. CASE \E id \in Ids : View' = RemoveSubtree(View, id)
    <3>1. PICK id \in Ids : View' = RemoveSubtree(View, id)
      BY <2>4
    <3>2. DOMAIN View'.node \subseteq DOMAIN View.node /\ \A x : KidsOf(View', x) \subseteq KidsOf(View, x)
      BY <2>1, <3>1, RemoveShrinks
    <3>3. NoCircle(View')
      BY <2>1, <2>2, <3>2, ShrinkReaches
    <3> QED
      BY <3>3, OfTheNextView
  <2>5. CASE SameLists(View, View')
    <3>1. DOMAIN View'.node = DOMAIN View.node /\ \A x : KidsOf(View', x) = KidsOf(View, x)
      BY <2>5, KidsOfSame DEF SameLists
    <3>2. NoCircle(View')
      BY <2>1, <2>2, <3>1, ShrinkReaches
    <3> QED
      BY <3>2, OfTheNextView
  <2>6. CASE \E id \in Ids, p \in Ids : MoveChild(id, p) /\ View' = MoveNode(View, id, p)
    <3>1. PICK id \in Ids, p \in Ids : MoveChild(id, p) /\ View' = MoveNode(View, id, p)
      BY <2>6
    <3>2. p \notin CollectSubtree(View, id)
      BY <3>1
    <3>3. NoCircle(View')
      BY <2>1, <2>2, <3>1, <3>2, MoveNoCircle
    <3> QED
      BY <3>3, OfTheNextView
  <2> QED
    BY <2>3, <2>4, <2>5, <2>6, ViewStep
<1> QED
  BY <1>1, StorageInvHolds, PTL DEF Spec, OnlySelfCloses
============================================================================
