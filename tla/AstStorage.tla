----------------------------- MODULE AstStorage ----------------------------
(***************************************************************************)
(* The flat storage of a scene tree (src/src/ast.rs): a vector of nodes,   *)
(* an index from ids to positions in it and an index from ids to parents.  *)
(* The callers are those that take any id: the C interface, and patches    *)
(* that were decoded or written by hand.  Ids come from a u32 that wraps   *)
(* in a release build; one with overflow checks panics there instead,      *)
(* before add_node has changed anything.                                   *)
(***************************************************************************)
EXTENDS AstDiff, FiniteSetsExt

CONSTANTS
    IdMod,      \* 2^32, the number of ids
    MaxCalls,   \* bound on the calls
    MaxMoves    \* bound on the moves among them

ASSUME IdModAssumption == IdMod \in Nat /\ IdMod > 1

VARIABLES
    nodes,      \* the vector
    index,      \* id -> position in nodes
    parentIndex,\* id -> id of the parent it was added below
    nextId,     \* the id of the next node
    overflown,  \* a recursion over the child lists has exhausted the stack
    calls,      \* calls made so far (only for the bound)
    moves       \* moves made so far (only for the bound)

tvars == <<nodes, index, parentIndex, nextId>>

vars == <<tvars, overflown, calls, moves>>

Ids == 0..(IdMod - 1)

(* get_node, on the ids that are in the index.                             *)
Node(id) == nodes[index[id]]

(* The tree the callers see.                                               *)
View ==
    [node   |-> [id \in DOMAIN index |->
                    IF index[id] \in DOMAIN nodes
                    THEN [kind |-> Node(id).kind, label |-> Node(id).label,
                          value |-> Node(id).value, children |-> Node(id).children]
                    ELSE "panic"],
     parent |-> parentIndex,
     next   |-> nextId]

(* Mutant of Positions: of nodes with the same id the first is found.      *)
PositionsOfFirst(ns) ==
    [id \in {ns[i].id : i \in DOMAIN ns} |-> Min({i \in DOMAIN ns : ns[i].id = id})]

(* The index that is built from scratch: of nodes with the same id the     *)
(* last one is found.                                                      *)
Positions(ns) ==
    [id \in {ns[i].id : i \in DOMAIN ns} |-> Max({i \in DOMAIN ns : ns[i].id = id})]

StoredNode(id, kind, label, value) ==
    [id |-> id, kind |-> kind, label |-> label, value |-> value, children |-> << >>]

Init ==
    /\ nodes = <<StoredNode(RootId, "Root", "root", NoValue)>>
    /\ index = [id \in {RootId} |-> 1]
    /\ parentIndex = << >>
    /\ nextId = 1
    /\ overflown = FALSE
    /\ calls = 0
    /\ moves = 0

Call ==
    /\ ~overflown
    /\ calls < MaxCalls
    /\ calls' = calls + 1

(* Mutant of IdAfter: the counter does not wrap.                           *)
IdAfterUnwrapped(id) == id + 1

IdAfter(id) == (id + 1) % IdMod

(* Mutant of Indexed: an id that is in the index keeps its entry.          *)
IndexedOnce(id, position) ==
    IF id \in DOMAIN index THEN index ELSE Put(index, id, position)

Indexed(id, position) == Put(index, id, position)

(* Mutant of Listed: where p is missing the root takes its place.          *)
ListedSomewhere(ns, at, id, p) ==
    LET q == IF p \in DOMAIN at THEN p ELSE RootId IN
    IF q \in DOMAIN at THEN [ns EXCEPT ![at[q]].children = Append(@, id)] ELSE ns

(* ns with id listed last by p, which is looked up in the index `at`.      *)
Listed(ns, at, id, p) ==
    IF p \in DOMAIN at THEN [ns EXCEPT ![at[p]].children = Append(@, id)] ELSE ns

(* add_node_with_value; add_node gives the value NoValue.  The parent is   *)
(* looked up in the index that has the new node.                           *)
AddNode(kind, label, value, p) ==
    LET grown == Append(nodes, StoredNode(nextId, kind, label, value))
    IN /\ Call
       /\ index' = Indexed(nextId, Len(grown))
       /\ nodes' = Listed(grown, index', nextId, p)
       /\ parentIndex' = Put(parentIndex, nextId, p)
       /\ nextId' = IdAfter(nextId)
       /\ UNCHANGED <<overflown, moves>>

(* Mutant of Struck: the entry of parent_index is gone by then.            *)
StruckNothing(id) == nodes

(* The vector with id struck from the list of the parent parent_index      *)
(* names.                                                                  *)
Struck(id) ==
    IF id \in DOMAIN parentIndex /\ parentIndex[id] \in DOMAIN index
    THEN [nodes EXCEPT ![index[parentIndex[id]]].children = Without(@, id)]
    ELSE nodes

(* The ids below id in one step or more.                                   *)
Below(t, id) == UNION {CollectSubtree(t, c) : c \in ToSet(ChildrenOf(t, id))}

(* No walk down from id comes back to where it was.                        *)
Ends(t, id) == \A x \in CollectSubtree(t, id) : x \notin Below(t, x)

(* The vector that remove_subtree leaves.                                  *)
Kept(id, gone) ==
    LET ns == Struck(id) IN Retain(ns, {i \in DOMAIN ns : ns[i].id \notin gone})

(* Mutant of RemoveNode: the nodes that stay keep their positions.         *)
RemoveNodeInPlace(id) ==
    /\ Call
    /\ Ends(View, id)
    /\ LET gone == CollectSubtree(View, id)
       IN /\ nodes' = Kept(id, gone)
          /\ index' = Restrict(index, DOMAIN index \ gone)
          /\ parentIndex' = Restrict(parentIndex, DOMAIN parentIndex \ gone)
    /\ UNCHANGED <<nextId, overflown, moves>>

(* collect_subtree comes to an end, or it does not and the process dies.   *)
RemoveNode(id) ==
    /\ Call
    /\ IF Ends(View, id)
       THEN LET gone == CollectSubtree(View, id)
            IN /\ nodes' = Kept(id, gone)
               /\ index' = Positions(nodes')
               /\ parentIndex' = Restrict(parentIndex, DOMAIN parentIndex \ gone)
               /\ UNCHANGED overflown
       ELSE /\ overflown' = TRUE
            /\ UNCHANGED <<nodes, index, parentIndex>>
    /\ UNCHANGED <<nextId, moves>>

ChangeValue(id, v) ==
    /\ Call
    /\ id \in DOMAIN index
    /\ nodes' = [nodes EXCEPT ![index[id]].value = v]
    /\ UNCHANGED <<index, parentIndex, nextId, overflown, moves>>

ChangeLabel(id, l) ==
    /\ Call
    /\ id \in DOMAIN index
    /\ nodes' = [nodes EXCEPT ![index[id]].label = l]
    /\ UNCHANGED <<index, parentIndex, nextId, overflown, moves>>

(* apply_patch of a Move: parent_index keeps its entry.                    *)
MoveChild(id, p) ==
    /\ Call
    /\ moves < MaxMoves
    /\ moves' = moves + 1
    /\ nodes' = Listed(Struck(id), index, id, p)
    /\ UNCHANGED <<index, parentIndex, nextId, overflown>>

Next ==
    \/ \E kind \in Kinds, label \in Labels, value \in Values, p \in Ids :
          AddNode(kind, label, value, p)
    \/ \E id \in Ids : RemoveNode(id)
    \/ \E id \in Ids, v \in Values \union {NoValue} : ChangeValue(id, v)
    \/ \E id \in Ids, l \in Labels : ChangeLabel(id, l)
    \/ \E id, p \in Ids : MoveChild(id, p)

Spec == Init /\ [][Next]_vars

----------------------------------------------------------------------------
StoredNodes ==
    [id : Ids, kind : Kinds \union {"Root"}, label : Labels \union {"root"},
     value : Values \union {NoValue}, children : Seq(Ids)]

TypeOK ==
    /\ nodes \in Seq(StoredNodes)
    /\ DOMAIN parentIndex \subseteq Ids
    /\ \A id \in DOMAIN parentIndex : parentIndex[id] \in Ids
    /\ nextId \in Ids
    /\ overflown \in BOOLEAN

(* The index is at any time what a rebuild from the vector would give:     *)
(* every lookup finds a node with the id that was asked for, in a vector   *)
(* whose nodes move up when others go, and after ids have been reused.     *)
IndexIsExact == index = Positions(nodes)

(* The vector and its two indexes implement the map the callers see.       *)
Abs == INSTANCE SceneTree WITH tree <- View

Implements == Abs!Spec

Moved == \E id, p \in Ids : MoveChild(id, p)

(* A node has been added under an id that is in use.                       *)
Reused == nextId' # nextId /\ nextId \in DOMAIN index

(* Child lists name live nodes that name the owner of the list for their   *)
(* parent, each once.                                                      *)
ListsAgree ==
    \A p \in DOMAIN index :
        /\ IsInjective(Node(p).children)
        /\ \A c \in ToSet(Node(p).children) :
              c \in DOMAIN index /\ c \in DOMAIN parentIndex /\ parentIndex[c] = p

(* Additions below any id and removals of any node, the root included,     *)
(* leave the child lists and parent_index in agreement: nothing but a Move *)
(* or an id given out again makes them differ.                             *)
ListsStayAgreed == [][ListsAgree => ListsAgree' \/ Moved \/ Reused]_vars

(* What the root does not reach it never reaches again, and what is added  *)
(* is reached if its parent is: a node added below an id that is not there *)
(* stays out of every diff, hash and removal from above, also when its     *)
(* parent's id comes to life later, and so does everything that is added   *)
(* after the root was removed; as long as the lists agree, until the ids   *)
(* wrap, unless a Move brings the node back.                               *)
OrphansStay ==
    [][ListsAgree /\ ~Moved =>
          LET reached == Reachable(View) IN
          \A id \in Reachable(View)' :
             \/ id \in reached
             \/ id = nextId /\ (parentIndex'[id] \in reached \/ id = RootId)]_vars

(* The recursions of remove_subtree, of the hash and of the diff end on    *)
(* what add_node, remove_subtree and edits build, whatever ids they are    *)
(* given: the only additions that make a walk return to a node are of a    *)
(* node below itself, and the only moves those below the node that moves.  *)
Acyclic == LET t == View IN \A id \in DOMAIN index : id \notin Below(t, id)

OnlySelfCloses ==
    [][Acyclic => \/ Acyclic'
                  \/ nextId' # nextId /\ parentIndex'[nextId] = nextId
                  \/ \E id \in Ids : \E p \in CollectSubtree(View, id) :
                        MoveChild(id, p)]_vars

(* "Find parent of a node" (ast.rs:226): where the child lists make no     *)
(* circle, parent_of names the node whose child list the node is in.       *)
ParentOfListsChild ==
    Acyclic =>
        \A p \in DOMAIN index :
            \A c \in ToSet(Node(p).children) \intersect DOMAIN parentIndex :
                parentIndex[c] = p
============================================================================
