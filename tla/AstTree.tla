------------------------------ MODULE AstTree ------------------------------
(***************************************************************************)
(* The scene tree of src/src/ast.rs as a value, with its operations as     *)
(* operators from trees to trees.  The flat storage of the code (a Vec of  *)
(* nodes and an id -> position map) is seen through its interface: `node`  *)
(* is what get_node answers, a function from the live ids to node records; *)
(* `parent` is parent_index and `next` is next_id.                         *)
(***************************************************************************)
EXTENDS Naturals, Sequences, FiniteSets, SequencesExt, Functions, TLC, Maps

CONSTANTS
    Kinds,      \* node kinds a caller gives to the nodes it adds
    Labels,     \* labels a caller gives to nodes
    Values,     \* values a caller attaches to nodes
    NaNs        \* the values that are not == to themselves (Float(NaN))

NoValue == "None"
RootId == 0

ASSUME NaNsAssumption == NaNs \subseteq Values /\ NoValue \notin NaNs

(* PartialEq of NodeValue: derived, so Float(NaN) differs from itself.     *)
SameValue(v, w) == v = w /\ v \notin NaNs

----------------------------------------------------------------------------
(* Vec::retain: what s has at the positions of I, in order.                *)
Retain(s, I) ==
    [k \in 1..Cardinality(I) |->
        s[CHOOSE i \in I : Cardinality({j \in I : j <= i}) = k]]

----------------------------------------------------------------------------
(* The operations of AstTree.                                              *)

NewNode(kind, label, value) ==
    [kind |-> kind, label |-> label, value |-> value, children |-> << >>]

NewTree ==
    [node   |-> [id \in {RootId} |-> NewNode("Root", "root", NoValue)],
     parent |-> << >>,
     next   |-> 1]

IsLive(t, id) == id \in DOMAIN t.node

ChildrenOf(t, id) == IF IsLive(t, id) THEN t.node[id].children ELSE << >>

(* The new node is recorded under parent_id in parent_index whether or not *)
(* parent_id is live, but listed as a child only when it is.  The parent   *)
(* is looked up after the node is stored.                                  *)
AddNodeWithValue(t, kind, label, value, p) ==
    LET grown == Put(t.node, t.next, NewNode(kind, label, value)) IN
    [node   |-> IF p \in DOMAIN grown
                THEN [grown EXCEPT ![p].children = Append(@, t.next)]
                ELSE grown,
     parent |-> Put(t.parent, t.next, p),
     next   |-> t.next + 1]

WithChildren(t, id) == {id} \union ToSet(ChildrenOf(t, id))

(* The id itself, live or not, and every id below it.                      *)
CollectSubtree(t, id) ==
    LET within[n \in Nat] ==
            IF n = 0 THEN {id}
            ELSE UNION {WithChildren(t, x) : x \in within[n - 1]}
    IN within[Cardinality(DOMAIN t.node)]

Without(s, e) == Retain(s, {i \in DOMAIN s : s[i] # e})

(* t with id struck from the child list of the parent parent_index names.  *)
Detach(t, id) ==
    IF id \in DOMAIN t.parent /\ IsLive(t, t.parent[id])
    THEN [t EXCEPT !.node[t.parent[id]].children = Without(@, id)]
    ELSE t

(* Mutant of RemoveSubtree: the parent goes on listing the removed child.  *)
RemoveSubtreeStillListed(t, id) ==
    LET gone == CollectSubtree(t, id) IN
    [t EXCEPT !.node   = Restrict(t.node, DOMAIN t.node \ gone),
              !.parent = Restrict(t.parent, DOMAIN t.parent \ gone)]

RemoveSubtree(t, id) ==
    LET gone == CollectSubtree(t, id) IN
    [t EXCEPT !.node   = Restrict(Detach(t, id).node, DOMAIN t.node \ gone),
              !.parent = Restrict(t.parent, DOMAIN t.parent \ gone)]

(* The edits a caller makes through get_node_mut.                          *)
SetValue(t, id, v) ==
    IF IsLive(t, id) THEN [t EXCEPT !.node[id].value = v] ELSE t

SetLabel(t, id, l) ==
    IF IsLive(t, id) THEN [t EXCEPT !.node[id].label = l] ELSE t

(* Mutant of HashedText: the id of a node is hashed in place of its kind.  *)
HashedTextWithIds(t, id) ==
    LET walk[x \in DOMAIN t.node] ==
            <<x, t.node[x].label>>
              \o FlattenSeq([i \in DOMAIN t.node[x].children |->
                    IF IsLive(t, t.node[x].children[i])
                    THEN walk[t.node[x].children[i]] ELSE << >>])
    IN IF IsLive(t, id) THEN walk[id] ELSE << >>

(* What subtree_hash feeds to FNV-1a: kind and label of every node below   *)
(* id, in preorder.  Neither values nor the extent of a child list is fed. *)
HashedText(t, id) ==
    LET walk[x \in DOMAIN t.node] ==
            <<t.node[x].kind, t.node[x].label>>
              \o FlattenSeq([i \in DOMAIN t.node[x].children |->
                    IF IsLive(t, t.node[x].children[i])
                    THEN walk[t.node[x].children[i]] ELSE << >>])
    IN IF IsLive(t, id) THEN walk[id] ELSE << >>

----------------------------------------------------------------------------
(* What a tree says, apart from how its ids are numbered.  (Reference      *)
(* definitions for the properties of the modules that use trees.)          *)

Key(t, id) == <<t.node[id].kind, t.node[id].label>>

Reachable(t) == CollectSubtree(t, RootId) \intersect DOMAIN t.node

(* The live children of id that have a given key, in order.                *)
Siblings(t, id, key) ==
    LET s == t.node[id].children IN
    Retain(s, {i \in DOMAIN s : IsLive(t, s[i]) /\ Key(t, s[i]) = key})

ChildKeys(t, id) ==
    {Key(t, c) : c \in ToSet(t.node[id].children) \intersect DOMAIN t.node}

(* A node with what is below it, key by key.                               *)
Shown(kind, label, value, below) ==
    [kind |-> kind, label |-> label, value |-> value, below |-> below]

Each(f, s) == [i \in DOMAIN s |-> f[s[i]]]

CanonNode(canon, t, x) ==
    Shown(t.node[x].kind, t.node[x].label, t.node[x].value,
          [key \in ChildKeys(t, x) |-> Each(canon, Siblings(t, x, key))])

(* The subtree at id up to the numbering of ids and up to the order of     *)
(* siblings that have different keys.                                      *)
Canon(t, id) ==
    LET canon[x \in DOMAIN t.node] == CanonNode(canon, t, x) IN canon[id]

(* A forest: every live node but the root is listed exactly once, by the   *)
(* node parent_index names for it, and the root by none.  Ids are below    *)
(* next, and a node was there before those that were added below it.       *)
IsTree(t) ==
    /\ RootId \in DOMAIN t.node
    /\ DOMAIN t.parent = DOMAIN t.node \ {RootId}
    /\ t.next \in Nat
    /\ DOMAIN t.node \subseteq 0..(t.next - 1)
    /\ \A p \in DOMAIN t.node :
          /\ t.node[p].children \in Seq(DOMAIN t.parent)
          /\ IsInjective(t.node[p].children)
          /\ \A c \in ToSet(t.node[p].children) : t.parent[c] = p
    /\ \A c \in DOMAIN t.parent :
          /\ t.parent[c] \in 0..(c - 1)
          /\ \/ ~IsLive(t, t.parent[c])
             \/ c \in ToSet(t.node[t.parent[c]].children)
============================================================================
