---------------------------- MODULE UnrealHandles --------------------------
(***************************************************************************)
(* The C++ objects of src/bindings/ue5/AliceVcs.h, which own the boxes of  *)
(* the C interface and hand them over by moves.  They are used by one      *)
(* thread.  Methods change no handle; what they need is that the handle is *)
(* null or theirs.                                                         *)
(***************************************************************************)
EXTENDS CInterface, Functions, Maps

VARIABLES
    boxes,      \* address -> the class whose create function made the box
    Handle      \* object -> Handle, for the objects that are alive

unrealVars == <<boxes, Handle>>

Class(o) == IF o \in Trees THEN Trees ELSE Repos

Living == DOMAIN Handle

(* `if (Handle) alice_vcs_.._destroy(Handle)`                              *)
DestroyBox(a) == boxes' = Restrict(boxes, DOMAIN boxes \ {a})

UnrealInit == boxes = << >> /\ Handle = << >>

ConstructCpp(o, a) ==
    /\ o \notin Living
    /\ a \notin DOMAIN boxes
    /\ boxes' = Put(boxes, a, Class(o))
    /\ Handle' = Put(Handle, o, a)

(* The end of a scope, delete, or a container that shrinks.                *)
Destruct(o) ==
    /\ DestroyBox(Handle[o])
    /\ Handle' = Restrict(Handle, Living \ {o})

(* `Handle = O.Handle; O.Handle = nullptr`, in this order.                 *)
Taken(o, from) ==
    [x \in Living \union {o} |-> IF x = from THEN Null
                                ELSE IF x = o THEN Handle[from] ELSE Handle[x]]

MoveConstruct(o, from) ==
    /\ o \notin Living
    /\ Class(o) = Class(from)
    /\ Handle' = Taken(o, from)
    /\ UNCHANGED boxes

(* Mutant of MoveAssign: the source keeps its handle.                      *)
MoveAssignCopies(o, from) ==
    /\ Class(o) = Class(from)
    /\ IF o # from
       THEN DestroyBox(Handle[o]) /\ Handle' = [Handle EXCEPT ![o] = Handle[from]]
       ELSE UNCHANGED unrealVars

(* Mutant of MoveAssign: `this != &O` is not asked.                        *)
MoveAssignUnasked(o, from) ==
    /\ Class(o) = Class(from)
    /\ DestroyBox(Handle[o])
    /\ Handle' = Taken(o, from)

MoveAssign(o, from) ==
    /\ Class(o) = Class(from)
    /\ IF o # from
       THEN /\ DestroyBox(Handle[o])
            /\ Handle' = Taken(o, from)
       ELSE UNCHANGED unrealVars

UnrealNext ==
    \/ \E o \in Objects, a \in Addresses : ConstructCpp(o, a)
    \/ \E o \in Living : Destruct(o)
    \/ \E o \in Objects, from \in Living : MoveConstruct(o, from)
    \/ \E o, from \in Living : MoveAssign(o, from)

UnrealSpec == UnrealInit /\ [][UnrealNext]_unrealVars

----------------------------------------------------------------------------
Owners(a) == {o \in Living : Handle[o] = a}

(* After any chain of constructions, moves and ends of scopes each box has *)
(* one owner, of the class that made it, and no handle dangles: nothing is *)
(* freed twice, nothing leaks, and methods reach a box of their own or     *)
(* give the interface a null.                                              *)
OneOwner ==
    /\ \A a \in DOMAIN boxes : \E o \in Living :
          Owners(a) = {o} /\ boxes[a] = Class(o)
    /\ \A o \in Living : Handle[o] = Null \/ Handle[o] \in DOMAIN boxes

(* A box dies with the object that owns it, wherever moves have taken it,  *)
(* or when that object is given the handle of another: an assignment of an *)
(* object to itself, as a swap or a sort may make, loses nothing.          *)
BoxesDieWithOwners ==
    [][\A a \in DOMAIN boxes \ DOMAIN boxes' : \A o \in Owners(a) :
          \/ o \notin Living'
          \/ \E from \in Living \ {o} : Handle'[o] = Handle[from]]_unrealVars
============================================================================
