---------------------------- MODULE BindingsProofs -------------------------
(***************************************************************************)
(* Theorems about the owners of native objects, for any objects and        *)
(* addresses.  UnityHandles: a native object is freed once and by its      *)
(* owner, none leaks, and calls on objects that are kept alive reach their *)
(* own native objects.  UnrealHandles: each box has one owner, and dies    *)
(* with it or when it is assigned to.                                      *)
(***************************************************************************)
EXTENDS UnityHandles, UnrealHandles, TLAPS

----------------------------------------------------------------------------
(* UnityHandles                                                            *)

DisposeSteps == {"check", "destroy", "clear", "suppress"}

At(thread, o, step) == frame[thread].at = step /\ frame[thread].object = o

(* The state is typed as far as the argument needs it.                     *)
Typed ==
    /\ Made \subseteq Objects
    /\ DOMAIN disposed = Made
    /\ held \subseteq Made
    /\ finalizable \subseteq Made
    /\ DOMAIN heap \subseteq Addresses
    /\ \A o \in Made : handle[o] \in Addresses \union {Null}
    /\ DOMAIN frame = Threads
    /\ frame["app"].at \in {"idle", "native"} \union DisposeSteps
    /\ frame["finalizer"].at \in {"idle"} \union DisposeSteps

(* The threads never dispose of one object at the same time, and the       *)
(* finalizer only of what the application cannot reach.                    *)
Exclusive ==
    /\ \A t \in Threads : frame[t].at \in DisposeSteps => frame[t].object \in Made
    /\ frame["finalizer"].at \in DisposeSteps => frame["finalizer"].object \notin held
    /\ frame["app"].at \in DisposeSteps /\ frame["finalizer"].at \in DisposeSteps =>
          frame["app"].object # frame["finalizer"].object

(* An owned native object is the handle of its owner, and the owner will   *)
(* be finalized or is about to be destroyed by the finalizer.              *)
Owned ==
    \A a \in DOMAIN heap :
        /\ heap[a] \in Made
        /\ handle[heap[a]] = a
        /\ \/ heap[a] \in finalizable
           \/ At("finalizer", heap[a], "check")
           \/ At("finalizer", heap[a], "destroy")

(* A handle is good until the moment it is freed, and null soon after.     *)
Handles ==
    \A o \in Made :
        /\ disposed[o] = TRUE => handle[o] = Null
        /\ handle[o] # Null /\ (\A t \in Threads : ~At(t, o, "clear")) =>
              handle[o] \in DOMAIN heap /\ heap[handle[o]] = o

(* What each statement of Dispose may count on.                            *)
Stages ==
    \A t \in Threads :
        /\ frame[t].at = "destroy" => handle[frame[t].object] # Null
        /\ frame[t].at = "clear" => \A a \in DOMAIN heap : heap[a] # frame[t].object
        /\ frame[t].at = "suppress" => handle[frame[t].object] = Null

(* A native function was given the handles its objects still have, as far  *)
(* as the application still holds the objects.                             *)
Calls ==
    frame["app"].at = "native" =>
        /\ DOMAIN frame["app"].args = DOMAIN frame["app"].objects
        /\ \A i \in DOMAIN frame["app"].objects :
              frame["app"].objects[i] \in held =>
                  frame["app"].args[i] = handle[frame["app"].objects[i]]

HandleInv == Typed /\ Exclusive /\ Owned /\ Handles /\ Stages /\ Calls

(* The calls of native functions differ in their objects only.             *)
LEMMA StepKinds ==
    ASSUME [Next]_vars
    PROVE  \/ \E o \in Objects, a \in Addresses : Construct(o, a)
           \/ \E objects : Enter(objects)
           \/ Leave
           \/ \E o \in held : LetGo(o)
           \/ \E o \in held : Dispose(o)
           \/ \E o \in finalizable : Finalize(o)
           \/ \E t \in Threads : Check(t)
           \/ \E t \in Threads : Destroy(t)
           \/ \E t \in Threads : Clear(t)
           \/ \E t \in Threads : SuppressFinalize(t)
           \/ UNCHANGED vars
BY DEF Next, CallTree, CallRepo, Commit, Compare

(* The invariant of the Unity bindings: every step of Dispose, on whichever*)
(* thread, finds the object at the stage the one before left it at.        *)
THEOREM HandleInvHolds == Spec => []HandleInv
<1>1. Init => HandleInv
  BY DEF Init, HandleInv, Typed, Exclusive, Owned, Handles, Stages, Calls,
         Idle, Threads, Made, At, DisposeSteps
<1>2. HandleInv /\ [Next]_vars => HandleInv'
  <2> SUFFICES ASSUME HandleInv, [Next]_vars PROVE HandleInv'
    OBVIOUS
  <2> USE DEF Threads, Made, At, DisposeSteps
  <2>1. ASSUME NEW o \in Objects, NEW a \in Addresses, Construct(o, a)
        PROVE  HandleInv'
    <3> USE <2>1, NullAssumption DEF Construct, NativeCreate, Put, Idle, HandleInv
    <3>1. Typed'
      BY DEF Typed
    <3>2. Exclusive'
      BY DEF Typed, Exclusive
    <3>3. Owned'
      BY DEF Typed, Owned
    <3>4. Handles'
      BY DEF Typed, Handles, Owned, Exclusive
    <3>5. Stages'
      BY DEF Typed, Stages, Exclusive
    <3>6. Calls'
      BY DEF Calls
    <3>7. QED
      BY <3>1, <3>2, <3>3, <3>4, <3>5, <3>6
  <2>2. ASSUME NEW objects, Enter(objects) PROVE HandleInv'
    <3> USE <2>2 DEF Enter, Idle, HandleInv
    <3>1. Typed'
      BY DEF Typed
    <3>2. Exclusive'
      BY DEF Typed, Exclusive
    <3>3. Owned'
      BY DEF Typed, Owned
    <3>4. Handles'
      BY DEF Typed, Handles
    <3>5. Stages'
      BY DEF Typed, Stages
    <3>6. Calls'
      BY DEF Typed, Calls
    <3>7. QED
      BY <3>1, <3>2, <3>3, <3>4, <3>5, <3>6
  <2>3. ASSUME Leave PROVE HandleInv'
    <3> USE <2>3 DEF Leave, Idle, HandleInv
    <3>1. Typed' /\ Exclusive'
      BY DEF Typed, Exclusive
    <3>2. Owned' /\ Handles'
      BY DEF Typed, Owned, Handles
    <3>3. Stages' /\ Calls'
      BY DEF Typed, Stages, Calls
    <3>4. QED
      BY <3>1, <3>2, <3>3
  <2>4. ASSUME NEW o \in held, LetGo(o) PROVE HandleInv'
    BY <2>4 DEF LetGo, HandleInv, Typed, Exclusive, Owned, Handles, Stages, Calls
  <2>5. ASSUME NEW o \in held, Dispose(o) PROVE HandleInv'
    <3> USE <2>5 DEF Dispose, StartDispose, Idle, HandleInv
    <3>1. Typed' /\ Exclusive'
      BY DEF Typed, Exclusive
    <3>2. Owned' /\ Handles'
      BY DEF Typed, Owned, Handles
    <3>3. Stages' /\ Calls'
      BY DEF Typed, Stages, Calls
    <3>4. QED
      BY <3>1, <3>2, <3>3
  <2>6. ASSUME NEW o \in finalizable, Finalize(o) PROVE HandleInv'
    <3> USE <2>6 DEF Finalize, StartDispose, Idle, HandleInv
    <3>1. Typed' /\ Exclusive'
      BY DEF Typed, Exclusive
    <3>2. Owned' /\ Handles'
      BY DEF Typed, Owned, Handles
    <3>3. Stages' /\ Calls'
      BY DEF Typed, Stages, Calls
    <3>4. QED
      BY <3>1, <3>2, <3>3
  <2>7. ASSUME NEW t \in Threads, Check(t) PROVE HandleInv'
    <3> USE <2>7 DEF Check, GoesTo, HandleInv
    <3>1. Typed' /\ Exclusive'
      BY DEF Typed, Exclusive
    <3>2. Owned' /\ Handles'
      BY NullAssumption DEF Typed, Owned, Handles, Exclusive
    <3>3. Stages' /\ Calls'
      BY DEF Typed, Stages, Calls, Handles, Exclusive
    <3>4. QED
      BY <3>1, <3>2, <3>3
  <2>8. ASSUME NEW t \in Threads, Destroy(t) PROVE HandleInv'
    <3> DEFINE o == frame[t].object
    <3> USE <2>8 DEF Destroy, NativeDestroy, Restrict, GoesTo, HandleInv
    <3>1. Typed' /\ Exclusive'
      BY DEF Typed, Exclusive
    <3>2. handle[o] \in DOMAIN heap /\ heap[handle[o]] = o
      BY DEF Typed, Handles, Stages, Exclusive
    <3>3. Owned'
      BY <3>2 DEF Typed, Owned
    <3>4. Handles'
      BY <3>2 DEF Typed, Handles
    <3>5. Stages'
      BY <3>2 DEF Typed, Stages, Owned, Exclusive
    <3>6. Calls'
      BY DEF Typed, Calls
    <3>7. QED
      BY <3>1, <3>3, <3>4, <3>5, <3>6
  <2>9. ASSUME NEW t \in Threads, Clear(t) PROVE HandleInv'
    <3> USE <2>9 DEF Clear, GoesTo, HandleInv
    <3>1. Typed' /\ Exclusive'
      BY DEF Typed, Exclusive
    <3>2. Owned'
      BY DEF Typed, Owned, Stages
    <3>3. Handles'
      BY DEF Typed, Handles, Exclusive
    <3>4. Stages'
      BY DEF Typed, Stages, Exclusive
    <3>5. Calls'
      BY DEF Typed, Calls, Exclusive
    <3>6. QED
      BY <3>1, <3>2, <3>3, <3>4, <3>5
  <2>10. ASSUME NEW t \in Threads, SuppressFinalize(t) PROVE HandleInv'
    <3> USE <2>10 DEF SuppressFinalize, Idle, HandleInv
    <3>1. Typed' /\ Exclusive'
      BY DEF Typed, Exclusive
    <3>2. Owned' /\ Handles'
      BY NullAssumption DEF Typed, Owned, Handles, Stages
    <3>3. Stages' /\ Calls'
      BY DEF Typed, Stages, Calls
    <3>4. QED
      BY <3>1, <3>2, <3>3
  <2>11. CASE UNCHANGED vars
    BY <2>11 DEF vars, HandleInv, Typed, Exclusive, Owned, Handles, Stages, Calls
  <2>12. QED
    BY <2>1, <2>2, <2>3, <2>4, <2>5, <2>6, <2>7, <2>8, <2>9, <2>10, <2>11, StepKinds
<1>3. QED
  BY <1>1, <1>2, PTL DEF Spec

(* A native object is freed once, by its owner: the address Dispose hands  *)
(* to destroy is alive and is its own.                                     *)
THEOREM FreedByOwnerHolds == Spec => []FreedByOwner
<1>1. HandleInv => FreedByOwner
  BY DEF HandleInv, FreedByOwner, Stages, Handles, Exclusive, Typed,
         At, Threads, DisposeSteps
<1>2. QED
  BY <1>1, HandleInvHolds, PTL

(* No native object is left without somebody who can free it.              *)
THEOREM NothingLeaksHolds == Spec => []NothingLeaks
<1>1. HandleInv => NothingLeaks
  BY DEF HandleInv, NothingLeaks, Owned, At, Disposing, Threads
<1>2. QED
  BY <1>1, HandleInvHolds, PTL

(* A call works on the native objects of its objects, as long as the       *)
(* application holds these.                                                *)
THEOREM HeldCallsAreValidHolds == Spec => []HeldCallsAreValid
<1>1. HandleInv => HeldCallsAreValid
  <2> SUFFICES ASSUME HandleInv, frame["app"].at = "native",
                      ToSet(frame["app"].objects) \subseteq held,
                      NEW i \in DOMAIN frame["app"].args,
                      frame["app"].args[i] \in Dereferenced(frame["app"].args)
               PROVE  LET a == frame["app"].args[i] IN
                      a \in DOMAIN heap /\ heap[a] = frame["app"].objects[i]
    BY DEF HeldCallsAreValid
  <2> DEFINE o == frame["app"].objects[i]
  <2>1. o \in held /\ frame["app"].args[i] = handle[o]
    BY DEF HandleInv, Calls, ToSet
  <2>2. handle[o] # Null
    BY <2>1 DEF Dereferenced, ToSet
  <2>3. \A t \in Threads : ~At(t, o, "clear")
    BY <2>1 DEF HandleInv, Exclusive, At, Threads, DisposeSteps
  <2>4. QED
    BY <2>1, <2>2, <2>3 DEF HandleInv, Handles, Typed
<1>2. QED
  BY <1>1, HandleInvHolds, PTL

----------------------------------------------------------------------------
(* UnrealHandles                                                           *)

(* What OneOwner says, owner by owner and box by box.                      *)
OwnerInv ==
    /\ DOMAIN boxes \subseteq Addresses
    /\ \A o \in Living : Handle[o] # Null =>
          Handle[o] \in DOMAIN boxes /\ boxes[Handle[o]] = Class(o)
    /\ \A o, p \in Living : Handle[o] # Null /\ Handle[o] = Handle[p] => o = p
    /\ \A a \in DOMAIN boxes : \E o \in Living : Handle[o] = a

(* Every step of the Unreal bindings keeps the owners and the boxes        *)
(* matched one to one.                                                     *)
THEOREM OwnerInvHolds == UnrealSpec => []OwnerInv
<1>1. UnrealInit => OwnerInv
  BY DEF UnrealInit, OwnerInv, Living
<1>2. OwnerInv /\ [UnrealNext]_unrealVars => OwnerInv'
  <2> SUFFICES ASSUME OwnerInv, [UnrealNext]_unrealVars PROVE OwnerInv'
    OBVIOUS
  <2> USE NullAssumption DEF OwnerInv, Living
  <2>1. ASSUME NEW o \in Objects, NEW a \in Addresses, ConstructCpp(o, a)
        PROVE  OwnerInv'
    BY <2>1 DEF ConstructCpp, Put, Class
  <2>2. ASSUME NEW o \in Living, Destruct(o) PROVE OwnerInv'
    BY <2>2 DEF Destruct, DestroyBox, Restrict, Class
  <2>3. ASSUME NEW o \in Objects, NEW from \in Living, MoveConstruct(o, from)
        PROVE  OwnerInv'
    BY <2>3 DEF MoveConstruct, Taken, Class
  <2>4. ASSUME NEW o \in Living, NEW from \in Living, MoveAssign(o, from)
        PROVE  OwnerInv'
    BY <2>4 DEF MoveAssign, Taken, DestroyBox, Restrict, Class, unrealVars
  <2>5. CASE UNCHANGED unrealVars
    BY <2>5 DEF unrealVars, Class
  <2>6. QED
    BY <2>1, <2>2, <2>3, <2>4, <2>5 DEF UnrealNext
<1>3. QED
  BY <1>1, <1>2, PTL DEF UnrealSpec

(* Each box has one owner, of its class, and no handle dangles.            *)
THEOREM OneOwnerHolds == UnrealSpec => []OneOwner
<1>1. OwnerInv => OneOwner
  BY NullAssumption DEF OwnerInv, OneOwner, Owners, Living
<1>2. QED
  BY <1>1, OwnerInvHolds, PTL

(* A box dies with its owner, or when its owner is given another handle.   *)
THEOREM BoxesDieWithOwnersHolds == UnrealSpec => BoxesDieWithOwners
<1> DEFINE Step ==
      \A a \in DOMAIN boxes \ DOMAIN boxes' : \A o \in Owners(a) :
          \/ o \notin Living'
          \/ \E from \in Living \ {o} : Handle'[o] = Handle[from]
<1>1. OwnerInv /\ [UnrealNext]_unrealVars => Step
  <2> SUFFICES ASSUME OwnerInv, [UnrealNext]_unrealVars,
                      NEW a \in DOMAIN boxes \ DOMAIN boxes', NEW o \in Owners(a)
               PROVE  \/ o \notin Living'
                      \/ \E from \in Living \ {o} : Handle'[o] = Handle[from]
    OBVIOUS
  <2> USE NullAssumption DEF OwnerInv, Living, Owners
  <2>1. ASSUME NEW p \in Objects, NEW b \in Addresses, ConstructCpp(p, b)
        PROVE  FALSE
    BY <2>1 DEF ConstructCpp, Put
  <2>2. ASSUME NEW p \in Living, Destruct(p) PROVE o \notin Living'
    BY <2>2 DEF Destruct, DestroyBox, Restrict
  <2>3. ASSUME NEW p \in Objects, NEW from \in Living, MoveConstruct(p, from)
        PROVE  FALSE
    BY <2>3 DEF MoveConstruct
  <2>4. ASSUME NEW p \in Living, NEW from \in Living, MoveAssign(p, from)
        PROVE  \E q \in Living \ {o} : Handle'[o] = Handle[q]
    <3>1. p = o /\ p # from
      BY <2>4 DEF MoveAssign, DestroyBox, Restrict, unrealVars
    <3>2. Handle'[o] = Handle[from]
      BY <2>4, <3>1 DEF MoveAssign, Taken
    <3>3. QED
      BY <3>1, <3>2
  <2>5. CASE UNCHANGED unrealVars
    BY <2>5 DEF unrealVars
  <2>6. QED
    BY <2>1, <2>2, <2>3, <2>4, <2>5 DEF UnrealNext
<1>2. QED
  BY <1>1, OwnerInvHolds, PTL DEF UnrealSpec, BoxesDieWithOwners
============================================================================
