---------------------------- MODULE UnityHandles ---------------------------
(***************************************************************************)
(* Native objects behind the C interface (src/src/ffi.rs) and the C#       *)
(* objects that own them (src/bindings/unity/AliceVcs.cs).  The thread of  *)
(* the application calls methods; the finalizer thread of the runtime      *)
(* disposes of objects the application can no longer reach, at any moment. *)
(*                                                                         *)
(* A freed address may be handed out again.  The just-in-time compiler     *)
(* lets go of an object after the last use of it, which in the methods     *)
(* here is the reading of _handle, before the native function runs.        *)
(***************************************************************************)
EXTENDS CInterface, Naturals, Sequences, FiniteSets, SequencesExt, Functions, Maps

VARIABLES
    heap,       \* address -> the object its native object was made for
    handle,     \* object -> _handle
    disposed,   \* object -> _disposed
    finalizable,\* the objects the runtime will finalize
    held,       \* the objects the application can reach
    frame       \* what each of the two threads is doing

vars == <<heap, handle, disposed, finalizable, held, frame>>

Idle == [at |-> "idle"]

Threads == {"app", "finalizer"}

(* The objects that have been constructed.                                 *)
Made == DOMAIN handle

----------------------------------------------------------------------------
(* The C interface                                                         *)

(* alice_vcs_tree_create and alice_vcs_repo_create: a new box.             *)
NativeCreate(a, o) ==
    /\ a \in Addresses \ DOMAIN heap
    /\ heap' = Put(heap, a, o)

(* alice_vcs_tree_destroy and alice_vcs_repo_destroy: null is ignored.     *)
NativeDestroy(a) == heap' = Restrict(heap, DOMAIN heap \ {a})

(* The addresses the other functions dereference: all they are given, or   *)
(* none when one of them is null.                                          *)
Dereferenced(args) == IF Null \in ToSet(args) THEN {} ELSE ToSet(args)

----------------------------------------------------------------------------
Init ==
    /\ heap = << >>
    /\ handle = << >>
    /\ disposed = << >>
    /\ finalizable = {}
    /\ held = {}
    /\ frame = [t \in Threads |-> Idle]

(* new AstTree(), new Repository()                                         *)
Construct(o, a) ==
    /\ frame["app"] = Idle
    /\ o \notin Made
    /\ NativeCreate(a, o)
    /\ handle' = Put(handle, o, a)
    /\ disposed' = Put(disposed, o, FALSE)
    /\ finalizable' = finalizable \union {o}
    /\ held' = held \union {o}
    /\ UNCHANGED frame

(* A native function starts on the handles the method has read.            *)
Enter(objects) ==
    /\ frame["app"] = Idle
    /\ ToSet(objects) \subseteq held
    /\ frame' = [frame EXCEPT !["app"] =
                    [at |-> "native", objects |-> objects,
                     args |-> [i \in DOMAIN objects |-> handle[objects[i]]]]]
    /\ UNCHANGED <<heap, handle, disposed, finalizable, held>>

(* AddNode, AddNodeFloat, NodeCount, RootId, GetLabel, GetKind,            *)
(* SubtreeHash, RemoveSubtree                                              *)
CallTree(t) == t \in Trees /\ Enter(<<t>>)

(* HeadHash, CommitCount, CreateBranch, Checkout                           *)
CallRepo(r) == r \in Repos /\ Enter(<<r>>)

Commit(r, t) == r \in Repos /\ t \in Trees /\ Enter(<<r, t>>)

Compare(old, new) == {old, new} \subseteq Trees /\ Enter(<<old, new>>)

Leave ==
    /\ frame["app"].at = "native"
    /\ frame' = [frame EXCEPT !["app"] = Idle]
    /\ UNCHANGED <<heap, handle, disposed, finalizable, held>>

(* The application makes its last use of o.                                *)
LetGo(o) ==
    /\ o \in held
    /\ held' = held \ {o}
    /\ UNCHANGED <<heap, handle, disposed, finalizable, frame>>

----------------------------------------------------------------------------
(* Dispose, step by step, on either thread                                 *)

GoesTo(thread, at) ==
    frame' = [frame EXCEPT ![thread] = [at |-> at, object |-> frame[thread].object]]

StartDispose(thread, o) ==
    frame' = [frame EXCEPT ![thread] = [at |-> "check", object |-> o]]

Dispose(o) ==
    /\ frame["app"] = Idle
    /\ o \in held
    /\ StartDispose("app", o)
    /\ UNCHANGED <<heap, handle, disposed, finalizable, held>>

(* ~AstTree, ~Repository.  An object that is being disposed of is in use   *)
(* until the end of Dispose, which names it last.                          *)
Finalize(o) ==
    /\ frame["finalizer"] = Idle
    /\ o \in finalizable \ held
    /\ ~ (frame["app"].at \notin {"idle", "native"} /\ frame["app"].object = o)
    /\ finalizable' = finalizable \ {o}
    /\ StartDispose("finalizer", o)
    /\ UNCHANGED <<heap, handle, disposed, held>>

Check(thread) ==
    /\ frame[thread].at = "check"
    /\ LET o == frame[thread].object IN
       GoesTo(thread, IF ~disposed[o] /\ handle[o] # Null
                      THEN "destroy" ELSE "suppress")
    /\ UNCHANGED <<heap, handle, disposed, finalizable, held>>

(* Mutant of Destroy: the native object is left alone.                     *)
DestroyNothing(thread) ==
    /\ frame[thread].at = "destroy"
    /\ GoesTo(thread, "clear")
    /\ UNCHANGED <<heap, handle, disposed, finalizable, held>>

Destroy(thread) ==
    /\ frame[thread].at = "destroy"
    /\ NativeDestroy(handle[frame[thread].object])
    /\ GoesTo(thread, "clear")
    /\ UNCHANGED <<handle, disposed, finalizable, held>>

(* Mutant of Clear: _handle and _disposed stay.                            *)
ClearNothing(thread) ==
    /\ frame[thread].at = "clear"
    /\ GoesTo(thread, "suppress")
    /\ UNCHANGED <<heap, handle, disposed, finalizable, held>>

(* Mutant of Clear: _handle stays.                                         *)
ClearFlagOnly(thread) ==
    /\ frame[thread].at = "clear"
    /\ disposed' = [disposed EXCEPT ![frame[thread].object] = TRUE]
    /\ GoesTo(thread, "suppress")
    /\ UNCHANGED <<heap, handle, finalizable, held>>

Clear(thread) ==
    /\ frame[thread].at = "clear"
    /\ handle' = [handle EXCEPT ![frame[thread].object] = Null]
    /\ disposed' = [disposed EXCEPT ![frame[thread].object] = TRUE]
    /\ GoesTo(thread, "suppress")
    /\ UNCHANGED <<heap, finalizable, held>>

SuppressFinalize(thread) ==
    /\ frame[thread].at = "suppress"
    /\ finalizable' = finalizable \ {frame[thread].object}
    /\ frame' = [frame EXCEPT ![thread] = Idle]
    /\ UNCHANGED <<heap, handle, disposed, held>>

Next ==
    \/ \E o \in Objects, a \in Addresses : Construct(o, a)
    \/ \E t \in Made : CallTree(t)
    \/ \E r \in Made : CallRepo(r)
    \/ \E r, t \in Made : Commit(r, t)
    \/ \E old, new \in Made : Compare(old, new)
    \/ Leave
    \/ \E o \in held : LetGo(o)
    \/ \E o \in held : Dispose(o)
    \/ \E o \in finalizable : Finalize(o)
    \/ \E thread \in Threads :
          Check(thread) \/ Destroy(thread) \/ Clear(thread) \/ SuppressFinalize(thread)

Spec == Init /\ [][Next]_vars

----------------------------------------------------------------------------
Disposing(thread, o) ==
    frame[thread].at \notin {"idle", "native"} /\ frame[thread].object = o

(* A native object is freed once, by the object it was made for: Dispose,  *)
(* called again, or once by each thread, never hands destroy an address    *)
(* that is free or that the allocator has given to someone else.           *)
FreedByOwner ==
    \A thread \in Threads : frame[thread].at = "destroy" =>
        LET o == frame[thread].object IN
        handle[o] \in DOMAIN heap /\ heap[handle[o]] = o

(* Nothing leaks: a native object is the handle of the object it was made  *)
(* for, and that object can still be disposed of, by the application that  *)
(* holds it, by the runtime that will finalize it, or by a thread that is  *)
(* about to destroy it.                                                    *)
NothingLeaks ==
    \A a \in DOMAIN heap : LET o == heap[a] IN
        /\ handle[o] = a
        /\ o \in held \union finalizable
              \/ \E thread \in Threads :
                    Disposing(thread, o)
                    /\ frame[thread].at \in {"check", "destroy"}

(* A native function works on the objects of the caller: as long as the    *)
(* application holds on to the objects of a call until it returns, what    *)
(* the function dereferences is alive and is theirs, also when some of     *)
(* them were disposed of and their addresses are in use again.             *)
HeldCallsAreValid ==
    frame["app"].at = "native" /\ ToSet(frame["app"].objects) \subseteq held =>
        \A i \in DOMAIN frame["app"].args :
            LET a == frame["app"].args[i] IN
            a \in Dereferenced(frame["app"].args) =>
                a \in DOMAIN heap /\ heap[a] = frame["app"].objects[i]
============================================================================
