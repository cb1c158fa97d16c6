----------------------------- MODULE MCBindings ----------------------------
(* UnityHandles, UnrealHandles and SceneCalls for TLC: a program uses the  *)
(* C interface through one binding or the other, or calls it itself.       *)
EXTENDS UnityHandles, UnrealHandles, SceneCalls

VARIABLE binding

bindingVars == <<vars, unrealVars, sceneVars, binding>>

BindingInit ==
    /\ binding \in {"unity", "unreal", "c"}
    /\ Init
    /\ UnrealInit
    /\ SceneInit

BindingNext ==
    \/ /\ binding = "unity"
       /\ Next
       /\ UNCHANGED <<unrealVars, sceneVars, binding>>
    \/ /\ binding = "unreal"
       /\ UnrealNext
       /\ UNCHANGED <<vars, sceneVars, binding>>
    \/ /\ binding = "c"
       /\ SceneNext
       /\ UNCHANGED <<vars, unrealVars, binding>>

BindingSpec == BindingInit /\ [][BindingNext]_bindingVars
============================================================================
