------------------------------- MODULE MCInit -------------------------------
(***************************************************************************)
(* Global initialisation and the C API share no state: a behaviour runs    *)
(* one of them, the other rests in its initial state.                      *)
(***************************************************************************)
EXTENDS Init, CApi

CONSTANTS o1, o2, o3, s1, s2

MCObjects == {o1, o2, o3}
MCSettings == {s1, s2}

VARIABLE active

allVars == <<vars, capiVars, active>>

MCInitial ==
    /\ Init
    /\ \/ active = "init" /\ CApiInitWith("pc")
       \/ active = "capi" /\ CApiInit

MCNext ==
    /\ UNCHANGED active
    /\ \/ active = "init" /\ Next /\ UNCHANGED capiVars
       \/ active = "capi" /\ CApiNext /\ UNCHANGED vars

MCSpec ==
    /\ MCInitial /\ [][MCNext]_allVars
    /\ \A g \in Generations : WF_vars(active = "init" /\ CleanupThread(g))
    /\ \A t \in Threads : WF_capiVars(active = "capi" /\ Step(t))

=============================================================================
