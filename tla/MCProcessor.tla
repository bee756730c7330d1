---------------------------- MODULE MCProcessor ----------------------------
(***************************************************************************)
(* Two processors on a pool of two workers, four closures in all; and the  *)
(* pool itself, with two workers, one immediate and two delayed closures   *)
(* and a re-spawn.  A behaviour runs one of the two, the other rests.      *)
(***************************************************************************)
EXTENDS Processor, ThreadPool, TLC

CONSTANTS pc, sctp, t1, t2, t3, t4, a, b, c

MCOwner == (t1 :> pc) @@ (t2 :> pc) @@ (t3 :> pc) @@ (t4 :> sctp)
MCDelay == (a :> 0) @@ (b :> 1) @@ (c :> 2)

VARIABLE active

allVars == <<vars, poolVars, active>>

MCInitial == Init /\ PoolInit /\ active \in {"processor", "pool"}

MCNext ==
    /\ UNCHANGED active
    /\ \/ active = "processor" /\ Next /\ UNCHANGED poolVars
       \/ active = "pool" /\ PoolNext /\ UNCHANGED vars

\* The fairness of Processor and that of ThreadPool.
MCSpec ==
    /\ MCInitial /\ [][MCNext]_allVars
    /\ \A w \in Workers : WF_vars(active = "processor" /\ Worker(w))
    /\ \A p \in Processors : WF_vars(active = "processor" /\ JoinReturn(p))
    /\ \A w \in PoolWorkers : WF_poolVars(active = "pool" /\ Step(w))
    /\ WF_poolVars(active = "pool" /\ JoinStep)
    /\ WF_poolVars(active = "pool" /\ Tick)
=============================================================================
