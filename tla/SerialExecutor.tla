--------------------------- MODULE SerialExecutor ---------------------------
(***************************************************************************)
(* What a Processor promises to its owner (src/impl/processor.hpp:24,      *)
(* "Processed tasks in order by delegating them to the thread pool"): the  *)
(* tasks enqueued on one processor run one at a time, in the order of      *)
(* their enqueue() calls, whatever the number of pool threads and whatever *)
(* the other processors do.                                                *)
(***************************************************************************)
EXTENDS Naturals

CONSTANTS Processors, \* the Processor objects
          Tasks,      \* the closures handed to enqueue()
          Owner       \* Owner[t]: the processor the closure t is enqueued on

VARIABLES enqueued, \* enqueued[p]: number of enqueue() calls on p
          ticket,  \* ticket[t]: rank of t among the enqueue() calls on Owner[t], 0 before
          began,   \* began[t]: rank of t among the tasks of Owner[t] that were started, 0 before
          ended    \* the tasks whose closure has returned (or thrown)

abstractVars == <<enqueued, ticket, began, ended>>

Of(p) == {t \in Tasks : Owner[t] = p}

AbstractInit ==
    /\ enqueued = [p \in Processors |-> 0]
    /\ ticket = [t \in Tasks |-> 0]
    /\ began = [t \in Tasks |-> 0]
    /\ ended = {}

\* A closure is enqueued: it gets the next rank of its processor.
Submit(t) ==
    /\ ticket[t] = 0
    /\ enqueued' = [enqueued EXCEPT ![Owner[t]] = @ + 1]
    /\ ticket' = [ticket EXCEPT ![t] = enqueued[Owner[t]] + 1]
    /\ UNCHANGED <<began, ended>>

\* The oldest enqueued closure starts, once every earlier one has returned.
Begin(t) ==
    /\ ticket[t] # 0
    /\ began[t] = 0
    /\ \A u \in Of(Owner[t]) : 0 < ticket[u] /\ ticket[u] < ticket[t] => u \in ended
    /\ began' = [began EXCEPT ![t] = ticket[t]]
    /\ UNCHANGED <<enqueued, ticket, ended>>

End(t) ==
    /\ began[t] # 0
    /\ t \notin ended
    /\ ended' = ended \cup {t}
    /\ UNCHANGED <<enqueued, ticket, began>>

AbstractNext == \E t \in Tasks : Submit(t) \/ Begin(t) \/ End(t)

AbstractSpec == AbstractInit /\ [][AbstractNext]_abstractVars
=============================================================================
