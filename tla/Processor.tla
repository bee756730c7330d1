----------------------------- MODULE Processor -----------------------------
(***************************************************************************)
(* impl::Processor (src/impl/processor.hpp, src/impl/processor.cpp): each  *)
(* processor keeps at most one of its tasks in the thread pool and chains  *)
(* the next one from a scope guard when that task returns.  Several        *)
(* processors (the ones of PeerConnection and of SctpTransport, and the    *)
(* TearDownProcessor) share the workers of one pool.                       *)
(*                                                                         *)
(* Every operation runs under the processor's mMutex from its first to its *)
(* last statement, so each is one step.  The pool is external here: it     *)
(* holds the closures handed to it and any idle worker may take any of     *)
(* them (module ThreadPool models the pool itself).                        *)
(***************************************************************************)
EXTENDS Naturals, Sequences

CONSTANTS Processors, \* the Processor objects
          Tasks,      \* the closures handed to enqueue(), each of them once
          Owner,      \* Owner[t]: the processor t is enqueued on
          Workers,    \* the threads of the pool
          NoTask      \* a worker that holds no closure

ASSUME ProcessorAssumption ==
    /\ Owner \in [Tasks -> Processors]
    /\ NoTask \notin Tasks

VARIABLES mTasks,    \* mTasks[p]: closures waiting behind the one in the pool
          mPending,  \* mPending[p]
          pool,      \* closures handed to the thread pool and not yet taken
          held,      \* held[w]: the closure the worker w is executing
          phase,     \* phase[w]: "idle", "run" (in bound()) or "chain" (in the scope guard)
          join,      \* join[p]: "no", "waiting" in join(), or "joined" (returned; p is destroyed)
          enqueued,  \* enqueued[p]: number of enqueue() calls on p
          begun,     \* begun[p]: number of tasks of p a worker started
          ticket,    \* ticket[t]: rank of the enqueue() of t on its processor
          began,     \* began[t]: rank of the start of t on its processor
          ended      \* the tasks whose bound() has returned or thrown

vars == <<mTasks, mPending, pool, held, phase, join, enqueued, begun, ticket, began, ended>>

Of(p) == {t \in Tasks : Owner[t] = p}

\* Some closure of p is on a worker: its body or its scope guard is executing.
Active(p) == \E w \in Workers : held[w] \in Of(p)

Init ==
    /\ mTasks = [p \in Processors |-> <<>>]
    /\ mPending = [p \in Processors |-> FALSE]
    /\ pool = {}
    /\ held = [w \in Workers |-> NoTask]
    /\ phase = [w \in Workers |-> "idle"]
    /\ join = [p \in Processors |-> "no"]
    /\ enqueued = [p \in Processors |-> 0]
    /\ begun = [p \in Processors |-> 0]
    /\ ticket = [t \in Tasks |-> 0]
    /\ began = [t \in Tasks |-> 0]
    /\ ended = {}

-----------------------------------------------------------------------------
\* Mutant: every closure goes straight to the pool.
PostToPool(p, t) ==
    /\ pool' = pool \cup {t}
    /\ mPending' = [mPending EXCEPT ![p] = TRUE]
    /\ UNCHANGED mTasks

\* enqueue(): straight to the pool when nothing of p is pending, else behind it.
Post(p, t) ==
    \/ /\ ~mPending[p]
       /\ pool' = pool \cup {t}
       /\ mPending' = [mPending EXCEPT ![p] = TRUE]
       /\ UNCHANGED mTasks
    \/ /\ mPending[p]
       /\ mTasks' = [mTasks EXCEPT ![p] = Append(@, t)]
       /\ UNCHANGED <<pool, mPending>>

\* Once the destructor waits in join() nobody outside holds the object any more,
\* but a task of p that still runs may enqueue another one.
Enqueue(t) ==
    LET p == Owner[t] IN
    /\ ticket[t] = 0
    /\ join[p] = "no" \/ (join[p] = "waiting" /\ Active(p))
    /\ Post(p, t)
    /\ enqueued' = [enqueued EXCEPT ![p] = @ + 1]
    /\ ticket' = [ticket EXCEPT ![t] = enqueued[p] + 1]
    /\ UNCHANGED <<held, phase, join, begun, began, ended>>

\* A pool worker takes a closure and enters bound().
Take(w, t) ==
    /\ phase[w] = "idle"
    /\ t \in pool
    /\ pool' = pool \ {t}
    /\ held' = [held EXCEPT ![w] = t]
    /\ phase' = [phase EXCEPT ![w] = "run"]
    /\ begun' = [begun EXCEPT ![Owner[t]] = @ + 1]
    /\ began' = [began EXCEPT ![t] = begun[Owner[t]] + 1]
    /\ UNCHANGED <<mTasks, mPending, join, enqueued, ticket, ended>>

\* bound() returns or throws: the scope guard is next either way.
Return(w) ==
    /\ phase[w] = "run"
    /\ phase' = [phase EXCEPT ![w] = "chain"]
    /\ ended' = ended \cup {held[w]}
    /\ UNCHANGED <<mTasks, mPending, pool, held, join, enqueued, begun, ticket, began>>

\* Mutant: the flag is cleared while closures are still queued.
ChainDropsQueue(p) ==
    /\ mPending' = [mPending EXCEPT ![p] = FALSE]
    /\ UNCHANGED <<pool, mTasks>>

\* Mutant: the flag is left set when the queue runs dry.
ChainKeepsPending(p) ==
    IF mTasks[p] # <<>>
    THEN /\ pool' = pool \cup {Head(mTasks[p])}
         /\ mTasks' = [mTasks EXCEPT ![p] = Tail(@)]
         /\ UNCHANGED mPending
    ELSE UNCHANGED <<pool, mTasks, mPending>>

\* schedule(): hand the next closure to the pool, or clear mPending and notify.
Chain(p) ==
    \/ /\ mTasks[p] # <<>>
       /\ pool' = pool \cup {Head(mTasks[p])}
       /\ mTasks' = [mTasks EXCEPT ![p] = Tail(@)]
       /\ UNCHANGED mPending
    \/ /\ mTasks[p] = <<>>
       /\ mPending' = [mPending EXCEPT ![p] = FALSE]
       /\ UNCHANGED <<pool, mTasks>>

\* The scope guard of the closure, run by the worker that executed it.
Schedule(w) ==
    /\ phase[w] = "chain"
    /\ Chain(Owner[held[w]])
    /\ held' = [held EXCEPT ![w] = NoTask]
    /\ phase' = [phase EXCEPT ![w] = "idle"]
    /\ UNCHANGED <<join, enqueued, begun, ticket, began, ended>>

\* join(), called by the destructor, waits on mCondition ...
JoinStart(p) ==
    /\ join[p] = "no"
    /\ join' = [join EXCEPT ![p] = "waiting"]
    /\ UNCHANGED <<mTasks, mPending, pool, held, phase, enqueued, begun, ticket, began, ended>>

\* Mutant: only the queue is looked at.
QueueDrained(p) == mTasks[p] = <<>>

\* The predicate join() waits for.
Drained(p) == ~mPending[p] /\ mTasks[p] = <<>>

\* ... until nothing is pending and nothing is queued; then p goes away.
JoinReturn(p) ==
    /\ join[p] = "waiting"
    /\ Drained(p)
    /\ join' = [join EXCEPT ![p] = "joined"]
    /\ UNCHANGED <<mTasks, mPending, pool, held, phase, enqueued, begun, ticket, began, ended>>

Worker(w) == (\E t \in Tasks : Take(w, t)) \/ Return(w) \/ Schedule(w)

Next ==
    \/ \E t \in Tasks : Enqueue(t)
    \/ \E w \in Workers : Worker(w)
    \/ \E p \in Processors : JoinStart(p) \/ JoinReturn(p)

Spec == Init /\ [][Next]_vars

\* The pool's workers keep running and the tasks return; a thread blocked in
\* join() wakes up when its condition stays true.
Fairness ==
    /\ \A w \in Workers : WF_vars(Worker(w))
    /\ \A p \in Processors : WF_vars(JoinReturn(p))

FairSpec == Spec /\ Fairness

-----------------------------------------------------------------------------
\* The state is what the processors and the pool can hold; a worker is idle exactly when
\* it holds no closure.
TypeOK ==
    /\ mTasks \in [Processors -> Seq(Tasks)]
    /\ mPending \in [Processors -> BOOLEAN]
    /\ pool \in SUBSET Tasks
    /\ held \in [Workers -> Tasks \cup {NoTask}]
    /\ phase \in [Workers -> {"idle", "run", "chain"}]
    /\ \A w \in Workers : phase[w] = "idle" <=> held[w] = NoTask
    /\ join \in [Processors -> {"no", "waiting", "joined"}]
    /\ enqueued \in [Processors -> Nat]
    /\ begun \in [Processors -> Nat]
    /\ ticket \in [Tasks -> Nat]
    /\ began \in [Tasks -> Nat]
    /\ ended \in SUBSET Tasks

\* The closure t is the one its processor has in the thread pool.
InFlight(t) == t \in pool \/ \E w \in Workers : held[w] = t

\* processor.hpp:43, "true iff a task is pending in the thread pool": mPending[p]
\* holds exactly while one closure of p is in the pool or on a worker, and a
\* second one never is.
PendingIffInFlight ==
    \A p \in Processors :
       /\ mPending[p] <=> \E t \in Of(p) : InFlight(t)
       /\ \A t, u \in Of(p) : InFlight(t) /\ InFlight(u) => t = u
       /\ \A v, w \in Workers : held[v] \in Of(p) /\ held[v] = held[w] => v = w

\* Once join() has returned and the owner destroys the processor, no worker can
\* touch it again: none of its closures is queued, in the pool or on a worker.
NothingAfterJoin ==
    \A p \in Processors :
       join[p] = "joined" =>
          /\ mTasks[p] = <<>>
          /\ \A t \in Of(p) : ~InFlight(t)

\* What processor.hpp:24 promises: the tasks of each processor run one at a time
\* and in enqueue order, although any worker may take any closure.
Serial == INSTANCE SerialExecutor
             WITH enqueued <- enqueued, ticket <- ticket, began <- began, ended <- ended
SerialInOrder == Serial!AbstractSpec

\* A closure that was enqueued is eventually executed, also when other tasks of
\* its processor threw and when the processor is being joined, and the join()
\* of the destructor returns.
EveryTaskRuns ==
    /\ \A t \in Tasks : ticket[t] # 0 ~> t \in ended
    /\ \A p \in Processors : join[p] = "waiting" ~> join[p] = "joined"
=============================================================================
