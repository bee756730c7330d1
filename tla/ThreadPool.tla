----------------------------- MODULE ThreadPool -----------------------------
(***************************************************************************)
(* impl::ThreadPool (src/impl/threadpool.hpp, src/impl/threadpool.cpp):    *)
(* worker threads taking closures off a queue ordered by time, the two     *)
(* condition variables, and the join() / clear() / spawn() cycle that      *)
(* Init::doCleanup() and Init::doInit() drive.                             *)
(*                                                                         *)
(* mMutex is held from one wait to the next, so a step of a worker is the  *)
(* code between two points where the mutex is free.  A worker that was     *)
(* notified, timed out or woke up spuriously still has to take the mutex   *)
(* before it counts as busy again: that window is the place "woken".       *)
(***************************************************************************)
EXTENDS Integers, FiniteSets

CONSTANTS PoolWorkers, \* the threads spawn() creates
          Closures,    \* closures handed to enqueue() or schedule(), each once
          Delay,       \* Delay[t]: the delay t is scheduled with, 0 for enqueue()
          MaxTime,     \* bound on the clock
          MaxSpawns,   \* bound on the number of spawn() calls
          NoClosure, Never

ASSUME ThreadPoolAssumption ==
    /\ Delay \in [Closures -> Nat]
    /\ NoClosure \notin Closures
    /\ Never \notin Nat
    /\ MaxTime \in Nat /\ MaxSpawns \in Nat

VARIABLES poolTasks,    \* mTasks: the queued closures
          time,         \* time[t]: the time t was scheduled for
          now,          \* clock::now()
          mBusyWorkers,
          mJoining,
          at,           \* at[w]: "none", "spawned", "dequeue", "wait", "woken", "run", "leave", "exited"
          until,        \* until[w]: the deadline of wait_until(), Never for wait()
          running,      \* running[w]: the closure the worker executes
          joiner,       \* the thread in join(): "idle", "check", "blocked", "joining", "clear"
          spawns,       \* number of spawn() calls so far
          started       \* the closures a worker began to execute

poolVars == <<poolTasks, time, now, mBusyWorkers, mJoining, at, until, running, joiner, spawns, started>>

Waiters == {w \in PoolWorkers : at[w] = "wait"}

PoolInit ==
    /\ poolTasks = {}
    /\ time = [t \in Closures |-> Never]
    /\ now = 0
    /\ mBusyWorkers = 0
    /\ mJoining = FALSE
    /\ at = [w \in PoolWorkers |-> "none"]
    /\ until = [w \in PoolWorkers |-> Never]
    /\ running = [w \in PoolWorkers |-> NoClosure]
    /\ joiner = "idle"
    /\ spawns = 0
    /\ started = {}

-----------------------------------------------------------------------------
\* spawn(): every worker thread is created; it has not run yet.
Spawn ==
    /\ joiner = "idle"
    /\ spawns < MaxSpawns
    /\ \A w \in PoolWorkers : at[w] = "none"
    /\ at' = [w \in PoolWorkers |-> "spawned"]
    /\ spawns' = spawns + 1
    /\ UNCHANGED <<poolTasks, time, now, mBusyWorkers, mJoining, until, running, joiner, started>>

\* Mutant: schedule() does not notify.
NotifyNobody == UNCHANGED at

\* mTasksCondition.notify_one()
NotifyOne ==
    \/ /\ Waiters = {}
       /\ UNCHANGED at
    \/ \E w \in Waiters : at' = [at EXCEPT ![w] = "woken"]

\* schedule(): any thread queues a closure and notifies one waiting worker.
ScheduleAt(t) ==
    /\ time[t] = Never
    /\ poolTasks' = poolTasks \cup {t}
    /\ time' = [time EXCEPT ![t] = now + Delay[t]]
    /\ NotifyOne
    /\ UNCHANGED <<now, mBusyWorkers, mJoining, until, running, joiner, spawns, started>>

\* run(): the new thread counts itself busy and enters the loop.
Run(w) ==
    /\ at[w] = "spawned"
    /\ mBusyWorkers' = mBusyWorkers + 1
    /\ at' = [at EXCEPT ![w] = "dequeue"]
    /\ UNCHANGED <<poolTasks, time, now, mJoining, until, running, joiner, spawns, started>>

\* mTasks.top(): a closure with the smallest time.
IsTop(t) == t \in poolTasks /\ \A u \in poolTasks : time[t] <= time[u]

\* A worker with the mutex, at the head of the loop of dequeue().  One that comes
\* out of a wait first runs the scope guard that counts it busy again.
AtLoopHead(w) == at[w] \in {"dequeue", "woken"}

BusyAtHead(w) == IF at[w] = "woken" THEN mBusyWorkers + 1 ELSE mBusyWorkers

\* dequeue() returns the top closure, which is due.
DequeueTask(w, t) ==
    /\ AtLoopHead(w) /\ ~mJoining
    /\ IsTop(t) /\ time[t] <= now
    /\ poolTasks' = poolTasks \ {t}
    /\ mBusyWorkers' = BusyAtHead(w)
    /\ at' = [at EXCEPT ![w] = "run"]
    /\ running' = [running EXCEPT ![w] = t]
    /\ until' = [until EXCEPT ![w] = Never]
    /\ started' = started \cup {t}
    /\ UNCHANGED <<time, now, mJoining, joiner, spawns>>

\* Mutant: the thread in join() is not told that a worker became idle.
NotifyNoJoiner == UNCHANGED joiner

\* mWaitingCondition.notify_all()
NotifyJoiner == joiner' = IF joiner = "blocked" THEN "check" ELSE joiner

\* dequeue() finds nothing due: it stops being busy and waits, until the time of
\* the top closure when there is one.
DequeueWait(w) ==
    /\ AtLoopHead(w) /\ ~mJoining
    /\ \A t \in poolTasks : time[t] > now
    /\ mBusyWorkers' = BusyAtHead(w) - 1
    /\ at' = [at EXCEPT ![w] = "wait"]
    /\ until' = [until EXCEPT ![w] =
                    IF poolTasks = {} THEN Never ELSE time[CHOOSE t \in poolTasks : IsTop(t)]]
    /\ NotifyJoiner
    /\ UNCHANGED <<poolTasks, time, now, mJoining, running, spawns, started>>

\* A condition variable may wake up for no reason, and wait_until() does at its deadline.
Timeout(w) ==
    /\ at[w] = "wait" /\ until[w] # Never
    /\ until[w] <= now
    /\ at' = [at EXCEPT ![w] = "woken"]
    /\ UNCHANGED <<poolTasks, time, now, mBusyWorkers, mJoining, until, running, joiner, spawns, started>>

Spurious(w) ==
    /\ at[w] = "wait"
    /\ at' = [at EXCEPT ![w] = "woken"]
    /\ UNCHANGED <<poolTasks, time, now, mBusyWorkers, mJoining, until, running, joiner, spawns, started>>

\* dequeue() returns a null closure once the pool is being joined.
DequeueNull(w) ==
    /\ AtLoopHead(w) /\ mJoining
    /\ mBusyWorkers' = BusyAtHead(w)
    /\ at' = [at EXCEPT ![w] = "leave"]
    /\ until' = [until EXCEPT ![w] = Never]
    /\ UNCHANGED <<poolTasks, time, now, mJoining, running, joiner, spawns, started>>

\* runOne(): the closure returns and the worker goes back to dequeue().
Finish(w) ==
    /\ at[w] = "run"
    /\ at' = [at EXCEPT ![w] = "dequeue"]
    /\ running' = [running EXCEPT ![w] = NoClosure]
    /\ UNCHANGED <<poolTasks, time, now, mBusyWorkers, mJoining, until, joiner, spawns, started>>

\* run() returns: its scope guard, and the thread is over.
Leave(w) ==
    /\ at[w] = "leave"
    /\ mBusyWorkers' = mBusyWorkers - 1
    /\ at' = [at EXCEPT ![w] = "exited"]
    /\ UNCHANGED <<poolTasks, time, now, mJoining, until, running, joiner, spawns, started>>

-----------------------------------------------------------------------------
\* join() is called from Init::doCleanup(), after spawn() and under Init's mutex.
JoinCall ==
    /\ joiner = "idle"
    /\ \A w \in PoolWorkers : at[w] # "none"
    /\ joiner' = "check"
    /\ UNCHANGED <<poolTasks, time, now, mBusyWorkers, mJoining, at, until, running, spawns, started>>

\* Mutant: the pool is joined without waiting for the busy workers.
AnyWorkers == TRUE

\* The predicate join() waits for.
NoBusyWorkers == mBusyWorkers = 0

\* join() evaluates its predicate with the mutex held and blocks when it is false ...
JoinBlock ==
    /\ joiner = "check" /\ ~NoBusyWorkers
    /\ joiner' = "blocked"
    /\ UNCHANGED <<poolTasks, time, now, mBusyWorkers, mJoining, at, until, running, spawns, started>>

\* ... and otherwise raises the flag and wakes every worker up.
JoinFlag ==
    /\ joiner = "check" /\ NoBusyWorkers
    /\ mJoining' = TRUE
    /\ at' = [w \in PoolWorkers |-> IF at[w] = "wait" THEN "woken" ELSE at[w]]
    /\ joiner' = "joining"
    /\ UNCHANGED <<poolTasks, time, now, mBusyWorkers, until, running, spawns, started>>

\* All the threads are joined, the vector is cleared and the flag lowered.
JoinThreads ==
    /\ joiner = "joining"
    /\ \A w \in PoolWorkers : at[w] = "exited"
    /\ at' = [w \in PoolWorkers |-> "none"]
    /\ mJoining' = FALSE
    /\ joiner' = "clear"
    /\ UNCHANGED <<poolTasks, time, now, mBusyWorkers, until, running, spawns, started>>

\* clear() drops what is still queued.
Clear ==
    /\ joiner = "clear"
    /\ poolTasks' = {}
    /\ joiner' = "idle"
    /\ UNCHANGED <<time, now, mBusyWorkers, mJoining, at, until, running, spawns, started>>

Tick ==
    /\ now < MaxTime
    /\ now' = now + 1
    /\ UNCHANGED <<poolTasks, time, mBusyWorkers, mJoining, at, until, running, joiner, spawns, started>>

\* What a worker does when it is not asleep, the end of a timed wait included.
Step(w) ==
    \/ Run(w)
    \/ \E t \in Closures : DequeueTask(w, t)
    \/ DequeueWait(w)
    \/ Timeout(w)
    \/ DequeueNull(w)
    \/ Finish(w)
    \/ Leave(w)

JoinStep == JoinBlock \/ JoinFlag \/ JoinThreads \/ Clear

PoolNext ==
    \/ Spawn
    \/ \E t \in Closures : ScheduleAt(t)
    \/ \E w \in PoolWorkers : Step(w) \/ Spurious(w)
    \/ JoinCall
    \/ JoinStep
    \/ Tick

PoolSpec == PoolInit /\ [][PoolNext]_poolVars

\* Threads are scheduled, closures return and time passes.
PoolFairness ==
    /\ \A w \in PoolWorkers : WF_poolVars(Step(w))
    /\ WF_poolVars(JoinStep)
    /\ WF_poolVars(Tick)

PoolFairSpec == PoolSpec /\ PoolFairness

-----------------------------------------------------------------------------
\* join() goes past its wait only when no closure is executing, and none starts
\* until the pool is spawned again: the globals doCleanup() tears down next are
\* not in use by a worker, although notified and just created workers do not
\* count in mBusyWorkers yet.
QuietWhileJoining ==
    (mJoining \/ joiner = "clear") => \A w \in PoolWorkers : at[w] # "run"

\* A closure that is due is executed even if every notification went to a worker that found
\* something else to do, unless the pool is joined meanwhile; and join() always returns, so that
\* cleanup terminates, when the closures do.
PoolServes ==
    /\ \A t \in Closures :
          (t \in poolTasks /\ time[t] <= now /\ \E w \in PoolWorkers : at[w] # "none")
             ~> (t \in started \/ mJoining)
    /\ joiner = "check" ~> joiner = "idle"
=============================================================================
