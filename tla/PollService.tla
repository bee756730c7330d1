---------------------------- MODULE PollService -----------------------------
(***************************************************************************)
(* The thread that polls the sockets of WebSockets (src/src/impl/          *)
(* pollservice.cpp, pollinterrupter.cpp).  It copies the registrations     *)
(* into an array under the lock, polls the array without it, matches what  *)
(* poll() said with the registrations of that later moment, and makes the  *)
(* callbacks with no lock at all.  The pipe of the interrupter makes it    *)
(* prepare again.                                                          *)
(***************************************************************************)
EXTENDS Naturals, FiniteSets

CONSTANTS Socks,       \* socket numbers
          MaxChanges   \* bound on the calls of add() and remove()

ASSUME PollAssumption == IsFiniteSet(Socks) /\ MaxChanges \in Nat

VARIABLES mSocks,      \* the registrations: direction and until, per socket
          pipe,        \* a byte is in the interrupter's pipe
          loop,        \* where the thread is
          pfds, next,  \* its array and the sockets whose deadline it waits for
          revents,     \* what poll() returned
          todo,        \* the callbacks to make
          ready,       \* what the kernel has for each socket (environment)
          late,        \* sockets whose deadline has passed (environment)
          pollStopped, changes

pollVars == <<mSocks, pipe, loop, pfds, next, revents, todo, ready, late, pollStopped, changes>>

None == [dir |-> {}, timed |-> FALSE]
Registered(s) == mSocks[s] # None
\* The registrations TcpTransport makes: reading, with or without pings, connecting, sending.
Registrations == {[dir |-> {"In"}, timed |-> TRUE], [dir |-> {"In"}, timed |-> FALSE],
                  [dir |-> {"Out"}, timed |-> TRUE], [dir |-> {"In", "Out"}, timed |-> FALSE]}
Readiness == {"In", "Out", "Error"}

\* start().
PollInit ==
    /\ mSocks = [s \in Socks |-> None] /\ pipe = FALSE /\ loop = "prepare"
    /\ pfds = mSocks /\ next = {} /\ revents = [s \in Socks |-> {}] /\ todo = {}
    /\ ready = revents /\ late = {} /\ pollStopped = FALSE /\ changes = 0

\* Mutant: the poll is not interrupted.
AddQuietly(s, r) ==
    /\ changes < MaxChanges /\ ~pollStopped
    /\ mSocks' = [mSocks EXCEPT ![s] = r]
    /\ late' = late \ {s}
    /\ UNCHANGED pipe
    /\ changes' = changes + 1
    /\ UNCHANGED <<loop, pfds, next, revents, todo, ready, pollStopped>>

\* add() and remove(), by any thread and from callbacks; a registration renews the deadline.
Add(s, r) ==
    /\ changes < MaxChanges /\ ~pollStopped
    /\ mSocks' = [mSocks EXCEPT ![s] = r]
    /\ late' = late \ {s}
    /\ pipe' = TRUE
    /\ changes' = changes + 1
    /\ UNCHANGED <<loop, pfds, next, revents, todo, ready, pollStopped>>

PollRemove(s) ==
    /\ changes < MaxChanges /\ ~pollStopped /\ Registered(s)
    /\ mSocks' = [mSocks EXCEPT ![s] = None]
    /\ pipe' = TRUE
    /\ changes' = changes + 1
    /\ UNCHANGED <<loop, pfds, next, revents, todo, ready, late, pollStopped>>

\* prepare(), unless the loop ends.
Prepare ==
    /\ loop = "prepare"
    /\ IF pollStopped THEN loop' = "ended" /\ UNCHANGED <<pfds, next>>
       ELSE /\ pfds' = mSocks
            /\ next' = {s \in Socks : mSocks[s].timed}
            /\ loop' = "poll"
    /\ UNCHANGED <<mSocks, pipe, revents, todo, ready, late, pollStopped, changes>>

\* poll(): errors are reported whatever was asked for.
Reported(s) == IF pfds[s] = None THEN {} ELSE ready[s] \cap (pfds[s].dir \cup {"Error"})

Poll ==
    /\ loop = "poll"
    /\ pipe \/ next \cap late # {} \/ \E s \in Socks : Reported(s) # {}
    /\ revents' = [s \in Socks |-> Reported(s)]
    /\ loop' = "process"
    /\ UNCHANGED <<mSocks, pipe, pfds, next, todo, ready, late, pollStopped, changes>>

\* process(), up to the callbacks: it empties the pipe and matches the sockets by number.
Erased(s) == "Error" \in revents[s] \/ (revents[s] = {} /\ mSocks[s].timed /\ s \in late)
Events(s) ==
    IF "Error" \in revents[s] THEN {"Error"}
    ELSE IF revents[s] # {} THEN revents[s]
    ELSE IF Erased(s) THEN {"Timeout"} ELSE {}

Process ==
    /\ loop = "process"
    /\ LET polled == {s \in Socks : pfds[s] # None /\ Registered(s)}
       IN  /\ todo' = {<<s, e>> \in polled \X {"Error", "Timeout", "In", "Out"} : e \in Events(s)}
           /\ mSocks' = [s \in Socks |-> IF s \in polled /\ Erased(s) THEN None ELSE mSocks[s]]
           /\ late' = late \ {s \in polled : revents[s] # {} \/ Erased(s)}
    /\ pipe' = FALSE
    /\ loop' = "callbacks"
    /\ UNCHANGED <<pfds, next, revents, ready, pollStopped, changes>>

\* callback(event): the owner takes what the event announced.
Callback(s, e) ==
    /\ loop = "callbacks" /\ <<s, e>> \in todo
    /\ e = "Out" => <<s, "In">> \notin todo
    /\ todo' = todo \ {<<s, e>>}
    /\ ready' = [ready EXCEPT ![s] = @ \ {e}]
    /\ UNCHANGED <<mSocks, pipe, loop, pfds, next, revents, late, pollStopped, changes>>

Again ==
    /\ loop = "callbacks" /\ todo = {}
    /\ loop' = "prepare"
    /\ UNCHANGED <<mSocks, pipe, pfds, next, revents, todo, ready, late, pollStopped, changes>>

\* join(), to the point where it waits for the thread.
PollJoin ==
    /\ ~pollStopped
    /\ pollStopped' = TRUE
    /\ pipe' = TRUE
    /\ UNCHANGED <<mSocks, loop, pfds, next, revents, todo, ready, late, changes>>

\* The network and the clock.
BecomeReady(s, e) ==
    /\ e \notin ready[s]
    /\ ready' = [ready EXCEPT ![s] = @ \cup {e}]
    /\ UNCHANGED <<mSocks, pipe, loop, pfds, next, revents, todo, late, pollStopped, changes>>

BecomeLate(s) ==
    /\ Registered(s) /\ mSocks[s].timed /\ s \notin late
    /\ late' = late \cup {s}
    /\ UNCHANGED <<mSocks, pipe, loop, pfds, next, revents, todo, ready, pollStopped, changes>>

PollThread ==
    \/ Prepare \/ Poll \/ Process \/ Again
    \/ \E s \in Socks, e \in {"Error", "Timeout", "In", "Out"} : Callback(s, e)

PollNext ==
    \/ PollThread
    \/ PollJoin
    \/ \E s \in Socks : (\E r \in Registrations : Add(s, r)) \/ PollRemove(s)
    \/ \E s \in Socks : (\E e \in Readiness : BecomeReady(s, e)) \/ BecomeLate(s)

PollFairness == WF_pollVars(PollThread)

PollSpec == PollInit /\ [][PollNext]_pollVars /\ PollFairness

-----------------------------------------------------------------------------
Owed(s) == Registered(s) /\ ready[s] \cap mSocks[s].dir # {}
Served(s) == ~Owed(s) \/ \E e \in {"In", "Out", "Error", "Timeout"} : <<s, e>> \in todo

(***************************************************************************)
(* No wake-up is lost: a socket registered for what it is ready for gets a *)
(* callback, or is not registered so any more, although the thread polls   *)
(* an array that was copied earlier and takes the whole pipe at once.  And *)
(* join() returns: a thread sleeping in poll() without a deadline is woken *)
(* to see mStopped.                                                        *)
(***************************************************************************)
PollServes ==
    /\ \A s \in Socks : Owed(s) ~> (Served(s) \/ pollStopped)
    /\ pollStopped ~> loop = "ended"
=============================================================================
