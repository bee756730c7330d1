---------------------------- MODULE PeerConnection ----------------------------
(***************************************************************************)
(* The life of impl::PeerConnection and of its stack of transports         *)
(* (impl/peerconnection.cpp): the transports are created one after the     *)
(* other, each from the state callback of the one below, and are closed by *)
(* close(), by remoteClose(), or because one of them ends.  All of this    *)
(* runs on different threads and is ordered by atomic variables only.      *)
(*                                                                         *)
(* A thread is a stack of operations, the next one first.  The state       *)
(* callback of a transport x lasts until <<"return", x>>.  Shared pointers *)
(* are the conditions of Destroy.  What the processor reports to the       *)
(* application, and what channels and tracks do when the transports        *)
(* connect, is left out (see DataChannels).                                *)
(***************************************************************************)
EXTENDS Naturals, Sequences, SequencesExt, FiniteSetsExt

CONSTANT Scenarios \* what may disturb the connection, see scenario

ASSUME ScenariosAssumption == Scenarios \subseteq SUBSET {"renegotiation", "start", "network"}

VARIABLES closing, state, iceState,
          member,    \* mIceTransport, mDtlsTransport and mSctpTransport
          built,     \* the transports created so far
          gone,      \* those destroyed
          tstate,    \* the state of each
          callback,  \* those whose state callback is set
          stopped,   \* those stop() was called on
          taken,     \* those closeTransports() took for the tear-down thread
          teardown,  \* the task of TearDownProcessor
          todo,      \* what each thread has left to do
          tasks,     \* the queue of mProcessor
          channelsClosed,
          asked,     \* the application closed the connection
          failed,    \* a transport ended by itself or did not start
          scenario   \* chosen once for the behaviour: with "renegotiation", a remote description may
                     \* be set while the transports connect, with "start", start() of a transport
                     \* may throw, and with "network", the network or the peer may end a transport

transports == <<member, built, gone, tstate, callback, stopped>>
closure == <<taken, teardown, channelsClosed>>
vars == <<closing, state, iceState, transports, closure, todo, tasks, asked, failed, scenario>>

Layers == {"ice", "dtls", "sctp"}

\* The SCTP transport may be created by the thread of the DTLS transport and by the application.
Sctps == {"sctp1", "sctp2"}
Transports == {"ice", "dtls"} \cup Sctps
Layer(x) == IF x \in Sctps THEN "sctp" ELSE x
Lower == [dtls |-> "ice", sctp |-> "dtls"]

\* The callbacks of a transport run on a thread of its own.
Threads == Transports \cup {"app", "closer", "proc", "teardown"}

Init ==
    /\ closing = FALSE
    /\ state = "New"
    /\ iceState = "New"
    /\ member = [l \in Layers |-> "none"]
    /\ built = {} /\ gone = {} /\ callback = {} /\ stopped = {} /\ taken = {}
    /\ tstate = [x \in Transports |-> "Disconnected"]
    /\ teardown = "none"
    /\ todo = [t \in Threads |-> <<>>]
    /\ tasks = <<>>
    /\ channelsClosed = FALSE
    /\ asked = FALSE
    /\ failed = FALSE
    /\ scenario \in Scenarios

Alive(x) == x \in built \ gone

Op(t) == Head(todo[t])
Is(t, op) == todo[t] # <<>> /\ Op(t)[1] = op

\* A state callback returns with its last operation.
Returned(ops) ==
    LET more == {i \in 1..Len(ops) : ops[i][1] # "return"}
    IN IF more = {} THEN <<>> ELSE SubSeq(ops, Min(more), Len(ops))

Then(t, ops) == todo' = [todo EXCEPT ![t] = Returned(ops \o Tail(@))]

\* An exception ends the state callback it is thrown in, or the call of the application.
Throw(t, ops) ==
    LET returns == {i \in 1..Len(todo[t]) : todo[t][i][1] = "return"}
        rest == IF returns = {} THEN <<>> ELSE SubSeq(todo[t], Min(returns), Len(todo[t]))
    IN todo' = [todo EXCEPT ![t] = Returned(ops \o rest)]

-----------------------------------------------------------------------------
(* The states of the connection.                                            *)

\* changeState(): Closed is a sink.
Changed(s) == IF state = "Closed" THEN state ELSE s

-----------------------------------------------------------------------------
(* The state callbacks of the transports.                                   *)

\* The threads in the state callback of x, which its lock keeps apart.
InCallback(x) == {t \in Threads : <<"return", x>> \in Range(todo[t])}

\* Mutant: the end of a transport is not followed by remoteClose().
OnEndQuietly(x, s) ==
    /\ state' = Changed(s)
    /\ iceState' = IF x = "ice" THEN s ELSE iceState
    /\ UNCHANGED tasks

\* The callbacks that end the connection change its state and post remoteClose().
OnEnd(x, s) ==
    /\ state' = Changed(s)
    /\ iceState' = IF x = "ice" THEN s ELSE iceState
    /\ tasks' = Append(tasks, "remoteClose")

\* The other ones change the state.  The callbacks that create a transport do so in later steps.
OnProgress(x, s) ==
    /\ state' = CASE x = "ice" /\ s = "Connecting" -> Changed("Connecting")
                  [] x \in Sctps /\ s = "Connected" -> Changed("Connected")
                  [] OTHER -> state
    /\ iceState' = CASE x = "ice" /\ s = "Connecting" -> "Checking"
                     [] x = "ice" /\ s # "Connecting" -> s
                     [] OTHER -> iceState
    /\ UNCHANGED tasks

Creates(x, s) ==
    IF s # "Connected" \/ x \in Sctps THEN <<>>
    ELSE <<<<"init", IF x = "ice" THEN "dtls" ELSE "sctp">>, <<"return", x>>>>

OnStateChange(x, s) ==
    IF x \notin callback THEN UNCHANGED <<state, iceState, tasks>>
    ELSE IF s \in {"Failed", "Disconnected"} THEN OnEnd(x, s) ELSE OnProgress(x, s)

\* Transport::changeState() on the thread of the transport, with the call of its callback.
Event(x, s) ==
    /\ Alive(x) /\ todo[x] = <<>> /\ InCallback(x) = {}
    /\ tstate' = [tstate EXCEPT ![x] = s]
    /\ OnStateChange(x, s)
    /\ todo' = IF x \in callback THEN [todo EXCEPT ![x] = Creates(x, s)] ELSE todo
    /\ UNCHANGED <<closing, member, built, gone, callback, stopped, closure, asked>>

\* The agent of the ICE transport connects; initIceTransport() returns before it is given
\* candidates.
IceEvent ==
    /\ todo["app"] = <<>>
    /\ \/ tstate["ice"] = "Disconnected" /\ ~failed /\ Event("ice", "Connecting")
       \/ tstate["ice"] = "Connecting" /\ Event("ice", "Connected")
       \/ tstate["ice"] = "Connected" /\ Event("ice", "Completed")
    /\ UNCHANGED failed

\* The DTLS and SCTP transports connect, each over a lower transport that is connected and
\* whose thread brings the packets of the handshake.
UpperEvent(x) ==
    /\ todo[Lower[Layer(x)]] = <<>>
    /\ tstate[x] = "Connecting" /\ x \notin stopped
    /\ tstate[Lower[Layer(x)]] \in {"Connected", "Completed"}
    /\ Event(x, "Connected")
    /\ UNCHANGED failed

\* A transport that was stopped ends, and so does the one above a transport that has ended.
StopEvent(x) ==
    /\ \/ x \in stopped
       \/ x \in Sctps /\ tstate["dtls"] \in {"Disconnected", "Failed"}
    /\ \/ tstate[x] = "Connected" /\ Event(x, "Disconnected")
       \/ tstate[x] = "Connecting" /\ Event(x, "Failed")
    /\ UNCHANGED failed

\* A transport ends because of the network or of the remote peer.
RemoteEvent(x) ==
    /\ "network" \in scenario /\ ~failed
    /\ \/ tstate[x] \in {"Connected", "Completed"} /\ Event(x, "Disconnected")
       \/ tstate[x] = "Connecting" /\ Event(x, "Failed")
    /\ failed' = TRUE

-----------------------------------------------------------------------------
(* Creating the transports.                                                 *)

Fresh(t, layer) == IF layer # "sctp" THEN layer ELSE IF t = "app" THEN "sctp2" ELSE "sctp1"

\* initXTransport(): returns if the transport exists, throws without a transport below.
InitTransport(t) ==
    /\ Is(t, "init")
    /\ LET layer == Op(t)[2]
       IN IF member[layer] # "none"
          THEN Then(t, <<>>)
          ELSE IF layer # "ice" /\ member[Lower[layer]] = "none"
          THEN Throw(t, <<<<"fail">>>>)
          ELSE Then(t, <<<<"emplace", Fresh(t, layer)>>>>)
    /\ UNCHANGED <<closing, state, iceState, transports, closure, tasks, asked, failed>>

\* emplaceTransport(), first its store to the member...
Emplace(t) ==
    /\ Is(t, "emplace")
    /\ LET x == Op(t)[2]
       IN /\ member' = [member EXCEPT ![Layer(x)] = x]
          /\ built' = built \cup {x}
          /\ callback' = callback \cup {x}
          /\ Then(t, <<<<"start", x>>>>)
    /\ UNCHANGED <<closing, state, iceState, gone, tstate, stopped, closure, tasks, asked, failed>>

\* ... then start()...
StartTransport(t) ==
    /\ Is(t, "start")
    /\ LET x == Op(t)[2]
       IN \/ /\ tstate' = IF x = "ice" THEN tstate ELSE [tstate EXCEPT ![x] = "Connecting"]
             /\ Then(t, <<<<"verify", x>>>>)
             /\ UNCHANGED <<member, failed>>
          \/ /\ "start" \in scenario /\ ~failed
             /\ member' = [member EXCEPT ![Layer(x)] = "none"]
             /\ failed' = TRUE
             /\ Throw(t, <<<<"fail">>>>)
             /\ UNCHANGED tstate
    /\ UNCHANGED <<closing, state, iceState, built, gone, callback, stopped, closure, tasks, asked>>

\* The state of a connection whose transport cannot be created.
FailState(t) ==
    /\ Is(t, "fail")
    /\ state' = Changed("Failed")
    /\ Then(t, <<>>)
    /\ UNCHANGED <<closing, iceState, transports, closure, tasks, asked, failed>>

\* Mutant: a connection that is not connected counts as closed.
ClosedUnlessConnected == closing \/ state # "Connected"

\* Mutant: emplaceTransport() does not look at the connection again.
ClosedMeanwhileNever == FALSE

ClosedMeanwhile == closing \/ state = "Closed"

\* ... and last it stops the transport if the connection was closed meanwhile.
Verify(t) ==
    /\ Is(t, "verify")
    /\ LET x == Op(t)[2]
       IN IF ClosedMeanwhile
          THEN /\ member' = [member EXCEPT ![Layer(x)] = "none"]
               /\ Then(t, <<<<"stop", x>>>>)
          ELSE Then(t, <<>>) /\ UNCHANGED member
    /\ UNCHANGED <<closing, state, iceState, built, gone, tstate, callback, stopped, closure, tasks, asked,
                   failed>>

-----------------------------------------------------------------------------
(* Closing.                                                                 *)

\* stop(): the ICE transport says nothing; the DTLS transport, and the SCTP transport when it is
\* connected, end later; an SCTP transport that connects fails on the calling thread.
StopTransport(t) ==
    /\ Is(t, "stop")
    /\ LET x == Op(t)[2]
       IN /\ stopped' = stopped \cup IF x = "dtls" \/ tstate[x] = "Connected" THEN {x} ELSE {}
          /\ IF x \in Sctps /\ tstate[x] = "Connecting"
             THEN /\ InCallback(x) \subseteq {t}
                  /\ tstate' = [tstate EXCEPT ![x] = "Failed"]
                  /\ OnStateChange(x, "Failed")
             ELSE UNCHANGED <<tstate, state, iceState, tasks>>
    /\ Then(t, <<>>)
    /\ UNCHANGED <<closing, member, built, gone, callback, closure, asked, failed>>

RemoteCloseSteps == <<<<"close">>, <<"closeTransports">>>>

\* Where close() goes on: an SCTP transport is stopped, and its end closes the connection.
CloseSteps == IF member["sctp"] # "none" THEN <<<<"stop", member["sctp"]>>>> ELSE RemoteCloseSteps

Close(t) ==
    /\ Is(t, "close")
    /\ closing' = TRUE
    /\ Then(t, IF closing THEN <<>> ELSE <<<<"closing">>>>)
    /\ UNCHANGED <<state, iceState, transports, closure, tasks, asked, failed>>

CloseWhich(t) ==
    /\ Is(t, "closing")
    /\ Then(t, CloseSteps)
    /\ UNCHANGED <<closing, state, iceState, transports, closure, tasks, asked, failed>>

\* remoteClose() after close().
CloseTransports(t) ==
    /\ Is(t, "closeTransports")
    /\ IF state = "Closed"
       THEN Then(t, <<>>) /\ UNCHANGED tasks
       ELSE /\ tasks' = Append(tasks, "closeChannels")
            /\ Then(t, <<<<"closed">>>>)
    /\ UNCHANGED <<closing, state, iceState, transports, closure, asked, failed>>

\* closeTransports(): of two callers only one changes the state and goes on.
ChangeToClosed(t) ==
    /\ Is(t, "closed")
    /\ iceState' = "Closed"
    /\ state' = "Closed"
    /\ Then(t, IF state = "Closed"
               THEN <<>>
               ELSE <<<<"take", "sctp">>, <<"take", "dtls">>, <<"take", "ice">>, <<"detach">>>>)
    /\ UNCHANGED <<closing, transports, closure, tasks, asked, failed>>

Take(t) ==
    /\ Is(t, "take")
    /\ LET layer == Op(t)[2]
       IN /\ taken' = taken \cup ({member[layer]} \ {"none"})
          /\ member' = [member EXCEPT ![layer] = "none"]
    /\ Then(t, <<>>)
    /\ UNCHANGED <<closing, state, iceState, built, gone, tstate, callback, stopped, teardown,
                   channelsClosed, tasks, asked, failed>>

\* onStateChange(nullptr) waits for a callback in progress on another thread.
Detach(t) ==
    /\ Is(t, "detach")
    /\ \A x \in taken : InCallback(x) \subseteq {t}
    /\ callback' = callback \ taken
    /\ teardown' = "queued"
    /\ Then(t, <<>>)
    /\ UNCHANGED <<closing, state, iceState, member, built, gone, tstate, stopped, taken, channelsClosed,
                   tasks, asked, failed>>

\* The task of TearDownProcessor stops the topmost transport and drops its references.
Topmost ==
    IF taken \cap Sctps # {} THEN taken \cap Sctps
    ELSE IF "dtls" \in taken THEN {"dtls"} ELSE taken

TearDown ==
    /\ teardown = "queued" /\ todo["teardown"] = <<>>
    /\ teardown' = "stopping"
    /\ todo' = [todo EXCEPT !["teardown"] = SetToSeq({<<"stop", x>> : x \in Topmost})]
    /\ UNCHANGED <<closing, state, iceState, transports, taken, channelsClosed, tasks, asked, failed>>

TornDown ==
    /\ teardown = "stopping" /\ todo["teardown"] = <<>>
    /\ teardown' = "done"
    /\ UNCHANGED <<closing, state, iceState, transports, taken, channelsClosed, todo, tasks, asked, failed>>

\* The members, the task, the transport above (from its creation), the calls in progress and
\* the thread of a transport refer to it.
Referenced(x) ==
    \/ x \in Range(member)
    \/ x \in taken /\ teardown # "done"
    \/ \E y \in Transports \ {"ice"} :
        /\ Lower[Layer(y)] = x
        /\ Alive(y) \/ \E t \in Threads : <<"emplace", y>> \in Range(todo[t])
    \/ todo[x] # <<>>
    \/ \E t \in Threads : {<<op, x>> : op \in {"start", "verify", "stop"}} \cap Range(todo[t]) # {}

\* The destructor of a transport stops the one below (transport.cpp, ~Transport).
StopsLower(x) == IF x = "ice" THEN {} ELSE {Lower[Layer(x)]}

Destroy(x) ==
    /\ Alive(x) /\ ~Referenced(x)
    /\ gone' = gone \cup {x}
    /\ stopped' = stopped \cup (StopsLower(x) \ {"ice"})
    /\ UNCHANGED <<closing, state, iceState, member, built, tstate, callback, closure, todo, tasks, asked,
                   failed>>

\* A task of mProcessor.
RunTask ==
    /\ tasks # <<>> /\ todo["proc"] = <<>>
    /\ tasks' = Tail(tasks)
    /\ IF Head(tasks) = "remoteClose"
       THEN todo' = [todo EXCEPT !["proc"] = RemoteCloseSteps] /\ UNCHANGED channelsClosed
       ELSE channelsClosed' = TRUE /\ UNCHANGED todo
    /\ UNCHANGED <<closing, state, iceState, transports, taken, teardown, asked, failed>>

-----------------------------------------------------------------------------
(* The application.                                                         *)

\* setLocalDescription() or setRemoteDescription() creates the ICE transport.
SetDescription ==
    /\ "ice" \notin built /\ todo["app"] = <<>>
    /\ todo' = [todo EXCEPT !["app"] = <<<<"init", "ice">>>>]
    /\ UNCHANGED <<closing, state, iceState, transports, closure, tasks, asked, failed>>

\* processRemoteDescription() creates the SCTP transport if the DTLS transport is connected.
Renegotiate ==
    /\ "renegotiation" \in scenario /\ "sctp2" \notin built /\ todo["app"] = <<>>
    /\ member["sctp"] = "none" /\ member["dtls"] # "none" /\ tstate["dtls"] = "Connected"
    /\ todo' = [todo EXCEPT !["app"] = <<<<"init", "sctp">>>>]
    /\ UNCHANGED <<closing, state, iceState, transports, closure, tasks, asked, failed>>

\* close(), or the destructor of the connection, which calls remoteClose().
AppClose ==
    /\ ~asked
    /\ asked' = TRUE
    /\ \E steps \in {<<<<"close">>>>, RemoteCloseSteps} : todo' = [todo EXCEPT !["closer"] = steps]
    /\ UNCHANGED <<closing, state, iceState, transports, closure, tasks, failed>>

-----------------------------------------------------------------------------

Run(t) ==
    \/ InitTransport(t) \/ Emplace(t) \/ StartTransport(t) \/ FailState(t) \/ Verify(t)
    \/ StopTransport(t) \/ Close(t) \/ CloseWhich(t)
    \/ CloseTransports(t) \/ ChangeToClosed(t) \/ Take(t) \/ Detach(t)

Step ==
    \/ \E t \in Threads : Run(t)
    \/ IceEvent
    \/ \E x \in Transports \ {"ice"} : UpperEvent(x) \/ StopEvent(x)
    \/ \E x \in Transports : RemoteEvent(x) \/ Destroy(x)
    \/ TearDown \/ TornDown \/ RunTask
    \/ SetDescription \/ Renegotiate \/ AppClose

Next == Step /\ UNCHANGED scenario

Spec == Init /\ [][Next]_vars

\* The steps that are taken by themselves: threads run, tasks are run, and a transport that was
\* stopped ends (DtlsTransport!StopEnds and SctpTransport!NothingLeft).  Nothing obliges a
\* transport to connect.
Internal ==
    \/ \E t \in Threads : Run(t)
    \/ \E x \in Transports \ {"ice"} : StopEvent(x)
    \/ \E x \in Transports : Destroy(x)
    \/ TearDown \/ TornDown \/ RunTask

-----------------------------------------------------------------------------
(* Properties.                                                              *)

\* A connection nobody closed, on a network that did not fail, does not end: no transport is
\* stopped while the connection uses it.  The exception are two threads that both found no SCTP
\* transport: the destruction of one of theirs stops the DTLS transport under the other.
NoSpontaneousEnd ==
    state \in {"Disconnected", "Failed", "Closed"} => asked \/ failed \/ Sctps \subseteq built

\* Every internal step uses up an operation, a task or a transport, so that a connection comes to
\* rest when the application and the network do: what holds whenever it is at rest holds in the end.
AtRest == ~ENABLED Internal

\* Whoever closes the connection and whatever is being created meanwhile, the state becomes
\* Closed, the channels are closed, and no transport is left.  A transport that ends takes the
\* connection with it.
CloseCompletes ==
    closing \/ (\E x \in callback : tstate[x] = "Failed")
        => (state = "Closed" /\ channelsClosed /\ built = gone) \/ ~AtRest
=============================================================================
