---------------------------- MODULE IceTransport ----------------------------
(***************************************************************************)
(* The ICE transport over its two agents, libjuice and libnice             *)
(* (src/src/impl/icetransport.cpp): which servers the agent is given, how  *)
(* its states become those of the transport, and the end of the transport  *)
(* while the agent's thread may be in one of its callbacks.  libnice runs  *)
(* the callbacks and the timeout of the trickling in its main loop.        *)
(***************************************************************************)
EXTENDS Naturals, Sequences, SequencesExt

CONSTANTS Libraries,        \* "juice", "nice"
          ServerLists,      \* lists of [type, relay, named, resolves], in the order of the shuffle
          MaxTurnServers    \* MAX_TURN_SERVERS_COUNT

ASSUME IceAssumption == Libraries \subseteq {"juice", "nice"} /\ MaxTurnServers \in Nat

VARIABLES lib,
          stun, turn,   \* the servers given to the agent
          component,    \* the agent's state
          iceLink,      \* the transport's
          gatherState,
          trickling,    \* mTrickleTimeout is not zero
          timeoutId,    \* mTimeoutId is set
          loop,         \* the callback the agent's thread is in
          end           \* how far the destructor is

iceVars == <<lib, stun, turn, component, iceLink, gatherState, trickling, timeoutId, loop, end>>

-----------------------------------------------------------------------------
\* addIceServer() of each agent, for the servers of a list, one after the other.
AddIceServersJuice(used, list) ==
    LET usable == SelectSeq(list, LAMBDA s : s.named /\ s.type = "Turn" /\ s.relay = "udp")
        room == IF Len(used) >= MaxTurnServers THEN 0 ELSE MaxTurnServers - Len(used)
    IN  used \o SubSeq(usable, 1, IF Len(usable) < room THEN Len(usable) ELSE room)

AddIceServersNice(used, list) == used \o SelectSeq(list, LAMBDA s : s.named /\ s.type = "Turn" /\ s.resolves)

AddIceServers(l, used, list) ==
    IF l = "juice" THEN AddIceServersJuice(used, list) ELSE AddIceServersNice(used, list)

\* The constructors: one STUN server, the first with a name, and for libnice the first that resolves.
PickStunJuice(list) == SelectInSeq(list, LAMBDA s : s.named /\ s.type = "Stun")
PickStunNice(list) == SelectInSeq(list, LAMBDA s : s.named /\ s.type = "Stun" /\ s.resolves)

IceInitWith(l, list) ==
    /\ lib = l
    /\ stun = IF l = "juice" THEN PickStunJuice(list) ELSE PickStunNice(list)
    /\ turn = AddIceServers(l, <<>>, list)
    /\ component = "Disconnected" /\ iceLink = "Disconnected" /\ gatherState = "New"
    /\ trickling = FALSE /\ timeoutId = FALSE /\ loop = "idle" /\ end = "no"

IceInit == \E l \in Libraries, list \in ServerLists : IceInitWith(l, list)

\* setRemoteDescription(): trickling unless the description has all the candidates.
RemoteSet(ended) ==
    /\ end = "no" /\ component = "Disconnected"
    /\ trickling' = (lib = "nice" /\ ~ended)
    /\ UNCHANGED <<lib, stun, turn, component, iceLink, gatherState, timeoutId, loop, end>>

\* gatherLocalCandidates(): the additional servers, then the state, then the agent.
Gather(list) ==
    /\ end = "no" /\ gatherState = "New"
    /\ turn' = AddIceServers(lib, turn, list)
    /\ gatherState' = "InProgress"
    /\ UNCHANGED <<lib, stun, component, iceLink, trickling, timeoutId, loop, end>>

-----------------------------------------------------------------------------
\* The states an agent goes through; a failed one checks again when a candidate arrives.
ComponentNext ==
    [Disconnected |-> {"Connecting"}, Connecting |-> {"Connected", "Failed"},
     Connected |-> {"Ready", "Failed", "Disconnected"}, Ready |-> {"Connected", "Failed", "Disconnected"},
     Failed |-> {"Connecting"}]

\* The agent's thread enters the callback of a state change, of the end of the gathering, or of a
\* packet or a candidate.
StateCallback ==
    /\ loop = "idle" /\ end = "no"
    /\ \E s \in ComponentNext[component] : component' = s
    /\ loop' = "state"
    /\ UNCHANGED <<lib, stun, turn, iceLink, gatherState, trickling, timeoutId, end>>

OtherCallback(kind) ==
    /\ loop = "idle" /\ end = "no"
    /\ kind = "done" => gatherState = "InProgress"
    /\ loop' = kind
    /\ UNCHANGED <<lib, stun, turn, component, iceLink, gatherState, trickling, timeoutId, end>>

TimeoutCallback ==
    /\ loop = "idle" /\ timeoutId /\ end # "destroyed"
    /\ loop' = "timeout"
    /\ UNCHANGED <<lib, stun, turn, component, iceLink, gatherState, trickling, timeoutId, end>>

LinkState == [Disconnected |-> "Disconnected", Connecting |-> "Connecting", Connected |-> "Connected",
              Ready |-> "Completed", Failed |-> "Failed"]

\* processStateChange().  libnice: a failure while trickling starts the timeout, a connection ends it.
ProcessStateChangeJuice ==
    /\ loop = "state" /\ lib = "juice"
    /\ iceLink' = LinkState[component]
    /\ loop' = "idle"
    /\ UNCHANGED <<lib, stun, turn, component, gatherState, trickling, timeoutId, end>>

ProcessStateChangeNice ==
    /\ loop = "state" /\ lib = "nice"
    /\ LET delayed == component = "Failed" /\ trickling
       IN  /\ timeoutId' = (delayed \/ (timeoutId /\ component # "Connected"))
           /\ iceLink' = IF delayed THEN iceLink ELSE LinkState[component]
    /\ loop' = "idle"
    /\ UNCHANGED <<lib, stun, turn, component, gatherState, trickling, end>>

ProcessTimeout ==
    /\ loop = "timeout"
    /\ timeoutId' = FALSE /\ iceLink' = "Failed" /\ loop' = "idle"
    /\ UNCHANGED <<lib, stun, turn, component, gatherState, trickling, end>>

\* processGatheringDone(), processCandidate() and RecvCallback().
CallbackEnds ==
    /\ loop \in {"done", "recv"}
    /\ gatherState' = IF loop = "done" THEN "Complete" ELSE gatherState
    /\ loop' = "idle"
    /\ UNCHANGED <<lib, stun, turn, component, iceLink, trickling, timeoutId, end>>

-----------------------------------------------------------------------------
\* The destructor.  libjuice: destroying the agent waits for its thread.  libnice: the callbacks are
\* detached, a task in the main loop is waited for, and last the timeout is removed.
DestroyJuice ==
    /\ lib = "juice" /\ end = "no" /\ loop = "idle"
    /\ end' = "destroyed"
    /\ UNCHANGED <<lib, stun, turn, component, iceLink, gatherState, trickling, timeoutId, loop>>

DetachCallbacks ==
    /\ lib = "nice" /\ end = "no"
    /\ end' = "detached"
    /\ UNCHANGED <<lib, stun, turn, component, iceLink, gatherState, trickling, timeoutId, loop>>

\* Mutant: the task in the main loop is not waited for.
BarrierNotAwaited ==
    /\ end = "detached"
    /\ end' = "barrier"
    /\ UNCHANGED <<lib, stun, turn, component, iceLink, gatherState, trickling, timeoutId, loop>>

Barrier ==
    /\ end = "detached" /\ loop = "idle"
    /\ end' = "barrier"
    /\ UNCHANGED <<lib, stun, turn, component, iceLink, gatherState, trickling, timeoutId, loop>>

RemoveTimeout ==
    /\ end = "barrier"
    /\ timeoutId' = FALSE
    /\ end' = "destroyed"
    /\ UNCHANGED <<lib, stun, turn, component, iceLink, gatherState, trickling, loop>>

IceNext ==
    \/ \E ended \in BOOLEAN : RemoteSet(ended)
    \/ \E list \in ServerLists : Gather(list)
    \/ StateCallback \/ OtherCallback("done") \/ OtherCallback("recv") \/ TimeoutCallback
    \/ ProcessStateChangeJuice \/ ProcessStateChangeNice \/ ProcessTimeout \/ CallbackEnds
    \/ DestroyJuice \/ DetachCallbacks \/ Barrier \/ RemoveTimeout

IceSpec == IceInit /\ [][IceNext]_iceVars

-----------------------------------------------------------------------------
(***************************************************************************)
(* A transport is not failed by the timeout of the trickling once the      *)
(* agent is connected; no callback but that of the timeout runs in a       *)
(* transport that is destroyed; and libjuice is never given more TURN      *)
(* servers than it takes, over the configured list and the ones given to   *)
(* gatherLocalCandidates().                                                *)
(***************************************************************************)
IceAgentSafe ==
    /\ timeoutId /\ loop = "idle" => component \notin {"Connected", "Ready"}
    /\ end = "destroyed" => loop \in {"idle", "timeout"}
    /\ lib = "juice" => Len(turn) <= MaxTurnServers
=============================================================================
