-------------------------------- MODULE CApi --------------------------------
(***************************************************************************)
(* The C API (src/src/capi.cpp): identifiers for the objects of the C++    *)
(* library, in maps behind one mutex.  A function looks its object up,     *)
(* holds a reference while it works on it, and drops it; a callback looks  *)
(* up the user pointer of its identifier before it calls the application   *)
(* and is not called if there is none.  Deleting closes the object, erases *)
(* the identifier and drops the reference; the last reference runs the     *)
(* destructor, which waits for running callbacks.                          *)
(*                                                                         *)
(* A thread is a stack of frames <<op, id, at>>, op naming the callback    *)
(* when it is one: "closed", or "message" for all the others.  Each has    *)
(* its lock.                                                               *)
(***************************************************************************)
EXTENDS Naturals, Sequences, FiniteSets, SequencesExt

CONSTANTS AppThreads, LibThreads,   \* of the application, of the library
          Kinds,                    \* of the first objects: "pc", "channel", "track", "ws", "server"
          MaxHandles, MaxFired,     \* bounds: identifiers given out, callbacks of the library
          Overlap,                  \* an object may be deleted while a call of another thread uses it
          CleanupInUse              \* rtcCleanup() may be called when objects left still have callbacks

VARIABLES objects,   \* [kind, mapped, pointer, closed, set, media] of the identifiers given out
          mutex,     \* who has the mutex of the maps for more than one step
          stack,     \* of each thread
          deleting,  \* the identifiers the application deletes, 0 for rtcCleanup()
          returned,  \* those whose deletion returned
          fired

capiVars == <<objects, mutex, stack, deleting, returned, fired>>

Threads == AppThreads \cup LibThreads
Handles == 1..Len(objects)

NewObject(kind) == [kind |-> kind, mapped |-> TRUE, pointer |-> TRUE, closed |-> FALSE, set |-> TRUE,
                     media |-> {}]   \* the media maps that have the identifier of a track

\* rtcCreatePeerConnection(), rtcAddTrack(), rtcCreateWebSocketEx(), rtcCreateWebSocketServer() gave
\* the application its first identifier.
CApiInitWith(kind) ==
    /\ objects = <<NewObject(kind)>>
    /\ mutex = "free" /\ stack = [t \in Threads |-> <<>>]
    /\ deleting = {} /\ returned = {} /\ fired = 0

CApiInit == \E k \in Kinds : CApiInitWith(k)

-----------------------------------------------------------------------------
Frame(t) == Last(stack[t])
Running(t, op, at) == stack[t] # <<>> /\ Frame(t)[1] = op /\ Frame(t)[3] = at
Id(t) == Frame(t)[2]
Object(t) == objects[Id(t)]

Pushed(t, frame) == [stack EXCEPT ![t] = Append(@, frame)]
Popped(t) == [stack EXCEPT ![t] = Front(@)]
At(t, at) == [stack EXCEPT ![t][Len(stack[t])][3] = at]

\* The frames that hold a shared_ptr to the object.
References(id) ==
    {f \in UNION {{<<t, i>> : i \in 1..Len(stack[t])} : t \in Threads} :
        stack[f[1]][f[2]][1] \in {"call", "delete"} /\ stack[f[1]][f[2]][2] = id}

\* The lock of a callback is free, or the thread's own.
CallbackFree(t, id, callback) ==
    \A u \in Threads \ {t} : \A i \in 1..Len(stack[u]) :
        ~(stack[u][i][1] = callback /\ stack[u][i][2] = id)

CallbacksFree(t, id) == CallbackFree(t, id, "closed") /\ CallbackFree(t, id, "message")

\* The application runs: its own thread at rest, or inside a callback that has called nothing yet.
InApplication(t) ==
    \/ t \in AppThreads /\ stack[t] = <<>>
    \/ stack[t] # <<>> /\ Frame(t)[3] = "user"

\* What the application leaves before it calls: a callback calls one function.
Called(t) == IF stack[t] = <<>> THEN stack ELSE At(t, "called")
Enter(t, frame) == stack' = [Called(t) EXCEPT ![t] = Append(@, frame)]

\* The identifier exists and the application may use it; only the object of a callback inside it.
Usable(t, id) ==
    id \in Handles /\ objects[id].mapped /\ id \notin deleting /\ (stack[t] # <<>> => Id(t) = id)

\* getPeerConnection(), getChannel(), getTrack(), ...: the reference of a call.
Lookup(t, id, kinds) ==
    /\ InApplication(t) /\ mutex = "free" /\ Usable(t, id) /\ objects[id].kind \in kinds
    /\ Enter(t, <<"call", id, "held">>)
    /\ UNCHANGED <<objects, mutex, deleting, returned, fired>>

PeerConnectionCall(t, id) == Lookup(t, id, {"pc"})
DataChannelCall(t, id) == Lookup(t, id, {"channel"})
TrackCall(t, id) == Lookup(t, id, {"track"})
WebSocketCall(t, id) == Lookup(t, id, {"ws"})
WebSocketServerCall(t, id) == Lookup(t, id, {"server"})

\* rtcSetXCallback(): set under the callback's lock.  A server has its callback from the start.
SetStored(t, kinds) ==
    /\ Running(t, "call", "held") /\ Object(t).kind \in kinds /\ CallbackFree(t, Id(t), "message")
    /\ objects' = [objects EXCEPT ![Id(t)].set = TRUE]
    /\ stack' = At(t, "done")
    /\ UNCHANGED <<mutex, deleting, returned, fired>>

SetPeerConnectionCallback(t) == SetStored(t, {"pc"})
SetChannelCallback(t) == SetStored(t, {"channel", "track", "ws"})

\* rtcSetXPacketizer(): createRtpPacketizationConfig() and emplaceRtpConfig(); rtcSetXDepacketizer()
\* leaves the maps alone.
SetPacketizer(t) ==
    /\ Running(t, "call", "held") /\ Object(t).kind = "track" /\ mutex = "free"
    /\ objects' = [objects EXCEPT ![Id(t)].media = @ \cup {"config"}]
    /\ stack' = At(t, "done")
    /\ UNCHANGED <<mutex, deleting, returned, fired>>

\* rtcChainRtcpReceivingSession(), and rtcChainRtcpSrReporter(), which throws without a configuration.
ChainHandler(t) ==
    /\ Running(t, "call", "held") /\ Object(t).kind = "track" /\ mutex = "free"
    /\ \E map \in {"session"} \cup (IF "config" \in Object(t).media THEN {"reporter"} ELSE {}) :
          objects' = [objects EXCEPT ![Id(t)].media = @ \cup {map}]
    /\ stack' = At(t, "done")
    /\ UNCHANGED <<mutex, deleting, returned, fired>>

\* The end of a call: the destructor runs here if the identifier was erased meanwhile.
DropCall(t) ==
    /\ stack[t] # <<>> /\ Frame(t)[1] = "call"
    /\ stack' = IF ~Object(t).mapped /\ Cardinality(References(Id(t))) = 1
                THEN [Popped(t) EXCEPT ![t] = Append(@, <<"destroy", Id(t), "destroy">>)]
                ELSE Popped(t)
    /\ UNCHANGED <<objects, mutex, deleting, returned, fired>>

\* rtcCreateDataChannel(): nobody knows the identifier before it returns.
CreateDataChannel(t, pc) ==
    /\ InApplication(t) /\ mutex = "free" /\ Usable(t, pc) /\ objects[pc].kind = "pc"
    /\ Len(objects) < MaxHandles
    /\ objects' = Append(objects, NewObject("channel"))
    /\ stack' = Called(t)
    /\ UNCHANGED <<mutex, deleting, returned, fired>>

-----------------------------------------------------------------------------
\* A synchronized_callback of the library is called; a client or a channel that comes in is
\* emplaced first.
Fire(t, id) ==
    /\ t \in LibThreads /\ stack[t] = <<>> /\ fired < MaxFired
    /\ objects[id].set /\ CallbackFree(t, id, "message")
    /\ stack' = Pushed(t, <<"message", id, "pointer">>)
    /\ fired' = fired + 1
    /\ UNCHANGED <<objects, mutex, deleting, returned>>

Emplace(t) ==
    /\ Running(t, "message", "pointer") /\ Object(t).kind \in {"pc", "server"} /\ mutex = "free"
    /\ Len(objects) < MaxHandles
    /\ objects' = Append(objects, NewObject(IF Object(t).kind = "pc" THEN "channel" ELSE "ws"))
    /\ UNCHANGED <<mutex, stack, deleting, returned, fired>>

GetUserPointer(t) ==
    /\ stack[t] # <<>> /\ Frame(t)[3] = "pointer"
    /\ mutex = "free"
    /\ stack' = IF Object(t).pointer THEN At(t, "user") ELSE Popped(t)
    /\ UNCHANGED <<objects, mutex, deleting, returned, fired>>

UserReturns(t) ==
    /\ stack[t] # <<>> /\ Frame(t)[3] \in {"user", "called"}
    /\ stack' = Popped(t)
    /\ UNCHANGED <<objects, mutex, deleting, returned, fired>>

\* The library closes an object on its own: the peer closed it or the connection is lost.
RemoteClose(t, id) ==
    /\ t \in LibThreads /\ stack[t] = <<>> /\ objects[id].kind # "server" /\ ~objects[id].closed
    /\ objects' = [objects EXCEPT ![id].closed = TRUE]
    /\ stack' = Pushed(t, <<"close", id, "trigger">>)
    /\ UNCHANGED <<mutex, deleting, returned, fired>>

-----------------------------------------------------------------------------
\* rtcDelete(), rtcDeleteDataChannel(), rtcDeleteTrack(), rtcDeleteWebSocket(),
\* rtcDeletePeerConnection(), rtcDeleteWebSocketServer()
Delete(t, id) ==
    /\ InApplication(t) /\ mutex = "free" /\ Usable(t, id)
    /\ objects[id].kind = "server" => stack[t] = <<>>
    /\ Overlap \/ References(id) = {}
    /\ Enter(t, <<"delete", id, "close">>)
    /\ deleting' = deleting \cup {id}
    /\ UNCHANGED <<objects, mutex, returned, fired>>

\* close(): the first to close goes on to the closed callback.  A peer connection with SCTP is left
\* to the shutdown; a WebSocket and a server have their callbacks reset in any case.
DeleteCloses(t) ==
    /\ Running(t, "delete", "close")
    /\ \/ /\ ~Object(t).closed /\ Object(t).kind # "server"
          /\ objects' = [objects EXCEPT ![Id(t)].closed = TRUE]
          /\ stack' = At(t, "trigger")
       \/ /\ Object(t).closed \/ Object(t).kind \in {"pc", "server"}
          /\ stack' = At(t, IF Object(t).kind \in {"ws", "server"} THEN "reset" ELSE "erase")
          /\ UNCHANGED objects
    /\ UNCHANGED <<mutex, deleting, returned, fired>>

\* triggerClosed(); a peer connection moves its callback out and calls the copy.
Trigger(t) ==
    /\ stack[t] # <<>> /\ Frame(t)[3] = "trigger"
    /\ CallbackFree(t, Id(t), "closed")
    /\ LET next == IF Frame(t)[1] = "close" /\ Object(t).kind = "ws" THEN "called" ELSE "reset"
           kind == IF Object(t).kind = "pc" THEN "stolen" ELSE "closed"
       IN  stack' = IF Object(t).set
                    THEN [At(t, next) EXCEPT ![t] = Append(@, <<kind, Id(t), "pointer">>)]
                    ELSE At(t, next)
    /\ UNCHANGED <<objects, mutex, deleting, returned, fired>>

\* Mutant: the callbacks that run are not waited for.
ResetCallbacksAtOnce(t) ==
    /\ stack[t] # <<>> /\ Frame(t)[3] = "reset"
    /\ objects' = [objects EXCEPT ![Id(t)].set = FALSE]
    /\ stack' = IF Frame(t)[1] = "delete" /\ Object(t).mapped THEN At(t, "erase") ELSE Popped(t)
    /\ returned' = IF Frame(t)[1] = "delete" /\ ~Object(t).mapped THEN returned \cup {Id(t)} ELSE returned
    /\ UNCHANGED <<mutex, deleting, fired>>


\* resetCallbacks(), which waits for the callbacks of other threads.
ResetCallbacks(t) ==
    /\ stack[t] # <<>> /\ Frame(t)[3] = "reset"
    /\ CallbacksFree(t, Id(t))
    /\ objects' = [objects EXCEPT ![Id(t)].set = FALSE]
    /\ stack' = IF Frame(t)[1] = "delete" /\ Object(t).mapped THEN At(t, "erase") ELSE Popped(t)
    /\ returned' = IF Frame(t)[1] = "delete" /\ ~Object(t).mapped THEN returned \cup {Id(t)} ELSE returned
    /\ UNCHANGED <<mutex, deleting, fired>>

\* eraseChannel(), eraseTrack(), erasePeerConnection(), ...
Erase(t) ==
    /\ Running(t, "delete", "erase") /\ mutex = "free"
    /\ objects' = [objects EXCEPT ![Id(t)].mapped = FALSE, ![Id(t)].pointer = FALSE, ![Id(t)].media = {}]
    /\ stack' = At(t, "drop")
    /\ UNCHANGED <<mutex, deleting, returned, fired>>

DropDeleted(t) ==
    /\ Running(t, "delete", "drop")
    /\ LET last == Cardinality(References(Id(t))) = 1
       IN  /\ stack' = IF last THEN At(t, "destroy") ELSE Popped(t)
           /\ returned' = IF last THEN returned ELSE returned \cup {Id(t)}
    /\ UNCHANGED <<objects, mutex, deleting, fired>>

\* The destructors: ~Channel() resets the callbacks, ~WebSocket() closes first, ~PeerConnection()
\* closes and resets unless it is closed, ~WebSocketServer() stops.
Destroy(t) ==
    /\ stack[t] # <<>> /\ Frame(t)[3] = "destroy"
    /\ LET closes == Object(t).kind \in {"pc", "ws"} /\ ~Object(t).closed
           done == Object(t).kind = "pc" /\ Object(t).closed
       IN  /\ objects' = [objects EXCEPT ![Id(t)].closed = (@ \/ closes)]
           /\ stack' = IF closes THEN At(t, "trigger") ELSE IF done THEN Popped(t) ELSE At(t, "reset")
           /\ returned' = IF done /\ Frame(t)[1] = "delete" THEN returned \cup {Id(t)} ELSE returned
    /\ UNCHANGED <<mutex, deleting, fired>>

\* rtcCleanup(): eraseAll() destroys what is left with the mutex held.
RtcCleanup(t) ==
    /\ t \in AppThreads /\ stack[t] = <<>> /\ mutex = "free" /\ 0 \notin deleting
    /\ CleanupInUse \/ \A id \in Handles : objects[id].mapped => ~objects[id].set
    /\ mutex' = t
    /\ deleting' = deleting \cup {0}
    /\ stack' = Pushed(t, <<"cleanup", 0, "clear">>)
    /\ UNCHANGED <<objects, returned, fired>>

EraseAll(t) ==
    /\ Running(t, "cleanup", "clear")
    /\ LET left == {id \in Handles : objects[id].mapped}
       IN  \/ \E id \in left :
                /\ objects' = [objects EXCEPT ![id].mapped = FALSE]
                /\ stack' = IF References(id) = {} THEN Pushed(t, <<"destroy", id, "destroy">>) ELSE stack
                /\ UNCHANGED <<mutex, returned>>
           \/ /\ left = {}
              /\ objects' = [id \in Handles |-> [objects[id] EXCEPT !.pointer = FALSE, !.media = {}]]
              /\ mutex' = "free"
              /\ stack' = Popped(t)
              /\ returned' = returned \cup {0}
    /\ UNCHANGED <<deleting, fired>>

Step(t) ==
    \/ SetPeerConnectionCallback(t) \/ SetChannelCallback(t) \/ SetPacketizer(t) \/ ChainHandler(t)
    \/ DropCall(t) \/ GetUserPointer(t) \/ UserReturns(t) \/ DeleteCloses(t)
    \/ Trigger(t) \/ ResetCallbacks(t) \/ Erase(t) \/ DropDeleted(t) \/ Destroy(t) \/ EraseAll(t)

CApiNext ==
    \/ \E t \in Threads : Step(t) \/ Emplace(t) \/ RtcCleanup(t)
    \/ \E t \in Threads, id \in Handles :
          \/ PeerConnectionCall(t, id) \/ DataChannelCall(t, id) \/ TrackCall(t, id)
          \/ WebSocketCall(t, id) \/ WebSocketServerCall(t, id)
          \/ CreateDataChannel(t, id) \/ Delete(t, id) \/ Fire(t, id) \/ RemoteClose(t, id)

\* Threads go on, and the application returns from its callbacks.
CApiFairness == \A t \in Threads : WF_capiVars(Step(t))

CApiSpec == CApiInit /\ [][CApiNext]_capiVars /\ CApiFairness

-----------------------------------------------------------------------------
\* The callbacks of an identifier that run in the application, other than the ones in which it
\* was deleted.
InUserCode(id) ==
    {t \in Threads : \E i \in 1..Len(stack[t]) :
        stack[t][i][1] \in {"message", "closed", "stolen"} /\ stack[t][i][2] = id /\ stack[t][i][3] = "user"}

(***************************************************************************)
(* DOC.md:571, of rtcDelete(): "no other callback will be called for `id`  *)
(* after it returns", here for channels, WebSockets and servers.           *)
(***************************************************************************)
QuietOnceDeleted ==
    \A id \in returned \ {0} : objects[id].kind # "pc" => InUserCode(id) = {}

\* A deletion returns, whatever callbacks run meanwhile and whatever they call.
DeleteReturns == \A id \in 1..MaxHandles : id \in deleting ~> id \in returned

(***************************************************************************)
(* DOC.md:53, of rtcCleanup(): "If Peer Connections, Data Channels,        *)
(* Tracks, or WebSockets created through this API still exist, they will   *)
(* be destroyed."                                                          *)
(***************************************************************************)
CleanupReturns == 0 \in deleting ~> 0 \in returned
=============================================================================
