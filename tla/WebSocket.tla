----------------------------- MODULE WebSocket ------------------------------
(***************************************************************************)
(* The life of a WebSocket (src/src/impl/websocket.cpp, websocketserver.cpp*)
(* src/src/websocket.cpp): transports are stacked as each connects, by the *)
(* callbacks of the one below, while other threads close it.  The threads  *)
(* are the application's (or the server's), the poll thread (TCP, proxy),  *)
(* a pool thread (TLS) and the timers.  Every access to the atomic state   *)
(* and to the atomic transport pointers is a step.                         *)
(***************************************************************************)
EXTENDS Naturals, Sequences, SequencesExt

CONSTANTS Configurations   \* timeout: is there a connectionTimeout

ASSUME WebAssumption ==
    Configurations \subseteq [proxy : BOOLEAN, secure : BOOLEAN, accepted : BOOLEAN, timeout : BOOLEAN]

VARIABLES config, webState,
          held,     \* the transports the pointers hold
          st,         \* states of the transports
          callbacks,  \* transports whose state callback is set
          lock,       \* the thread inside the state callback of a transport
          pc, stack,  \* what each thread is about to do
          on,         \* the transport whose callback a thread runs
          mine,       \* the transports a thread took in closeTransports()
          closeSent, closeTimer, connectTimer,
          given, torn, \* transports given to the tear-down processor, and destroyed by it
          life        \* "new", "open" (opened once), "asked" (to close, once), "deleting", "deleted"

webVars == <<config, webState, held, st, callbacks, lock, pc, stack, on, mine, closeSent, closeTimer,
             connectTimer, given, torn, life>>

WebLayers == {"tcp", "proxy", "tls", "ws"}
WebThreads == {"user", "poll", "pool", "timer"}
Chain == <<"tcp">> \o (IF config.proxy THEN <<"proxy">> ELSE <<>>)
         \o (IF config.secure THEN <<"tls">> ELSE <<>>) \o <<"ws">>
Position(x) == CHOOSE i \in DOMAIN Chain : Chain[i] = x
Above(x) == Chain[Position(x) + 1]
Below(x) == Chain[Position(x) - 1]
ThreadOf(x) == IF x = "tls" \/ (x = "ws" /\ config.secure) THEN "pool" ELSE "poll"

WebInitWith(c) ==
    /\ config = c /\ webState = "Closed" /\ held = {} /\ st = [x \in WebLayers |-> "none"]
    /\ callbacks = {} /\ lock = [x \in WebLayers |-> "none"]
    /\ pc = [t \in WebThreads |-> "idle"] /\ stack = [t \in WebThreads |-> <<>>]
    /\ on = [t \in WebThreads |-> <<>>] /\ mine = [t \in WebThreads |-> {}]
    /\ closeSent = FALSE /\ closeTimer = FALSE /\ connectTimer = FALSE
    /\ given = {} /\ torn = {} /\ life = "new"

WebInit == \E c \in Configurations : WebInitWith(c)

Goto(t, l) == pc' = [pc EXCEPT ![t] = l]
Call(t, l, ret) == Goto(t, l) /\ stack' = [stack EXCEPT ![t] = <<ret>> \o @]
Return(t) == Goto(t, Head(stack[t])) /\ stack' = [stack EXCEPT ![t] = Tail(@)]
webTransports == <<held, st, callbacks, lock, on, mine>>
timers == <<closeSent, closeTimer, connectTimer>>
ends == <<given, torn, life>>

-----------------------------------------------------------------------------
\* open(), setTcpTransport(), emplaceTransport().
Open ==
    /\ life = "new" /\ pc["user"] = "idle" /\ ~config.accepted
    /\ webState' = "Connecting" /\ held' = {"tcp"} /\ st' = [st EXCEPT !["tcp"] = "Connecting"]
    /\ callbacks' = {"tcp"} /\ connectTimer' = config.timeout /\ life' = "open"
    /\ Goto("user", "placed")
    /\ UNCHANGED <<config, mine, lock, stack, on, closeSent, closeTimer, given, torn>>

\* runLoop() of the server: start() connects at once, in the server's thread.
Accept ==
    /\ life = "new" /\ pc["user"] = "idle" /\ config.accepted
    /\ webState' = "Connecting" /\ held' = {"tcp"} /\ st' = [st EXCEPT !["tcp"] = "Connected"]
    /\ callbacks' = {"tcp"} /\ connectTimer' = config.timeout /\ life' = "open"
    /\ lock' = [lock EXCEPT !["tcp"] = "user"] /\ on' = [on EXCEPT !["user"] = <<"tcp">>]
    /\ pc' = [pc EXCEPT !["user"] = "init"] /\ stack' = [stack EXCEPT !["user"] = <<"done", "placed">>]
    /\ UNCHANGED <<config, mine, closeSent, closeTimer, given, torn>>

\* emplaceTransport(), its last lines.
Placed ==
    /\ pc["user"] = "placed"
    /\ held' = IF webState = "Closed" THEN held \ {"tcp"} ELSE held
    /\ Goto("user", "idle")
    /\ UNCHANGED <<config, mine, webState, st, callbacks, lock, on, stack, timers, ends>>

-----------------------------------------------------------------------------
\* A change of a transport's state, in thread t, and its callback; after it t goes on with then.
Change(t, x, new, then) ==
    /\ st' = [st EXCEPT ![x] = new]
    /\ IF x \notin callbacks \/ st[x] = new
       THEN /\ Goto(t, Head(then)) /\ stack' = [stack EXCEPT ![t] = Tail(then)]
            /\ UNCHANGED <<lock, on>>
       ELSE /\ lock[x] \in {"none", t}
            /\ lock' = [lock EXCEPT ![x] = t] /\ on' = [on EXCEPT ![t] = <<x>> \o @]
            /\ stack' = [stack EXCEPT ![t] = <<"done">> \o then]
            /\ Goto(t, CASE new = "Connected" -> (IF x = "ws" THEN "connected" ELSE "init")
                         [] new = "Failed" -> "remote close"
                         [] OTHER -> IF x = "ws" THEN "remote close" ELSE "if connecting")

\* close(), remoteClose() and closeTransports(), by thread t.
CloseLoad(t) ==
    /\ pc[t] = "close"
    /\ IF webState \in {"Connecting", "Open"} THEN Goto(t, "closing") /\ UNCHANGED stack ELSE Return(t)
    /\ UNCHANGED <<config, webState, webTransports, timers, ends>>

CloseExchange(t) ==
    /\ pc[t] = "closing"
    /\ webState' = "Closing" /\ Goto(t, "stop ws")
    /\ UNCHANGED <<config, webTransports, stack, timers, ends>>

\* WsTransport::close(): a close frame, when the transport is connected; if it cannot be sent, the
\* transport is disconnected, and its callback runs in this thread.
CloseStop(t) ==
    /\ pc[t] = "stop ws"
    /\ \/ /\ "ws" \notin held
          /\ Goto(t, "remote close") /\ UNCHANGED <<st, lock, on, stack, closeSent, closeTimer>>
       \/ /\ "ws" \in held /\ (st["ws"] # "Connected" \/ closeSent)
          /\ Return(t) /\ UNCHANGED <<st, lock, on, closeSent, closeTimer>>
       \/ /\ "ws" \in held /\ st["ws"] = "Connected" /\ ~closeSent
          /\ closeSent' = TRUE
          /\ IF st[Below("ws")] = "Connected"
             THEN closeTimer' = TRUE /\ Return(t) /\ UNCHANGED <<st, lock, on>>
             ELSE Change(t, "ws", "Disconnected", stack[t]) /\ UNCHANGED closeTimer
    /\ UNCHANGED <<config, webState, held, callbacks, mine, connectTimer, ends>>

\* close(), then closeTransports() unless the state is Closed: reading that and exchanging it is one
\* step, for nothing happens in between.
RemoteClose(t) ==
    /\ pc[t] = "remote close"
    /\ IF webState \in {"Connecting", "Open"} THEN Call(t, "closing", "close transports")
       ELSE Goto(t, "close transports") /\ UNCHANGED stack
    /\ UNCHANGED <<config, webState, webTransports, timers, ends>>

CloseWebTransports(t) ==
    /\ pc[t] = "close transports"
    /\ webState' = "Closed"
    /\ IF webState = "Closed" THEN Return(t) ELSE Goto(t, "take") /\ UNCHANGED stack
    /\ UNCHANGED <<config, webTransports, timers, ends>>

\* The pointers are exchanged; then the callbacks are reset, which waits for the ones that run in
\* other threads, and the transports go to the tear-down processor.
TakeTransports(t) ==
    /\ pc[t] = "take"
    /\ mine' = [mine EXCEPT ![t] = held \ {"proxy"}]
    /\ held' = held \cap {"proxy"}
    /\ Goto(t, "reset")
    /\ UNCHANGED <<config, webState, st, callbacks, lock, on, stack, timers, ends>>

Reset(t) ==
    /\ pc[t] = "reset"
    /\ \A x \in mine[t] : lock[x] \in {"none", t}
    /\ callbacks' = callbacks \ mine[t]
    /\ given' = given \cup mine[t]
    /\ mine' = [mine EXCEPT ![t] = {}]
    /\ Return(t)
    /\ UNCHANGED <<config, webState, held, st, lock, on, timers, torn, life>>

-----------------------------------------------------------------------------
\* The lower connection is there and the peer answers, or not.
LayerEvent(x, new) ==
    LET t == ThreadOf(x)
    IN  /\ x \in DOMAIN st /\ st[x] = "Connecting" /\ pc[t] = "idle" /\ x \notin torn
        /\ x # "tcp" => st[Below(x)] = "Connected"
        /\ new \in {"Connected", "Failed"}
        /\ Change(t, x, new, <<"idle">>)
        /\ UNCHANGED <<config, mine, webState, held, callbacks, timers, ends>>

\* A connection that stood ends: by the network, below, or by the peer's close frame.
LayerEnds(x) ==
    LET t == ThreadOf(x)
    IN  /\ st[x] \in {"Connecting", "Connected"} /\ pc[t] = "idle" /\ x \notin torn
        /\ IF x = "tcp" THEN st[x] = "Connected"
           ELSE IF x = "ws" /\ st[x] = "Connected" THEN TRUE
           ELSE st[Below(x)] \notin {"Connecting", "Connected"}
        /\ Change(t, x, IF st[x] = "Connected" THEN "Disconnected" ELSE "Failed", <<"idle">>)
        /\ UNCHANGED <<config, mine, webState, held, callbacks, timers, ends>>

\* recv(nullptr) of the WebSocket transport is remoteClose() too, once the state callback is done.
Done(t) ==
    /\ pc[t] = "done"
    /\ LET x == Head(on[t])
       IN  /\ lock' = [lock EXCEPT ![x] = IF x \in Range(Tail(on[t])) THEN t ELSE "none"]
           /\ IF x = "ws" /\ st["ws"] = "Disconnected" /\ "ws" \in callbacks /\ t \notin {"user", "timer"}
              THEN Goto(t, "remote close") /\ UNCHANGED stack
              ELSE Return(t)
    /\ on' = [on EXCEPT ![t] = Tail(@)]
    /\ UNCHANGED <<config, mine, webState, held, st, callbacks, timers, ends>>

IfConnecting(t) ==
    /\ pc[t] = "if connecting"
    /\ IF webState = "Connecting" THEN Goto(t, "remote close") /\ UNCHANGED stack ELSE Return(t)
    /\ UNCHANGED <<config, webState, webTransports, timers, ends>>

\* initProxyTransport(), initTlsTransport(), initWsTransport(): without the transport below, or when
\* start() cannot send, they fail and close.  Then the pointer is stored, the transport started.
InitNext(t) ==
    /\ pc[t] = "init"
    /\ IF Head(on[t]) \in held
       THEN /\ held' = held \cup {Above(Head(on[t]))} /\ callbacks' = callbacks \cup {Above(Head(on[t]))}
            /\ st' = [st EXCEPT ![Above(Head(on[t]))] = "Connecting"]
            /\ Goto(t, "start")
       ELSE Goto(t, "remote close") /\ UNCHANGED <<held, callbacks, st>>
    /\ UNCHANGED <<config, mine, webState, lock, on, stack, timers, ends>>


\* start() has sent its request; emplaceTransport() looks at the state again.
Started(t) ==
    /\ pc[t] = "start"
    /\ IF st[Head(on[t])] # "Connected"
       THEN held' = held \ {Above(Head(on[t]))} /\ Goto(t, "remote close") /\ UNCHANGED stack
       ELSE /\ held' = IF webState = "Closed" THEN held \ {Above(Head(on[t]))} ELSE held
            /\ Return(t)
    /\ UNCHANGED <<config, mine, webState, st, callbacks, lock, on, timers, ends>>

\* The callback of the WebSocket transport: the state is read, then exchanged.
ConnectedLoad(t) ==
    /\ pc[t] = "connected"
    /\ IF webState = "Connecting" THEN Goto(t, "opened") /\ UNCHANGED stack ELSE Return(t)
    /\ UNCHANGED <<config, webState, webTransports, timers, ends>>

ConnectedExchange(t) ==
    /\ pc[t] = "opened"
    /\ webState' = "Open" /\ Return(t)
    /\ UNCHANGED <<config, webTransports, timers, ends>>

-----------------------------------------------------------------------------
\* The timers: scheduleConnectionTimeout() and the one of WsTransport::close().
ConnectionTimeout ==
    /\ connectTimer /\ pc["timer"] = "idle" /\ connectTimer' = FALSE
    /\ IF webState = "Connecting" /\ life # "deleted"
       THEN Goto("timer", "remote close") /\ stack' = [stack EXCEPT !["timer"] = <<"idle">>]
       ELSE UNCHANGED <<pc, stack>>
    /\ UNCHANGED <<config, webState, webTransports, closeSent, closeTimer, ends>>

CloseTimeout ==
    /\ closeTimer /\ pc["timer"] = "idle" /\ closeTimer' = FALSE
    /\ IF "ws" \in torn THEN UNCHANGED <<st, lock, pc, stack, on>> ELSE Change("timer", "ws", "Disconnected", <<"idle">>)
    /\ UNCHANGED <<config, mine, webState, held, callbacks, closeSent, connectTimer, ends>>

\* The application: close(), forceClose(), the destructor.
Request(l) ==
    /\ life = "open" /\ pc["user"] = "idle" /\ webState # "Closed"
    /\ l \in {"close", "remote close"}
    /\ life' = "asked"
    /\ pc' = [pc EXCEPT !["user"] = l] /\ stack' = [stack EXCEPT !["user"] = <<"idle">>]
    /\ UNCHANGED <<config, webState, webTransports, timers, given, torn>>

Delete ==
    /\ life \in {"open", "asked"} /\ pc["user"] = "idle"
    /\ life' = "deleting"
    /\ pc' = [pc EXCEPT !["user"] = "remote close"] /\ stack' = [stack EXCEPT !["user"] = <<"idle">>]
    /\ UNCHANGED <<config, webState, webTransports, timers, given, torn>>

Deleted ==
    /\ life = "deleting" /\ pc["user"] = "idle"
    /\ life' = "deleted"
    /\ UNCHANGED <<config, webState, webTransports, pc, stack, timers, given, torn>>

\* The task of the tear-down processor: it stops the upper transport, then destroys all.
WebTearDown ==
    /\ given # torn
    /\ torn' = given
    /\ LET send == "ws" \in given \ torn /\ st["ws"] = "Connected" /\ ~closeSent
       IN  closeSent' = (closeSent \/ send)
    /\ UNCHANGED <<config, webState, webTransports, pc, stack, closeTimer, connectTimer, given, life>>

ThreadRuns(t) ==
    \/ CloseLoad(t) \/ CloseExchange(t) \/ CloseStop(t) \/ RemoteClose(t) \/ CloseWebTransports(t)
    \/ TakeTransports(t) \/ Reset(t) \/ Done(t) \/ IfConnecting(t) \/ InitNext(t) \/ Started(t)
    \/ ConnectedLoad(t) \/ ConnectedExchange(t)

WebNext ==
    \/ Open \/ Accept \/ Placed \/ Delete \/ Deleted \/ WebTearDown
    \/ Request("close") \/ Request("remote close")
    \/ ConnectionTimeout \/ CloseTimeout
    \/ \E t \in WebThreads : ThreadRuns(t)
    \/ \E i \in DOMAIN Chain : LayerEnds(Chain[i]) \/ \E new \in {"Connected", "Failed"} : LayerEvent(Chain[i], new)

\* The end of a transport is told to the ones above.
Propagates(x) == x \in Range(Chain) /\ x # "tcp" /\ st[Below(x)] \notin {"Connecting", "Connected"} /\ LayerEnds(x)

WebSpec == WebInit /\ [][WebNext]_webVars

\* What goes on by itself: threads run, timers fire and an end is passed on; a peer need neither
\* answer nor close.
WebInternal ==
    \/ \E x \in WebLayers : Propagates(x)
    \/ \E t \in WebThreads : ThreadRuns(t)
    \/ Placed \/ Deleted \/ WebTearDown \/ ConnectionTimeout \/ CloseTimeout

-----------------------------------------------------------------------------
AllIdle == \A t \in WebThreads : pc[t] = "idle"
Emptied == held \subseteq {"proxy"}

\* Every internal step uses up a call, a timer or a transport, so that a WebSocket comes to rest when
\* the application and the network do: what holds whenever it is at rest holds in the end.
WebAtRest == ~ENABLED WebInternal

Settled ==
    /\ AllIdle
    /\ webState = "Closing" /\ closeSent => Emptied
    /\ life = "deleted" => Emptied /\ torn = given
    /\ life # "deleting"

=============================================================================
