-------------------------- MODULE MCPeerConnection --------------------------
(***************************************************************************)
(* The life of a peer connection and the ICE agent under it, the life of a *)
(* WebSocket and the WebSocket transport under it: a behaviour runs one of *)
(* the four, the others rest.                                              *)
(***************************************************************************)
EXTENDS PeerConnection, IceTransport, WebSocket, WsTransport

MCScenarios == {{"renegotiation"}, {"start", "network"}}

Server(type, relay, resolves) == [type |-> type, relay |-> relay, named |-> TRUE, resolves |-> resolves]
MCServerLists ==
    {<<>>,
     <<Server("Turn", "udp", TRUE), Server("Stun", "udp", FALSE), Server("Turn", "tcp", TRUE)>>,
     <<Server("Turn", "udp", TRUE), Server("Turn", "udp", FALSE), Server("Stun", "udp", TRUE)>>}

Kind(p, s, a) == [proxy |-> p, secure |-> s, accepted |-> a, timeout |-> ~s]
MCConfigurations == {Kind(TRUE, TRUE, FALSE), Kind(FALSE, FALSE, TRUE)}

VARIABLE active

allVars == <<vars, iceVars, webVars, wsVars, active>>

\* The resting states.
ConnectionRests == Init /\ scenario = {"renegotiation"}
IceRests == IceInitWith("juice", <<>>)
WebRests == WebInitWith(Kind(TRUE, TRUE, FALSE))
WsRests == WsInitWith(TRUE)

MCInitial ==
    \/ active = "connection" /\ Init /\ IceRests /\ WebRests /\ WsRests
    \/ active = "agent" /\ ConnectionRests /\ IceInit /\ WebRests /\ WsRests
    \/ active = "web" /\ ConnectionRests /\ IceRests /\ WebInit /\ WsRests
    \/ active = "ws" /\ ConnectionRests /\ IceRests /\ WebRests /\ WsInit

MCNext ==
    /\ UNCHANGED active
    /\ \/ active = "connection" /\ Next /\ UNCHANGED <<iceVars, webVars, wsVars>>
       \/ active = "agent" /\ IceNext /\ UNCHANGED <<vars, webVars, wsVars>>
       \/ active = "web" /\ WebNext /\ UNCHANGED <<vars, iceVars, wsVars>>
       \/ active = "ws" /\ WsNext /\ UNCHANGED <<vars, iceVars, webVars>>

MCSpec == MCInitial /\ [][MCNext]_allVars
=============================================================================
