--------------------------- MODULE MCSctpTransport ---------------------------
(***************************************************************************)
(* The send queue, the wait for the local INIT and the data channels on    *)
(* top: a behaviour runs one of the three, the others rest.                *)
(***************************************************************************)
EXTENDS SctpTransport, SctpHandshake, DataChannels

CONSTANTS s1

MCOneStream == {s1}
MCSizes == {1}

\* Both peers create channels when the calls do not overlap; one does when they do.
MCCreators == [o \in {{}, {"create", "close"}} |-> IF o = {} THEN Peers ELSE {"a"}]

VARIABLE active

allVars == <<vars, handshakeVars, channelsVars, active>>

MCInitial ==
    /\ Init /\ HandshakeInit
    /\ \/ active \in {"transport", "handshake"} /\ ChannelsInitWith({})
       \/ active = "channels" /\ ChannelsInit

MCNext ==
    /\ UNCHANGED active
    /\ \/ active = "transport" /\ Next /\ UNCHANGED <<handshakeVars, channelsVars>>
       \/ active = "handshake" /\ HandshakeNext /\ UNCHANGED <<vars, channelsVars>>
       \/ active = "channels" /\ ChannelsNext /\ UNCHANGED <<vars, handshakeVars>>

MCSpec == MCInitial /\ [][MCNext]_allVars
=============================================================================
