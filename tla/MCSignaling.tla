---------------------------- MODULE MCSignaling -----------------------------
(***************************************************************************)
(* The negotiation of two peers and the descriptions they exchange: a      *)
(* behaviour runs one of the two, the other rests.                         *)
(***************************************************************************)
EXTENDS Signaling, Sdp

Plan(c, t, d, k) == [channel |-> c, track |-> t, drop |-> d, keep |-> k]
MCPlans == {Plan({"a"}, {"b"}, {}, FALSE), Plan({}, {"a"}, {"a"}, FALSE)}
MCCandidates == [a |-> {1}, b |-> {2}]
MCUnresolved == {2}

HostCandidate(f, node, address, mid) ==
    [foundation |-> f, priority |-> f, node |-> node, service |-> 1, type |-> "host",
     address |-> address, mid |-> mid]

MCSsrcs == {<<1>>, <<1, 2>>, <<3>>}
MCSdpCandidates == {HostCandidate(1, "h.local", "", ""), HostCandidate(2, "h.local", "10.0.0.1", "d")}

VARIABLE active

allVars == <<sigVars, sdpVars, active>>

MCInitial ==
    \/ active = "signaling" /\ SigInit /\ SdpInitWith("actpass", "VP8")
    \/ active = "sdp" /\ SigInitWith(Plan({"a"}, {"b"}, {}, FALSE)) /\ SdpInit

MCNext ==
    /\ UNCHANGED active
    /\ \/ active = "signaling" /\ SigNext /\ UNCHANGED sdpVars
       \/ active = "sdp" /\ SdpNext /\ UNCHANGED sigVars

\* The fairness of Signaling.
MCSpec ==
    /\ MCInitial /\ [][MCNext]_allVars
    /\ \A p \in Peers :
          /\ \A t \in Workers : WF_sigVars(active = "signaling" /\ Works(p, t))
          /\ WF_sigVars(active = "signaling" /\ Environment(p))
          /\ WF_sigVars(active = "signaling" /\ LooksUp(p))
=============================================================================
