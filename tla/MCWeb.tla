------------------------------- MODULE MCWeb --------------------------------
(***************************************************************************)
(* Below WebSockets: the poll service, the TCP and the TLS transport.  A   *)
(* behaviour runs one of the three, the others rest.                       *)
(***************************************************************************)
EXTENDS PollService, TcpTransport, TlsTransport

VARIABLE active

allVars == <<pollVars, tcpVars, tlsVars, active>>

MCInitial ==
    /\ PollInit /\ TcpInit
    /\ \/ active \in {"poll", "tcp"} /\ TlsInitWith("openssl")
       \/ active = "tls" /\ TlsInit

MCNext ==
    /\ UNCHANGED active
    /\ \/ active = "poll" /\ PollNext /\ UNCHANGED <<tcpVars, tlsVars>>
       \/ active = "tcp" /\ TcpNext /\ UNCHANGED <<pollVars, tlsVars>>
       \/ active = "tls" /\ TlsNext /\ UNCHANGED <<pollVars, tcpVars>>

\* The fairness of the three.
MCSpec ==
    /\ MCInitial /\ [][MCNext]_allVars
    /\ WF_pollVars(active = "poll" /\ PollThread)
    /\ WF_tcpVars(active = "tcp" /\ ThreadPoolRuns) /\ WF_tcpVars(active = "tcp" /\ PollThreadRuns)
    /\ WF_tcpVars(active = "tcp" /\ PeerReads)
    /\ SF_tcpVars(active = "tcp" /\ Writable) /\ SF_tcpVars(active = "tcp" /\ TimesOut)
    /\ WF_tlsVars(active = "tls" /\ DoRecv)
=============================================================================
