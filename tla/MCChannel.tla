------------------------------ MODULE MCChannel ------------------------------
EXTENDS Channel

MCKinds == {"negotiated", "outgoing", "incoming"}
MCClosers == {"sctp", "app"}
=============================================================================
