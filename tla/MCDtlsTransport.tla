--------------------------- MODULE MCDtlsTransport ---------------------------
(***************************************************************************)
(* Instances of DtlsTransport for TLC: the builds whose handshake is       *)
(* retransmitted, and the one that does not retransmit.                    *)
(***************************************************************************)
EXTENDS DtlsTransport

MCRetransmitting == {<<"openssl", "client">>, <<"gnutls", "client">>, <<"gnutls", "server">>}
MCOpenSSLServer == {<<"openssl", "server">>}

=============================================================================
