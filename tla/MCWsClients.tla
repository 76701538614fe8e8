---------------------------- MODULE MCWsClients ----------------------------
(* WsClients with nothing to send, for TLC.                                 *)
EXTENDS WsClients
=============================================================================
