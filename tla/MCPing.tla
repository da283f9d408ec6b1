------------------------------- MODULE MCPing -------------------------------
(* The ping handler with a few clients, requests and clock values.         *)
EXTENDS Ping
=============================================================================
