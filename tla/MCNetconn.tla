----------------------------- MODULE MCNetconn -----------------------------
(* Netconn with a server and one worker on a small pool.                  *)
EXTENDS Netconn

MCPeers == {<<1, 1>>}

\* Two connections that come one after the other or together; a repeated end;
\* or one mishap at any point.
MCBudgets == { [mishaps |-> 0, arrivals |-> 2, repeats |-> 0],
               [mishaps |-> 0, arrivals |-> 1, repeats |-> 1],
               [mishaps |-> 1, arrivals |-> 1, repeats |-> 0] }
=============================================================================
