------------------------------- MODULE MCRouter ------------------------------
(* The router with two interfaces, two workers and two clients.            *)
EXTENDS Router

CONSTANTS c1, c2

Says(cmd) == <<cmd, NL>>
Long == <<"x", "x", NL>>
TooLong == <<"x", "x", "x", "x", NL>>

\* Scripts for the two clients, with no frames, with a client that does not
\* read, and with a ping and a shutdown; and frames that arrive while one client
\* may shut the router down.
Script(lines1, max1, lines2, max2) ==
  c1 :> [lines |-> lines1, max |-> max1] @@ c2 :> [lines |-> lines2, max |-> max2]

Scene(packets, deaf, script) == [packets |-> packets, deaf |-> deaf, script |-> script]

MCScenarios ==
  { Scene(0, {}, Script({Says("show"), Says("ping")}, 2, {Says("set")}, 1)),
    Scene(0, {}, Script({Says("set")}, 1, {Says("set"), Says("unset")}, 2)),
    Scene(0, {}, Script({Says("flood"), Long, TooLong}, 1, {Says("exit")}, 1)),
    Scene(0, {c2}, Script({Says("show"), Says("ping")}, 1, {Says("ping")}, 1)),
    Scene(0, {}, Script({Says("ping")}, 1, {Says("shutdown")}, 1)),
    Scene(2, {}, c1 :> [lines |-> {Says("shutdown")}, max |-> 1]) }

\* c1 is a telnet client, which sends its options before the user types, and
\* waits for its prompts; c2 sends nothing by itself and does not wait.
MCHellos == c1 :> {<<"x">>} @@ c2 :> {<<>>}
MCFile == <<"eth0", "eth1">>
=============================================================================
