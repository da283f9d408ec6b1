----------------------------- MODULE MCTcpConn -----------------------------
(* A client with two control blocks and a server with one.                 *)
EXTENDS TcpConn

CONSTANTS a, b, p1, p2

HostSet == {a, b}

ClientSet == {a}

Pools == [h \in HostSet |-> IF h = a THEN {p1, p2} ELSE {p1}]

Bounds == [h \in HostSet |-> IF h = a THEN 2 * Ticks ELSE 3 * Ticks]
=============================================================================
