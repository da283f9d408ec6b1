---------------------------- MODULE MCTcpReceive ----------------------------
(* A short stream, cut into segments in several ways.                      *)
EXTENDS TcpReceive

Seg(first, n, fin) == [seq |-> first, len |-> n, pos |-> first, fin |-> fin]

\* A regular peer that adds data to the segments it repeats.
RegularSent ==
  {Seg(1, 1, FALSE), Seg(1, 2, FALSE), Seg(3, 1, FALSE), Seg(4, 1, FALSE), Seg(4, 2, FALSE),
   Seg(4, 3, FALSE), Seg(7, 1, FALSE), Seg(8, 0, TRUE)}

\* A regular peer that does not close.
OpenSent == {Seg(1, 1, FALSE), Seg(2, 1, FALSE)}

\* A regular peer that sends its data and then the FIN.
FinSent == {Seg(1, 1, FALSE), Seg(2, 0, TRUE)}

\* A peer that cuts its stream anew whenever it repeats a part of it.
AnySent ==
  {Seg(i, n, FALSE) : i \in 1 .. Bytes, n \in 1 .. Bytes} \cup
  {Seg(i, Bytes + 1 - i, TRUE) : i \in 1 .. Bytes + 1}

AnyConforming == {s \in AnySent : Conforming(s)}
=============================================================================
