------------------------------- MODULE MCPbuf -------------------------------
\* Pbufs for TLC: two threads, a heap of a few small blocks, a pool of two or
\* three buffers and one ROM pbuf.
EXTENDS Pbuf

CONSTANTS net, transport, b1, b2, b3, r1
MCSizes == [RAM |-> {5}, ROM |-> {2}, POOL |-> {5}]
MCAllocs == {<<net, "RAM">>, <<net, "POOL">>, <<transport, "RAM">>, <<transport, "ROM">>}
MCPasses == {<<net, transport>>}
=============================================================================
