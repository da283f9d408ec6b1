SPECIFICATION Spec
CONSTANTS
    Threads = {net, transport}
    Allocs <- MCAllocs
    NULL = NULL
    net = net
    transport = transport
    b1 = b1
    b2 = b2
    b3 = b3
    r1 = r1
    RomPbufs = {r1}
    PoolPbufs = {b1, b2}
    MEM_SIZE = 36
    MEM_ALIGNMENT = 2
    SIZEOF_STRUCT_MEM = 2
    MIN_SIZE = 1
    PbufHdr = 2
    BufSize = 4
    Offsets = {2}
    Sizes <- MCSizes
    Cuts = {1}
    Passes <- MCPasses
    Headers = {2}
    Reclaimers = 1
    ReclaimSize = 2
    MaxRef = 2
    MaxLive = 2
    MaxChains = 2
    MaxShaped = 2
CHECK_DEADLOCK FALSE
INVARIANTS MemorySane OnePlace LengthsAddUp
