-------------------------------- MODULE Pbuf --------------------------------
(***************************************************************************)
(* Packet buffers (lwtcp/pbuf.c) over the heap (Mem), the memory pool      *)
(* MEMP_PBUF (lwtcp/memp.c) and the pool of fixed buffers.                 *)
(*                                                                         *)
(* A pbuf is a header, followed in RAM and POOL pbufs by the bytes it      *)
(* describes, and pbufs are linked into chains.  A RAM pbuf is a block of  *)
(* the heap and is named here by its address; ROM pbufs come from the      *)
(* MEMP_PBUF list, which is used under memp.c's mutex; POOL pbufs are on   *)
(* three lists (the pool, the allocator's cache, the cache of freed ones)  *)
(* linked through the same next field as the chains.  The pool has no      *)
(* lock: its allocator and pbuf_refresh each raise a counter and look at   *)
(* the other's (the model takes these volatile accesses to happen in       *)
(* program order), and pbuf_pool_free_sem keeps the freeing threads apart. *)
(*                                                                         *)
(* A thread works on the chains it holds; held has their first pbufs.      *)
(* What a caller may do is what lwtcp's callers do: a pbuf with further    *)
(* references is not made the tail of a chain, and only one thread at a    *)
(* time uses a chain.                                                      *)
(***************************************************************************)
EXTENDS Mem, Sequences, SequencesExt

CONSTANTS
    Threads,      \* the threads that use pbufs
    Allocs,       \* which thread allocates which kind of pbuf
    NULL,
    RomPbufs,     \* the elements of MEMP_PBUF
    PoolPbufs,    \* the pbufs of the pool, PBUF_POOL_SIZE many
    BufSize,      \* PBUF_POOL_BUFSIZE
    PbufHdr,      \* sizeof(struct pbuf)
    Offsets,      \* the room pbuf_alloc leaves for headers, per layer
    Sizes,        \* the sizes asked for, for each kind of pbuf
    Cuts,         \* the sizes pbuf_realloc is called with
    Passes,       \* from which threads to which chains are handed over
    Headers,      \* the arguments of pbuf_header
    Reclaimers,   \* how many reclaim functions tcp_init registers
    ReclaimSize,  \* sizeof(struct mem_reclaim_)
    MaxRef,       \* bound: references to one pbuf
    MaxLive,      \* bound: RAM and ROM pbufs at one time
    MaxChains,    \* bound: chains at one time
    MaxShaped     \* bound: calls that change the shape of a chain

ASSUME PbufAssumption ==
    /\ Allocs \subseteq Threads \X {"RAM", "ROM", "POOL"}
    /\ \A t, u \in Threads : {<<t, "POOL">>, <<u, "POOL">>} \subseteq Allocs => t = u
    /\ BufSize \in Nat \ {0} /\ PbufHdr \in Nat \ {0}
    /\ Offsets \subseteq Nat /\ Headers \subseteq Int
    /\ Sizes \in [{"RAM", "ROM", "POOL"} -> SUBSET (Nat \ {0})] /\ Cuts \subseteq Nat
    /\ Passes \subseteq Threads \X Threads
    /\ \A o \in Offsets : o < BufSize
    /\ Reclaimers \in Nat /\ MaxRef \in Nat \ {0}
    /\ MaxLive \in Nat /\ MaxChains \in Nat /\ MaxShaped \in Nat

VARIABLES
    heap,      \* mem.c's ram and lfree
    memp,      \* memp_tab[MEMP_PBUF]
    buf,       \* the struct pbufs: those of the pool and the allocated ones
    pool,      \* pbuf_pool
    acache,    \* pbuf_pool_alloc_cache
    fcache,    \* pbuf_pool_free_cache
    alock,     \* pbuf_pool_alloc_lock
    flock,     \* pbuf_pool_free_lock
    sem,       \* the thread that has pbuf_pool_free_sem, or NULL
    held,      \* the chains of each thread, by their first pbuf
    run,       \* what each thread is doing inside pbuf.c
    shaped     \* how many calls changed the shape of a chain

vars == <<heap, memp, buf, pool, acache, fcache, alock, flock, sem, held, run,
          shaped>>
lists == <<pool, acache, fcache, alock, flock, sem>>

Idle == [at |-> "idle"]

\* The pbufs one reaches from p, in order, as a function that ends in NULL when
\* the list does.
From(b, p) ==
    LET walk[i \in 0 .. Cardinality(DOMAIN b)] ==
            IF i = 0 THEN p
            ELSE LET q == walk[i - 1] IN IF q \in DOMAIN b THEN b[q].next ELSE NULL
    IN walk

Members(b, p) ==
    LET walk == From(b, p) IN {walk[i] : i \in DOMAIN walk} \ {NULL}

End(b, p) == CHOOSE q \in Members(b, p) : b[q].next = NULL

\* pbuf_clen.
pbuf_clen(b, p) == Cardinality(Members(b, p))

Sum(b, S) == MapThenSumSet(LAMBDA q : b[q].len, S)

Chains == UNION {held[t] : t \in Threads}

\* memp.c's list of unused elements of MEMP_PBUF.  pbuf.c calls memp_mallocp and
\* memp_freep, which hold memp.c's mutex.
memp_init == SetToSeq(RomPbufs)
memp_malloc(list) == Tail(list)
memp_free(list, p) == <<p>> \o list

\* The heap after tcp_init has registered its reclaim functions
\* (mem_register_reclaim, memp_register_reclaim), which are never removed.
RECLAIMED[n \in Nat] ==
    IF n = 0 THEN mem_init ELSE mem_malloc(RECLAIMED[n - 1], ReclaimSize)

Init ==
    /\ heap = RECLAIMED[Reclaimers]
    /\ memp = memp_init
    /\ LET order == SetToSeq(PoolPbufs) \o <<NULL>>
       IN /\ buf = [p \in PoolPbufs |->
                      [next |-> order[1 + CHOOSE j \in DOMAIN order : order[j] = p],
                       flags |-> "POOL", ref |-> 0, len |-> BufSize,
                       tot |-> BufSize, off |-> PbufHdr]]
          /\ pool = order[1]
    /\ acache = NULL /\ fcache = NULL
    /\ alock = 0 /\ flock = 0 /\ sem = NULL
    /\ held = [t \in Threads |-> {}]
    /\ run = [t \in Threads |-> Idle]
    /\ shaped = 0

-----------------------------------------------------------------------------
(***************************************************************************)
(* pbuf_alloc.                                                             *)
(***************************************************************************)
Free(t) == run[t] = Idle
MayAlloc(t, kind) ==
    Free(t) /\ <<t, kind>> \in Allocs /\ Cardinality(Chains) < MaxChains
FewLive == Cardinality(DOMAIN buf \ PoolPbufs) < MaxLive
Idles(t) == run' = [run EXCEPT ![t] = Idle]
Holds(t, p) == held' = [held EXCEPT ![t] = @ \cup {p}]

New(kind, size, off) ==
    [next |-> NULL, flags |-> kind, ref |-> 1, len |-> size, tot |-> size, off |-> off]

\* PBUF_RAM: one block for the pbuf, the headers and the data.  Without memory
\* pbuf_alloc returns NULL and nothing changes.
RamSize(offset, size) == AlignUp(PbufHdr + size + offset)

AllocRam(t, offset, size) ==
    LET p == Address(heap, RamSize(offset, size))
    IN /\ MayAlloc(t, "RAM") /\ FewLive
       /\ Available(heap, RamSize(offset, size))
       /\ heap' = mem_malloc(heap, RamSize(offset, size))
       /\ buf' = [q \in DOMAIN buf \cup {p} |->
                    IF q = p THEN New("RAM", size, AlignUp(p + PbufHdr + offset) - p)
                    ELSE buf[q]]
       /\ Holds(t, p)
       /\ UNCHANGED <<memp, run, lists>>

\* PBUF_ROM: only the header, from MEMP_PBUF; the payload is the caller's.
AllocRom(t, size) ==
    /\ MayAlloc(t, "ROM") /\ FewLive
    /\ memp # <<>>
    /\ memp' = memp_malloc(memp)
    /\ buf' = [q \in DOMAIN buf \cup {Head(memp)} |->
                 IF q = Head(memp) THEN New("ROM", size, 0) ELSE buf[q]]
    /\ Holds(t, Head(memp))
    /\ UNCHANGED <<heap, run, lists>>

\* PBUF_POOL: a chain from the pool.  run has the chain so far, how many bytes
\* it still needs, and in p what pbuf_pool_alloc has got hold of.
AllocPool(t, offset, size) ==
    /\ MayAlloc(t, "POOL")
    /\ run' = [run EXCEPT ![t] = [at |-> "look", head |-> NULL, p |-> NULL, next |-> NULL,
                                  offset |-> offset, left |-> size]]
    /\ UNCHANGED <<heap, memp, buf, held, lists>>

\* A chain is put behind the allocator's cache.
pbuf_pool_free(b, cache, p) ==
    IF cache = NULL THEN b ELSE [b EXCEPT ![End(b, cache)].next = p]

\* pbuf_pool_alloc returned p: set it up and link it, or, when there is none,
\* give the chain back.
Got(t, p, cache) ==
    LET r     == run[t]
        first == r.head = NULL
        room  == IF first THEN BufSize - r.offset ELSE BufSize
        len   == IF r.left > room THEN room ELSE r.left
        left  == IF first THEN r.left - len ELSE r.left - BufSize
        fresh == [buf[p] EXCEPT !.next = NULL, !.len = len, !.ref = 1,
                                !.tot = IF first THEN r.left ELSE @,
                                !.off = IF first THEN PbufHdr + r.offset ELSE PbufHdr]
        head  == IF first THEN p ELSE r.head
    IN IF p = NULL
       THEN /\ acache' = IF first \/ cache # NULL THEN cache ELSE r.head
            /\ buf' = IF first THEN buf ELSE pbuf_pool_free(buf, cache, r.head)
            /\ Idles(t)
            /\ UNCHANGED held
       ELSE /\ acache' = cache
            /\ buf' = IF first THEN [buf EXCEPT ![p] = fresh]
                      ELSE [buf EXCEPT ![p] = fresh, ![End(buf, r.head)].next = p]
            /\ IF left > 0
               THEN /\ run' = [run EXCEPT ![t] = [r EXCEPT !.at = "look", !.left = left,
                                                           !.head = head, !.p = NULL,
                                                           !.next = NULL]]
                    /\ UNCHANGED held
               ELSE Idles(t) /\ Holds(t, head)

\* pbuf_pool_alloc looks at its own cache, then at the pool unless that is
\* locked.
PoolLook(t) ==
    /\ run[t].at = "look"
    /\ IF acache # NULL
       THEN Got(t, acache, buf[acache].next) /\ UNCHANGED alock
       ELSE IF flock > 0
       THEN Got(t, NULL, acache) /\ UNCHANGED alock
       ELSE /\ alock' = alock + 1
            /\ run' = [run EXCEPT ![t].at = "test"]
            /\ UNCHANGED <<buf, acache, held>>
    /\ UNCHANGED <<heap, memp, pool, fcache, flock, sem>>

PoolTest(t) ==
    /\ run[t].at = "test"
    /\ run' = [run EXCEPT ![t].at = IF flock = 0 THEN "take" ELSE "unlock"]
    /\ UNCHANGED <<heap, memp, buf, held, lists>>

PoolTake(t) ==
    /\ run[t].at = "take"
    /\ run' = [run EXCEPT ![t] = [@ EXCEPT !.p = pool,
                                           !.at = IF pool = NULL THEN "unlock" ELSE "next"]]
    /\ UNCHANGED <<heap, memp, buf, held, lists>>

PoolNext(t) ==
    /\ run[t].at = "next"
    /\ run' = [run EXCEPT ![t] = [@ EXCEPT !.at = "pop", !.next = buf[run[t].p].next]]
    /\ UNCHANGED <<heap, memp, buf, held, lists>>

PoolPop(t) ==
    /\ run[t].at = "pop"
    /\ pool' = run[t].next
    /\ run' = [run EXCEPT ![t].at = "unlock"]
    /\ UNCHANGED <<heap, memp, buf, held, acache, fcache, alock, flock, sem>>

PoolUnlock(t) ==
    /\ run[t].at = "unlock"
    /\ alock' = alock - 1
    /\ Got(t, run[t].p, acache)
    /\ UNCHANGED <<heap, memp, pool, fcache, flock, sem>>

-----------------------------------------------------------------------------
(***************************************************************************)
(* pbuf_free, pbuf_realloc and pbuf_refresh.                               *)
(***************************************************************************)

\* Drop a reference.  The last one frees the pbufs of the chain one by one,
\* whatever references the later ones have, and ends with pbuf_refresh.
pbuf_free(t, p) ==
    /\ Free(t) /\ p \in held[t]
    /\ buf' = [buf EXCEPT ![p].ref = @ - 1]
    /\ IF buf[p].ref = 1
       THEN /\ held' = [held EXCEPT ![t] = @ \ {p}]
            /\ run' = [run EXCEPT ![t] = [at |-> "free", p |-> p, reset |-> TRUE,
                                          again |-> FALSE]]
       ELSE UNCHANGED <<held, run>>
    /\ UNCHANGED <<heap, memp, lists>>

\* Where p->next was before p is freed: the next to free.
FreeNext(t, p) ==
    run' = [run EXCEPT ![t] = IF buf[p].next = NULL
                              THEN [at |-> "refresh", again |-> @.again]
                              ELSE [@ EXCEPT !.p = buf[p].next]]

FreePool(t) ==
    LET p == run[t].p
    IN /\ run[t].at = "free" /\ buf[p].flags = "POOL" /\ sem = NULL
       /\ buf' = [buf EXCEPT ![p] =
                    IF run[t].reset
                    THEN [@ EXCEPT !.next = fcache, !.len = BufSize, !.tot = BufSize,
                                   !.off = PbufHdr]
                    ELSE [@ EXCEPT !.next = fcache]]
       /\ fcache' = p
       /\ FreeNext(t, p)
       /\ UNCHANGED <<heap, memp, pool, acache, alock, flock, sem, held>>

FreeRom(t) ==
    LET p == run[t].p
    IN /\ run[t].at = "free" /\ buf[p].flags = "ROM"
       /\ memp' = memp_free(memp, p)
       /\ buf' = [q \in DOMAIN buf \ {p} |-> buf[q]]
       /\ FreeNext(t, p)
       /\ UNCHANGED <<heap, held, lists>>

FreeRam(t) ==
    LET p == run[t].p
    IN /\ run[t].at = "free" /\ buf[p].flags = "RAM"
       /\ heap' = mem_free(heap, p)
       /\ buf' = [q \in DOMAIN buf \ {p} |-> buf[q]]
       /\ FreeNext(t, p)
       /\ UNCHANGED <<memp, held, lists>>

\* pbuf_refresh takes the semaphore; with nothing in the cache it is done.
Refreshed(t) ==
    run' = [run EXCEPT ![t] = IF @.again THEN [@ EXCEPT !.at = "refresh", !.again = FALSE]
                              ELSE Idle]

Refresh(t) ==
    /\ run[t].at = "refresh" /\ sem = NULL
    /\ IF fcache = NULL
       THEN Refreshed(t) /\ UNCHANGED <<flock, sem>>
       ELSE /\ flock' = flock + 1 /\ sem' = t
            /\ run' = [run EXCEPT ![t].at = "move"]
    /\ UNCHANGED <<heap, memp, buf, pool, acache, fcache, alock, held>>

\* Mutant: pbuf_refresh does not look at the allocator's lock.
RefreshAnyway(t) ==
    /\ run[t].at = "move"
    /\ run' = [run EXCEPT ![t].at = "link"]
    /\ UNCHANGED <<heap, memp, buf, held, lists>>

\* Unless the allocator is in the pool, put the cache behind the pool ...
RefreshMove(t) ==
    /\ run[t].at = "move"
    /\ run' = [run EXCEPT ![t].at = IF alock = 0 THEN "link" ELSE "leave"]
    /\ UNCHANGED <<heap, memp, buf, held, lists>>

RefreshLink(t) ==
    /\ run[t].at = "link"
    /\ IF pool = NULL
       THEN pool' = fcache /\ UNCHANGED buf
       ELSE UNCHANGED pool /\ buf' = [buf EXCEPT ![End(buf, pool)].next = fcache]
    /\ fcache' = NULL
    /\ run' = [run EXCEPT ![t].at = "leave"]
    /\ UNCHANGED <<heap, memp, acache, alock, flock, sem, held>>

RefreshLeave(t) ==
    /\ run[t].at = "leave"
    /\ flock' = flock - 1 /\ sem' = NULL
    /\ Refreshed(t)
    /\ UNCHANGED <<heap, memp, buf, pool, acache, fcache, alock, held>>

\* pbuf_realloc: the pbuf in which the new end falls, and what is left of the
\* size there.
Cut(p, size) ==
    LET walk == From(buf, p)
        before(i) == Sum(buf, {walk[j] : j \in 0 .. i - 1})
        n == CHOOSE i \in 0 .. pbuf_clen(buf, p) - 1 :
                /\ size <= before(i) + buf[walk[i]].len
                /\ \A j \in 0 .. i - 1 : size > before(j) + buf[walk[j]].len
    IN [q |-> walk[n], len |-> size - before(n)]

\* Shrink a chain.  A ROM pbuf only changes its length; of a RAM chain the
\* block in which it ends is shrunk.  The pbufs behind are freed: those of a
\* POOL chain are put in the cache one by one, those of a RAM chain are passed
\* to pbuf_free, which frees all that follows (lwtcp has at most one).
pbuf_realloc(t, p, size) ==
    LET kind == buf[p].flags
        cut  == Cut(p, size)
        rest == buf[cut.q].next
        shrunk == IF kind = "ROM" THEN [buf EXCEPT ![p].len = size, ![p].tot = size]
                  ELSE [[buf EXCEPT ![cut.q].len = cut.len, ![cut.q].next = NULL]
                           EXCEPT ![p].tot = size]
    IN /\ Free(t) /\ p \in held[t]
       /\ buf[p].tot > size
       /\ kind = "ROM" => buf[p].next = NULL
       /\ kind = "POOL" => \A q \in Members(buf, p) : buf[q].flags = "POOL"
       /\ kind = "RAM" => pbuf_clen(buf, rest) <= 1
       /\ heap' = IF kind = "RAM" /\ buf[cut.q].flags = "RAM"
                  THEN mem_realloc(heap, cut.q, buf[cut.q].off + cut.len) ELSE heap
       /\ IF kind = "ROM" \/ rest = NULL
          THEN /\ run' = [run EXCEPT ![t] = [at |-> "refresh", again |-> FALSE]]
               /\ buf' = shrunk
          ELSE /\ run' = [run EXCEPT ![t] = [at |-> "free", p |-> rest,
                                             reset |-> kind = "RAM", again |-> kind = "RAM"]]
               /\ buf' = IF kind = "RAM" THEN [shrunk EXCEPT ![rest].ref = @ - 1]
                         ELSE shrunk
       /\ UNCHANGED <<memp, held, lists>>

-----------------------------------------------------------------------------
(***************************************************************************)
(* The rest of pbuf.c, and handing a chain to another thread.              *)
(***************************************************************************)

\* Move the payload of the first pbuf; before its own memory it may not go.
\* The payload of a ROM pbuf lies elsewhere: there the test compares unrelated
\* addresses, and a header may be put in front of the caller's data.
pbuf_header(t, p, d) ==
    LET off == buf[p].off - d
    IN /\ Free(t) /\ p \in held[t] /\ buf[p].len + d >= 0
       /\ off >= IF buf[p].flags = "ROM" THEN - Max(Headers) ELSE PbufHdr
       /\ buf' = [buf EXCEPT ![p].off = off, ![p].len = @ + d, ![p].tot = @ + d]
       /\ UNCHANGED <<heap, memp, held, run, lists>>

pbuf_ref(t, p) ==
    /\ Free(t) /\ p \in held[t] /\ buf[p].ref < MaxRef
    /\ buf' = [buf EXCEPT ![p].ref = @ + 1]
    /\ UNCHANGED <<heap, memp, held, run, lists>>

\* t becomes the tail of h: h's thread has one chain less.
pbuf_chain(t, h, tail) ==
    /\ Free(t) /\ {h, tail} \subseteq held[t] /\ h # tail
    /\ buf[tail].ref = 1
    /\ buf' = [[buf EXCEPT ![End(buf, h)].next = tail]
                   EXCEPT ![h].tot = @ + buf[tail].tot]
    /\ held' = [held EXCEPT ![t] = @ \ {tail}]
    /\ UNCHANGED <<heap, memp, run, lists>>

\* Mutant: the first pbuf keeps the length of the chain.
DechainKeeps(t, p) ==
    LET q == buf[p].next
    IN /\ Free(t) /\ p \in held[t] /\ q # NULL
       /\ buf' = [buf EXCEPT ![p].next = NULL, ![q].tot = buf[p].tot - buf[p].len]
       /\ Holds(t, q)
       /\ UNCHANGED <<heap, memp, run, lists>>

\* Take the first pbuf off its chain; the rest becomes a chain of its own.
pbuf_dechain(t, p) ==
    LET q == buf[p].next
    IN /\ Free(t) /\ p \in held[t] /\ q # NULL
       /\ buf' = [buf EXCEPT ![p].tot = buf[p].len, ![p].next = NULL,
                             ![q].tot = buf[p].tot - buf[p].len]
       /\ Holds(t, q)
       /\ UNCHANGED <<heap, memp, run, lists>>

\* A mailbox carries the chain to another thread.
HandOver(t, u, p) ==
    /\ Free(t) /\ <<t, u>> \in Passes /\ p \in held[t]
    /\ held' = [held EXCEPT ![t] = @ \ {p}, ![u] = @ \cup {p}]
    /\ UNCHANGED <<heap, memp, buf, run, lists>>

Alloc(t) ==
    \/ \E offset \in Offsets, size \in Sizes["RAM"]  : AllocRam(t, offset, size)
    \/ \E offset \in Offsets, size \in Sizes["POOL"] : AllocPool(t, offset, size)
    \/ \E size \in Sizes["ROM"] : AllocRom(t, size)

Drop(t) ==
    \E p \in held[t] : pbuf_free(t, p) \/ \E u \in Threads : HandOver(t, u, p)

Shape(t) ==
    /\ shaped < MaxShaped
    /\ shaped' = shaped + 1
    /\ \E p \in held[t] :
          \/ pbuf_ref(t, p)
          \/ pbuf_dechain(t, p)
          \/ \E size \in Cuts : pbuf_realloc(t, p, size)
          \/ \E d \in Headers : pbuf_header(t, p, d)
          \/ \E q \in held[t] : pbuf_chain(t, p, q)

Continue(t) ==
    \/ PoolLook(t) \/ PoolTest(t) \/ PoolTake(t) \/ PoolNext(t) \/ PoolPop(t) \/ PoolUnlock(t)
    \/ FreePool(t) \/ FreeRom(t) \/ FreeRam(t)
    \/ Refresh(t) \/ RefreshMove(t) \/ RefreshLink(t) \/ RefreshLeave(t)

Next ==
    \E t \in Threads :
        \/ Shape(t)
        \/ (Alloc(t) \/ Drop(t) \/ Continue(t)) /\ UNCHANGED shaped

Spec == Init /\ [][Next]_vars

-----------------------------------------------------------------------------

\* The fields of pbufs, the pools and the places of the two threads.
TypeOK ==
    /\ DOMAIN buf \subseteq Nat \cup RomPbufs \cup PoolPbufs
    /\ \A p \in DOMAIN buf :
          /\ buf[p].next \in DOMAIN buf \cup {NULL}
          /\ buf[p].flags \in {"RAM", "ROM", "POOL"}
          /\ buf[p].ref \in 0 .. MaxRef /\ buf[p].len \in Nat /\ buf[p].tot \in Nat
          /\ buf[p].off \in Int
    /\ {pool, acache, fcache} \subseteq PoolPbufs \cup {NULL}
    /\ alock \in 0 .. 1 /\ flock \in 0 .. 1
    /\ sem \in Threads \cup {NULL}
    /\ memp \in Seq(RomPbufs)
    /\ held \in [Threads -> SUBSET DOMAIN buf]

\* mem.c's list of blocks is never damaged, whatever sequence of mem_malloc,
\* mem_free and mem_realloc the pbufs cause: it covers the array, it is linked
\* both ways, no two free blocks touch, and lfree is a free block of it (not
\* always the first one, see LfreeLowest) or ram_end.
HeapSane ==
    /\ WellFormed(heap)
    /\ heap.lfree \in DOMAIN heap.blk
    /\ heap.lfree # MEM_SIZE => ~ heap.blk[heap.lfree].used

\* mem.c:83 calls lfree the "pointer to the lowest free block", from which
\* mem_malloc searches: no block below it is free.
LfreeLowest ==
    \A m \in DOMAIN heap.blk : m < heap.lfree => heap.blk[m].used

\* Every used block of the heap belongs to one RAM pbuf (or to a reclaim
\* function), every RAM pbuf that a thread can reach has its block, and its
\* payload ends before the next block, headers added and ends cut off
\* (pbuf_header, pbuf_realloc).  The last part is about aligned pbufs:
\* mem_realloc may leave an unaligned block behind, and pbuf_alloc, which
\* aligns the payload in it, then reaches past the end.
HeapOwned ==
    LET ram  == {p \in DOMAIN buf : buf[p].flags = "RAM"}
        used == {m \in DOMAIN heap.blk \ {MEM_SIZE} : heap.blk[m].used}
    IN /\ {p - SIZEOF_STRUCT_MEM : p \in ram} \subseteq used
       /\ Cardinality(used) = Cardinality(ram) + Reclaimers
       /\ \A p \in ram : p % MEM_ALIGNMENT = 0 =>
             buf[p].off + buf[p].len <= Room(heap, p - SIZEOF_STRUCT_MEM)

\* The heap and its users: the list of blocks is sound and every block in use
\* is that of one pbuf (mem_malloc, mem_free, mem_realloc, pbuf_alloc,
\* pbuf_free, pbuf_realloc).
MemorySane == TypeOK /\ HeapSane /\ HeapOwned

\* Where the pbufs are: on the lists, in the chains of the threads, and in the
\* hands of a thread that is in the middle of allocating or freeing.
InHand(t) ==
    LET r == run[t]
    IN CASE r.at \in {"look", "test", "take", "next", "pop"} -> <<Members(buf, r.head)>>
         [] r.at = "unlock" -> <<Members(buf, r.head), {r.p} \ {NULL}>>
         [] r.at = "free" -> <<Members(buf, r.p)>>
         [] OTHER -> <<>>

Places ==
    LET hands  == FoldSet(LAMBDA t, s : s \o InHand(t), <<>>, Threads)
        heads  == <<pool, acache, fcache>> \o SetToSeq(Chains)
    IN hands \o [i \in DOMAIN heads |-> Members(buf, heads[i])]

\* Every pbuf is in exactly one place: none is lost, none is on two lists, on a
\* list and in a chain, or in two chains, while one thread allocates from the
\* pool and the others free and refresh (pbuf_pool_alloc, PBUF_POOL_FREE,
\* pbuf_refresh, memp_mallocp, memp_freep).
OnePlace ==
    /\ LET places == Places
       IN /\ \A i, j \in DOMAIN places : i # j => places[i] \cap places[j] = {}
          /\ UNION {places[i] : i \in DOMAIN places} = DOMAIN buf
    /\ IsInjective(memp)
    /\ ToSet(memp) = RomPbufs \ DOMAIN buf

\* The tot_len of a chain's first pbuf is the sum of the lengths of its pbufs:
\* udp_send, tcp_input and netbuf_len trust it.
LengthsAddUp ==
    \A p \in Chains : buf[p].tot = Sum(buf, Members(buf, p))

\* What mem_malloc asserts of its result (mem.c, "allocated memory properly
\* aligned").
Aligned ==
    \A m \in DOMAIN heap.blk : heap.blk[m].used => m % MEM_ALIGNMENT = 0

-----------------------------------------------------------------------------
=============================================================================
