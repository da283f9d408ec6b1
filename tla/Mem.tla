-------------------------------- MODULE Mem --------------------------------
(***************************************************************************)
(* The heap of the TCP stack (lwtcp/mem.c): one array cut into blocks.     *)
(* Every block starts with a struct mem of SIZEOF_STRUCT_MEM bytes that    *)
(* holds the places of the next and of the previous block and whether the  *)
(* block is used; the last header, ram_end at MEM_SIZE, is always used.    *)
(*                                                                         *)
(* A heap is a value [blk, lfree]: blk maps the place of every header on   *)
(* the list to its fields (whatever lies between two headers is the data   *)
(* of the callers), and lfree is where the search for memory begins.  All  *)
(* of mem_malloc, mem_free and mem_realloc runs under mem_sem, so each is  *)
(* one operator from heaps to heaps.                                       *)
(***************************************************************************)
EXTENDS Integers, FiniteSets, FiniteSetsExt

CONSTANTS MEM_SIZE, MEM_ALIGNMENT, SIZEOF_STRUCT_MEM, MIN_SIZE

ASSUME MemAssumption ==
    /\ {MEM_SIZE, MEM_ALIGNMENT, SIZEOF_STRUCT_MEM, MIN_SIZE} \subseteq Nat \ {0}
    /\ MEM_SIZE % MEM_ALIGNMENT = 0
    /\ SIZEOF_STRUCT_MEM % MEM_ALIGNMENT = 0

\* MEM_ALIGN_SIZE and MEM_ALIGN.
AlignUp(n) == n + ((-n) % MEM_ALIGNMENT)

\* No block is at MEM_SIZE: mem_malloc's NULL.
NoMem == MEM_SIZE

mem_init ==
    [blk   |-> [a \in {0, MEM_SIZE} |->
                   [next |-> MEM_SIZE, prev |-> a, used |-> a = MEM_SIZE]],
     lfree |-> 0]

\* The bytes a block has for its user.
Room(h, m) == h.blk[m].next - (m + SIZEOF_STRUCT_MEM)

\* Put a free block at m2, inside the block m.
Split(h, m, m2) ==
    LET n == h.blk[m].next
    IN [x \in DOMAIN h.blk \cup {m2} |->
           CASE x = m2 -> [next |-> n, prev |-> m, used |-> FALSE]
             [] x = m  -> [h.blk[m] EXCEPT !.next = m2]
             [] x = n /\ n # MEM_SIZE /\ x # m2 -> [h.blk[n] EXCEPT !.prev = m2]
             [] OTHER  -> h.blk[x]]

\* The block a swallows b, the next one.
Join(h, a, b) ==
    LET n == h.blk[b].next
    IN [blk   |-> [x \in DOMAIN h.blk \ {b} |->
                      CASE x = a -> [h.blk[a] EXCEPT !.next = n]
                        [] x = n -> [h.blk[n] EXCEPT !.prev = a]
                        [] OTHER -> h.blk[x]],
        lfree |-> IF h.lfree = b THEN a ELSE h.lfree]

\* Join the free block m with the free blocks next to it, forward and then
\* backward.
PlugForward(h, m) ==
    LET n == h.blk[m].next
    IN IF m # n /\ ~ h.blk[n].used /\ n # MEM_SIZE THEN Join(h, m, n) ELSE h

PlugBackward(h, m) ==
    LET p == h.blk[m].prev
    IN IF p # m /\ ~ h.blk[p].used THEN Join(h, p, m) ELSE h

plug_holes(h, m) == PlugBackward(PlugForward(h, m), m)

\* The size a request is rounded up to, and the first block from lfree on that
\* has that many bytes and a header more.
Rounded(size) ==
    IF size % MEM_ALIGNMENT = 0 THEN size
    ELSE size + MEM_ALIGNMENT - ((size + SIZEOF_STRUCT_MEM) % MEM_ALIGNMENT)

FirstFit(h, size) ==
    LET fits == {m \in DOMAIN h.blk : /\ m >= h.lfree
                                      /\ ~ h.blk[m].used
                                      /\ Room(h, m) >= size + SIZEOF_STRUCT_MEM}
    IN IF size \in 1 .. MEM_SIZE /\ fits # {} THEN Min(fits) ELSE NoMem

\* The heap after m was taken; when m was lfree, lfree moves to the next block
\* that is free, or to ram_end.
Taken(h, m, size) ==
    LET cut == Split(h, m, m + SIZEOF_STRUCT_MEM + size)
        blk == [cut EXCEPT ![m].used = TRUE]
    IN [blk   |-> blk,
        lfree |-> IF m # h.lfree THEN h.lfree
                  ELSE Min({x \in DOMAIN blk : x >= m /\ ~ blk[x].used}
                           \cup {MEM_SIZE})]

\* mem_malloc: where the data of the new block begins, and the heap after it.
Address(h, size) == FirstFit(h, Rounded(size)) + SIZEOF_STRUCT_MEM

mem_malloc(h, size) == Taken(h, FirstFit(h, Rounded(size)), Rounded(size))

Available(h, size) == FirstFit(h, Rounded(size)) # NoMem

mem_free(h, a) ==
    LET m == a - SIZEOF_STRUCT_MEM
    IN plug_holes([blk   |-> [h.blk EXCEPT ![m].used = FALSE],
                   lfree |-> IF m < h.lfree THEN m ELSE h.lfree], m)

\* Mutant: the header of the block is forgotten in the place of the new end.
ReallocShort(h, a, newsize) ==
    LET m == a - SIZEOF_STRUCT_MEM
    IN IF newsize + SIZEOF_STRUCT_MEM + MIN_SIZE < Room(h, m)
       THEN plug_holes([h EXCEPT !.blk = Split(h, m, m + newsize)], m + newsize)
       ELSE h

\* Give back the end of a block, when that leaves a block worth having.  The
\* new size is not rounded, and lfree does not move down to what is freed.
mem_realloc(h, a, newsize) ==
    LET m  == a - SIZEOF_STRUCT_MEM
        m2 == m + SIZEOF_STRUCT_MEM + newsize
    IN IF newsize + SIZEOF_STRUCT_MEM + MIN_SIZE < Room(h, m)
       THEN plug_holes([h EXCEPT !.blk = Split(h, m, m2)], m2)
       ELSE h

-----------------------------------------------------------------------------
\* The list of the blocks covers the array without a gap and is linked both
\* ways, and no two free blocks touch: what was freed can be used again for a
\* larger request.
WellFormed(h) ==
    LET last == Max(DOMAIN h.blk \ {MEM_SIZE})
        after(m) == Min({x \in DOMAIN h.blk : x > m})
    IN /\ {0, MEM_SIZE} \subseteq DOMAIN h.blk
       /\ \A m \in DOMAIN h.blk \ {MEM_SIZE} :
             /\ h.blk[m].next = after(m)
             /\ Room(h, m) >= 0
             /\ m # last => h.blk[after(m)].prev = m
             /\ ~ h.blk[m].used => h.blk[after(m)].used
       /\ h.blk[0].prev = 0
       /\ h.blk[MEM_SIZE].used
=============================================================================
