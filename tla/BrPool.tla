------------------------------- MODULE BrPool -------------------------------
(***************************************************************************)
(* The memory pools of lib/br_pool.c.  A pool cuts a buffer of the         *)
(* application into blocks of equal size; the free ones form a list whose  *)
(* links are stored in the blocks themselves, where the application writes *)
(* while it holds them.                                                    *)
(*                                                                         *)
(* Memory is an array of bytes; word[a] is the pointer stored at address   *)
(* a.  The functions take no lock: their calls do not overlap.             *)
(***************************************************************************)
EXTENDS Integers, Sequences, FiniteSets

CONSTANTS
    MemSize,     \* addresses are 0 .. MemSize - 1
    NULL,
    PointerSize, \* sizeof(void *)
    MaxPools,    \* BR_POOL_MAX_POOLS
    Buffers,     \* the buffers of the application, [start, size]
    BlockSizes,  \* the block sizes it asks for
    Values,      \* what it writes at the start of its blocks
    Careless     \* may it free what it does not hold?

Addresses == 0 .. MemSize - 1
Pointers  == Addresses \cup {NULL}

ASSUME PoolAssumption ==
    /\ MemSize \in Nat
    /\ NULL \notin Nat
    /\ PointerSize \in Nat \ {0}
    /\ MaxPools \in Nat
    /\ BlockSizes \subseteq Nat
    /\ Values \subseteq Pointers
    /\ Careless \in BOOLEAN
    /\ Buffers \subseteq [start : Nat, size : Nat]
    /\ \A b \in Buffers : b.start + b.size <= MemSize
    /\ \A b, c \in Buffers :
          b = c \/ b.start + b.size <= c.start \/ c.start + c.size <= b.start

VARIABLES
    pools,  \* the array pools, up to pool_count
    word,   \* per address: the pointer stored there
    held,   \* history: the blocks the application has and has not given back
    asked   \* history: per pool, the buffer and block size it was made of

vars == <<pools, word, held, asked>>

Handles == 1 .. Len(pools)

\* The walk along the links that are stored in the free blocks.
List == INSTANCE BrList WITH Tasks <- Addresses

Init ==
    /\ pools = <<>>
    /\ word = [a \in Addresses |-> NULL]
    /\ held = {}
    /\ asked = <<>>

\* Mistake: the size is not rounded up to a multiple of the pointer size.
POOL_ALIGN_UP_Not(x) == x
POOL_ALIGN_UP(x) ==
    ((x + PointerSize - 1) \div PointerSize) * PointerSize

Block(pool, i) == pool.buffer + i * pool.block_size

Blocks(pool) == {Block(pool, i) : i \in 0 .. pool.total - 1}

\* The loop of br_pool_create pushes the blocks on a list that is empty at first:
\* the head after n turns, and the links in the blocks at the end.
Pushed(start, size, n) == IF n = 0 THEN NULL ELSE start + (n - 1) * size

Threaded(pool) ==
    [a \in Addresses |->
        IF a \notin Blocks(pool) THEN word[a]
        ELSE IF a = pool.buffer THEN NULL
        ELSE a - pool.block_size]

\* Mistake: the limit is off by one.
PoolLeft_OneMore == Len(pools) <= MaxPools

PoolLeft == Len(pools) < MaxPools

br_pool_create(buf, block_size) ==
    LET up      == POOL_ALIGN_UP(block_size)
        aligned == IF up < PointerSize THEN PointerSize ELSE up
        count   == buf.size \div aligned
        pool    == [buffer     |-> buf.start,
                    block_size |-> aligned,
                    total      |-> count,
                    used       |-> 0,
                    free_head  |-> Pushed(buf.start, aligned, count)]
    IN  /\ block_size # 0 /\ PoolLeft
        /\ \A h \in Handles : asked[h].buf # buf
        /\ count # 0
        /\ pools' = Append(pools, pool)
        /\ asked' = Append(asked, [buf |-> buf, size |-> block_size])
        /\ word' = Threaded(pool)
        /\ UNCHANGED held

\* The head of the list is handed out, cleared.
br_pool_alloc(h) ==
    LET b == pools[h].free_head
    IN  /\ b # NULL
        /\ pools' = [pools EXCEPT ![h].free_head = word[b], ![h].used = @ + 1]
        /\ word' = [a \in Addresses |->
              IF a >= b /\ a < b + pools[h].block_size THEN NULL ELSE word[a]]
        /\ held' = held \cup {b}
        /\ UNCHANGED asked

\* Mistake: no test against the limits of the pool.
InPool_Any(pool, b) == TRUE

InPool(pool, b) ==
    b >= pool.buffer /\ b < pool.buffer + pool.total * pool.block_size

\* A block of another pool is ignored.
br_pool_free(h, b) ==
    /\ b \in held \/ Careless
    /\ InPool(pools[h], b)
    /\ word' = [word EXCEPT ![b] = pools[h].free_head]
    /\ pools' = [pools EXCEPT ![h].free_head = b,
                              ![h].used = IF @ > 0 THEN @ - 1 ELSE @]
    /\ held' = held \ {b}
    /\ UNCHANGED asked

\* The application writes to a block it holds.
Use(b, value) ==
    /\ b \in held
    /\ word' = [word EXCEPT ![b] = value]
    /\ UNCHANGED <<pools, held, asked>>

Next ==
    \/ \E buf \in Buffers, size \in BlockSizes : br_pool_create(buf, size)
    \/ \E h \in Handles : \/ br_pool_alloc(h)
                          \/ \E b \in Addresses : br_pool_free(h, b)
    \/ \E b \in Addresses, value \in Values : Use(b, value)

Spec == Init /\ [][Next]_vars

-------------------------------------------------------------------------------

PoolTypeOK ==
    /\ pools \in Seq([buffer : Nat, block_size : Nat, total : Nat, used : Nat,
                      free_head : Pointers])
    /\ word \in [Addresses -> Pointers]
    /\ held \subseteq Addresses
    /\ asked \in Seq([buf : Buffers, size : BlockSizes])
    /\ Len(asked) = Len(pools) /\ Len(pools) <= MaxPools

br_pool_available(pool) == pool.total - pool.used

FreeBlocks(pool) == List!Visited(pool.free_head, word, {})

\* Whatever the application writes to its blocks and in whatever order and to
\* whatever pool it gives them back, the free list of a pool ends, holds
\* exactly the blocks nobody has, and br_pool_available counts them.
FreeListExact ==
    \A h \in Handles :
        LET pool == pools[h]
        IN  /\ List!StopCells(List!ListOf(pool.free_head, word), {}) # {}
            /\ FreeBlocks(pool) = Blocks(pool) \ held
            /\ br_pool_available(pool) = Cardinality(FreeBlocks(pool))

\* Every block has room for what was asked for and for a link, is aligned for
\* one as the buffer is, lies in the buffer and shares no byte with another.
Bytes(h, b) ==
    b .. b + (IF asked[h].size > PointerSize THEN asked[h].size ELSE PointerSize) - 1
BlocksApart ==
    \A h \in Handles : \A b \in Blocks(pools[h]) :
        /\ Bytes(h, b) \subseteq
              asked[h].buf.start .. asked[h].buf.start + asked[h].buf.size - 1
        /\ (b - asked[h].buf.start) % PointerSize = 0
        /\ \A g \in Handles : \A c \in Blocks(pools[g]) :
              <<h, b>> # <<g, c>> => Bytes(h, b) \cap Bytes(g, c) = {}
===============================================================================
