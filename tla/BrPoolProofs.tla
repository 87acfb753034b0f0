----------------------------- MODULE BrPoolProofs -----------------------------
(***************************************************************************)
(* Theorems about memory pools (BrPool).                                   *)
(***************************************************************************)
EXTENDS BrPool, SequenceTheorems, FiniteSetTheorems, TLAPS

\* What BrListProofs shows of the lists of the kernel, for free blocks.
L == INSTANCE BrListProofs WITH Tasks <- Addresses

Pool == [buffer : Nat, block_size : Nat, total : Nat, used : Nat,
         free_head : Pointers]

LEMMA FiniteMemory == L!ListAssumption /\ IsFiniteSet(Addresses)
<1>1. \A S : S = 0 .. MemSize - 1 => IsFiniteSet(S)
  BY FS_Interval, PoolAssumption
<1>2. \A S : L!IsFiniteSet(S) <=> IsFiniteSet(S)
  BY DEF IsFiniteSet, L!IsFiniteSet
<1> QED BY <1>1, <1>2, PoolAssumption DEF Addresses, L!ListAssumption

-------------------------------------------------------------------------------
(* Arithmetic of block sizes. *)

NewSize(size) ==
    IF POOL_ALIGN_UP(size) < PointerSize THEN PointerSize ELSE POOL_ALIGN_UP(size)

\* A block is a positive number of pointers, and no smaller than asked for.
LEMMA NewSizeFits ==
    ASSUME NEW size \in Nat
    PROVE  /\ NewSize(size) \in Nat \ {0}
           /\ NewSize(size) >= size /\ NewSize(size) >= PointerSize
           /\ \E m \in Nat : NewSize(size) = m * PointerSize
<1>1. PointerSize \in Nat \ {0}
  BY PoolAssumption
<1> DEFINE q == (size + PointerSize - 1) \div PointerSize
<1>2. /\ q \in Nat
      /\ size + PointerSize - 1 < q * PointerSize + PointerSize
  BY <1>1
<1>3. POOL_ALIGN_UP(size) = q * PointerSize
  BY DEF POOL_ALIGN_UP
<1> HIDE DEF q
<1>4. q * PointerSize \in Nat /\ q * PointerSize >= size
  BY <1>1, <1>2
<1>5. PointerSize = 1 * PointerSize /\ 1 \in Nat
  BY <1>1
<1> QED BY <1>1, <1>2, <1>3, <1>4, <1>5 DEF NewSize

NewPool(buf, size) ==
    [buffer     |-> buf.start,
     block_size |-> NewSize(size),
     total      |-> buf.size \div NewSize(size),
     used       |-> 0,
     free_head  |-> Pushed(buf.start, NewSize(size), buf.size \div NewSize(size))]

(***************************************************************************)
(* How a pool is cut out of its buffer: blocks of equal size, as large as  *)
(* asked for and as a pointer, a multiple of a pointer's size, one behind  *)
(* the other from the start of the buffer, all of them within it.          *)
(***************************************************************************)
CutFrom(pool, a) ==
    /\ pool.buffer = a.buf.start
    /\ pool.block_size > 0 /\ pool.total > 0
    /\ pool.block_size >= a.size /\ pool.block_size >= PointerSize
    /\ \E m \in Nat : pool.block_size = m * PointerSize
    /\ pool.total * pool.block_size <= a.buf.size

LEMMA BufferType ==
    ASSUME NEW buf \in Buffers
    PROVE  buf.start \in Nat /\ buf.size \in Nat /\ buf.start + buf.size <= MemSize
BY PoolAssumption

LEMMA NewPoolCut ==
    ASSUME NEW buf \in Buffers, NEW size \in BlockSizes, NEW a,
           a.buf = buf, a.size = size,
           buf.size \div NewSize(size) # 0
    PROVE  CutFrom(NewPool(buf, size), a)
<1> DEFINE n == buf.size \div NewSize(size)
<1>1. size \in Nat
  BY PoolAssumption
<1>2. n \in Nat /\ n * NewSize(size) <= buf.size
  BY <1>1, NewSizeFits, BufferType
<1> QED BY <1>1, <1>2, NewSizeFits DEF CutFrom, NewPool

\* A block lies in the buffer, with all its bytes; so do those before it.
LEMMA BlockPlace ==
    ASSUME NEW pool, NEW a, a.buf \in Buffers, pool.block_size \in Nat,
           pool.total \in Nat, CutFrom(pool, a), NEW i \in 0 .. pool.total - 1
    PROVE  /\ Block(pool, i) \in Addresses
           /\ a.buf.start <= Block(pool, i)
           /\ Block(pool, i) + pool.block_size <= a.buf.start + a.buf.size
           /\ pool.buffer <= Block(pool, i)
           /\ Block(pool, i) < pool.buffer + pool.total * pool.block_size
<1> DEFINE s == pool.block_size
           n == pool.total
<1>1. s \in Nat \ {0} /\ n \in Nat /\ n * s <= a.buf.size /\ i \in Nat /\ i < n
  BY DEF CutFrom
<1>2. i * s \in Nat /\ i * s + s <= n * s /\ n * s \in Nat
  BY <1>1
<1>3. /\ a.buf.start \in Nat /\ a.buf.size \in Nat
      /\ a.buf.start + a.buf.size <= MemSize
  BY BufferType
<1>4. Block(pool, i) = a.buf.start + i * s
  BY DEF Block, CutFrom
<1>5. pool.buffer = a.buf.start /\ MemSize \in Nat
  BY PoolAssumption DEF CutFrom
<1> HIDE DEF s, n
<1>6. /\ Block(pool, i) \in Nat /\ a.buf.start <= Block(pool, i)
      /\ Block(pool, i) + s <= a.buf.start + n * s
      /\ Block(pool, i) < MemSize
  BY <1>1, <1>2, <1>3, <1>4, <1>5
<1>7. Block(pool, i) \in Addresses
  BY <1>5, <1>6 DEF Addresses
<1> QED BY <1>1, <1>2, <1>3, <1>5, <1>6, <1>7 DEF s, n

LEMMA NewPoolType ==
    ASSUME NEW buf \in Buffers, NEW size \in BlockSizes,
           buf.size \div NewSize(size) # 0
    PROVE  NewPool(buf, size) \in Pool
<1> DEFINE pool == NewPool(buf, size)
           a == [buf |-> buf, size |-> size]
<1>1. size \in Nat
  BY PoolAssumption
<1>2. /\ pool.buffer \in Nat /\ pool.block_size \in Nat
      /\ pool.total \in Nat /\ pool.used \in Nat
  BY <1>1, NewSizeFits, BufferType DEF NewPool
<1>3. CutFrom(pool, a)
  BY NewPoolCut
<1>4. pool.total - 1 \in 0 .. pool.total - 1
  BY <1>2, <1>3 DEF CutFrom
<1>5. a.buf \in Buffers
  OBVIOUS
<1>6. pool.free_head = Block(pool, pool.total - 1)
  BY DEF NewPool, Block, Pushed
<1> HIDE DEF a
<1>7. Block(pool, pool.total - 1) \in Addresses
  BY <1>2, <1>3, <1>4, <1>5, BlockPlace
<1> QED BY <1>2, <1>6, <1>7 DEF Pool, Pointers, NewPool

-------------------------------------------------------------------------------
(* Types. *)

TypeInv == PoolTypeOK

LEMMA TypeFacts ==
    ASSUME TypeInv
    PROVE  /\ pools \in Seq(Pool) /\ word \in [Addresses -> Pointers]
           /\ held \subseteq Addresses
           /\ \A h \in Handles : /\ pools[h] \in Pool
                                 /\ asked[h].buf \in Buffers
                                 /\ asked[h].size \in BlockSizes
<1> DEFINE A == [buf : Buffers, size : BlockSizes]
<1>1. /\ pools \in Seq(Pool) /\ word \in [Addresses -> Pointers]
      /\ held \subseteq Addresses /\ asked \in Seq(A) /\ Len(asked) = Len(pools)
  BY DEF TypeInv, PoolTypeOK, Pool
<1> HIDE DEF A
<1>2. \A h \in Handles : pools[h] \in Pool /\ asked[h] \in A
  BY <1>1 DEF Handles
<1> QED BY <1>1, <1>2 DEF A

\* qs is the array ps with another free list and count for pool h.
Updated(ps, h, f, u, qs) ==
    qs = [ps EXCEPT ![h] = [ps[h] EXCEPT !.free_head = f, !.used = u]]

\* Nothing else of the array has changed then.
LEMMA PoolUpdate ==
    ASSUME NEW ps \in Seq(Pool), NEW h \in 1 .. Len(ps), NEW f \in Pointers,
           NEW u \in Nat, NEW qs, Updated(ps, h, f, u, qs)
    PROVE  /\ qs \in Seq(Pool) /\ Len(qs) = Len(ps)
           /\ qs[h].free_head = f /\ qs[h].used = u
           /\ \A g \in 1 .. Len(ps) :
                 /\ qs[g].buffer = ps[g].buffer /\ qs[g].total = ps[g].total
                 /\ qs[g].block_size = ps[g].block_size
                 /\ g # h => qs[g] = ps[g]
<1>1. ps[h] \in Pool
  OBVIOUS
<1>2. [ps[h] EXCEPT !.free_head = f, !.used = u] \in Pool
  BY <1>1 DEF Pool
<1>3. /\ qs \in Seq(Pool) /\ Len(qs) = Len(ps)
      /\ \A g \in 1 .. Len(ps) :
            qs[g] = IF g = h THEN [ps[h] EXCEPT !.free_head = f, !.used = u]
                    ELSE ps[g]
  BY <1>2, ExceptSeq DEF Updated
<1> DEFINE p == [ps[h] EXCEPT !.free_head = f, !.used = u]
<1>4. /\ p.free_head = f /\ p.used = u /\ p.buffer = ps[h].buffer
      /\ p.total = ps[h].total /\ p.block_size = ps[h].block_size
  BY <1>1 DEF Pool
<1> HIDE DEF p
<1>5. \A g \in 1 .. Len(ps) : qs[g] = IF g = h THEN p ELSE ps[g]
  BY <1>3 DEF p
<1> QED BY <1>3, <1>4, <1>5

\* The steps, in those terms.
LEMMA CreateStep ==
    ASSUME TypeInv, NEW buf \in Buffers, NEW size \in BlockSizes,
           br_pool_create(buf, size)
    PROVE  /\ size # 0 /\ Len(pools) < MaxPools
           /\ \A h \in Handles : asked[h].buf # buf
           /\ buf.size \div NewSize(size) # 0
           /\ NewPool(buf, size) \in Pool
           /\ pools' = Append(pools, NewPool(buf, size))
           /\ asked' = Append(asked, [buf |-> buf, size |-> size])
           /\ word' = Threaded(NewPool(buf, size))
           /\ held' = held
<1>1. /\ buf.size \div NewSize(size) # 0
      /\ pools' = Append(pools, NewPool(buf, size))
      /\ word' = Threaded(NewPool(buf, size))
  BY DEF br_pool_create, NewSize, NewPool
<1> QED BY <1>1, NewPoolType DEF br_pool_create, PoolLeft

LEMMA AllocStep ==
    ASSUME TypeInv, NEW h \in Handles, br_pool_alloc(h)
    PROVE  \E b \in Addresses :
              /\ b = pools[h].free_head
              /\ Updated(pools, h, word[b], pools[h].used + 1, pools')
              /\ word' = [a \in Addresses |->
                    IF a >= b /\ a < b + pools[h].block_size THEN NULL ELSE word[a]]
              /\ held' = held \cup {b}
              /\ asked' = asked
<1>1. pools[h].free_head \in Addresses
  BY TypeFacts DEF Pool, Pointers, br_pool_alloc
<1> QED BY <1>1, TypeFacts DEF br_pool_alloc, Handles, Updated

Returned(used) == IF used > 0 THEN used - 1 ELSE used

LEMMA FreeStep ==
    ASSUME TypeInv, NEW h \in Handles, NEW b \in Addresses, br_pool_free(h, b)
    PROVE  /\ b \in held \/ Careless
           /\ InPool(pools[h], b)
           /\ word' = [word EXCEPT ![b] = pools[h].free_head]
           /\ Updated(pools, h, b, Returned(pools[h].used), pools')
           /\ held' = held \ {b}
           /\ asked' = asked
BY TypeFacts DEF br_pool_free, Handles, Updated, Returned

\* Every step keeps the types, whatever the application gives back.
LEMMA InitTypes == Init => TypeInv
<1>1. \A S : <<>> \in Seq(S) /\ Len(<<>>) = 0
  OBVIOUS
<1> QED BY <1>1, PoolAssumption DEF Init, TypeInv, PoolTypeOK, Pointers

LEMMA NextTypes == TypeInv /\ [Next]_vars => TypeInv'
<1> SUFFICES ASSUME TypeInv, [Next]_vars PROVE TypeInv'
  OBVIOUS
<1> USE TypeFacts
<1>1. ASSUME NEW buf \in Buffers, NEW size \in BlockSizes,
             br_pool_create(buf, size)
      PROVE  TypeInv'
  <2> DEFINE pool == NewPool(buf, size)
  <2>1. /\ pool \in Pool /\ Len(pools) < MaxPools
        /\ pools' = Append(pools, pool)
        /\ asked' = Append(asked, [buf |-> buf, size |-> size])
        /\ word' = Threaded(pool) /\ held' = held
    BY <1>1, CreateStep
  <2>2. \A a \in Addresses : a \in Blocks(pool) /\ a # pool.buffer =>
           a - pool.block_size \in Addresses
    <3>1. /\ pool.buffer \in Nat /\ pool.block_size \in Nat /\ pool.total \in Nat
      BY <2>1 DEF Pool
    <3>2. ASSUME NEW a \in Addresses, NEW i \in 0 .. pool.total - 1,
                 a = Block(pool, i), a # pool.buffer
          PROVE  a - pool.block_size \in Addresses
      <4> HIDE DEF pool
      <4>1. i \in Nat /\ i # 0
        BY <3>1, <3>2 DEF Block
      <4>2. i * pool.block_size - pool.block_size = (i - 1) * pool.block_size
            /\ (i - 1) * pool.block_size \in Nat
        BY <3>1, <4>1
      <4>3. a - pool.block_size \in Nat /\ a - pool.block_size <= a
        BY <3>1, <3>2, <4>1, <4>2 DEF Block
      <4> QED BY <3>1, <4>3, PoolAssumption DEF Addresses
    <3> QED BY <3>2 DEF Blocks
  <2> HIDE DEF pool
  <2>3. word' \in [Addresses -> Pointers]
    BY <2>1, <2>2 DEF Threaded, Pointers
  <2>4. pools' \in Seq(Pool) /\ Len(pools') = Len(pools) + 1
    BY <2>1
  <2>5. asked' \in Seq([buf : Buffers, size : BlockSizes])
        /\ Len(asked') = Len(asked) + 1
    BY <2>1 DEF TypeInv, PoolTypeOK
  <2>6. Len(pools) \in Nat /\ MaxPools \in Nat
    BY PoolAssumption
  <2> QED BY <2>1, <2>3, <2>4, <2>5, <2>6 DEF TypeInv, PoolTypeOK, Pool
<1>2. ASSUME NEW h \in Handles, br_pool_alloc(h)
      PROVE  TypeInv'
  <2>1. PICK b \in Addresses :
          /\ Updated(pools, h, word[b], pools[h].used + 1, pools')
          /\ word' = [a \in Addresses |->
                IF a >= b /\ a < b + pools[h].block_size THEN NULL ELSE word[a]]
          /\ held' = held \cup {b}
          /\ asked' = asked
    BY <1>2, AllocStep
  <2>2. word[b] \in Pointers /\ pools[h].used + 1 \in Nat /\ h \in 1 .. Len(pools)
    BY DEF Pool, Handles
  <2>3. pools' \in Seq(Pool) /\ Len(pools') = Len(pools)
    <3>1. pools \in Seq(Pool)
      OBVIOUS
    <3> QED BY <2>1, <2>2, <3>1, PoolUpdate
  <2>4. word' \in [Addresses -> Pointers]
    BY <2>1 DEF Pointers
  <2> QED BY <2>1, <2>3, <2>4 DEF TypeInv, PoolTypeOK, Pool
<1>3. ASSUME NEW h \in Handles, NEW b \in Addresses, br_pool_free(h, b)
      PROVE  TypeInv'
  <2> DEFINE u == Returned(pools[h].used)
  <2>1. /\ word' = [word EXCEPT ![b] = pools[h].free_head]
        /\ Updated(pools, h, b, u, pools')
        /\ held' = held \ {b} /\ asked' = asked
    BY <1>3, FreeStep
  <2>2. u \in Nat /\ b \in Pointers /\ h \in 1 .. Len(pools)
        /\ pools[h].free_head \in Pointers
    BY DEF Pool, Handles, Pointers, Returned
  <2> HIDE DEF u
  <2>3. pools' \in Seq(Pool) /\ Len(pools') = Len(pools)
    <3>1. pools \in Seq(Pool)
      OBVIOUS
    <3> QED BY <2>1, <2>2, <3>1, PoolUpdate
  <2> QED BY <2>1, <2>2, <2>3 DEF TypeInv, PoolTypeOK, Pool
<1>4. ASSUME NEW b \in Addresses, NEW value \in Values, Use(b, value)
      PROVE  TypeInv'
  BY <1>4, PoolAssumption DEF Use, TypeInv, PoolTypeOK
<1>5. CASE UNCHANGED vars
  BY <1>5 DEF vars, TypeInv, PoolTypeOK
<1> QED BY <1>1, <1>2, <1>3, <1>4, <1>5 DEF Next

\* A pool's fields, the memory and the history have the values of their
\* types, whatever blocks the application frees and writes.
THEOREM TypeCorrect == Spec => []PoolTypeOK
<1>1. Spec => []TypeInv
  BY InitTypes, NextTypes, PTL DEF Spec
<1>2. TypeInv => PoolTypeOK
  BY DEF TypeInv
<1> QED BY <1>1, <1>2, PTL

-------------------------------------------------------------------------------
(* Where the blocks are. *)

\* Every pool is cut out of a buffer of its own.
Layout ==
    /\ \A h \in Handles : CutFrom(pools[h], asked[h])
    /\ \A g, h \in Handles : asked[g].buf = asked[h].buf => g = h

\* What is cut out of different buffers lies apart,
LEMMA BuffersApart ==
    ASSUME NEW p \in Pool, NEW q \in Pool, NEW a, NEW e, a.buf \in Buffers,
           e.buf \in Buffers, a.buf # e.buf, CutFrom(p, a), CutFrom(q, e),
           NEW b \in Blocks(p), NEW c \in Blocks(q)
    PROVE  b + p.block_size <= c \/ c + q.block_size <= b
<1>1. PICK i \in 0 .. p.total - 1 : b = Block(p, i)
  BY DEF Blocks
<1>2. PICK j \in 0 .. q.total - 1 : c = Block(q, j)
  BY DEF Blocks
<1>3. /\ p.block_size \in Nat /\ p.total \in Nat
      /\ q.block_size \in Nat /\ q.total \in Nat
  BY DEF Pool
<1>4. /\ a.buf.start <= b /\ b \in Addresses
      /\ b + p.block_size <= a.buf.start + a.buf.size
  BY <1>1, <1>3, BlockPlace
<1>5. /\ e.buf.start <= c /\ c \in Addresses
      /\ c + q.block_size <= e.buf.start + e.buf.size
  BY <1>2, <1>3, BlockPlace
<1>6. \/ a.buf.start + a.buf.size <= e.buf.start
      \/ e.buf.start + e.buf.size <= a.buf.start
  BY PoolAssumption
<1>7. /\ a.buf.start \in Nat /\ a.buf.size \in Nat
      /\ e.buf.start \in Nat /\ e.buf.size \in Nat
  BY BufferType
<1> QED BY <1>3, <1>4, <1>5, <1>6, <1>7 DEF Addresses

\* and so do all blocks of all pools, with their bytes.
LEMMA BlocksDisjoint ==
    ASSUME TypeInv, Layout, NEW g \in Handles, NEW h \in Handles,
           NEW b \in Blocks(pools[g]), NEW c \in Blocks(pools[h]),
           <<g, b>> # <<h, c>>
    PROVE  \/ b + pools[g].block_size <= c
           \/ c + pools[h].block_size <= b
<1>1. PICK i \in 0 .. pools[g].total - 1 : b = Block(pools[g], i)
  BY DEF Blocks
<1>2. PICK j \in 0 .. pools[h].total - 1 : c = Block(pools[h], j)
  BY DEF Blocks
<1>3. pools[g] \in Pool /\ pools[h] \in Pool
      /\ asked[g].buf \in Buffers /\ asked[h].buf \in Buffers
  BY TypeFacts
<1>4. /\ pools[g].block_size \in Nat /\ pools[g].total \in Nat
      /\ pools[h].block_size \in Nat /\ pools[h].total \in Nat
      /\ pools[g].buffer \in Nat
  BY <1>3 DEF Pool
<1>5. CASE g = h
  <2>1. i # j /\ i \in Nat /\ j \in Nat
    BY <1>1, <1>2, <1>4, <1>5
  <2> DEFINE s == pools[g].block_size
  <2>2. b = pools[g].buffer + i * s /\ c = pools[g].buffer + j * s
    BY <1>1, <1>2, <1>5 DEF Block
  <2>3. s \in Nat
    BY <1>4
  <2> HIDE DEF s
  <2>4. i * s + s <= j * s \/ j * s + s <= i * s
    BY <2>1, <2>3
  <2>5. b + s <= c \/ c + s <= b
    BY <1>4, <2>1, <2>2, <2>3, <2>4
  <2> QED BY <1>5, <2>5 DEF s
<1>6. CASE g # h
  <2>1. /\ asked[g].buf # asked[h].buf /\ CutFrom(pools[g], asked[g])
        /\ CutFrom(pools[h], asked[h])
    BY <1>6 DEF Layout
  <2> QED BY <1>3, <2>1, BuffersApart
<1> QED BY <1>5, <1>6

\* A pool's blocks are those its fields make.
LEMMA BlocksOf ==
    ASSUME NEW p, NEW q, q.buffer = p.buffer, q.block_size = p.block_size,
           q.total = p.total
    PROVE  Blocks(q) = Blocks(p)
BY DEF Blocks, Block

LEMMA BlocksInMemory ==
    ASSUME TypeInv, Layout, NEW h \in Handles
    PROVE  Blocks(pools[h]) \subseteq Addresses
<1>1. /\ asked[h].buf \in Buffers /\ CutFrom(pools[h], asked[h])
      /\ pools[h].block_size \in Nat /\ pools[h].total \in Nat
  BY TypeFacts DEF Layout, Pool
<1> QED BY <1>1, BlockPlace DEF Blocks

LEMMA InitLayout == Init => Layout
<1>1. Len(<<>>) = 0
  OBVIOUS
<1> QED BY <1>1 DEF Init, Layout, Handles

\* The old pools stay as they are, and the new one has the next handle.
LEMMA Appended ==
    ASSUME NEW S, NEW s \in Seq(S), NEW e \in S, NEW r, r = Append(s, e)
    PROVE  /\ 1 .. Len(r) = (1 .. Len(s)) \cup {Len(s) + 1}
           /\ Len(s) + 1 \notin 1 .. Len(s)
           /\ r[Len(s) + 1] = e
           /\ \A i \in 1 .. Len(s) : r[i] = s[i]
OBVIOUS

LEMMA CreateAdds ==
    ASSUME TypeInv, NEW buf \in Buffers, NEW size \in BlockSizes,
           br_pool_create(buf, size), NEW n, n = Len(pools) + 1
    PROVE  /\ Handles' = Handles \cup {n} /\ n \notin Handles
           /\ pools'[n] = NewPool(buf, size)
           /\ asked'[n] = [buf |-> buf, size |-> size]
           /\ \A h \in Handles : pools'[h] = pools[h] /\ asked'[h] = asked[h]
<1> DEFINE A == [buf : Buffers, size : BlockSizes]
           e == [buf |-> buf, size |-> size]
<1>1. /\ pools \in Seq(Pool) /\ asked \in Seq(A) /\ Len(asked) = Len(pools)
      /\ e \in A
  BY DEF TypeInv, PoolTypeOK, Pool
<1>2. /\ NewPool(buf, size) \in Pool
      /\ pools' = Append(pools, NewPool(buf, size)) /\ asked' = Append(asked, e)
  BY CreateStep
<1> HIDE DEF A, e
<1>3. /\ Handles' = Handles \cup {n} /\ n \notin Handles
      /\ pools'[n] = NewPool(buf, size)
      /\ \A h \in Handles : pools'[h] = pools[h]
  BY <1>1, <1>2, Appended DEF Handles
<1>4. asked'[n] = e /\ \A h \in Handles : asked'[h] = asked[h]
  BY <1>1, <1>2, Appended DEF Handles
<1> QED BY <1>3, <1>4 DEF e

\* A step that changes only free lists and counts keeps the blocks.
SameBlocks ==
    /\ Handles' = Handles /\ asked' = asked
    /\ \A h \in Handles : /\ pools'[h].buffer = pools[h].buffer
                          /\ pools'[h].total = pools[h].total
                          /\ pools'[h].block_size = pools[h].block_size

LEMMA AllocSameBlocks ==
    ASSUME TypeInv, NEW h \in Handles, br_pool_alloc(h)
    PROVE  SameBlocks
<1>1. PICK b \in Addresses :
         /\ Updated(pools, h, word[b], pools[h].used + 1, pools')
         /\ asked' = asked
  BY AllocStep
<1>2. /\ word[b] \in Pointers /\ pools[h].used + 1 \in Nat
      /\ h \in 1 .. Len(pools) /\ pools \in Seq(Pool)
  BY TypeFacts DEF Pool, Handles
<1> QED BY <1>1, <1>2, PoolUpdate DEF SameBlocks, Handles

LEMMA FreeSameBlocks ==
    ASSUME TypeInv, NEW h \in Handles, NEW b \in Addresses, br_pool_free(h, b)
    PROVE  SameBlocks
<1>1. /\ Updated(pools, h, b, Returned(pools[h].used), pools')
      /\ asked' = asked
  BY FreeStep
<1>2. /\ b \in Pointers /\ Returned(pools[h].used) \in Nat
      /\ h \in 1 .. Len(pools) /\ pools \in Seq(Pool)
  BY TypeFacts DEF Pool, Handles, Returned, Pointers
<1> QED BY <1>1, <1>2, PoolUpdate DEF SameBlocks, Handles

LEMMA NextLayout == TypeInv /\ Layout /\ [Next]_vars => Layout'
<1> SUFFICES ASSUME TypeInv, Layout, [Next]_vars PROVE Layout'
  OBVIOUS
<1>1. ASSUME NEW buf \in Buffers, NEW size \in BlockSizes,
             br_pool_create(buf, size)
      PROVE  Layout'
  <2> DEFINE n == Len(pools) + 1
  <2>1. /\ Handles' = Handles \cup {n} /\ n \notin Handles
        /\ pools'[n] = NewPool(buf, size)
        /\ asked'[n] = [buf |-> buf, size |-> size]
        /\ \A h \in Handles : pools'[h] = pools[h] /\ asked'[h] = asked[h]
    BY <1>1, CreateAdds
  <2>2. /\ \A h \in Handles : asked[h].buf # buf
        /\ buf.size \div NewSize(size) # 0
    BY <1>1, CreateStep
  <2> HIDE DEF n
  <2>3. asked'[n].buf = buf /\ asked'[n].size = size
    BY <2>1
  <2>4. CutFrom(pools'[n], asked'[n])
    BY <2>1, <2>2, <2>3, NewPoolCut
  <2>5. \A h \in Handles' : CutFrom(pools'[h], asked'[h])
    BY <2>1, <2>4 DEF Layout
  <2>6. \A g, h \in Handles' : asked'[g].buf = asked'[h].buf => g = h
    BY <2>1, <2>2, <2>3 DEF Layout
  <2> QED BY <2>5, <2>6 DEF Layout
<1>2. CASE SameBlocks
  BY <1>2 DEF SameBlocks, Layout, CutFrom
<1>3. CASE UNCHANGED <<pools, asked>>
  BY <1>3 DEF Layout, Handles
<1> QED BY <1>1, <1>2, <1>3, AllocSameBlocks, FreeSameBlocks
        DEF Next, Use, vars

\* Every block of every pool has the room that was asked for, within its
\* buffer and aligned, and shares no byte with another one, whatever the
\* application frees.
THEOREM Apart == Spec => []BlocksApart
<1>1. Spec => [](TypeInv /\ Layout)
  BY InitTypes, NextTypes, InitLayout, NextLayout, PTL DEF Spec
<1>2. TypeInv /\ Layout => BlocksApart
  <2> SUFFICES ASSUME TypeInv, Layout, NEW h \in Handles,
                      NEW b \in Blocks(pools[h])
               PROVE  /\ Bytes(h, b) \subseteq
                           asked[h].buf.start ..
                             asked[h].buf.start + asked[h].buf.size - 1
                      /\ (b - asked[h].buf.start) % PointerSize = 0
                      /\ \A g \in Handles : \A c \in Blocks(pools[g]) :
                           <<h, b>> # <<g, c>> => Bytes(h, b) \cap Bytes(g, c) = {}
    BY DEF BlocksApart
  <2>1. PointerSize \in Nat \ {0} /\ BlockSizes \subseteq Nat
    BY PoolAssumption
  <2>2. ASSUME NEW g \in Handles, NEW c \in Blocks(pools[g])
        PROVE  /\ Bytes(g, c) \subseteq c .. c + pools[g].block_size - 1
               /\ c \in Addresses
    <3>1. /\ c \in Addresses /\ pools[g].block_size \in Nat
          /\ CutFrom(pools[g], asked[g]) /\ asked[g].size \in Nat
      BY <2>1, BlocksInMemory, TypeFacts DEF Pool, Layout
    <3> QED BY <2>1, <3>1 DEF Bytes, CutFrom, Addresses
  <2>3. /\ asked[h].buf \in Buffers /\ CutFrom(pools[h], asked[h])
        /\ pools[h].block_size \in Nat /\ pools[h].total \in Nat
    BY TypeFacts DEF Layout, Pool
  <2>4. PICK i \in 0 .. pools[h].total - 1 : b = Block(pools[h], i)
    BY DEF Blocks
  <2>5. Bytes(h, b) \subseteq asked[h].buf.start ..
                                asked[h].buf.start + asked[h].buf.size - 1
    <3>1. /\ asked[h].buf.start <= b
          /\ b + pools[h].block_size <= asked[h].buf.start + asked[h].buf.size
      BY <2>3, <2>4, BlockPlace
    <3>2. asked[h].buf.start \in Nat /\ asked[h].buf.size \in Nat
      BY <2>3, BufferType
    <3> QED BY <2>2, <2>3, <3>1, <3>2 DEF Addresses
  <2>6. (b - asked[h].buf.start) % PointerSize = 0
    <3>1. PICK m \in Nat : pools[h].block_size = m * PointerSize
      BY <2>3 DEF CutFrom
    <3>2. b - asked[h].buf.start = i * (m * PointerSize)
      BY <2>3, <2>4, <3>1, BufferType DEF Block, CutFrom
    <3>3. i \in Nat
      BY <2>3
    <3>4. i * (m * PointerSize) = (i * m) * PointerSize /\ i * m \in Nat
      BY <2>1, <3>3
    <3>5. \A a \in Nat : (a * PointerSize) % PointerSize = 0
      BY <2>1
    <3> QED BY <3>2, <3>4, <3>5
  <2>7. ASSUME NEW g \in Handles, NEW c \in Blocks(pools[g]), <<h, b>> # <<g, c>>
        PROVE  Bytes(h, b) \cap Bytes(g, c) = {}
    <3>1. \/ b + pools[h].block_size <= c
          \/ c + pools[g].block_size <= b
      BY <2>7, BlocksDisjoint
    <3>2. pools[g].block_size \in Nat /\ pools[h].block_size \in Nat
      BY TypeFacts DEF Pool
    <3>3. b \in Addresses /\ c \in Addresses
      BY <2>2
    <3> QED BY <2>2, <3>1, <3>2, <3>3 DEF Addresses
  <2> QED BY <2>5, <2>6, <2>7
<1> QED BY <1>1, <1>2, PTL

-------------------------------------------------------------------------------
(* The free lists. *)

FreeOf(pool, taken) == Blocks(pool) \ taken

\* The list of a pool holds exactly its free blocks, and the pool counts them.
Chained(pool, memory, taken) ==
    L!Queue({1}, [i \in {1} |-> pool.free_head], memory, FreeOf(pool, taken))

Counted(pool, taken) ==
    pool.total - pool.used = Cardinality(FreeOf(pool, taken))

FreeInv ==
    /\ \A b \in held : \E h \in Handles : b \in Blocks(pools[h])
    /\ \A h \in Handles : Chained(pools[h], word, held) /\ Counted(pools[h], held)

\* A pool has as many blocks as its total says.
LEMMA BlocksCount ==
    ASSUME NEW pool, pool.buffer \in Nat, pool.total \in Nat,
           pool.block_size \in Nat \ {0}
    PROVE  /\ IsFiniteSet(Blocks(pool))
           /\ Cardinality(Blocks(pool)) = pool.total
<1> DEFINE I == 0 .. pool.total - 1
           f == [i \in I |-> Block(pool, i)]
<1>1. IsFiniteSet(I) /\ Cardinality(I) = pool.total
  <2>1. \A m \in Int : /\ IsFiniteSet(0 .. m)
                       /\ Cardinality(0 .. m) = IF 0 > m THEN 0 ELSE m - 0 + 1
    BY FS_Interval, 0 \in Int, Zenon
  <2>2. pool.total - 1 \in Int
    OBVIOUS
  <2>3. IsFiniteSet(I) /\ Cardinality(I) = IF 0 > pool.total - 1 THEN 0
                                            ELSE pool.total - 1 - 0 + 1
    BY <2>1, <2>2
  <2> HIDE DEF I
  <2> QED BY <2>3
<1>2. \A i, j \in I : Block(pool, i) = Block(pool, j) => i = j
  <2> SUFFICES ASSUME NEW i \in I, NEW j \in I, i # j
               PROVE  Block(pool, i) # Block(pool, j)
    OBVIOUS
  <2> DEFINE s == pool.block_size
  <2>1. i \in Nat /\ j \in Nat /\ s \in Nat \ {0}
    OBVIOUS
  <2> HIDE DEF s
  <2>2. i * s + s <= j * s \/ j * s + s <= i * s
    BY <2>1
  <2>3. i * s # j * s
    BY <2>1, <2>2
  <2>4. i * s \in Nat /\ j * s \in Nat
    BY <2>1
  <2> QED BY <2>3, <2>4 DEF Block, s
<1>3. f \in Bijection(I, Blocks(pool))
  BY <1>2 DEF Bijection, Injection, Surjection, IsInjective, Blocks
<1> HIDE DEF I, f
<1>4. ExistsBijection(I, Blocks(pool))
  BY <1>3 DEF ExistsBijection
<1> QED BY <1>1, <1>4, FS_Bijection

\* The loop of br_pool_create makes one list of all the blocks of the pool.
LEMMA ThreadedChained ==
    ASSUME NEW pool \in Pool, NEW a, a.buf \in Buffers, CutFrom(pool, a),
           pool.free_head = Block(pool, pool.total - 1)
    PROVE  Chained(pool, Threaded(pool), {})
<1> DEFINE s  == pool.block_size
           n  == pool.total
           B(i) == pool.buffer + i * s
           M  == Blocks(pool)
           nx == Threaded(pool)
           h  == [i \in {1} |-> pool.free_head]
<1>1. s \in Nat \ {0} /\ n \in Nat \ {0} /\ pool.buffer \in Nat
  BY DEF Pool, CutFrom
<1>2. \A b : b \in M <=> \E i \in 0 .. n - 1 : b = B(i)
  BY DEF Blocks, Block
<1>3. \A b \in M : b \in Addresses
  BY <1>1, BlockPlace DEF Blocks
<1>4. \A i \in 0 .. n - 1 : i \in Nat /\ B(i) \in Nat /\ B(i) # NULL
  BY <1>1, PoolAssumption
<1>5. \A i, j \in 0 .. n - 1 : B(i) = B(j) => i = j
  <2> SUFFICES ASSUME NEW i \in 0 .. n - 1, NEW j \in 0 .. n - 1, i # j
               PROVE  B(i) # B(j)
    OBVIOUS
  <2>1. i \in Nat /\ j \in Nat
    BY <1>1
  <2> HIDE DEF s, n
  <2>2. i * s + s <= j * s \/ j * s + s <= i * s
    BY <1>1, <2>1
  <2> QED BY <1>1, <2>1, <2>2
<1>6. B(0) = pool.buffer
  BY <1>1
<1>7. \A i \in 0 .. n - 1 : i # 0 => i - 1 \in 0 .. n - 1 /\ B(i) - s = B(i - 1)
  BY <1>1
<1>8. h[1] = B(n - 1) /\ n - 1 \in 0 .. n - 1
  BY <1>1 DEF Block
<1>9. \A b \in M : nx[b] = IF b = pool.buffer THEN NULL ELSE b - s
  BY <1>3 DEF Threaded
<1> HIDE DEF s, n, B, M, nx, h
<1>10. 0 \in 0 .. n - 1
  BY <1>1
<1>11. \A i \in 0 .. n - 1 : /\ B(i) \in M
                             /\ nx[B(i)] = IF i = 0 THEN NULL ELSE B(i - 1)
  BY <1>2, <1>5, <1>6, <1>7, <1>9, <1>10
<1>12. L!Within(M, h[1])
  BY <1>8, <1>11 DEF L!Within
<1>13. \A x \in M : L!Within(M, nx[x])
  BY <1>2, <1>7, <1>11 DEF L!Within
<1>14. \A x, y \in M : nx[x] = nx[y] => x = y \/ nx[x] = NULL
  <2> SUFFICES ASSUME NEW x \in M, NEW y \in M, nx[x] = nx[y], nx[x] # NULL
               PROVE  x = y
    OBVIOUS
  <2>1. PICK i \in 0 .. n - 1 : x = B(i)
    BY <1>2
  <2>2. PICK j \in 0 .. n - 1 : y = B(j)
    BY <1>2
  <2>3. i # 0 /\ j # 0 /\ B(i - 1) = B(j - 1)
    BY <1>11, <2>1, <2>2
  <2>4. i - 1 = j - 1
    BY <1>5, <1>7, <2>3
  <2>5. i = j
    BY <1>1, <2>4
  <2> QED BY <2>1, <2>2, <2>5
<1>15. \A x \in M : h[1] # nx[x]
  <2> SUFFICES ASSUME NEW x \in M, h[1] = nx[x] PROVE FALSE
    OBVIOUS
  <2>1. PICK i \in 0 .. n - 1 : x = B(i)
    BY <1>2
  <2>2. i # 0 /\ B(n - 1) = B(i - 1)
    BY <1>4, <1>8, <1>11, <2>1
  <2>3. n - 1 = i - 1
    BY <1>5, <1>7, <1>8, <2>2
  <2> QED BY <1>1, <2>3
<1>16. ASSUME NEW S \in SUBSET M, L!Within(S, h[1]),
              \A x \in S : L!Within(S, nx[x])
       PROVE  S = M
  <2> DEFINE G == {d \in Nat : d < n /\ B(n - 1 - d) \notin S}
  <2>1. CASE G = {}
    <3>1. \A i \in 0 .. n - 1 : B(i) \in S
      <4> SUFFICES ASSUME NEW i \in 0 .. n - 1 PROVE B(i) \in S
        OBVIOUS
      <4>1. n - 1 - i \in Nat /\ n - 1 - i < n /\ n - 1 - (n - 1 - i) = i
        BY <1>1
      <4> QED BY <2>1, <4>1
    <3> QED BY <1>2, <3>1
  <2>2. CASE G # {}
    <3>1. PICK d \in G : \A e \in G : d <= e
      <4>1. G \in SUBSET Nat
        OBVIOUS
      <4> HIDE DEF G
      <4> QED BY <2>2, <4>1, L!LeastNumber, FiniteMemory
    <3>2. h[1] \in S
      BY <1>4, <1>8, <1>16 DEF L!Within
    <3>3. d # 0
      BY <1>1, <1>8, <3>1, <3>2
    <3>4. d - 1 \in Nat /\ d - 1 \notin G /\ d - 1 < n
      BY <1>1, <3>1, <3>3
    <3>5. n - 1 - (d - 1) \in 0 .. n - 1 /\ n - 1 - (d - 1) # 0
          /\ n - 1 - (d - 1) - 1 = n - 1 - d /\ n - 1 - d \in 0 .. n - 1
      BY <1>1, <3>1, <3>3
    <3>6. B(n - 1 - (d - 1)) \in S
      BY <3>4
    <3>7. nx[B(n - 1 - (d - 1))] = B(n - 1 - d)
      BY <1>11, <3>5
    <3>8. B(n - 1 - d) \in S
      BY <1>4, <1>16, <3>5, <3>6, <3>7 DEF L!Within
    <3> QED BY <3>1, <3>8
  <2> QED BY <2>1, <2>2
<1>17. L!Queue({1}, h, nx, M)
  BY <1>12, <1>13, <1>14, <1>15, <1>16 DEF L!Queue
<1>18. FreeOf(pool, {}) = M
  BY DEF FreeOf, M
<1> QED BY <1>17, <1>18 DEF Chained, h, nx

\* A chain depends on the head of the list and the words of the free blocks.
LEMMA ChainFrame ==
    ASSUME NEW p, NEW q, NEW m, NEW n, NEW taken, NEW left,
           Chained(p, m, taken), q.free_head = p.free_head,
           FreeOf(q, left) = FreeOf(p, taken),
           \A x \in FreeOf(p, taken) : n[x] = m[x]
    PROVE  Chained(q, n, left)
BY L!QueueFrame, FiniteMemory DEF Chained

\* The first block of a chain is taken.
LEMMA ChainPop ==
    ASSUME NEW p, NEW q, NEW m \in [Addresses -> Pointers], NEW n,
           NEW taken, NEW left, NEW b \in Addresses,
           Chained(p, m, taken), FreeOf(p, taken) \subseteq Addresses,
           b = p.free_head, q.free_head = m[b],
           FreeOf(q, left) = FreeOf(p, taken) \ {b},
           \A x \in FreeOf(q, left) : n[x] = m[x]
    PROVE  b \in FreeOf(p, taken) /\ Chained(q, n, left)
<1> DEFINE M  == FreeOf(p, taken)
           hp == [i \in {1} |-> p.free_head]
           l  == L!Pop(L!ListOf(b, m))
           hh == [hp EXCEPT ![1] = l.head]
<1>1. m \in L!Links /\ b # NULL
  BY PoolAssumption DEF L!Links, Pointers, Addresses
<1>2. L!Popped({1}, hp, m, M, 1, b, l, hh, l.next, M \ {b})
  <2>1. hp \in [{1} -> Addresses \cup {NULL}]
    OBVIOUS
  <2>2. L!Queue({1}, hp, m, M)
    BY DEF Chained
  <2> QED BY <1>1, <2>1, <2>2 DEF L!Popped
<1>3. l.head = m[b] /\ l.next = [m EXCEPT ![b] = NULL]
  BY DEF L!Pop, L!ListOf
<1>4. hh = [i \in {1} |-> q.free_head]
  BY <1>3
<1> HIDE DEF M, hp, l, hh
<1>5. /\ b \in M /\ L!Queue({1}, hh, l.next, M \ {b})
  BY <1>2, L!PopQueue, FiniteMemory
<1>6. \A x \in M \ {b} : n[x] = l.next[x]
  BY <1>3 DEF M
<1>7. L!Queue({1}, hh, n, M \ {b})
  BY <1>5, <1>6, L!QueueFrame, FiniteMemory
<1> QED BY <1>4, <1>5, <1>7 DEF Chained, M

\* A block is put in front of a chain.
LEMMA ChainPush ==
    ASSUME NEW p, NEW q, NEW m \in [Addresses -> Pointers], NEW n,
           NEW taken, NEW left, NEW b \in Addresses,
           Chained(p, m, taken), FreeOf(p, taken) \subseteq Addresses,
           p.free_head \in Pointers, b \notin FreeOf(p, taken),
           q.free_head = b, n = [m EXCEPT ![b] = p.free_head],
           FreeOf(q, left) = FreeOf(p, taken) \cup {b}
    PROVE  Chained(q, n, left)
<1> DEFINE M  == FreeOf(p, taken)
           hp == [i \in {1} |-> p.free_head]
           l  == L!Insert(L!ListOf(hp[1], m), b, Addresses)
           hh == [hp EXCEPT ![1] = l.head]
<1>1. m \in L!Links /\ hp \in [{1} -> Addresses \cup {NULL}]
      /\ M \in SUBSET Addresses
  BY DEF L!Links, Pointers
<1>2. L!Inserted({1}, hp, m, M, 1, Addresses, b, l, hh, l.next, M \cup {b})
  <2>1. L!Queue({1}, hp, m, M)
    BY DEF Chained
  <2> QED BY <1>1, <2>1 DEF L!Inserted
<1>3. l.head = b /\ l.next = n
  <2> DEFINE l0 == L!ListOf(p.free_head, m)
  <2>1. /\ l0.head = p.free_head /\ l0.next = m
        /\ l0 = [head |-> p.free_head, next |-> m, halts |-> TRUE]
    BY DEF L!ListOf
  <2>2. L!StopCells(l0, Addresses) = {NULL}
    BY <2>1 DEF L!StopCells, L!Ends, Pointers
  <2>3. (CHOOSE x \in L!StopCells(l0, Addresses) : TRUE) = NULL
    BY <2>2
  <2>4. l = L!Store([l0 EXCEPT !.next[b] = L!Deref(l0, NULL)], NULL, b)
    BY <2>2, <2>3 DEF L!Insert
  <2> QED BY <2>1, <2>4 DEF L!Store, L!Deref
<1>4. hh = [i \in {1} |-> q.free_head]
  BY <1>3
<1> HIDE DEF M, hp, l, hh
<1>5. L!Queue({1}, hh, l.next, M \cup {b})
  BY <1>2, L!InsertQueue, FiniteMemory
<1> QED BY <1>3, <1>4, <1>5 DEF Chained, M

\* One free block fewer, or more.
LEMMA CountFewer ==
    ASSUME NEW S, NEW b \in S, IsFiniteSet(S)
    PROVE  Cardinality(S \ {b}) = Cardinality(S) - 1 /\ Cardinality(S) \in Nat
BY FS_RemoveElement, FS_CardinalityType

LEMMA CountMore ==
    ASSUME NEW S, NEW b, b \notin S, IsFiniteSet(S)
    PROVE  Cardinality(S \cup {b}) = Cardinality(S) + 1 /\ Cardinality(S) \in Nat
BY FS_AddElement, FS_CardinalityType

LEMMA FreeFinite ==
    ASSUME TypeInv, Layout, NEW h \in Handles
    PROVE  /\ IsFiniteSet(FreeOf(pools[h], held))
           /\ FreeOf(pools[h], held) \subseteq Addresses
           /\ Cardinality(FreeOf(pools[h], held)) <= pools[h].total
           /\ \A b \in Blocks(pools[h]) \cap held :
                 Cardinality(FreeOf(pools[h], held)) < pools[h].total
<1> DEFINE S == Blocks(pools[h])
           F == FreeOf(pools[h], held)
<1>1. /\ pools[h].buffer \in Nat /\ pools[h].total \in Nat
      /\ pools[h].block_size \in Nat \ {0}
  BY TypeFacts DEF Pool, Layout, CutFrom
<1>2. IsFiniteSet(S) /\ Cardinality(S) = pools[h].total
  BY <1>1, BlocksCount
<1>3. F \subseteq S /\ \A b \in S \cap held : F \subseteq S \ {b}
  BY DEF FreeOf
<1>4. S \subseteq Addresses
  BY BlocksInMemory
<1> HIDE DEF S, F
<1>5. IsFiniteSet(F) /\ Cardinality(F) <= Cardinality(S)
  BY <1>2, <1>3, FS_Subset
<1>6. ASSUME NEW b \in S \cap held
      PROVE  Cardinality(F) < Cardinality(S)
  <2>1. IsFiniteSet(S \ {b}) /\ Cardinality(S \ {b}) = Cardinality(S) - 1
        /\ Cardinality(S) \in Nat
    BY <1>2, CountFewer, FS_Subset
  <2>2. Cardinality(F) <= Cardinality(S \ {b}) /\ Cardinality(F) \in Nat
    BY <1>3, <1>5, <2>1, FS_Subset, FS_CardinalityType
  <2> QED BY <2>1, <2>2
<1> QED BY <1>2, <1>3, <1>4, <1>5, <1>6 DEF S, F

LEMMA InitFree == Init => FreeInv
<1>1. Len(<<>>) = 0
  OBVIOUS
<1> QED BY <1>1 DEF Init, FreeInv, Handles

\* A pool joins: its blocks are free, and those of the others untouched.
LEMMA CreateFree ==
    ASSUME TypeInv, Layout, FreeInv, Layout', NEW buf \in Buffers,
           NEW size \in BlockSizes, br_pool_create(buf, size)
    PROVE  FreeInv'
<1> DEFINE n == Len(pools) + 1
           pool == NewPool(buf, size)
           a == [buf |-> buf, size |-> size]
<1>1. /\ Handles' = Handles \cup {n} /\ n \notin Handles
      /\ pools'[n] = pool /\ asked'[n] = a
      /\ \A h \in Handles : pools'[h] = pools[h] /\ asked'[h] = asked[h]
  BY CreateAdds
<1>2. word' = Threaded(pool) /\ held' = held /\ pool \in Pool
  BY CreateStep
<1>3. a.buf \in Buffers /\ CutFrom(pool, a)
  BY <1>1 DEF Layout
<1>4. pool.free_head = Block(pool, pool.total - 1) /\ pool.used = 0
  <2>1. buf.size \div NewSize(size) # 0
    BY CreateStep
  <2> QED BY <2>1 DEF NewPool, Block, Pushed
<1>5. TypeInv'
  BY NextTypes DEF Next
<1> HIDE DEF n, pool, a
<1>6. ASSUME NEW h \in Handles, NEW b \in Blocks(pools[h])
      PROVE  b \notin Blocks(pool) /\ b \in Addresses
  <2>1. /\ a.buf # asked[h].buf /\ asked[h].buf \in Buffers /\ pools[h] \in Pool
        /\ CutFrom(pools[h], asked[h])
    BY <1>1, CreateStep, TypeFacts DEF Layout, a
  <2>2. b \in Addresses
    BY BlocksInMemory
  <2>3. b \in Blocks(pool) =>
           b + pool.block_size <= b \/ b + pools[h].block_size <= b
    BY <1>2, <1>3, <2>1, BuffersApart
  <2>4. /\ pool.block_size \in Nat /\ pool.block_size > 0
        /\ pools[h].block_size \in Nat /\ pools[h].block_size > 0
    BY <1>2, <1>3, <2>1 DEF Pool, CutFrom
  <2> QED BY <2>2, <2>3, <2>4 DEF Addresses
<1>7. \A h \in Handles : FreeOf(pools'[h], held') = FreeOf(pools[h], held)
  BY <1>1, <1>2
<1>8. \A h \in Handles : \A x \in FreeOf(pools[h], held) : word'[x] = word[x]
  BY <1>2, <1>6 DEF Threaded, FreeOf
<1>9. FreeOf(pool, held) = FreeOf(pool, {})
  BY <1>6 DEF FreeInv, FreeOf
<1>10. \A h \in Handles : Chained(pools'[h], word', held')
  BY <1>1, <1>7, <1>8, ChainFrame DEF FreeInv
<1>11. \A h \in Handles : Counted(pools'[h], held')
  BY <1>1, <1>7 DEF FreeInv, Counted
<1>12. Chained(pools'[n], word', held')
  <2>1. Chained(pool, Threaded(pool), {})
    BY <1>2, <1>3, <1>4, ThreadedChained
  <2> QED BY <1>1, <1>2, <1>9, <2>1 DEF Chained
<1>13. Counted(pools'[n], held')
  <2>1. /\ pool.buffer \in Nat /\ pool.total \in Nat
        /\ pool.block_size \in Nat \ {0}
    BY <1>2, <1>3 DEF Pool, CutFrom
  <2>2. FreeOf(pool, held) = Blocks(pool)
    BY <1>9 DEF FreeOf
  <2>3. Cardinality(Blocks(pool)) = pool.total
    BY <2>1, BlocksCount
  <2> QED BY <1>1, <1>2, <1>4, <2>1, <2>2, <2>3 DEF Counted
<1>14. \A b \in held' : \E h \in Handles' : b \in Blocks(pools'[h])
  BY <1>1, <1>2 DEF FreeInv
<1> QED BY <1>1, <1>10, <1>11, <1>12, <1>13, <1>14 DEF FreeInv

\* A pool's blocks and those of the others stay apart when one is taken.
LEMMA AllocFree ==
    ASSUME TypeInv, Layout, FreeInv, NEW h \in Handles, br_pool_alloc(h)
    PROVE  FreeInv'
<1>1. PICK b \in Addresses :
        /\ b = pools[h].free_head
        /\ Updated(pools, h, word[b], pools[h].used + 1, pools')
        /\ word' = [a \in Addresses |->
              IF a >= b /\ a < b + pools[h].block_size THEN NULL ELSE word[a]]
        /\ held' = held \cup {b}
        /\ asked' = asked
  BY AllocStep
<1>2. /\ word[b] \in Pointers /\ pools[h].used + 1 \in Nat
      /\ h \in 1 .. Len(pools) /\ pools \in Seq(Pool)
      /\ word \in [Addresses -> Pointers] /\ pools[h] \in Pool
  BY TypeFacts DEF Pool, Handles
<1>3. /\ pools'[h].free_head = word[b] /\ pools'[h].used = pools[h].used + 1
      /\ \A g \in Handles : g # h => pools'[g] = pools[g]
  BY <1>1, <1>2, PoolUpdate DEF Handles
<1>4. SameBlocks
  BY AllocSameBlocks
<1>5. \A g \in Handles : Blocks(pools'[g]) = Blocks(pools[g])
  BY <1>4, BlocksOf DEF SameBlocks
<1>6. /\ Chained(pools[h], word, held)
      /\ FreeOf(pools[h], held) \subseteq Addresses
  BY FreeFinite DEF FreeInv
<1>7. b \in FreeOf(pools[h], held)
  <2>1. b # NULL
    BY PoolAssumption DEF Addresses
  <2> QED BY <1>1, <1>6, <2>1 DEF Chained, L!Queue, L!Within
<1>8. FreeOf(pools'[h], held') = FreeOf(pools[h], held) \ {b}
  BY <1>1, <1>5 DEF FreeOf
<1>9. ASSUME NEW g \in Handles, g # h
      PROVE  FreeOf(pools'[g], held') = FreeOf(pools[g], held)
  <2>1. /\ pools[h].block_size > 0 /\ pools[h].block_size \in Nat
        /\ pools[g].block_size > 0 /\ pools[g].block_size \in Nat
    BY TypeFacts DEF Layout, CutFrom, Pool
  <2>2. b \in Blocks(pools[g]) =>
           b + pools[h].block_size <= b \/ b + pools[g].block_size <= b
    BY <1>7, <1>9, BlocksDisjoint DEF FreeOf
  <2>3. b \notin Blocks(pools[g])
    BY <2>1, <2>2 DEF Addresses
  <2> QED BY <1>1, <1>5, <2>3 DEF FreeOf
<1>10. ASSUME NEW g \in Handles, NEW x \in FreeOf(pools'[g], held')
       PROVE  word'[x] = word[x]
  <2>1. x \in Blocks(pools[g]) /\ x # b /\ b \in Blocks(pools[h])
    BY <1>1, <1>5, <1>7, <1>10 DEF FreeOf
  <2>2. x \in Addresses /\ pools[h].block_size \in Nat /\ pools[g].block_size \in Nat
        /\ pools[g].block_size > 0
    BY <2>1, BlocksInMemory, TypeFacts DEF Pool, Layout, CutFrom
  <2>3. \/ b + pools[h].block_size <= x
        \/ x + pools[g].block_size <= b
    BY <2>1, BlocksDisjoint
  <2>4. ~(x >= b /\ x < b + pools[h].block_size)
    BY <2>2, <2>3 DEF Addresses
  <2> QED BY <1>1, <2>2, <2>4
<1>11. Chained(pools'[h], word', held')
  <2> DEFINE p == pools[h]
             q == pools'[h]
             n == word'
             left == held'
  <2>1. /\ Chained(p, word, held) /\ FreeOf(p, held) \subseteq Addresses
        /\ b = p.free_head /\ q.free_head = word[b]
        /\ FreeOf(q, left) = FreeOf(p, held) \ {b}
        /\ \A x \in FreeOf(q, left) : n[x] = word[x]
    BY <1>1, <1>3, <1>6, <1>8, <1>10
  <2> HIDE DEF p, q, n, left
  <2>2. Chained(q, n, left)
    BY <1>2, <2>1, ChainPop
  <2> QED BY <2>2 DEF q, n, left
<1>12. Counted(pools'[h], held')
  <2>1. /\ Cardinality(FreeOf(pools[h], held) \ {b}) =
              Cardinality(FreeOf(pools[h], held)) - 1
        /\ Cardinality(FreeOf(pools[h], held)) \in Nat
    BY <1>7, CountFewer, FreeFinite
  <2>2. pools'[h].total = pools[h].total
    BY <1>4 DEF SameBlocks
  <2>3. pools[h].total - pools[h].used = Cardinality(FreeOf(pools[h], held))
    BY DEF FreeInv, Counted
  <2>4. pools[h].total \in Nat /\ pools[h].used \in Nat
    BY <1>2 DEF Pool
  <2> QED BY <1>3, <1>8, <2>1, <2>2, <2>3, <2>4 DEF Counted
<1>13. ASSUME NEW g \in Handles, g # h
       PROVE  Chained(pools'[g], word', held') /\ Counted(pools'[g], held')
  <2>1. Chained(pools[g], word, held) /\ Counted(pools[g], held)
    BY DEF FreeInv
  <2>2. pools'[g] = pools[g]
    BY <1>3, <1>13
  <2>3. FreeOf(pools'[g], held') = FreeOf(pools[g], held)
    BY <1>9, <1>13
  <2>4. \A x \in FreeOf(pools[g], held) : word'[x] = word[x]
    BY <1>10, <2>3
  <2>5. Chained(pools'[g], word', held')
    BY <2>1, <2>2, <2>3, <2>4, ChainFrame
  <2> QED BY <2>1, <2>2, <2>3, <2>5 DEF Counted
<1>14. \A x \in held' : \E g \in Handles' : x \in Blocks(pools'[g])
  BY <1>1, <1>4, <1>5, <1>7 DEF FreeInv, SameBlocks, FreeOf
<1>15. Handles' = Handles
  BY <1>4 DEF SameBlocks
<1> QED BY <1>11, <1>12, <1>13, <1>14, <1>15 DEF FreeInv

\* A block that lies in the memory of a pool, and is a block of some pool, is
\* one of that pool.
LEMMA InPoolBlock ==
    ASSUME TypeInv, Layout, NEW h \in Handles, NEW g \in Handles,
           NEW b \in Blocks(pools[g]), InPool(pools[h], b)
    PROVE  g = h
<1> SUFFICES ASSUME g # h PROVE FALSE
  OBVIOUS
<1>1. /\ pools[g] \in Pool /\ pools[h] \in Pool
      /\ asked[g].buf \in Buffers /\ asked[h].buf \in Buffers
      /\ CutFrom(pools[g], asked[g]) /\ CutFrom(pools[h], asked[h])
  BY TypeFacts DEF Layout
<1>2. PICK i \in 0 .. pools[g].total - 1 : b = Block(pools[g], i)
  BY DEF Blocks
<1>3. /\ pools[g].block_size \in Nat /\ pools[g].total \in Nat
      /\ pools[h].block_size \in Nat /\ pools[h].total \in Nat
  BY <1>1 DEF Pool
<1>4. /\ asked[g].buf.start <= b /\ b \in Addresses
      /\ b + pools[g].block_size <= asked[g].buf.start + asked[g].buf.size
  BY <1>1, <1>2, <1>3, BlockPlace
<1> DEFINE bytes == pools[h].total * pools[h].block_size
<1>5. bytes \in Nat /\ bytes <= asked[h].buf.size
  BY <1>1, <1>3 DEF CutFrom
<1>6. asked[h].buf.start <= b /\ b < asked[h].buf.start + bytes
  BY <1>1 DEF InPool, CutFrom
<1> HIDE DEF bytes
<1>7. \/ asked[g].buf.start + asked[g].buf.size <= asked[h].buf.start
      \/ asked[h].buf.start + asked[h].buf.size <= asked[g].buf.start
  BY <1>1, PoolAssumption DEF Layout
<1>8. /\ asked[g].buf.start \in Nat /\ asked[g].buf.size \in Nat
      /\ asked[h].buf.start \in Nat /\ asked[h].buf.size \in Nat
      /\ pools[g].block_size > 0
  BY <1>1, BufferType DEF CutFrom
<1> QED BY <1>3, <1>4, <1>5, <1>6, <1>7, <1>8 DEF Addresses

\* A block that is given back is one that was taken, of this pool.
LEMMA FreeFree ==
    ASSUME TypeInv, Layout, FreeInv, NEW h \in Handles, NEW b \in Addresses,
           b \in held, br_pool_free(h, b)
    PROVE  FreeInv'
<1>1. /\ InPool(pools[h], b)
      /\ word' = [word EXCEPT ![b] = pools[h].free_head]
      /\ Updated(pools, h, b, Returned(pools[h].used), pools')
      /\ held' = held \ {b}
      /\ asked' = asked
  BY FreeStep
<1>2. /\ b \in Pointers /\ Returned(pools[h].used) \in Nat
      /\ h \in 1 .. Len(pools) /\ pools \in Seq(Pool)
      /\ word \in [Addresses -> Pointers] /\ pools[h] \in Pool
      /\ pools[h].free_head \in Pointers
  BY TypeFacts DEF Pool, Handles, Returned, Pointers
<1>3. /\ pools'[h].free_head = b /\ pools'[h].used = Returned(pools[h].used)
      /\ \A g \in Handles : g # h => pools'[g] = pools[g]
  BY <1>1, <1>2, PoolUpdate DEF Handles
<1>4. SameBlocks
  BY FreeSameBlocks
<1>5. \A g \in Handles : Blocks(pools'[g]) = Blocks(pools[g])
  BY <1>4, BlocksOf DEF SameBlocks
<1>6. b \in Blocks(pools[h]) /\ \A g \in Handles : b \in Blocks(pools[g]) => g = h
  BY <1>1, InPoolBlock DEF FreeInv
<1>7. /\ b \notin FreeOf(pools[h], held)
      /\ FreeOf(pools'[h], held') = FreeOf(pools[h], held) \cup {b}
  BY <1>1, <1>5, <1>6 DEF FreeOf
<1>8. Chained(pools'[h], word', held')
  <2> DEFINE p == pools[h]
             q == pools'[h]
             n == word'
             left == held'
  <2>1. /\ Chained(p, word, held) /\ FreeOf(p, held) \subseteq Addresses
        /\ p.free_head \in Pointers /\ b \notin FreeOf(p, held)
        /\ q.free_head = b /\ n = [word EXCEPT ![b] = p.free_head]
        /\ FreeOf(q, left) = FreeOf(p, held) \cup {b}
    BY <1>1, <1>2, <1>3, <1>7, FreeFinite DEF FreeInv
  <2> HIDE DEF p, q, n, left
  <2>2. Chained(q, n, left)
    BY <1>2, <2>1, ChainPush
  <2> QED BY <2>2 DEF q, n, left
<1>9. Counted(pools'[h], held')
  <2>1. /\ Cardinality(FreeOf(pools[h], held) \cup {b}) =
              Cardinality(FreeOf(pools[h], held)) + 1
        /\ Cardinality(FreeOf(pools[h], held)) \in Nat
    BY <1>7, CountMore, FreeFinite
  <2>2. pools'[h].total = pools[h].total
    BY <1>4 DEF SameBlocks
  <2>3. pools[h].total - pools[h].used = Cardinality(FreeOf(pools[h], held))
    BY DEF FreeInv, Counted
  <2>4. Cardinality(FreeOf(pools[h], held)) < pools[h].total
    BY <1>6, FreeFinite
  <2>5. pools[h].total \in Nat /\ pools[h].used \in Nat
    BY <1>2 DEF Pool
  <2>6. Returned(pools[h].used) = pools[h].used - 1
    BY <2>1, <2>3, <2>4, <2>5 DEF Returned
  <2> QED BY <1>3, <1>7, <2>1, <2>2, <2>3, <2>5, <2>6 DEF Counted
<1>10. ASSUME NEW g \in Handles, g # h
       PROVE  Chained(pools'[g], word', held') /\ Counted(pools'[g], held')
  <2>1. Chained(pools[g], word, held) /\ Counted(pools[g], held)
    BY DEF FreeInv
  <2>2. pools'[g] = pools[g] /\ b \notin Blocks(pools[g])
    BY <1>3, <1>6, <1>10
  <2>3. FreeOf(pools'[g], held') = FreeOf(pools[g], held)
    BY <1>1, <2>2 DEF FreeOf
  <2>4. \A x \in FreeOf(pools[g], held) : word'[x] = word[x]
    BY <1>1, <1>2, <2>2 DEF FreeOf
  <2>5. Chained(pools'[g], word', held')
    BY <2>1, <2>2, <2>3, <2>4, ChainFrame
  <2> QED BY <2>1, <2>2, <2>3, <2>5 DEF Counted
<1>11. \A x \in held' : \E g \in Handles' : x \in Blocks(pools'[g])
  BY <1>1, <1>4, <1>5 DEF FreeInv, SameBlocks
<1>12. Handles' = Handles
  BY <1>4 DEF SameBlocks
<1> QED BY <1>8, <1>9, <1>10, <1>11, <1>12 DEF FreeInv

PoolInv == TypeInv /\ Layout /\ FreeInv

LEMMA NextFree == ASSUME PoolInv, [Next]_vars, ~Careless PROVE PoolInv'
<1> USE DEF PoolInv
<1>1. TypeInv' /\ Layout'
  BY NextTypes, NextLayout
<1>2. ASSUME NEW buf \in Buffers, NEW size \in BlockSizes,
             br_pool_create(buf, size)
      PROVE  FreeInv'
  BY <1>1, <1>2, CreateFree
<1>3. ASSUME NEW h \in Handles, br_pool_alloc(h)
      PROVE  FreeInv'
  BY <1>3, AllocFree
<1>4. ASSUME NEW h \in Handles, NEW b \in Addresses, br_pool_free(h, b)
      PROVE  FreeInv'
  BY <1>4, FreeStep, FreeFree
<1>5. ASSUME NEW b \in Addresses, NEW value \in Values, Use(b, value)
      PROVE  FreeInv'
  <2>1. /\ b \in held /\ word' = [word EXCEPT ![b] = value]
        /\ pools' = pools /\ held' = held
    BY <1>5 DEF Use
  <2>2. ASSUME NEW h \in Handles
        PROVE  Chained(pools[h], word', held)
    <3>1. \A x \in FreeOf(pools[h], held) : word'[x] = word[x]
      BY <2>1, FreeFinite, TypeFacts DEF FreeOf
    <3> QED BY <3>1, ChainFrame DEF FreeInv
  <2> QED BY <2>1, <2>2 DEF FreeInv, Handles
<1>6. CASE UNCHANGED vars
  <2>1. FreeInv'
    BY <1>6 DEF vars, FreeInv, Handles
  <2> QED BY <1>1, <2>1
<1> QED BY <1>1, <1>2, <1>3, <1>4, <1>5, <1>6 DEF Next

\* The walk of the model is the walk of BrListProofs.
LEMMA SameWalk ==
    \A f, m, Stop : /\ List!Visited(f, m, Stop) = L!Visited(f, m, Stop)
                    /\ List!StopCells(List!ListOf(f, m), Stop) =
                         L!StopCells(L!ListOf(f, m), Stop)
BY DEF List!Visited, L!Visited, List!ClosedSets, L!ClosedSets, List!Ends, L!Ends,
       List!StopCells, L!StopCells, List!ListOf, L!ListOf

\* On a well-formed list the walk visits the members.
LEMMA VisitsMembers ==
    ASSUME NEW hd, NEW m \in L!Links, NEW F \in SUBSET Addresses,
           L!Queue({1}, hd, m, F)
    PROVE  L!Visited(hd[1], m, {}) = F
<1>1. PICK I : I = {1}
  OBVIOUS
<1>2. L!Queue(I, hd, m, F)
  BY <1>1
<1>3. \A x : x \in F <=> \E i \in I : x \in L!Visited(hd[i], m, {})
  BY <1>2, L!VisitedQueue, FiniteMemory
<1> QED BY <1>1, <1>3

LEMMA PoolInvExact == ASSUME PoolInv PROVE FreeListExact
<1> USE DEF PoolInv
<1> SUFFICES ASSUME NEW h \in Handles
             PROVE  /\ List!StopCells(List!ListOf(pools[h].free_head, word), {}) # {}
                    /\ FreeBlocks(pools[h]) = Blocks(pools[h]) \ held
                    /\ br_pool_available(pools[h]) =
                         Cardinality(FreeBlocks(pools[h]))
  BY DEF FreeListExact
<1> DEFINE hd == [i \in {1} |-> pools[h].free_head]
           F  == FreeOf(pools[h], held)
<1>1. /\ L!Queue({1}, hd, word, F) /\ word \in L!Links /\ F \in SUBSET Addresses
      /\ hd[1] = pools[h].free_head
  BY FreeFinite, TypeFacts DEF FreeInv, Chained, L!Links, Pointers
<1> HIDE DEF hd, F
<1>2. L!StopCells(L!ListOf(hd[1], word), {}) # {}
  BY <1>1, L!WalkStops, FiniteMemory
<1>4. L!Visited(hd[1], word, {}) = F
  BY <1>1, VisitsMembers
<1>5. FreeBlocks(pools[h]) = F
  BY <1>1, <1>4, SameWalk DEF FreeBlocks
<1>6. br_pool_available(pools[h]) = Cardinality(F)
  BY DEF br_pool_available, FreeInv, Counted, F
<1> QED BY <1>1, <1>2, <1>5, <1>6, SameWalk DEF F, FreeOf

\* As long as the application frees only what it holds, the free list of
\* every pool ends, holds exactly the blocks nobody has, and
\* br_pool_available counts them, whatever it writes to its blocks.
THEOREM FreeExact == ~Careless => (Spec => []FreeListExact)
<1> SUFFICES ASSUME ~Careless PROVE Spec => []FreeListExact
  OBVIOUS
<1>1. Init => PoolInv
  BY InitTypes, InitLayout, InitFree DEF PoolInv
<1>2. PoolInv /\ [Next]_vars => PoolInv'
  BY NextFree
<1>3. PoolInv => FreeListExact
  BY PoolInvExact
<1> QED BY <1>1, <1>2, <1>3, PTL DEF Spec
===============================================================================
