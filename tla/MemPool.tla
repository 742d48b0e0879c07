------------------------------ MODULE MemPool -------------------------------
(***************************************************************************)
(* The server's memory pool (proxy/mempool.cpp, include/mempool.h).  For   *)
(* each block size, a power of two, it keeps the set of its blocks, _stub, *)
(* and the list of those that nobody uses, _free.  It takes blocks from    *)
(* the heap several at a time, gives half of the free ones back when they  *)
(* are many, and has at most C_MAX_POOL_SIZE bytes, for which it releases  *)
(* free blocks of other sizes.                                             *)
(*                                                                         *)
(* A pool is a value here, [free, stub, allocated], and its functions map  *)
(* pools to pools: each is called within one step of the server.  A size   *)
(* that was never asked for is one without blocks.  A block is named by    *)
(* its size and a number.                                                  *)
(***************************************************************************)
EXTENDS Integers, Sequences, FiniteSets, SequencesExt, FiniteSetsExt

CONSTANTS MinBlock,      \* 1024
          TopExponent,   \* the largest size is MinBlock * 2^TopExponent
          ExtendSet,     \* C_EXTEND_SET
          Slot1,         \* C_SLOT_1
          Slot2,         \* C_SLOT_2
          MaxPool,       \* C_MAX_POOL_SIZE
          MaxWaterMark   \* C_MAX_WATER_MARK

AllocCapacity == 2 * Slot2

Sizes == {MinBlock * 2^i : i \in 0..TopExponent}

ASSUME PoolAssumption ==
    /\ MinBlock \in Nat \ {0} /\ TopExponent \in Nat /\ ExtendSet \in Nat \ {0}
    /\ Slot1 \in Sizes /\ Slot2 \in Sizes /\ Slot1 < Slot2
    /\ MaxWaterMark \in Nat /\ MaxPool \in Nat
    /\ AllocCapacity < MaxWaterMark /\ MaxWaterMark < MaxPool
    /\ Sizes \subseteq Nat \ {0}

NoBlock == <<0, 0>>
SizeOf(b) == b[1]
BlocksOf(s) == {s} \X (Nat \ {0})
Blocks == Sizes \X (Nat \ {0})

EmptyPool == [free |-> [s \in Sizes |-> <<>>],
              stub |-> [s \in Sizes |-> {}],
              allocated |-> 0]

-----------------------------------------------------------------------------
(* fit_block_size: the least size that is greater than n. *)
FitBlockSize(n) == CHOOSE s \in Sizes : s > n /\ \A t \in Sizes : t > n => s <= t

FitExtendSet(s) ==
    IF s < Slot1 THEN ExtendSet ELSE IF s < Slot2 THEN AllocCapacity \div s ELSE 1

(* release_size(block_size, free_count, stub_count): how many to release.  *)
ToRelease(s, free, stub, waterMark) ==
    IF free * s < Slot1 THEN 0
    ELSE IF s > Slot2 THEN (IF free > 1 THEN free \div 2 ELSE free)
    ELSE IF free >= stub \div 2 \/ free * s >= waterMark THEN free \div 2
    ELSE 0

(* What release(size, ...) finds to do, with the water mark of the moment. *)
Todo(p, s, waterMark) == ToRelease(s, Len(p.free[s]), Cardinality(p.stub[s]), waterMark)

(* The bytes of k[s] blocks of each size s. *)
BytesOf(k) == MapThenSumSet(LAMBDA s : s * k[s], Sizes)

(* The first k[s] blocks of each free list go back to the heap. *)
GiveBack(p, k) ==
    [free |-> [s \in Sizes |-> SubSeq(p.free[s], k[s] + 1, Len(p.free[s]))],
     stub |-> [s \in Sizes |-> p.stub[s] \ ToSet(SubSeq(p.free[s], 1, k[s]))],
     allocated |-> p.allocated - BytesOf(k)]

(* Mutant: the released blocks are taken from the wrong end of the list.   *)
ReleaseBack(p, s, waterMark) ==
    LET n == Todo(p, s, waterMark)
    IN  [p EXCEPT !.free[s] = SubSeq(@, 1, Len(@) - n),
                  !.stub[s] = @ \ ToSet(SubSeq(p.free[s], 1, n)),
                  !.allocated = @ - n * s]

Release(p, s, waterMark) ==
    GiveBack(p, [t \in Sizes |-> IF t = s THEN Todo(p, s, waterMark) ELSE 0])

(* The sizes at which release_size(mem_size), going down from the largest, *)
(* finds that the blocks it has released so far are not yet enough.        *)
Purged(p, need) ==
    {s \in Sizes :
        /\ 2 * s >= Slot1
        /\ MapThenSumSet(LAMBDA t : t * Todo(p, t, AllocCapacity), {t \in Sizes : t > s}) < need}

Purge(p, need) ==
    GiveBack(p, [s \in Sizes |-> IF s \in Purged(p, need) THEN Todo(p, s, AllocCapacity) ELSE 0])

(* What new returns, n times: addresses that nobody has. *)
NewBlocks(p, s, n) ==
    LET unused == {m \in 1..(Cardinality(p.stub[s]) + n) : <<s, m>> \notin p.stub[s]}
    IN  CHOOSE q \in [1..n -> {s} \X unused] : IsInjective(q)

(* The pool in which `need' more bytes may be allocated, as far as that    *)
(* can be had.                                                             *)
Room(p, need) ==
    IF p.allocated + need >= MaxPool THEN Purge(p, p.allocated + need - MaxPool) ELSE p

(* extend: n blocks of size s come to the front of the free list. *)
Added(p, s, n) ==
    LET new == NewBlocks(p, s, n)
    IN  [free |-> [p.free EXCEPT ![s] = new \o @],
         stub |-> [p.stub EXCEPT ![s] = @ \cup ToSet(new)],
         allocated |-> p.allocated + s * n]

(* Mutant: the result of release_size is not looked at. *)
ExtendAnyway(p, s) ==
    LET n == FitExtendSet(s) IN Added(Room(p, s * n), s, n)

(* extend, extend_new_size *)
Extend(p, s) ==
    LET n == FitExtendSet(s)
        q == Room(p, s * n)
    IN  IF q.allocated + s * n > MaxPool THEN q ELSE Added(q, s, n)

(* The pool with another free list of size s: push_front, pop_front. *)
WithFree(p, s, list) ==
    [free |-> [p.free EXCEPT ![s] = list], stub |-> p.stub, allocated |-> p.allocated]

(* allocate: NoBlock is NULL. *)
Allocate(p, n) ==
    LET s == FitBlockSize(n)
        q == IF p.free[s] = <<>> THEN Extend(p, s) ELSE p
    IN  IF q.free[s] = <<>> THEN [pool |-> q, block |-> NoBlock]
        ELSE [pool |-> WithFree(q, s, Tail(q.free[s])), block |-> Head(q.free[s])]

(* recycle: a block that is not of the pool is left alone. *)
Recycle(p, b) ==
    IF b \notin p.stub[SizeOf(b)] THEN p
    ELSE Release(WithFree(p, SizeOf(b), <<b>> \o p.free[SizeOf(b)]), SizeOf(b), MaxWaterMark)
=============================================================================
