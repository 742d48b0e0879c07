----------------------------- MODULE RawCaches ------------------------------
(***************************************************************************)
(* The raw caches of the connections (proxy/cache.cpp, include/cache.h),   *)
(* which share one memory pool.  A cache has a block of the pool while it  *)
(* holds data; the data lie anywhere in the block.                         *)
(*                                                                         *)
(* The memory of the blocks in use is modelled byte by byte.  What nobody  *)
(* may rely on, a byte that was never written or was skipped, is Junk.     *)
(***************************************************************************)
EXTENDS MemPool

CONSTANTS Caches,    \* the _r and _w of the connections
          MarkMod,   \* how many marks the bytes carry
          Chunks,    \* bound: how many bytes are appended at a time
          Skips,     \* bound: how many bytes are skipped at a time
          MaxLen     \* bound: the bytes in a cache

Junk == MarkMod

VARIABLES pool,     \* *_webMp
          mem,      \* mem[c]: _mem, a block with its size, or NoBlock
          head,     \* _data_head
          len,      \* _data_len
          bytes,    \* bytes[b]: what is in block b, for the blocks in use
          dead      \* append has thrown, and nobody catches it

cacheVars == <<pool, mem, head, len, bytes, dead>>

ASSUME CacheAssumption ==
    /\ MarkMod \in Nat \ {0}
    /\ Chunks \subseteq Nat \ {0} /\ Skips \subseteq Nat \ {0}
    /\ MaxLen \in Nat
    /\ MaxLen < MinBlock * 2^TopExponent

CachesInit ==
    /\ pool = EmptyPool
    /\ mem = [c \in Caches |-> NoBlock]
    /\ head = [c \in Caches |-> 0]
    /\ len = [c \in Caches |-> 0]
    /\ bytes = <<>>
    /\ dead = FALSE

-----------------------------------------------------------------------------
Used(m) == {m[c] : c \in Caches} \ {NoBlock}
Blank(b) == [i \in 0..(SizeOf(b) - 1) |-> Junk]

(* What data() and data_len() show of cache c. *)
Content(c) ==
    [k \in 1..len[c] |-> LET i == head[c] + k - 1
                         IN  IF i \in 0..(SizeOf(mem[c]) - 1) THEN bytes[mem[c]][i] ELSE Junk]

Queues == INSTANCE ByteQueues WITH queue <- [c \in Caches |-> Content(c)]

(* memcpy and memmove into the memory m of a block. *)
Copy(m, at, data) ==
    [i \in DOMAIN m |-> IF i \in at..(at + Len(data) - 1) THEN data[i - at + 1] ELSE m[i]]

(* Only the n bytes from `from' on still count. *)
Keep(m, from, n) ==
    [i \in DOMAIN m |-> IF i \in from..(from + n - 1) THEN m[i] ELSE Junk]

(* Cache c now has block b with the n bytes from `at' on, and memory m.    *)
Holds(c, b, at, n, m) ==
    /\ mem' = [mem EXCEPT ![c] = b]
    /\ head' = [head EXCEPT ![c] = at]
    /\ len' = [len EXCEPT ![c] = n]
    /\ bytes' = [x \in Used(mem') |-> IF x = b THEN m ELSE bytes[x]]
    /\ UNCHANGED dead

MayAppend(c, n) == ~dead /\ len[c] + n <= MaxLen

AppendFails(p) ==
    /\ p.block = NoBlock
    /\ pool' = p.pool
    /\ dead' = TRUE
    /\ UNCHANGED <<mem, head, len, bytes>>

(* append to a cache without a block *)
AppendFirst(c, n) ==
    /\ MayAppend(c, n) /\ mem[c] = NoBlock
    /\ LET p == Allocate(pool, n)
       IN  \/ AppendFails(p)
           \/ /\ p.block # NoBlock
              /\ pool' = p.pool
              /\ Holds(c, p.block, 0, n, Copy(Blank(p.block), 0, Queues!Stream(<<>>, n)))

(* Mutant: the room is taken to be one byte more than it is. *)
FitsByOneMore(c, n) == n + head[c] + len[c] <= SizeOf(mem[c]) + 1

Fits(c, n) == n + head[c] + len[c] <= SizeOf(mem[c])

(* append, where there is room behind the data *)
AppendInPlace(c, n) ==
    /\ MayAppend(c, n) /\ mem[c] # NoBlock
    /\ Fits(c, n)
    /\ Holds(c, mem[c], head[c], len[c] + n,
             Copy(bytes[mem[c]], head[c] + len[c], Queues!Stream(Content(c), n)))
    /\ UNCHANGED pool

(* append, where the block is too small: a new one, then recycle the old   *)
AppendRealloc(c, n) ==
    /\ MayAppend(c, n) /\ mem[c] # NoBlock
    /\ n + len[c] > SizeOf(mem[c])
    /\ LET p == Allocate(pool, n + len[c])
           data == Content(c) \o Queues!Stream(Content(c), n)
       IN  \/ AppendFails(p)
           \/ /\ p.block # NoBlock
              /\ pool' = Recycle(p.pool, mem[c])
              /\ Holds(c, p.block, 0, len[c] + n, Copy(Blank(p.block), 0, data))

(* Mutant: the data are moved, but _data_head is not set to 0. *)
AppendMoveKeepsHead(c, n) ==
    /\ MayAppend(c, n) /\ mem[c] # NoBlock
    /\ ~Fits(c, n) /\ n + len[c] <= SizeOf(mem[c])
    /\ LET moved == Copy(bytes[mem[c]], 0, Content(c))
       IN  Holds(c, mem[c], head[c], len[c] + n,
                 Copy(moved, len[c], Queues!Stream(Content(c), n)))
    /\ UNCHANGED pool

(* append, where the room is in front of the data: they are moved there    *)
AppendMove(c, n) ==
    /\ MayAppend(c, n) /\ mem[c] # NoBlock
    /\ ~Fits(c, n) /\ n + len[c] <= SizeOf(mem[c])
    /\ LET moved == Copy(bytes[mem[c]], 0, Content(c))
       IN  Holds(c, mem[c], 0, len[c] + n,
                 Keep(Copy(moved, len[c], Queues!Stream(Content(c), n)), 0, len[c] + n))
    /\ UNCHANGED pool

(* skip of a part *)
Skip(c, n) ==
    /\ ~dead /\ mem[c] # NoBlock /\ n < len[c]
    /\ Holds(c, mem[c], head[c] + n, len[c] - n,
             Keep(bytes[mem[c]], head[c] + n, len[c] - n))
    /\ UNCHANGED pool

(* skip of everything: also what ~CClientUnit does *)
SkipAll(c) ==
    /\ ~dead /\ mem[c] # NoBlock
    /\ pool' = Recycle(pool, mem[c])
    /\ Holds(c, NoBlock, 0, 0, <<>>)

CachesNext ==
    \E c \in Caches :
       \/ \E n \in Chunks : AppendFirst(c, n) \/ AppendInPlace(c, n)
                              \/ AppendRealloc(c, n) \/ AppendMove(c, n)
       \/ \E n \in Skips : Skip(c, n)
       \/ SkipAll(c)

CachesSpec == CachesInit /\ [][CachesNext]_cacheVars

-----------------------------------------------------------------------------
CachesTypeOK ==
    /\ pool.free \in [Sizes -> Seq(Blocks)]
    /\ pool.stub \in [Sizes -> SUBSET Blocks]
    /\ mem \in [Caches -> Blocks \cup {NoBlock}]
    /\ head \in [Caches -> Nat] /\ len \in [Caches -> 0..MaxLen]
    /\ \A c \in Caches : mem[c] # NoBlock => len[c] > 0 /\ head[c] + len[c] <= SizeOf(mem[c])
    /\ \A c \in Caches : mem[c] = NoBlock => len[c] = 0
    /\ DOMAIN bytes = Used(mem)
    /\ \A b \in DOMAIN bytes : bytes[b] \in [0..(SizeOf(b) - 1) -> 0..MarkMod]
    /\ dead \in BOOLEAN

(* Every block of the pool is used by one cache or once in its free list:  *)
(* none is lost, none given out twice, none freed while it is used         *)
(* (allocate, recycle, extend, release over any sequence of calls).        *)
BlocksAreKeptOnce ==
    \A s \in Sizes :
       /\ IsInjective(pool.free[s])
       /\ ToSet(pool.free[s]) \cap Used(mem) = {}
       /\ ToSet(pool.free[s]) \cup {b \in Used(mem) : SizeOf(b) = s} = pool.stub[s]
       /\ \A c, d \in Caches : mem[c] = mem[d] /\ c # d => mem[c] = NoBlock

(* _allocated_size is what the blocks take, and never above the limit:     *)
(* purging gives back as much as extend then takes.                        *)
PoolIsBounded ==
    /\ pool.allocated = BytesOf([s \in Sizes |-> Cardinality(pool.stub[s])])
    /\ pool.allocated <= MaxPool

(* The caches are queues of bytes, whichever way append finds its room and *)
(* whatever blocks the pool gives, takes back and releases meanwhile.      *)
ImplementsByteQueues == Queues!ByteQueuesSpec
=============================================================================
