--------------------------- MODULE RawCachesProofs --------------------------
(***************************************************************************)
(* Proofs about the raw caches and the memory pool they share, for any     *)
(* block sizes, limits and numbers of caches: every block of the pool is   *)
(* used by one cache or free once, and the caches are queues of bytes.     *)
(***************************************************************************)
EXTENDS RawCaches, TLAPS, FiniteSetTheorems, SequenceTheorems, WellFoundedInduction

-----------------------------------------------------------------------------
(* Lists without repetition: cut at the front, put together, and the head  *)
(* taken off.                                                              *)
LEMMA CutList ==
    ASSUME NEW S, NEW f \in Seq(S), IsInjective(f), NEW n \in 0..Len(f)
    PROVE  LET g == SubSeq(f, n + 1, Len(f)) IN
           /\ g \in Seq(S) /\ IsInjective(g)
           /\ ToSet(g) = ToSet(f) \ ToSet(SubSeq(f, 1, n))
<1> DEFINE g == SubSeq(f, n + 1, Len(f))
           h == SubSeq(f, 1, n)
<1>1. /\ g \in Seq(S) /\ DOMAIN g = 1..(Len(f) - n) /\ DOMAIN f = 1..Len(f) /\ DOMAIN h = 1..n
      /\ \A k \in 1..(Len(f) - n) : g[k] = f[n + k]
      /\ \A k \in 1..n : h[k] = f[k]
  OBVIOUS
<1> HIDE DEF g, h
<1>2. IsInjective(g)
  <2>1. SUFFICES ASSUME NEW k \in DOMAIN g, NEW l \in DOMAIN g, g[k] = g[l]
                 PROVE  k = l
    BY DEF IsInjective
  <2>2. n + k \in DOMAIN f /\ n + l \in DOMAIN f /\ f[n + k] = f[n + l]
    BY <1>1, <2>1
  <2>3. n + k = n + l
    BY <2>2 DEF IsInjective
  <2> QED
    BY <1>1, <2>3
<1>3. ASSUME NEW x \in ToSet(g)
      PROVE  x \in ToSet(f) /\ x \notin ToSet(h)
  <2>1. PICK k \in 1..(Len(f) - n) : x = f[n + k]
    BY <1>1, <1>3 DEF ToSet
  <2>2. n + k \in DOMAIN f
    BY <1>1
  <2>3. ASSUME NEW l \in 1..n, x = f[l]
        PROVE  FALSE
    <3>1. l \in DOMAIN f /\ l # n + k
      BY <1>1
    <3> QED
      BY <2>1, <2>2, <2>3, <3>1 DEF IsInjective
  <2>4. x \in ToSet(f)
    BY <2>1, <2>2 DEF ToSet
  <2>5. x \notin ToSet(h)
    BY <1>1, <2>3 DEF ToSet
  <2> QED
    BY <2>4, <2>5
<1>4. ASSUME NEW x \in ToSet(f), x \notin ToSet(h)
      PROVE  x \in ToSet(g)
  <2>1. PICK k \in DOMAIN f : x = f[k]
    BY DEF ToSet
  <2>2. k \notin 1..n
    BY <1>1, <1>4, <2>1 DEF ToSet
  <2>3. k - n \in 1..(Len(f) - n) /\ n + (k - n) = k
    BY <1>1, <2>2
  <2>4. g[k - n] = x
    BY <1>1, <2>1, <2>3
  <2> QED
    BY <1>1, <2>3, <2>4 DEF ToSet
<1> QED
  BY <1>1, <1>2, <1>3, <1>4 DEF g, h

LEMMA JoinLists ==
    ASSUME NEW S, NEW f \in Seq(S), NEW g \in Seq(S), IsInjective(f), IsInjective(g),
           ToSet(f) \cap ToSet(g) = {}
    PROVE  /\ f \o g \in Seq(S) /\ IsInjective(f \o g)
           /\ ToSet(f \o g) = ToSet(f) \cup ToSet(g)
<1> DEFINE h == f \o g
<1>1. /\ h \in Seq(S) /\ DOMAIN h = 1..(Len(f) + Len(g))
      /\ DOMAIN f = 1..Len(f) /\ DOMAIN g = 1..Len(g) /\ Len(f) \in Nat /\ Len(g) \in Nat
      /\ \A k \in 1..Len(f) : h[k] = f[k]
      /\ \A k \in 1..Len(g) : h[Len(f) + k] = g[k]
  OBVIOUS
<1> HIDE DEF h
<1>2. ASSUME NEW k \in DOMAIN h
      PROVE  \/ k \in DOMAIN f /\ h[k] = f[k]
             \/ k - Len(f) \in DOMAIN g /\ h[k] = g[k - Len(f)]
  <2>1. CASE k <= Len(f)
    BY <1>1, <2>1
  <2>2. CASE k > Len(f)
    <3>1. k - Len(f) \in 1..Len(g) /\ Len(f) + (k - Len(f)) = k
      BY <1>1, <2>2
    <3> QED
      BY <1>1, <3>1
  <2> QED
    BY <1>1, <2>1, <2>2
<1>3. \A k \in DOMAIN f, l \in DOMAIN g : f[k] # g[l]
  BY DEF ToSet
<1>4. IsInjective(h)
  <2>1. SUFFICES ASSUME NEW k \in DOMAIN h, NEW l \in DOMAIN h, h[k] = h[l]
                 PROVE  k = l
    BY DEF IsInjective
  <2>2. CASE k - Len(f) \in DOMAIN g /\ l - Len(f) \in DOMAIN g /\ g[k - Len(f)] = g[l - Len(f)]
    <3>1. k - Len(f) = l - Len(f)
      BY <2>2 DEF IsInjective
    <3> QED
      BY <1>1, <3>1
  <2>3. CASE k \in DOMAIN f /\ l \in DOMAIN f /\ f[k] = f[l]
    BY <2>3 DEF IsInjective
  <2> QED
    BY <1>2, <1>3, <2>1, <2>2, <2>3
<1>5. ToSet(h) = ToSet(f) \cup ToSet(g)
  <2>1. ASSUME NEW k \in DOMAIN f
        PROVE  f[k] \in ToSet(h)
    BY <1>1 DEF ToSet
  <2>2. ASSUME NEW k \in DOMAIN g
        PROVE  g[k] \in ToSet(h)
    <3>1. Len(f) + k \in DOMAIN h /\ h[Len(f) + k] = g[k]
      BY <1>1
    <3> QED
      BY <3>1 DEF ToSet
  <2>3. \A x \in ToSet(h) : x \in ToSet(f) \cup ToSet(g)
    BY <1>2 DEF ToSet
  <2> QED
    BY <2>1, <2>2, <2>3 DEF ToSet
<1> QED
  BY <1>1, <1>4, <1>5 DEF h

LEMMA TailOfList ==
    ASSUME NEW S, NEW f \in Seq(S), IsInjective(f), f # <<>>
    PROVE  /\ Head(f) \in S /\ Head(f) \in ToSet(f)
           /\ Tail(f) \in Seq(S) /\ IsInjective(Tail(f))
           /\ ToSet(Tail(f)) = ToSet(f) \ {Head(f)}
<1>1. 1 \in 0..Len(f) /\ Tail(f) = SubSeq(f, 1 + 1, Len(f))
  OBVIOUS
<1>2. DOMAIN SubSeq(f, 1, 1) = {1} /\ SubSeq(f, 1, 1)[1] = Head(f)
  OBVIOUS
<1>3. 1 \in DOMAIN f /\ Head(f) = f[1] /\ f[1] \in S
  OBVIOUS
<1>4. ToSet(SubSeq(f, 1, 1)) = {Head(f)} /\ Head(f) \in ToSet(f)
  BY <1>2, <1>3 DEF ToSet
<1>5. LET g == SubSeq(f, 1 + 1, Len(f)) IN
      g \in Seq(S) /\ IsInjective(g) /\ ToSet(g) = ToSet(f) \ ToSet(SubSeq(f, 1, 1))
  BY <1>1, CutList
<1> QED
  BY <1>1, <1>3, <1>4, <1>5

-----------------------------------------------------------------------------
(* What the pool keeps when the blocks U are in use: of each size, the     *)
(* free blocks and those in use are its blocks, and no free one is listed  *)
(* twice.                                                                  *)
Keeps(p, U, s) ==
    /\ p.free[s] \in Seq(Blocks) /\ IsInjective(p.free[s])
    /\ p.stub[s] \in SUBSET BlocksOf(s) /\ IsFiniteSet(p.stub[s])
    /\ ToSet(p.free[s]) \cap U = {}
    /\ ToSet(p.free[s]) \cup {b \in U : SizeOf(b) = s} = p.stub[s]

PoolOK(p, U) ==
    /\ p.free \in [Sizes -> Seq(Blocks)] /\ p.stub \in [Sizes -> SUBSET Blocks]
    /\ \A s \in Sizes : Keeps(p, U, s)

(* release_size never asks for more than the list has. *)
LEMMA ToReleaseBound ==
    ASSUME NEW s, NEW free \in Nat, NEW stub, NEW waterMark
    PROVE  ToRelease(s, free, stub, waterMark) \in 0..free
<1>1. free \div 2 \in 0..free
  OBVIOUS
<1> QED
  BY <1>1 DEF ToRelease

LEMMA GiveBackKeeps ==
    ASSUME NEW p, NEW U, PoolOK(p, U), NEW k, \A s \in Sizes : k[s] \in 0..Len(p.free[s])
    PROVE  PoolOK(GiveBack(p, k), U)
<1> DEFINE q == GiveBack(p, k)
<1>1. ASSUME NEW s \in Sizes
      PROVE  Keeps(q, U, s) /\ q.free[s] \in Seq(Blocks) /\ q.stub[s] \in SUBSET Blocks
  <2>1. /\ q.free[s] = SubSeq(p.free[s], k[s] + 1, Len(p.free[s]))
        /\ q.stub[s] = p.stub[s] \ ToSet(SubSeq(p.free[s], 1, k[s]))
    BY DEF GiveBack
  <2>2. Keeps(p, U, s) /\ p.stub[s] \in SUBSET Blocks
    BY DEF PoolOK
  <2>3. /\ q.free[s] \in Seq(Blocks) /\ IsInjective(q.free[s])
        /\ ToSet(q.free[s]) = ToSet(p.free[s]) \ ToSet(SubSeq(p.free[s], 1, k[s]))
    BY <2>1, <2>2, CutList DEF Keeps
  <2>4. ToSet(SubSeq(p.free[s], 1, k[s])) \subseteq ToSet(p.free[s])
    <3>1. p.free[s] \in Seq(Blocks) /\ k[s] \in 0..Len(p.free[s])
      BY <2>2 DEF Keeps
    <3>2. \A i \in 1..k[s] : i \in DOMAIN p.free[s] /\ SubSeq(p.free[s], 1, k[s])[i] = p.free[s][i]
      BY <3>1
    <3>3. DOMAIN SubSeq(p.free[s], 1, k[s]) = 1..k[s]
      BY <3>1
    <3> QED
      BY <3>2, <3>3 DEF ToSet
  <2>5. IsFiniteSet(q.stub[s])
    BY <2>1, <2>2, FS_Subset DEF Keeps
  <2> HIDE DEF q
  <2> QED
    BY <2>1, <2>2, <2>3, <2>4, <2>5 DEF Keeps
<1>2. q.free \in [Sizes -> Seq(Blocks)] /\ q.stub \in [Sizes -> SUBSET Blocks]
  <2>1. DOMAIN q.free = Sizes /\ DOMAIN q.stub = Sizes
    BY DEF GiveBack
  <2>2. q.free = [s \in Sizes |-> q.free[s]] /\ q.stub = [s \in Sizes |-> q.stub[s]]
    BY <2>1 DEF GiveBack
  <2> HIDE DEF q
  <2> QED
    BY <1>1, <2>2
<1> QED
  BY <1>1, <1>2 DEF PoolOK

LEMMA ReleaseKeeps ==
    ASSUME NEW p, NEW U, PoolOK(p, U), NEW s \in Sizes, NEW waterMark
    PROVE  PoolOK(Release(p, s, waterMark), U)
<1>1. \A t \in Sizes : Len(p.free[t]) \in Nat
  BY DEF PoolOK
<1>2. \A t \in Sizes : (IF t = s THEN Todo(p, s, waterMark) ELSE 0) \in 0..Len(p.free[t])
  BY <1>1, ToReleaseBound DEF Todo
<1> QED
  BY <1>2, GiveBackKeeps DEF Release

LEMMA RoomKeeps ==
    ASSUME NEW p, NEW U, PoolOK(p, U), NEW need
    PROVE  PoolOK(Room(p, need), U)
<1>1. ASSUME NEW n
      PROVE  PoolOK(Purge(p, n), U)
  <2>1. \A t \in Sizes : Len(p.free[t]) \in Nat
    BY DEF PoolOK
  <2>2. \A t \in Sizes : (IF t \in Purged(p, n) THEN Todo(p, t, AllocCapacity) ELSE 0)
                            \in 0..Len(p.free[t])
    BY <2>1, ToReleaseBound DEF Todo
  <2> QED
    BY <2>2, GiveBackKeeps DEF Purge
<1> QED
  BY <1>1 DEF Room

-----------------------------------------------------------------------------
(* There are as many new addresses as are wanted. *)
LEMMA NewBlocksAreNew ==
    ASSUME NEW p, NEW s, NEW n \in Nat, IsFiniteSet(p.stub[s])
    PROVE  LET new == NewBlocks(p, s, n) IN
           /\ new \in Seq(BlocksOf(s)) /\ IsInjective(new) /\ Len(new) = n
           /\ ToSet(new) \cap p.stub[s] = {}
<1> DEFINE all == 1..(Cardinality(p.stub[s]) + n)
           used == {m \in all : <<s, m>> \in p.stub[s]}
           unused == {m \in all : <<s, m>> \notin p.stub[s]}
           Good(q) == q \in [1..n -> {s} \X unused] /\ IsInjective(q)
<1>1. PICK c \in Nat : c = Cardinality(p.stub[s])
  BY FS_CardinalityType
<1>2. IsFiniteSet(all) /\ Cardinality(all) = c + n
  <2>1. all = 1..(c + n) /\ c + n \in Nat
    BY <1>1
  <2> HIDE DEF all
  <2>2. IsFiniteSet(all) /\ Cardinality(all) = IF 1 > c + n THEN 0 ELSE (c + n) - 1 + 1
    BY <2>1, FS_Interval
  <2> QED
    BY <2>1, <2>2
<1>3. [m \in used |-> <<s, m>>] \in Injection(used, p.stub[s])
  BY DEF Injection, IsInjective
<1>4. unused = all \ used /\ all \cap used = used /\ unused \subseteq Nat \ {0}
  OBVIOUS
<1> HIDE DEF all, used, unused
<1>5. PICK u \in Nat : u = Cardinality(used) /\ u <= c
  <2>1. IsFiniteSet(used) /\ Cardinality(used) <= Cardinality(p.stub[s])
    BY <1>3, FS_Injection
  <2> QED
    BY <1>1, <2>1, FS_CardinalityType
<1>6. PICK v \in Nat : v = Cardinality(unused) /\ n <= v /\ ExistsBijection(1..v, unused)
  <2>1. IsFiniteSet(unused) /\ Cardinality(unused) = (c + n) - u
    BY <1>2, <1>4, <1>5, FS_Difference
  <2>2. (c + n) - u \in Nat /\ n <= (c + n) - u
    BY <1>5
  <2> QED
    BY <2>1, <2>2, FS_CardinalityType
<1>7. PICK g : g \in Bijection(1..v, unused)
  BY <1>6 DEF ExistsBijection
<1>8. g \in [1..v -> unused] /\ IsInjective(g) /\ 1..n \subseteq 1..v
  BY <1>6, <1>7 DEF Bijection, Injection
<1>9. Good([k \in 1..n |-> <<s, g[k]>>])
  <2>1. [k \in 1..n |-> <<s, g[k]>>] \in [1..n -> {s} \X unused]
    BY <1>8
  <2>2. \A k, l \in 1..n : <<s, g[k]>> = <<s, g[l]>> => k = l
    BY <1>8 DEF IsInjective
  <2> QED
    BY <2>1, <2>2 DEF IsInjective
<1>10. PICK new : new = NewBlocks(p, s, n)
  OBVIOUS
<1>11. new = CHOOSE q \in [1..n -> {s} \X unused] : IsInjective(q)
  BY <1>10 DEF NewBlocks, unused, all
<1>12. Good(new)
  BY <1>9, <1>11
<1>13. new \in Seq(BlocksOf(s)) /\ Len(new) = n
  BY <1>4, <1>12 DEF BlocksOf
<1>14. ToSet(new) \cap p.stub[s] = {}
  <2>1. ASSUME NEW k \in 1..n
        PROVE  new[k] \notin p.stub[s]
    <3>1. PICK m \in unused : new[k] = <<s, m>>
      BY <1>12
    <3> QED
      BY <3>1 DEF unused
  <2> QED
    BY <1>12, <2>1 DEF ToSet
<1> QED
  BY <1>10, <1>12, <1>13, <1>14

LEMMA ExtendSetType ==
    ASSUME NEW s \in Sizes
    PROVE  FitExtendSet(s) \in Nat
<1>1. s \in Nat \ {0} /\ ExtendSet \in Nat /\ AllocCapacity \in Nat
  BY PoolAssumption DEF AllocCapacity
<1>2. AllocCapacity \div s \in Nat
  BY <1>1
<1> QED
  BY <1>1, <1>2 DEF FitExtendSet

LEMMA AddedKeeps ==
    ASSUME NEW p, NEW U \in SUBSET Blocks, PoolOK(p, U), NEW s \in Sizes, NEW n \in Nat
    PROVE  PoolOK(Added(p, s, n), U)
<1>1. PICK new : new = NewBlocks(p, s, n)
  OBVIOUS
<1>2. Keeps(p, U, s)
  BY DEF PoolOK
<1>3. new \in Seq(BlocksOf(s)) /\ IsInjective(new) /\ ToSet(new) \cap p.stub[s] = {}
  BY <1>1, <1>2, NewBlocksAreNew DEF Keeps
<1>4. PICK q : q = Added(p, s, n)
  OBVIOUS
<1>5. /\ q.free = [p.free EXCEPT ![s] = new \o p.free[s]]
      /\ q.stub = [p.stub EXCEPT ![s] = p.stub[s] \cup ToSet(new)]
  BY <1>1, <1>4 DEF Added
<1>6. new \in Seq(Blocks) /\ ToSet(new) \subseteq BlocksOf(s) /\ BlocksOf(s) \subseteq Blocks
      /\ DOMAIN new = 1..Len(new)
  BY <1>3 DEF BlocksOf, Blocks, ToSet
<1>7. ToSet(new) \cap ToSet(p.free[s]) = {}
  BY <1>2, <1>3 DEF Keeps
<1>8. /\ new \o p.free[s] \in Seq(Blocks) /\ IsInjective(new \o p.free[s])
      /\ ToSet(new \o p.free[s]) = ToSet(new) \cup ToSet(p.free[s])
  BY <1>2, <1>3, <1>6, <1>7, JoinLists DEF Keeps
<1>9. IsFiniteSet(ToSet(new))
  <2>1. new \in Surjection(1..Len(new), ToSet(new))
    BY <1>6 DEF Surjection, ToSet
  <2>2. IsFiniteSet(1..Len(new))
    BY <1>3, FS_Interval
  <2> QED
    BY <2>1, <2>2, FS_Surjection
<1>10. ToSet(new) \cap U = {}
  <2>1. ASSUME NEW b \in ToSet(new), b \in U
        PROVE  FALSE
    <3>1. SizeOf(b) = s
      BY <1>6, <2>1 DEF BlocksOf, SizeOf
    <3> QED
      BY <1>2, <1>3, <2>1, <3>1 DEF Keeps
  <2> QED
    BY <2>1
<1>11. Keeps(q, U, s)
  <2>1. q.free[s] = new \o p.free[s] /\ q.stub[s] = p.stub[s] \cup ToSet(new)
    BY <1>5 DEF PoolOK
  <2>2. IsFiniteSet(q.stub[s])
    <3>1. IsFiniteSet(p.stub[s])
      BY <1>2 DEF Keeps
    <3>2. IsFiniteSet(p.stub[s] \cup ToSet(new))
      BY <1>9, <3>1, FS_Union
    <3> QED
      BY <2>1, <3>2
  <2> QED
    BY <1>2, <1>6, <1>8, <1>10, <2>1, <2>2 DEF Keeps
<1>12. \A t \in Sizes \ {s} : Keeps(q, U, t)
  BY <1>5 DEF PoolOK, Keeps
<1>13. q.free \in [Sizes -> Seq(Blocks)] /\ q.stub \in [Sizes -> SUBSET Blocks]
  BY <1>5, <1>6, <1>8 DEF PoolOK
<1> QED
  BY <1>4, <1>11, <1>12, <1>13 DEF PoolOK

LEMMA ExtendKeeps ==
    ASSUME NEW p, NEW U \in SUBSET Blocks, PoolOK(p, U), NEW s \in Sizes
    PROVE  PoolOK(Extend(p, s), U)
  BY RoomKeeps, AddedKeeps, ExtendSetType DEF Extend

-----------------------------------------------------------------------------
(* A set of numbers has a least one. *)
LEMMA LeastOf ==
    ASSUME NEW T \in SUBSET Nat, T # {}
    PROVE  \E x \in T : \A y \in T : x <= y
<1>1. IsWellFoundedOn(OpToRel(<, Nat), Nat)
  BY NatLessThanWellFounded
<1>2. PICK x \in T : \A y \in T : ~(<<y, x>> \in OpToRel(<, Nat))
  BY <1>1, WFMin
<1>3. \A y \in T : ~(y < x)
  BY <1>2 DEF OpToRel
<1> QED
  BY <1>3

-----------------------------------------------------------------------------
(* Sums over a finite set, as the folds of the model compute them: an      *)
(* element is taken, the rest is summed.                                   *)
Taken(s) == CHOOSE x \in s : TRUE

(* The sum of F over a set s, given those over smaller sets. *)
SumStep(F, g, s) == IF s = {} THEN 0 ELSE F[Taken(s)] + g[s \ {Taken(s)}]

IsSum(F, S, g) == g = [s \in SUBSET S |-> SumStep(F, g, s)]

LEMMA TakenOf ==
    ASSUME NEW s, s # {}
    PROVE  Taken(s) \in s
  BY DEF Taken

LEMMA SumExists ==
    ASSUME NEW S, IsFiniteSet(S), NEW F
    PROVE  \E g : IsSum(F, S, g)
<1> DEFINE Small(n) == {s \in SUBSET S : Cardinality(s) <= n}
           PartSum(n, g) == g = [s \in Small(n) |-> SumStep(F, g, s)]
           Missing == {n \in Nat : ~\E g : PartSum(n, g)}
<1>1. \A s \in SUBSET S : IsFiniteSet(s) /\ Cardinality(s) \in Nat
  BY FS_Subset, FS_CardinalityType
<1>2. ASSUME NEW n \in Nat, NEW s \in Small(n), s # {}
      PROVE  n - 1 \in Nat /\ s \ {Taken(s)} \in Small(n - 1)
  <2>1. Cardinality(s \ {Taken(s)}) = Cardinality(s) - 1
    BY <1>1, <1>2, TakenOf, FS_RemoveElement
  <2>2. s \ {Taken(s)} \in SUBSET S
    OBVIOUS
  <2>3. Cardinality(s \ {Taken(s)}) \in Nat
    BY <1>1, <2>2
  <2> QED
    BY <1>1, <2>1, <2>2, <2>3
<1>3. Missing = {}
  <2>1. SUFFICES ASSUME Missing # {}
                 PROVE  FALSE
    OBVIOUS
  <2>2. PICK n \in Missing : \A k \in Missing : n <= k
    BY <2>1, LeastOf
  <2>3. CASE n = 0
    <3>1. ASSUME NEW s \in Small(0), s # {}
          PROVE  FALSE
      <4>1. 0 - 1 \in Nat
        BY <1>2, <3>1
      <4> QED
        BY <4>1
    <3>2. PartSum(0, [s \in Small(0) |-> 0])
      BY <3>1 DEF SumStep
    <3> QED
      BY <2>2, <2>3, <3>2
  <2>4. CASE n # 0
    <3>1. n - 1 \in Nat /\ n - 1 \notin Missing
      <4>1. n \in Nat /\ n - 1 \in Nat /\ ~(n <= n - 1)
        BY <2>4
      <4> HIDE DEF Missing
      <4> QED
        BY <2>2, <4>1
    <3>2. PICK g : PartSum(n - 1, g)
      BY <3>1
    <3>3. PICK h : h = [s \in Small(n) |-> SumStep(F, g, s)]
      OBVIOUS
    <3>4. ASSUME NEW s \in Small(n - 1)
          PROVE  h[s] = g[s]
      <4>1. s \in Small(n)
        BY <1>1, <3>1
      <4> QED
        BY <3>2, <3>3, <4>1
    <3>5. ASSUME NEW s \in Small(n)
          PROVE  h[s] = SumStep(F, h, s)
      BY <1>2, <2>2, <3>3, <3>4 DEF SumStep
    <3>6. PartSum(n, h)
      BY <3>3, <3>5
    <3> QED
      BY <2>2, <3>6
  <2> QED
    BY <2>3, <2>4
<1>4. PICK g : PartSum(Cardinality(S), g)
  BY <1>1, <1>3
<1>5. Small(Cardinality(S)) = SUBSET S
  BY FS_Subset
<1> QED
  BY <1>4, <1>5 DEF IsSum

(* What holds of the empty set, and of a set when it holds of the set      *)
(* without the element that is taken, holds of every finite set.           *)
LEMMA SetInduction ==
    ASSUME NEW S, IsFiniteSet(S), NEW Good, {} \in Good,
           \A s \in SUBSET S : s # {} /\ s \ {Taken(s)} \in Good => s \in Good
    PROVE  S \in Good
<1> DEFINE Bad == {n \in Nat : \E s \in SUBSET S : Cardinality(s) = n /\ s \notin Good}
<1>1. \A s \in SUBSET S : IsFiniteSet(s) /\ Cardinality(s) \in Nat
  BY FS_Subset, FS_CardinalityType
<1>2. Bad = {}
  <2>1. SUFFICES ASSUME Bad # {}
                 PROVE  FALSE
    OBVIOUS
  <2>2. PICK n \in Bad : \A k \in Bad : n <= k
    BY <2>1, LeastOf
  <2>3. PICK s \in SUBSET S : Cardinality(s) = n /\ s \notin Good
    BY <2>2
  <2>4. s # {}
    BY <2>3
  <2>5. s \ {Taken(s)} \in SUBSET S
    OBVIOUS
  <2>6. Cardinality(s \ {Taken(s)}) = n - 1
    BY <1>1, <2>3, <2>4, TakenOf, FS_RemoveElement
  <2>7. Cardinality(s \ {Taken(s)}) \in Nat
    BY <1>1, <2>5
  <2>8. s \ {Taken(s)} \in Good
    BY <2>2, <2>5, <2>6, <2>7
  <2> QED
    BY <2>3, <2>4, <2>8
<1> QED
  BY <1>1, <1>2

LEMMA SumIsNat ==
    ASSUME NEW S, IsFiniteSet(S), NEW F, \A x \in S : F[x] \in Nat, NEW f, IsSum(F, S, f)
    PROVE  f[S] \in Nat
<1> DEFINE Good == {s \in SUBSET S : f[s] \in Nat}
<1>1. \A s \in SUBSET S : f[s] = SumStep(F, f, s)
  BY DEF IsSum
<1>2. {} \in Good
  BY <1>1 DEF SumStep
<1>3. ASSUME NEW s \in SUBSET S, s # {}, s \ {Taken(s)} \in Good
      PROVE  s \in Good
  <2>1. f[s] = F[Taken(s)] + f[s \ {Taken(s)}] /\ F[Taken(s)] \in Nat
    BY <1>1, <1>3, TakenOf DEF SumStep
  <2> QED
    BY <1>3, <2>1
<1>4. S \in Good
  <2> HIDE DEF Good
  <2> QED
    BY <1>2, <1>3, SetInduction
<1> QED
  BY <1>4

LEMMA SumOfSums ==
    ASSUME NEW S, IsFiniteSet(S), NEW F, NEW G, NEW H,
           \A x \in S : G[x] \in Int /\ H[x] \in Int /\ F[x] = G[x] + H[x],
           NEW f, IsSum(F, S, f), NEW g, IsSum(G, S, g), NEW h, IsSum(H, S, h)
    PROVE  g[S] \in Int /\ h[S] \in Int /\ f[S] = g[S] + h[S]
<1> DEFINE Good == {s \in SUBSET S : g[s] \in Int /\ h[s] \in Int /\ f[s] = g[s] + h[s]}
<1>1. \A s \in SUBSET S : f[s] = SumStep(F, f, s) /\ g[s] = SumStep(G, g, s) /\ h[s] = SumStep(H, h, s)
  BY DEF IsSum
<1>2. {} \in Good
  <2>1. {} \in SUBSET S
    OBVIOUS
  <2>2. SumStep(F, f, {}) = 0 /\ SumStep(G, g, {}) = 0 /\ SumStep(H, h, {}) = 0
    BY DEF SumStep
  <2>3. f[{}] = 0 /\ g[{}] = 0 /\ h[{}] = 0
    BY <1>1, <2>1, <2>2
  <2> QED
    BY <2>1, <2>3
<1>3. ASSUME NEW s \in SUBSET S, s # {}, s \ {Taken(s)} \in Good
      PROVE  s \in Good
  <2>1. PICK x \in S, r \in SUBSET S : x = Taken(s) /\ r = s \ {Taken(s)}
    BY <1>3, TakenOf
  <2>2. f[s] = F[x] + f[r] /\ g[s] = G[x] + g[r] /\ h[s] = H[x] + h[r]
    BY <1>1, <1>3, <2>1 DEF SumStep
  <2>3. g[r] \in Int /\ h[r] \in Int /\ f[r] = g[r] + h[r]
    BY <1>3, <2>1
  <2> QED
    BY <2>2, <2>3
<1>4. S \in Good
  <2> HIDE DEF Good
  <2> QED
    BY <1>2, <1>3, SetInduction
<1> QED
  BY <1>4

LEMMA SumOfOne ==
    ASSUME NEW S, IsFiniteSet(S), NEW a \in S, NEW v \in Int, NEW H,
           \A x \in S : H[x] = IF x = a THEN v ELSE 0,
           NEW h, IsSum(H, S, h)
    PROVE  h[S] = v
<1> DEFINE Good == {s \in SUBSET S : h[s] = IF a \in s THEN v ELSE 0}
<1>1. \A s \in SUBSET S : h[s] = SumStep(H, h, s)
  BY DEF IsSum
<1>2. {} \in Good
  BY <1>1 DEF SumStep
<1>3. ASSUME NEW s \in SUBSET S, s # {}, s \ {Taken(s)} \in Good
      PROVE  s \in Good
  <2>1. PICK x \in S, r \in SUBSET S : x = Taken(s) /\ r = s \ {x} /\ x \in s
    BY <1>3, TakenOf
  <2>2. h[s] = H[x] + h[r] /\ h[r] = (IF a \in r THEN v ELSE 0)
    BY <1>1, <1>3, <2>1 DEF SumStep
  <2>3. CASE x = a
    BY <2>1, <2>2, <2>3
  <2>4. CASE x # a
    BY <2>1, <2>2, <2>4
  <2> QED
    BY <2>3, <2>4
<1>4. S \in Good
  <2> HIDE DEF Good
  <2> QED
    BY <1>2, <1>3, SetInduction
<1> QED
  BY <1>4

-----------------------------------------------------------------------------
(* What a cache may ask for has a block size, which is greater. *)
LEMMA FitsInSize ==
    ASSUME NEW n \in 0..MaxLen
    PROVE  FitBlockSize(n) \in Sizes /\ FitBlockSize(n) > n
<1> DEFINE T == {s \in Sizes : s > n}
<1>1. Sizes \subseteq Nat
  BY PoolAssumption
<1>2. MinBlock * 2^TopExponent \in Sizes
  BY PoolAssumption DEF Sizes
<1>3. MinBlock * 2^TopExponent > n
  <2>1. MinBlock * 2^TopExponent \in Nat /\ MaxLen < MinBlock * 2^TopExponent /\ MaxLen \in Nat
    BY <1>1, <1>2, CacheAssumption
  <2> HIDE DEF T
  <2> DEFINE top == MinBlock * 2^TopExponent
  <2> HIDE DEF top
  <2>2. top \in Nat /\ MaxLen < top /\ MaxLen \in Nat => top > n
    OBVIOUS
  <2> QED
    BY <2>1, <2>2 DEF top
<1>4. T \in SUBSET Nat /\ T # {}
  BY <1>1, <1>2, <1>3
<1>5. PICK s \in T : \A t \in T : s <= t
  BY <1>4, LeastOf
<1>6. s \in Sizes /\ s > n /\ \A t \in Sizes : t > n => s <= t
  BY <1>5
<1> QED
  BY <1>6 DEF FitBlockSize

LEMMA BlockOfSize ==
    ASSUME NEW b \in Blocks
    PROVE  SizeOf(b) \in Sizes /\ b \in BlocksOf(SizeOf(b)) /\ b # NoBlock
<1>1. PICK s \in Sizes, n \in Nat \ {0} : b = <<s, n>>
  BY DEF Blocks
<1> QED
  BY <1>1 DEF SizeOf, BlocksOf, NoBlock

(* allocate gives a block that was free and is large enough, or none. *)
LEMMA AllocateKeeps ==
    ASSUME NEW p, NEW U \in SUBSET Blocks, PoolOK(p, U), NEW n \in 0..MaxLen
    PROVE  LET r == Allocate(p, n) IN
           \/ r.block = NoBlock /\ PoolOK(r.pool, U)
           \/ /\ r.block \in Blocks \ U /\ SizeOf(r.block) > n
              /\ PoolOK(r.pool, U \cup {r.block})
<1>1. PICK s \in Sizes : s = FitBlockSize(n) /\ s > n
  BY FitsInSize
<1>2. PICK q : q = IF p.free[s] = <<>> THEN Extend(p, s) ELSE p
  OBVIOUS
<1>3. PoolOK(q, U)
  BY <1>2, ExtendKeeps
<1>4. PICK r : r = Allocate(p, n)
  OBVIOUS
<1>5. CASE q.free[s] = <<>>
  <2>1. r = [pool |-> q, block |-> NoBlock]
    BY <1>1, <1>2, <1>4, <1>5 DEF Allocate
  <2> QED
    BY <1>3, <1>4, <2>1
<1>6. CASE q.free[s] # <<>>
  <2>1. r = [pool |-> WithFree(q, s, Tail(q.free[s])), block |-> Head(q.free[s])]
    BY <1>1, <1>2, <1>4, <1>6 DEF Allocate
  <2>2. PICK b : b = Head(q.free[s])
    OBVIOUS
  <2>3. Keeps(q, U, s)
    BY <1>3 DEF PoolOK
  <2>4. /\ b \in Blocks /\ b \in ToSet(q.free[s])
        /\ Tail(q.free[s]) \in Seq(Blocks) /\ IsInjective(Tail(q.free[s]))
        /\ ToSet(Tail(q.free[s])) = ToSet(q.free[s]) \ {b}
    BY <1>6, <2>2, <2>3, TailOfList DEF Keeps
  <2>5. b \in BlocksOf(s) /\ SizeOf(b) = s /\ b \notin U
    BY <2>3, <2>4 DEF Keeps, BlocksOf, SizeOf
  <2>6. PICK w : w = WithFree(q, s, Tail(q.free[s]))
    OBVIOUS
  <2>7. w.free = [q.free EXCEPT ![s] = Tail(q.free[s])] /\ w.stub = q.stub
    BY <2>6 DEF WithFree
  <2>8. Keeps(w, U \cup {b}, s)
    <3>1. w.free[s] = Tail(q.free[s]) /\ w.stub[s] = q.stub[s]
      BY <1>3, <2>7 DEF PoolOK
    <3>2. {c \in U \cup {b} : SizeOf(c) = s} = {c \in U : SizeOf(c) = s} \cup {b}
      BY <2>5
    <3> QED
      BY <2>3, <2>4, <2>5, <3>1, <3>2 DEF Keeps
  <2>9. ASSUME NEW t \in Sizes \ {s}
        PROVE  Keeps(w, U \cup {b}, t)
    <3>1. w.free[t] = q.free[t] /\ w.stub[t] = q.stub[t] /\ Keeps(q, U, t)
      BY <1>3, <2>7 DEF PoolOK
    <3>2. {c \in U \cup {b} : SizeOf(c) = t} = {c \in U : SizeOf(c) = t}
      BY <2>5
    <3>3. b \notin ToSet(q.free[t])
      <4>1. b \notin q.stub[t]
        BY <2>5, <3>1 DEF Keeps, BlocksOf
      <4> QED
        BY <3>1, <4>1 DEF Keeps
    <3> QED
      BY <3>1, <3>2, <3>3 DEF Keeps
  <2>10. w.free \in [Sizes -> Seq(Blocks)] /\ w.stub \in [Sizes -> SUBSET Blocks]
    BY <1>3, <2>4, <2>7 DEF PoolOK
  <2>11. PoolOK(w, U \cup {b})
    BY <2>8, <2>9, <2>10 DEF PoolOK
  <2> QED
    BY <1>1, <1>4, <2>1, <2>2, <2>4, <2>5, <2>6, <2>11
<1> QED
  BY <1>5, <1>6

(* recycle puts a block that was in use on its free list, then releases.   *)
LEMMA PutBack ==
    ASSUME NEW p, NEW U \in SUBSET Blocks, PoolOK(p, U), NEW b \in U
    PROVE  \E w : /\ w.stub = p.stub /\ w.allocated = p.allocated /\ PoolOK(w, U \ {b})
                  /\ SizeOf(b) \in Sizes
                  /\ Recycle(p, b) = Release(w, SizeOf(b), MaxWaterMark)
<1>1. PICK s \in Sizes : s = SizeOf(b) /\ b \in BlocksOf(s)
  BY BlockOfSize
<1>2. Keeps(p, U, s)
  BY DEF PoolOK
<1>3. b \in p.stub[s] /\ b \notin ToSet(p.free[s])
  BY <1>1, <1>2 DEF Keeps
<1>4. PICK w : w = WithFree(p, s, <<b>> \o p.free[s])
  OBVIOUS
<1>5. /\ w.free = [p.free EXCEPT ![s] = <<b>> \o p.free[s]] /\ w.stub = p.stub
      /\ w.allocated = p.allocated
  BY <1>4 DEF WithFree
<1>6. <<b>> \in Seq(Blocks) /\ IsInjective(<<b>>) /\ ToSet(<<b>>) = {b}
  BY DEF IsInjective, ToSet
<1>7. /\ <<b>> \o p.free[s] \in Seq(Blocks) /\ IsInjective(<<b>> \o p.free[s])
      /\ ToSet(<<b>> \o p.free[s]) = {b} \cup ToSet(p.free[s])
  <2>1. PICK f : f = <<b>>
    OBVIOUS
  <2>2. PICK g : g = p.free[s]
    OBVIOUS
  <2>3. /\ f \in Seq(Blocks) /\ IsInjective(f) /\ ToSet(f) = {b}
        /\ g \in Seq(Blocks) /\ IsInjective(g) /\ ToSet(f) \cap ToSet(g) = {}
    BY <1>2, <1>3, <1>6, <2>1, <2>2 DEF Keeps
  <2>4. f \o g \in Seq(Blocks) /\ IsInjective(f \o g) /\ ToSet(f \o g) = ToSet(f) \cup ToSet(g)
    BY <2>3, JoinLists
  <2> QED
    BY <2>1, <2>2, <2>3, <2>4
<1>8. Keeps(w, U \ {b}, s)
  <2>1. w.free[s] = <<b>> \o p.free[s] /\ w.stub[s] = p.stub[s]
    BY <1>5 DEF PoolOK
  <2>2. {c \in U : SizeOf(c) = s} = {c \in U \ {b} : SizeOf(c) = s} \cup {b}
    BY <1>1
  <2> QED
    BY <1>2, <1>3, <1>7, <2>1, <2>2 DEF Keeps
<1>9. ASSUME NEW t \in Sizes \ {s}
      PROVE  Keeps(w, U \ {b}, t)
  <2>1. w.free[t] = p.free[t] /\ w.stub[t] = p.stub[t] /\ Keeps(p, U, t)
    BY <1>5 DEF PoolOK
  <2>2. {c \in U \ {b} : SizeOf(c) = t} = {c \in U : SizeOf(c) = t}
    BY <1>1
  <2> QED
    BY <2>1, <2>2 DEF Keeps
<1>10. w.free \in [Sizes -> Seq(Blocks)] /\ w.stub \in [Sizes -> SUBSET Blocks]
  BY <1>5, <1>7 DEF PoolOK
<1>11. PoolOK(w, U \ {b})
  BY <1>8, <1>9, <1>10 DEF PoolOK
<1>12. Recycle(p, b) = Release(w, s, MaxWaterMark)
  BY <1>1, <1>3, <1>4 DEF Recycle
<1> QED
  BY <1>1, <1>5, <1>11, <1>12

LEMMA RecycleKeeps ==
    ASSUME NEW p, NEW U \in SUBSET Blocks, PoolOK(p, U), NEW b \in U
    PROVE  PoolOK(Recycle(p, b), U \ {b})
<1>1. PICK w : /\ PoolOK(w, U \ {b}) /\ SizeOf(b) \in Sizes
               /\ Recycle(p, b) = Release(w, SizeOf(b), MaxWaterMark)
  BY PutBack
<1> QED
  BY <1>1, ReleaseKeeps

-----------------------------------------------------------------------------
(* What lies in a block. *)
Memory(z) == [0..(z - 1) -> 0..MarkMod]
Data == Seq(0..MarkMod)

(* The memory q of z bytes is m, but with data from `at' on. *)
IsCopy(q, z, m, at, data) ==
    /\ q \in Memory(z)
    /\ \A i \in 0..(z - 1) : i < at \/ i >= at + Len(data) => q[i] = m[i]
    /\ \A k \in 1..Len(data) : q[at + k - 1] = data[k]

LEMMA CopyIs ==
    ASSUME NEW z \in Nat, NEW m \in Memory(z), NEW at \in Nat, NEW data \in Data,
           at + Len(data) <= z
    PROVE  IsCopy(Copy(m, at, data), z, m, at, data)
<1> DEFINE q == Copy(m, at, data)
<1>1. DOMAIN m = 0..(z - 1) /\ \A i \in 0..(z - 1) : m[i] \in 0..MarkMod
  BY DEF Memory
<1>2. Len(data) \in Nat /\ \A k \in 1..Len(data) : data[k] \in 0..MarkMod
  <2>1. PICK S : S = 0..MarkMod
    OBVIOUS
  <2>2. data \in Seq(S)
    BY <2>1 DEF Data
  <2>3. Len(data) \in Nat /\ \A k \in 1..Len(data) : data[k] \in S
    BY <2>2
  <2> QED
    BY <2>1, <2>3
<1>3. q = [i \in 0..(z - 1) |->
             IF i \in at..(at + Len(data) - 1) THEN data[i - at + 1] ELSE m[i]]
  BY <1>1 DEF Copy
<1> HIDE DEF q
<1>4. \A i \in 0..(z - 1) : i \in at..(at + Len(data) - 1) => i - at + 1 \in 1..Len(data)
  BY <1>2
<1>5. q \in Memory(z)
  BY <1>1, <1>2, <1>3, <1>4 DEF Memory
<1>6. ASSUME NEW k \in 1..Len(data)
      PROVE  q[at + k - 1] = data[k]
  <2>1. at + k - 1 \in 0..(z - 1) /\ at + k - 1 \in at..(at + Len(data) - 1)
        /\ (at + k - 1) - at + 1 = k
    BY <1>2
  <2> QED
    BY <1>3, <2>1
<1>7. \A i \in 0..(z - 1) : i < at \/ i >= at + Len(data) => q[i] = m[i]
  BY <1>2, <1>3
<1> QED
  BY <1>5, <1>6, <1>7 DEF q, IsCopy

(* The memory q of z bytes has the n bytes of m from `from' on. *)
IsPart(q, z, m, from, n) ==
    /\ q \in Memory(z)
    /\ \A k \in 1..n : q[from + k - 1] = m[from + k - 1]

LEMMA KeepIs ==
    ASSUME NEW z \in Nat, NEW m \in Memory(z), NEW from \in Nat, NEW n \in Nat, from + n <= z
    PROVE  IsPart(Keep(m, from, n), z, m, from, n)
<1>1. DOMAIN m = 0..(z - 1) /\ \A i \in 0..(z - 1) : m[i] \in 0..MarkMod
  BY DEF Memory
<1>2. MarkMod \in 0..MarkMod
  BY CacheAssumption
<1>3. Keep(m, from, n) = [i \in 0..(z - 1) |-> IF i \in from..(from + n - 1) THEN m[i] ELSE MarkMod]
  BY <1>1 DEF Keep, Junk
<1>4. \A k \in 1..n : from + k - 1 \in 0..(z - 1) /\ from + k - 1 \in from..(from + n - 1)
  OBVIOUS
<1>5. Keep(m, from, n) \in Memory(z)
  BY <1>1, <1>2, <1>3 DEF Memory
<1>6. \A k \in 1..n : Keep(m, from, n)[from + k - 1] = m[from + k - 1]
  BY <1>3, <1>4
<1> QED
  BY <1>5, <1>6 DEF IsPart

LEMMA StreamIs ==
    ASSUME NEW q \in Data, NEW n \in Nat
    PROVE  Queues!Stream(q, n) \in Data /\ Len(Queues!Stream(q, n)) = n
<1>1. PICK first \in Int : first = IF q = <<>> THEN 0 ELSE q[Len(q)] + 1
  <2>1. q # <<>> => q[Len(q)] \in Int
    BY CacheAssumption DEF Data
  <2> QED
    BY <2>1
<1>2. Queues!Stream(q, n) = [k \in 1..n |-> (first + k - 1) % MarkMod]
  BY <1>1 DEF Queues!Stream
<1>3. \A k \in 1..n : (first + k - 1) % MarkMod \in 0..MarkMod
  BY CacheAssumption
<1> QED
  BY <1>2, <1>3 DEF Data

-----------------------------------------------------------------------------
(* What is always so of the caches: the invariants, and that the blocks of *)
(* a size are finitely many.                                               *)
MemoryInv ==
    /\ mem \in [Caches -> Blocks \cup {NoBlock}]
    /\ head \in [Caches -> Nat] /\ len \in [Caches -> 0..MaxLen]
    /\ \A c \in Caches : mem[c] # NoBlock => len[c] > 0 /\ head[c] + len[c] <= SizeOf(mem[c])
    /\ \A c \in Caches : mem[c] = NoBlock => len[c] = 0
    /\ DOMAIN bytes = Used(mem)
    /\ \A b \in DOMAIN bytes : bytes[b] \in Memory(SizeOf(b))
    /\ \A c, d \in Caches : mem[c] = mem[d] /\ c # d => mem[c] = NoBlock

CachesInv == MemoryInv /\ PoolOK(pool, Used(mem)) /\ dead \in BOOLEAN

LEMMA InvImplies == CachesInv => CachesTypeOK /\ BlocksAreKeptOnce
<1> SUFFICES ASSUME CachesInv
             PROVE  CachesTypeOK /\ BlocksAreKeptOnce
  OBVIOUS
<1>1. CachesTypeOK
  BY DEF CachesInv, MemoryInv, PoolOK, CachesTypeOK, Memory
<1>2. BlocksAreKeptOnce
  BY DEF CachesInv, MemoryInv, PoolOK, Keeps, BlocksAreKeptOnce
<1> QED
  BY <1>1, <1>2

LEMMA UsedAreBlocks == MemoryInv => Used(mem) \in SUBSET Blocks
  BY DEF MemoryInv, Used

(* The n bytes from `at' on of a memory of z bytes. *)
Shown(m, z, at, n) ==
    [k \in 1..n |-> LET i == at + k - 1 IN IF i \in 0..(z - 1) THEN m[i] ELSE Junk]

(* The data q are the n bytes of m from `at' on. *)
Shows(q, m, at, n) ==
    /\ q \in Data /\ Len(q) = n
    /\ \A k \in 1..n : q[k] = m[at + k - 1]

LEMMA ShownIs ==
    ASSUME NEW z \in Nat, NEW m \in Memory(z), NEW at \in Nat, NEW n \in Nat, at + n <= z
    PROVE  Shows(Shown(m, z, at, n), m, at, n)
<1>1. PICK S : S = 0..MarkMod
  OBVIOUS
<1>2. m \in [0..(z - 1) -> S]
  BY <1>1 DEF Memory
<1>3. PICK q : q = Shown(m, z, at, n)
  OBVIOUS
<1>4. \A k \in 1..n : at + k - 1 \in 0..(z - 1)
  OBVIOUS
<1>5. q = [k \in 1..n |-> m[at + k - 1]]
  BY <1>3, <1>4 DEF Shown
<1>6. q \in [1..n -> S]
  BY <1>2, <1>4, <1>5
<1>7. q \in Seq(S) /\ Len(q) = n
  BY <1>6
<1> QED
  BY <1>1, <1>3, <1>5, <1>7 DEF Data, Shows

(* data() and data_len() show the part of the block that is in use. *)
LEMMA ContentIs ==
    ASSUME MemoryInv, NEW c \in Caches
    PROVE  Shows(Content(c), bytes[mem[c]], head[c], len[c])
<1>1. len[c] \in Nat /\ head[c] \in Nat
  BY CacheAssumption DEF MemoryInv
<1>2. CASE mem[c] = NoBlock
  <2>1. len[c] = 0
    BY <1>2 DEF MemoryInv
  <2>2. Content(c) = <<>>
    BY <2>1 DEF Content
  <2> QED
    BY <2>1, <2>2 DEF Data, Shows
<1>3. CASE mem[c] # NoBlock
  <2>1. mem[c] \in Blocks /\ mem[c] \in Used(mem) /\ head[c] + len[c] <= SizeOf(mem[c])
    BY <1>3 DEF MemoryInv, Used
  <2>2. SizeOf(mem[c]) \in Nat /\ bytes[mem[c]] \in Memory(SizeOf(mem[c]))
    BY <2>1, BlockOfSize, PoolAssumption DEF MemoryInv
  <2>3. Content(c) = Shown(bytes[mem[c]], SizeOf(mem[c]), head[c], len[c])
    BY DEF Content, Shown
  <2>4. PICK z, m : z = SizeOf(mem[c]) /\ m = bytes[mem[c]] /\ z \in Nat /\ m \in Memory(z)
    BY <2>2
  <2>5. PICK at \in Nat, n \in Nat : at = head[c] /\ n = len[c]
    BY <1>1
  <2>6. at + n <= z
    BY <2>1, <2>4, <2>5
  <2>7. Shows(Shown(m, z, at, n), m, at, n)
    BY <2>4, <2>6, ShownIs
  <2> QED
    BY <2>3, <2>4, <2>5, <2>7
<1> QED
  BY <1>2, <1>3

(* A cache gets a block, keeps its own or gives it up: what the blocks in  *)
(* use are then, and that the other caches show what they did.             *)
LEMMA HoldsKeeps ==
    ASSUME MemoryInv, NEW c \in Caches, NEW b \in Blocks \cup {NoBlock},
           b # mem[c] => b \notin Used(mem),
           NEW at \in Nat, NEW n \in 0..MaxLen, NEW m,
           b # NoBlock => n > 0 /\ at + n <= SizeOf(b) /\ m \in Memory(SizeOf(b)),
           b = NoBlock => n = 0,
           Holds(c, b, at, n, m)
    PROVE  /\ MemoryInv'
           /\ Used(mem)' = (Used(mem) \ {mem[c]}) \cup ({b} \ {NoBlock})
           /\ b # NoBlock => Content(c)' = Shown(m, SizeOf(b), at, n)
           /\ b = NoBlock => Content(c)' = <<>>
           /\ \A d \in Caches \ {c} : Content(d)' = Content(d)
<1>1. /\ mem' = [mem EXCEPT ![c] = b] /\ head' = [head EXCEPT ![c] = at]
      /\ len' = [len EXCEPT ![c] = n]
      /\ bytes' = [x \in Used(mem') |-> IF x = b THEN m ELSE bytes[x]]
  BY DEF Holds
<1>2. /\ mem \in [Caches -> Blocks \cup {NoBlock}]
      /\ head \in [Caches -> Nat] /\ len \in [Caches -> 0..MaxLen]
  BY DEF MemoryInv
<1>3. /\ mem' \in [Caches -> Blocks \cup {NoBlock}]
      /\ head' \in [Caches -> Nat] /\ len' \in [Caches -> 0..MaxLen]
  BY <1>1, <1>2
<1>4. /\ mem'[c] = b /\ head'[c] = at /\ len'[c] = n
      /\ \A d \in Caches \ {c} : mem'[d] = mem[d] /\ head'[d] = head[d] /\ len'[d] = len[d]
  BY <1>1, <1>2
<1>5. \A d \in Caches \ {c} : mem[d] = mem[c] => mem[d] = NoBlock
  BY DEF MemoryInv
<1>6. Used(mem)' = (Used(mem) \ {mem[c]}) \cup ({b} \ {NoBlock})
  BY <1>4, <1>5 DEF Used
<1>7. \A d \in Caches \ {c} : mem[d] = b => b = NoBlock
  BY <1>5 DEF Used
<1>8. \A d, e \in Caches : mem'[d] = mem'[e] /\ d # e => mem'[d] = NoBlock
  <2>1. SUFFICES ASSUME NEW d \in Caches, NEW e \in Caches, mem'[d] = mem'[e], d # e
                 PROVE  mem'[d] = NoBlock
    OBVIOUS
  <2>2. CASE d # c /\ e # c
    BY <1>4, <2>1, <2>2 DEF MemoryInv
  <2>3. CASE d = c \/ e = c
    BY <1>4, <1>7, <2>1, <2>3
  <2> QED
    BY <2>2, <2>3
<1>9. DOMAIN bytes' = Used(mem)'
  BY <1>1 DEF Used
<1>10. b # NoBlock => bytes'[b] = m
  BY <1>1, <1>4 DEF Used
<1>11. \A x \in Used(mem)' : x # b => x \in Used(mem) /\ bytes'[x] = bytes[x]
  BY <1>1, <1>6 DEF Used
<1>12. \A x \in DOMAIN bytes' : bytes'[x] \in Memory(SizeOf(x))
  BY <1>6, <1>9, <1>10, <1>11 DEF MemoryInv
<1>13. MemoryInv'
  <2>1. /\ \A d \in Caches : mem'[d] # NoBlock => len'[d] > 0 /\ head'[d] + len'[d] <= SizeOf(mem'[d])
        /\ \A d \in Caches : mem'[d] = NoBlock => len'[d] = 0
    BY <1>4 DEF MemoryInv
  <2> QED
    BY <1>3, <1>8, <1>9, <1>12, <2>1 DEF MemoryInv, Memory
<1>14. ASSUME NEW d \in Caches \ {c}
       PROVE  Content(d)' = Content(d)
  <2>1. mem[d] # NoBlock => bytes'[mem[d]] = bytes[mem[d]]
    BY <1>4, <1>7, <1>11 DEF Used
  <2>2. mem[d] = NoBlock => len[d] = 0
    BY DEF MemoryInv
  <2>3. CASE mem[d] # NoBlock
    BY <1>4, <2>1, <2>3 DEF Content
  <2>4. CASE mem[d] = NoBlock
    <3>1. len[d] = 0 /\ len'[d] = 0
      BY <1>4, <2>2, <2>4
    <3>2. Content(d) = <<>> /\ Content(d)' = <<>>
      BY <3>1 DEF Content
    <3> QED
      BY <3>2
  <2> QED
    BY <2>3, <2>4
<1>15. b # NoBlock => Content(c)' = Shown(m, SizeOf(b), at, n)
  BY <1>4, <1>10 DEF Content, Shown
<1>16. b = NoBlock => Content(c)' = <<>>
  BY <1>4 DEF Content
<1> QED
  BY <1>6, <1>13, <1>14, <1>15, <1>16

-----------------------------------------------------------------------------
(* What a step does to the queue that a cache shows. *)
Others(c) == \A d \in Caches \ {c} : Content(d)' = Content(d)

LEMMA PutIs ==
    ASSUME NEW c \in Caches, NEW n, Others(c), dead' = dead,
           Content(c)' = Content(c) \o Queues!Stream(Content(c), n)
    PROVE  Queues!Put(c, n)
<1> DEFINE q == [d \in Caches |-> Content(d)]
<1>1. q' = [d \in Caches |-> Content(d)']
  OBVIOUS
<1>2. q' = [q EXCEPT ![c] = Content(c) \o Queues!Stream(Content(c), n)]
  BY <1>1 DEF Others
<1> QED
  BY <1>2 DEF Queues!Put, Queues!Stream

LEMMA TakeIs ==
    ASSUME NEW c \in Caches, NEW n, Others(c), dead' = dead,
           Content(c)' = SubSeq(Content(c), n + 1, Len(Content(c)))
    PROVE  Queues!Take(c, n)
<1> DEFINE q == [d \in Caches |-> Content(d)]
<1>1. q' = [d \in Caches |-> Content(d)']
  OBVIOUS
<1>2. q' = [q EXCEPT ![c] = SubSeq(Content(c), n + 1, Len(Content(c)))]
  BY <1>1 DEF Others
<1> QED
  BY <1>2 DEF Queues!Take

LEMMA SameData ==
    ASSUME NEW f \in Data, NEW g \in Data, Len(f) = Len(g), \A k \in 1..Len(f) : f[k] = g[k]
    PROVE  f = g
<1>1. PICK S : S = 0..MarkMod
  OBVIOUS
<1>2. f \in Seq(S) /\ g \in Seq(S)
  BY <1>1 DEF Data
<1> QED
  BY <1>2, SeqEqual

LEMMA JoinData ==
    ASSUME NEW f \in Data, NEW g \in Data
    PROVE  /\ f \o g \in Data /\ Len(f \o g) = Len(f) + Len(g)
           /\ Len(f) \in Nat /\ Len(g) \in Nat
           /\ \A k \in 1..Len(f) : (f \o g)[k] = f[k]
           /\ \A k \in 1..Len(g) : (f \o g)[Len(f) + k] = g[k]
           /\ \A k \in 1..(Len(f) + Len(g)) : k \in 1..Len(f) \/ k - Len(f) \in 1..Len(g)
<1>1. PICK S : S = 0..MarkMod
  OBVIOUS
<1>2. f \in Seq(S) /\ g \in Seq(S)
  BY <1>1 DEF Data
<1>3. f \o g \in Seq(S)
  BY <1>2
<1>4. /\ Len(f \o g) = Len(f) + Len(g)
      /\ Len(f) \in Nat /\ Len(g) \in Nat
      /\ \A k \in 1..Len(f) : (f \o g)[k] = f[k]
      /\ \A k \in 1..Len(g) : (f \o g)[Len(f) + k] = g[k]
  BY <1>2
<1> QED
  BY <1>1, <1>3, <1>4 DEF Data

LEMMA BlankIs ==
    ASSUME NEW b \in Blocks
    PROVE  SizeOf(b) \in Nat /\ Blank(b) \in Memory(SizeOf(b))
<1>1. SizeOf(b) \in Nat
  BY BlockOfSize, PoolAssumption
<1>2. MarkMod \in 0..MarkMod
  BY CacheAssumption
<1> QED
  BY <1>1, <1>2 DEF Blank, Memory, Junk

-----------------------------------------------------------------------------
(* An append that fails changes the pool only. *)
LEMMA FailStep ==
    ASSUME CachesInv, NEW p, PoolOK(p.pool, Used(mem)), AppendFails(p)
    PROVE  CachesInv' /\ Queues!Fail
<1>1. /\ pool' = p.pool /\ dead' = TRUE
      /\ mem' = mem /\ head' = head /\ len' = len /\ bytes' = bytes
  BY DEF AppendFails
<1>2. MemoryInv'
  BY <1>1 DEF CachesInv, MemoryInv, Used
<1>3. PoolOK(pool, Used(mem))'
  <2>1. Used(mem)' = Used(mem)
    BY <1>1
  <2> QED
    BY <1>1, <2>1 DEF PoolOK, Keeps
<1>4. [d \in Caches |-> Content(d)]' = [d \in Caches |-> Content(d)]
  BY <1>1 DEF Content
<1> QED
  BY <1>1, <1>2, <1>3, <1>4 DEF CachesInv, Queues!Fail

LEMMA AppendFirstStep ==
    ASSUME CachesInv, NEW c \in Caches, NEW n \in Chunks, AppendFirst(c, n)
    PROVE  CachesInv' /\ (Queues!Put(c, n) \/ Queues!Fail)
<1>1. MemoryInv /\ PoolOK(pool, Used(mem)) /\ Used(mem) \in SUBSET Blocks /\ dead \in BOOLEAN
  BY UsedAreBlocks DEF CachesInv
<1>2. mem[c] = NoBlock /\ len[c] = 0 /\ n \in 1..MaxLen
  BY <1>1, CacheAssumption DEF AppendFirst, MayAppend, MemoryInv
<1>3. PICK p : p = Allocate(pool, n)
  OBVIOUS
<1>4. \/ p.block = NoBlock /\ PoolOK(p.pool, Used(mem))
      \/ /\ p.block \in Blocks \ Used(mem) /\ SizeOf(p.block) > n
         /\ PoolOK(p.pool, Used(mem) \cup {p.block})
  BY <1>1, <1>2, <1>3, AllocateKeeps
<1>5. PICK data : data = Queues!Stream(<<>>, n)
  OBVIOUS
<1>6. data \in Data /\ Len(data) = n
  <2>1. <<>> \in Data
    BY DEF Data
  <2> QED
    BY <1>2, <1>5, <2>1, StreamIs
<1>7. \/ AppendFails(p)
      \/ /\ p.block # NoBlock /\ pool' = p.pool
         /\ Holds(c, p.block, 0, n, Copy(Blank(p.block), 0, data))
  BY <1>3, <1>5 DEF AppendFirst
<1>8. CASE AppendFails(p)
  <2>1. PoolOK(p.pool, Used(mem))
    BY <1>4, <1>8, BlockOfSize DEF AppendFails
  <2> QED
    BY <1>8, <2>1, FailStep
<1>9. CASE /\ p.block # NoBlock /\ pool' = p.pool
           /\ Holds(c, p.block, 0, n, Copy(Blank(p.block), 0, data))
  <2>1. PICK b \in Blocks : b = p.block
    BY <1>4, <1>9
  <2>2. b # NoBlock /\ b \notin Used(mem) /\ SizeOf(b) \in Nat /\ SizeOf(b) > n
    BY <1>4, <1>9, <2>1, BlankIs
  <2>3. PICK m : m = Copy(Blank(b), 0, data)
    OBVIOUS
  <2>4. m \in Memory(SizeOf(b)) /\ \A k \in 1..n : m[0 + k - 1] = data[k]
    <3>1. PICK z, u : z = SizeOf(b) /\ u = Blank(b) /\ z \in Nat /\ u \in Memory(z)
      BY BlankIs
    <3>2. 0 + Len(data) <= z
      BY <1>2, <1>6, <2>2, <3>1
    <3>3. IsCopy(m, z, u, 0, data)
      BY <1>6, <2>3, <3>1, <3>2, CopyIs
    <3> QED
      BY <1>6, <3>1, <3>3 DEF IsCopy
  <2>5. Holds(c, b, 0, n, m)
    BY <1>9, <2>1, <2>3
  <2>6. n \in 0..MaxLen /\ n > 0 /\ 0 + n <= SizeOf(b)
    BY <1>2, <2>2
  <2>7. /\ MemoryInv' /\ Used(mem)' = (Used(mem) \ {mem[c]}) \cup ({b} \ {NoBlock})
        /\ Content(c)' = Shown(m, SizeOf(b), 0, n)
        /\ \A d \in Caches \ {c} : Content(d)' = Content(d)
    BY <1>1, <2>2, <2>4, <2>5, <2>6, HoldsKeeps
  <2>8. Used(mem)' = Used(mem) \cup {b}
    BY <1>2, <2>2, <2>7 DEF Used
  <2>9. CachesInv'
    BY <1>1, <1>4, <1>9, <2>1, <2>5, <2>7, <2>8 DEF CachesInv, Holds, PoolOK, Keeps
  <2>10. Content(c)' = data
    <3>1. Shows(Content(c)', m, 0, n)
      BY <2>2, <2>4, <2>6, <2>7, ShownIs
    <3> QED
      BY <1>6, <2>4, <3>1, SameData DEF Shows
  <2>11. Content(c) = <<>>
    BY <1>2 DEF Content
  <2>12. Content(c)' = Content(c) \o Queues!Stream(Content(c), n)
    BY <1>5, <1>6, <2>10, <2>11 DEF Data
  <2> QED
    BY <2>5, <2>7, <2>9, <2>12, PutIs DEF Others, Holds
<1> QED
  BY <1>7, <1>8, <1>9

(* The first n of the data lie in the memory m, from `at' on. *)
Lies(m, at, data, n) == \A k \in 1..n : m[at + k - 1] = data[k]

(* A cache that holds its data and n more bytes behind them. *)
LEMMA HoldsPut ==
    ASSUME MemoryInv, NEW c \in Caches, NEW n \in Nat \ {0}, NEW b \in Blocks,
           b # mem[c] => b \notin Used(mem),
           NEW l, l = len[c], NEW more, more = Queues!Stream(Content(c), n),
           NEW at \in Nat, l + n <= MaxLen, at + l + n <= SizeOf(b),
           NEW m \in Memory(SizeOf(b)),
           Lies(m, at, Content(c), l), Lies(m, at + l, more, n),
           Holds(c, b, at, l + n, m)
    PROVE  /\ MemoryInv' /\ Queues!Put(c, n) /\ dead' = dead
           /\ Used(mem)' = (Used(mem) \ {mem[c]}) \cup {b}
<1>1. l \in Nat
  BY DEF MemoryInv
<1>2. PICK old : old = Content(c)
  OBVIOUS
<1>3. old \in Data /\ Len(old) = l
  BY <1>1, <1>2, ContentIs DEF Shows
<1>4. more = Queues!Stream(old, n)
  BY <1>2
<1>5. more \in Data /\ Len(more) = n
  BY <1>3, <1>4, StreamIs
<1>6. SizeOf(b) \in Nat /\ MaxLen \in Nat /\ b # NoBlock
  BY BlankIs, BlockOfSize, CacheAssumption
<1>7. l + n \in 0..MaxLen /\ l + n > 0 /\ l + n \in Nat /\ at + (l + n) <= SizeOf(b)
  BY <1>1, <1>6
<1>9. /\ MemoryInv' /\ Used(mem)' = (Used(mem) \ {mem[c]}) \cup ({b} \ {NoBlock})
      /\ Content(c)' = Shown(m, SizeOf(b), at, l + n)
      /\ \A d \in Caches \ {c} : Content(d)' = Content(d)
  BY <1>6, <1>7, HoldsKeeps
<1>10. Content(c)' = old \o more
  <2>1. Shows(Content(c)', m, at, l + n)
    BY <1>6, <1>7, <1>9, ShownIs
  <2>2. PICK new : new = Content(c)'
    OBVIOUS
  <2>3. new \in Data /\ Len(new) = l + n /\ \A k \in 1..(l + n) : new[k] = m[at + k - 1]
    BY <2>1, <2>2 DEF Shows
  <2>4. PICK all : all = old \o more
    OBVIOUS
  <2>5. /\ all \in Data /\ Len(all) = l + n
        /\ \A k \in 1..l : all[k] = old[k]
        /\ \A k \in 1..n : all[l + k] = more[k]
    <3>1. /\ old \o more \in Data /\ Len(old \o more) = Len(old) + Len(more)
          /\ \A k \in 1..Len(old) : (old \o more)[k] = old[k]
          /\ \A k \in 1..Len(more) : (old \o more)[Len(old) + k] = more[k]
      BY <1>3, <1>5, JoinData
    <3> QED
      BY <1>3, <1>5, <2>4, <3>1
  <2>6. ASSUME NEW k \in 1..(l + n)
        PROVE  new[k] = all[k]
    <3>1. CASE k \in 1..l
      BY <1>1, <1>2, <2>3, <2>5, <3>1 DEF Lies
    <3>2. CASE k \notin 1..l
      <4>1. PICK j \in 1..n : k = l + j
        <5>1. k - l \in 1..n /\ k = l + (k - l)
          BY <1>1, <3>2
        <5> QED
          BY <5>1
      <4>2. new[k] = m[at + k - 1]
        BY <2>3
      <4>3. at + k - 1 = at + l + j - 1
        BY <1>1, <4>1
      <4>4. m[at + l + j - 1] = more[j]
        BY DEF Lies
      <4> QED
        BY <2>5, <4>1, <4>2, <4>3, <4>4
    <3> QED
      BY <3>1, <3>2
  <2> QED
    BY <2>2, <2>3, <2>4, <2>5, <2>6, SameData
<1>11. dead' = dead
  BY DEF Holds
<1>12. Queues!Put(c, n)
  BY <1>2, <1>4, <1>9, <1>10, <1>11, PutIs DEF Others
<1> QED
  BY <1>6, <1>9, <1>11, <1>12

(* What a cache that has a block looks like. *)
LEMMA BlockHeld ==
    ASSUME MemoryInv, NEW c \in Caches, mem[c] # NoBlock
    PROVE  /\ mem[c] \in Blocks /\ mem[c] \in Used(mem)
           /\ SizeOf(mem[c]) \in Nat /\ bytes[mem[c]] \in Memory(SizeOf(mem[c]))
           /\ head[c] \in Nat /\ len[c] \in 1..MaxLen /\ head[c] + len[c] <= SizeOf(mem[c])
           /\ Shows(Content(c), bytes[mem[c]], head[c], len[c])
<1>1. mem[c] \in Blocks /\ mem[c] \in Used(mem)
  BY DEF MemoryInv, Used
<1>2. SizeOf(mem[c]) \in Nat
  BY <1>1, BlankIs
<1>3. bytes[mem[c]] \in Memory(SizeOf(mem[c]))
  BY <1>1 DEF MemoryInv
<1>4. head[c] \in Nat /\ len[c] \in 1..MaxLen /\ head[c] + len[c] <= SizeOf(mem[c])
  BY CacheAssumption DEF MemoryInv
<1> QED
  BY <1>1, <1>2, <1>3, <1>4, ContentIs

LEMMA AppendInPlaceStep ==
    ASSUME CachesInv, NEW c \in Caches, NEW n \in Chunks, AppendInPlace(c, n)
    PROVE  CachesInv' /\ Queues!Put(c, n)
<1>1. MemoryInv /\ PoolOK(pool, Used(mem)) /\ dead \in BOOLEAN
  BY DEF CachesInv
<1>2. mem[c] # NoBlock /\ len[c] + n <= MaxLen /\ n \in Nat \ {0} /\ pool' = pool
  BY CacheAssumption DEF AppendInPlace, MayAppend
<1>3. PICK b \in Blocks : b = mem[c] /\ b \in Used(mem) /\ SizeOf(b) \in Nat
  BY <1>1, <1>2, BlockHeld
<1>4. PICK u, at, l :
        /\ u = bytes[mem[c]] /\ at = head[c] /\ l = len[c]
        /\ u \in Memory(SizeOf(b)) /\ at \in Nat /\ l \in Nat
        /\ Shows(Content(c), u, at, l)
  BY <1>1, <1>2, <1>3, BlockHeld
<1>5. PICK more : more = Queues!Stream(Content(c), n)
  OBVIOUS
<1>6. more \in Data /\ Len(more) = n
  BY <1>2, <1>4, <1>5, StreamIs DEF Shows
<1>7. (at + l) + n <= SizeOf(b) /\ at + l + n <= SizeOf(b)
  BY <1>2, <1>3, <1>4 DEF AppendInPlace, Fits
<1>8. PICK m : m = Copy(u, at + l, more)
  OBVIOUS
<1>9. IsCopy(m, SizeOf(b), u, at + l, more)
  BY <1>3, <1>4, <1>6, <1>7, <1>8, CopyIs
<1>10. Holds(c, b, at, l + n, m)
  BY <1>3, <1>4, <1>5, <1>8 DEF AppendInPlace
<1>11. m \in Memory(SizeOf(b))
  BY <1>9 DEF IsCopy
<1>12. Lies(m, at, Content(c), l)
  <2>1. \A k \in 1..l : at + k - 1 \in 0..(SizeOf(b) - 1) /\ at + k - 1 < at + l
    BY <1>2, <1>3, <1>4, <1>7
  <2> QED
    BY <1>4, <1>9, <2>1 DEF IsCopy, Shows, Lies
<1>13. Lies(m, at + l, more, n)
  BY <1>6, <1>9 DEF IsCopy, Lies
<1>14. /\ MemoryInv' /\ Queues!Put(c, n) /\ dead' = dead
       /\ Used(mem)' = (Used(mem) \ {mem[c]}) \cup {b}
  BY <1>1, <1>2, <1>3, <1>4, <1>5, <1>7, <1>10, <1>11, <1>12, <1>13, HoldsPut
<1>15. Used(mem)' = Used(mem)
  BY <1>3, <1>14
<1> QED
  BY <1>1, <1>2, <1>14, <1>15 DEF CachesInv, PoolOK, Keeps

LEMMA AppendReallocStep ==
    ASSUME CachesInv, NEW c \in Caches, NEW n \in Chunks, AppendRealloc(c, n)
    PROVE  CachesInv' /\ (Queues!Put(c, n) \/ Queues!Fail)
<1>1. MemoryInv /\ PoolOK(pool, Used(mem)) /\ Used(mem) \in SUBSET Blocks /\ dead \in BOOLEAN
  BY UsedAreBlocks DEF CachesInv
<1>2. mem[c] # NoBlock /\ len[c] + n <= MaxLen /\ n \in Nat \ {0}
  BY CacheAssumption DEF AppendRealloc, MayAppend
<1>3. PICK old \in Used(mem) : old = mem[c]
  BY <1>1, <1>2, BlockHeld
<1>4. PICK l : l = len[c] /\ l \in Nat /\ n + l \in 0..MaxLen /\ l + n <= MaxLen
               /\ Content(c) \in Data /\ Len(Content(c)) = l
  BY <1>1, <1>2, BlockHeld, CacheAssumption DEF Shows
<1>5. PICK p : p = Allocate(pool, n + l)
  OBVIOUS
<1>6. \/ p.block = NoBlock /\ PoolOK(p.pool, Used(mem))
      \/ /\ p.block \in Blocks \ Used(mem) /\ SizeOf(p.block) > n + l
         /\ PoolOK(p.pool, Used(mem) \cup {p.block})
  BY <1>1, <1>4, <1>5, AllocateKeeps
<1>7. PICK more : more = Queues!Stream(Content(c), n)
  OBVIOUS
<1>8. more \in Data /\ Len(more) = n
  BY <1>2, <1>4, <1>7, StreamIs
<1>9. PICK data : data = Content(c) \o more
  OBVIOUS
<1>10. \/ AppendFails(p)
       \/ /\ p.block # NoBlock /\ pool' = Recycle(p.pool, old)
          /\ Holds(c, p.block, 0, l + n, Copy(Blank(p.block), 0, data))
  BY <1>3, <1>4, <1>5, <1>7, <1>9 DEF AppendRealloc
<1>11. CASE AppendFails(p)
  <2>1. PoolOK(p.pool, Used(mem))
    BY <1>6, <1>11, BlockOfSize DEF AppendFails
  <2> QED
    BY <1>11, <2>1, FailStep
<1>12. CASE /\ p.block # NoBlock /\ pool' = Recycle(p.pool, old)
            /\ Holds(c, p.block, 0, l + n, Copy(Blank(p.block), 0, data))
  <2>1. PICK b \in Blocks : b = p.block /\ b \notin Used(mem)
    BY <1>6, <1>12
  <2>2. PICK z, u : z = SizeOf(b) /\ u = Blank(b) /\ z \in Nat /\ u \in Memory(z)
    BY <2>1, BlankIs
  <2>3. z > n + l
    BY <1>6, <1>12, <2>1, <2>2
  <2>4. PICK m : m = Copy(u, 0, data)
    OBVIOUS
  <2>5. /\ data \in Data /\ Len(data) = l + n
        /\ \A k \in 1..l : data[k] = Content(c)[k]
        /\ \A k \in 1..n : data[l + k] = more[k]
    <3>1. PICK f : f = Content(c)
      OBVIOUS
    <3>2. /\ f \o more \in Data /\ Len(f \o more) = Len(f) + Len(more)
          /\ \A k \in 1..Len(f) : (f \o more)[k] = f[k]
          /\ \A k \in 1..Len(more) : (f \o more)[Len(f) + k] = more[k]
      BY <1>4, <1>8, <3>1, JoinData
    <3> QED
      BY <1>4, <1>8, <1>9, <3>1, <3>2
  <2>6. 0 + Len(data) <= z /\ 0 + l + n <= z
    BY <1>2, <1>4, <2>2, <2>3, <2>5
  <2>7. IsCopy(m, z, u, 0, data)
    BY <2>2, <2>4, <2>5, <2>6, CopyIs
  <2>8. \A k \in 1..l : m[0 + k - 1] = Content(c)[k]
    <3>1. \A k \in 1..l : k \in 1..Len(data)
      BY <1>2, <1>4, <2>5
    <3> QED
      BY <2>5, <2>7, <3>1 DEF IsCopy
  <2>9. \A k \in 1..n : m[0 + l + k - 1] = more[k]
    <3>1. \A k \in 1..n : l + k \in 1..Len(data) /\ 0 + l + k - 1 = 0 + (l + k) - 1
      BY <1>2, <1>4, <2>5
    <3> QED
      BY <2>5, <2>7, <3>1 DEF IsCopy
  <2>10. Holds(c, b, 0, l + n, m)
    BY <1>12, <2>1, <2>2, <2>4
  <2>11. m \in Memory(SizeOf(b))
    BY <2>2, <2>7 DEF IsCopy
  <2>12. /\ MemoryInv' /\ Queues!Put(c, n) /\ dead' = dead
         /\ Used(mem)' = (Used(mem) \ {mem[c]}) \cup {b}
    <3>1. PICK at \in Nat : at = 0
      OBVIOUS
    <3>2. /\ at + l + n <= SizeOf(b) /\ Holds(c, b, at, l + n, m)
          /\ Lies(m, at, Content(c), l) /\ Lies(m, at + l, more, n)
      BY <2>2, <2>6, <2>8, <2>9, <2>10, <3>1 DEF Lies
    <3> QED
      BY <1>1, <1>2, <1>4, <1>7, <2>1, <2>11, <3>2, HoldsPut
  <2>13. PoolOK(pool', (Used(mem) \cup {b}) \ {old})
    <3>1. PoolOK(p.pool, Used(mem) \cup {b}) /\ Used(mem) \cup {b} \in SUBSET Blocks
      BY <1>1, <1>6, <1>12, <2>1
    <3> QED
      BY <1>3, <1>12, <3>1, RecycleKeeps
  <2>14. Used(mem)' = (Used(mem) \cup {b}) \ {old}
    BY <1>3, <2>1, <2>12
  <2> QED
    BY <1>1, <2>12, <2>13, <2>14 DEF CachesInv, PoolOK, Keeps
<1> QED
  BY <1>10, <1>11, <1>12

LEMMA AppendMoveStep ==
    ASSUME CachesInv, NEW c \in Caches, NEW n \in Chunks, AppendMove(c, n)
    PROVE  CachesInv' /\ Queues!Put(c, n)
<1>1. MemoryInv /\ PoolOK(pool, Used(mem)) /\ dead \in BOOLEAN
  BY DEF CachesInv
<1>2. mem[c] # NoBlock /\ len[c] + n <= MaxLen /\ n \in Nat \ {0} /\ pool' = pool
  BY CacheAssumption DEF AppendMove, MayAppend
<1>3. PICK b \in Blocks : b = mem[c] /\ b \in Used(mem) /\ SizeOf(b) \in Nat
  BY <1>1, <1>2, BlockHeld
<1>4. PICK u, l :
        /\ u = bytes[mem[c]] /\ l = len[c]
        /\ u \in Memory(SizeOf(b)) /\ l \in Nat
        /\ Content(c) \in Data /\ Len(Content(c)) = l
  BY <1>1, <1>2, <1>3, BlockHeld DEF Shows
<1>5. PICK more : more = Queues!Stream(Content(c), n)
  OBVIOUS
<1>6. more \in Data /\ Len(more) = n
  BY <1>2, <1>4, <1>5, StreamIs
<1>7. 0 + l <= SizeOf(b) /\ l + n <= SizeOf(b) /\ 0 + (l + n) <= SizeOf(b) /\ 0 + l + n <= SizeOf(b)
      /\ l + n \in Nat
  BY <1>2, <1>3, <1>4 DEF AppendMove
<1>8. PICK moved : moved = Copy(u, 0, Content(c))
  OBVIOUS
<1>9. IsCopy(moved, SizeOf(b), u, 0, Content(c))
  BY <1>3, <1>4, <1>7, <1>8, CopyIs
<1>10. PICK q : q = Copy(moved, l, more)
  OBVIOUS
<1>11. IsCopy(q, SizeOf(b), moved, l, more)
  <2>1. moved \in Memory(SizeOf(b)) /\ l + Len(more) <= SizeOf(b)
    BY <1>6, <1>7, <1>9 DEF IsCopy
  <2> QED
    BY <1>3, <1>4, <1>6, <1>10, <2>1, CopyIs
<1>12. PICK m : m = Keep(q, 0, l + n)
  OBVIOUS
<1>13. IsPart(m, SizeOf(b), q, 0, l + n)
  <2>1. q \in Memory(SizeOf(b))
    BY <1>11 DEF IsCopy
  <2> QED
    BY <1>3, <1>7, <1>12, <2>1, KeepIs
<1>14. \A k \in 1..l : m[0 + k - 1] = Content(c)[k]
  <2>1. SUFFICES ASSUME NEW k \in 1..l
                 PROVE  m[0 + k - 1] = Content(c)[k]
    OBVIOUS
  <2>2. k \in 1..(l + n) /\ 0 + k - 1 \in 0..(SizeOf(b) - 1) /\ 0 + k - 1 < l
    BY <1>2, <1>3, <1>4, <1>7
  <2>3. m[0 + k - 1] = q[0 + k - 1]
    BY <1>13, <2>2 DEF IsPart
  <2>4. q[0 + k - 1] = moved[0 + k - 1]
    BY <1>11, <2>2 DEF IsCopy
  <2>5. moved[0 + k - 1] = Content(c)[k]
    BY <1>4, <1>9 DEF IsCopy
  <2> QED
    BY <2>3, <2>4, <2>5
<1>15. \A k \in 1..n : m[0 + l + k - 1] = more[k]
  <2>1. SUFFICES ASSUME NEW k \in 1..n
                 PROVE  m[0 + l + k - 1] = more[k]
    OBVIOUS
  <2>2. l + k \in 1..(l + n) /\ 0 + (l + k) - 1 = 0 + l + k - 1 /\ 0 + l + k - 1 = l + k - 1
    BY <1>2, <1>4
  <2>3. m[0 + l + k - 1] = q[l + k - 1]
    BY <1>13, <2>2 DEF IsPart
  <2>4. q[l + k - 1] = more[k]
    BY <1>6, <1>11 DEF IsCopy
  <2> QED
    BY <2>3, <2>4
<1>16. Holds(c, b, 0, l + n, m)
  BY <1>3, <1>4, <1>5, <1>8, <1>10, <1>12 DEF AppendMove
<1>17. m \in Memory(SizeOf(b))
  BY <1>13 DEF IsPart
<1>18. /\ MemoryInv' /\ Queues!Put(c, n) /\ dead' = dead
       /\ Used(mem)' = (Used(mem) \ {mem[c]}) \cup {b}
  <2>1. PICK at \in Nat : at = 0
    OBVIOUS
  <2>2. /\ at + l + n <= SizeOf(b) /\ Holds(c, b, at, l + n, m)
        /\ Lies(m, at, Content(c), l) /\ Lies(m, at + l, more, n)
    BY <1>7, <1>14, <1>15, <1>16, <2>1 DEF Lies
  <2>3. l + n <= MaxLen /\ b = mem[c]
    BY <1>2, <1>3, <1>4
  <2> QED
    BY <1>1, <1>2, <1>4, <1>5, <1>17, <2>2, <2>3, HoldsPut
<1>19. Used(mem)' = Used(mem)
  BY <1>3, <1>18
<1> QED
  BY <1>1, <1>2, <1>18, <1>19 DEF CachesInv, PoolOK, Keeps

LEMMA SkipStep ==
    ASSUME CachesInv, NEW c \in Caches, NEW n \in Skips, Skip(c, n)
    PROVE  CachesInv' /\ n \in 1..Len(Content(c)) /\ Queues!Take(c, n)
<1>1. MemoryInv /\ PoolOK(pool, Used(mem)) /\ dead \in BOOLEAN
  BY DEF CachesInv
<1>2. mem[c] # NoBlock /\ n < len[c] /\ n \in Nat \ {0} /\ pool' = pool
  BY CacheAssumption DEF Skip
<1>3. PICK b \in Blocks : b = mem[c] /\ b \in Used(mem) /\ SizeOf(b) \in Nat
  BY <1>1, <1>2, BlockHeld
<1>4. PICK u, at, l :
        /\ u = bytes[mem[c]] /\ at = head[c] /\ l = len[c]
        /\ u \in Memory(SizeOf(b)) /\ at \in Nat /\ l \in 1..MaxLen /\ at + l <= SizeOf(b)
        /\ Shows(Content(c), u, at, l)
  BY <1>1, <1>2, <1>3, BlockHeld
<1>5. /\ at + n \in Nat /\ l - n \in Nat /\ l - n \in 0..MaxLen /\ l - n > 0
      /\ (at + n) + (l - n) <= SizeOf(b) /\ n \in 0..l
  BY <1>2, <1>3, <1>4, CacheAssumption
<1>6. PICK m : m = Keep(u, at + n, l - n)
  OBVIOUS
<1>7. IsPart(m, SizeOf(b), u, at + n, l - n)
  BY <1>3, <1>4, <1>5, <1>6, KeepIs
<1>8. Holds(c, b, at + n, l - n, m)
  BY <1>3, <1>4, <1>6 DEF Skip
<1>9. m \in Memory(SizeOf(b)) /\ b # NoBlock
  BY <1>7, BlockOfSize DEF IsPart
<1>10. /\ MemoryInv' /\ Used(mem)' = (Used(mem) \ {mem[c]}) \cup ({b} \ {NoBlock})
       /\ Content(c)' = Shown(m, SizeOf(b), at + n, l - n)
       /\ \A d \in Caches \ {c} : Content(d)' = Content(d)
  BY <1>1, <1>3, <1>5, <1>8, <1>9, HoldsKeeps
<1>11. Content(c)' = SubSeq(Content(c), n + 1, Len(Content(c)))
  <2>1. Shows(Content(c)', m, at + n, l - n)
    BY <1>3, <1>5, <1>9, <1>10, ShownIs
  <2>2. PICK new : new = Content(c)'
    OBVIOUS
  <2>3. new \in Data /\ Len(new) = l - n /\ \A k \in 1..(l - n) : new[k] = m[(at + n) + k - 1]
    BY <2>1, <2>2 DEF Shows
  <2>4. PICK f : f = Content(c)
    OBVIOUS
  <2>5. f \in Data /\ Len(f) = l /\ \A k \in 1..l : f[k] = u[at + k - 1]
    BY <1>4, <2>4 DEF Shows
  <2>6. PICK rest : rest = SubSeq(f, n + 1, l)
    OBVIOUS
  <2>7. rest \in Data /\ Len(rest) = l - n /\ \A k \in 1..(l - n) : rest[k] = f[n + k]
    <3>1. PICK S : S = 0..MarkMod
      OBVIOUS
    <3>2. f \in Seq(S)
      BY <2>5, <3>1 DEF Data
    <3>3. n + 1 \in 1..(l + 1) /\ l \in Nat /\ Len(f) = l /\ (n + 1) - 1 = n
      BY <1>2, <1>4, <2>5
    <3>4. rest \in Seq(S)
      BY <2>6, <3>2, <3>3
    <3>5. Len(rest) = l - n /\ \A k \in 1..(l - n) : rest[k] = f[n + k]
      BY <2>6, <3>2, <3>3
    <3> QED
      BY <3>1, <3>4, <3>5 DEF Data
  <2>8. ASSUME NEW k \in 1..(l - n)
        PROVE  new[k] = rest[k]
    <3>1. n + k \in 1..l /\ at + (n + k) - 1 = (at + n) + k - 1
      BY <1>2, <1>4
    <3>2. m[(at + n) + k - 1] = u[(at + n) + k - 1]
      BY <1>7 DEF IsPart
    <3> QED
      BY <2>3, <2>5, <2>7, <3>1, <3>2
  <2> QED
    BY <2>2, <2>3, <2>4, <2>5, <2>6, <2>7, <2>8, SameData
<1>12. dead' = dead
  BY <1>8 DEF Holds
<1>13. Queues!Take(c, n)
  BY <1>10, <1>11, <1>12, TakeIs DEF Others
<1>14. Used(mem)' = Used(mem)
  BY <1>3, <1>9, <1>10
<1>15. n \in 1..Len(Content(c))
  BY <1>2, <1>4 DEF Shows
<1> QED
  BY <1>1, <1>2, <1>10, <1>12, <1>13, <1>14, <1>15 DEF CachesInv, PoolOK, Keeps

LEMMA SkipAllStep ==
    ASSUME CachesInv, NEW c \in Caches, SkipAll(c)
    PROVE  CachesInv' /\ \E n \in 1..Len(Content(c)) : Queues!Take(c, n)
<1>1. MemoryInv /\ PoolOK(pool, Used(mem)) /\ Used(mem) \in SUBSET Blocks /\ dead \in BOOLEAN
  BY UsedAreBlocks DEF CachesInv
<1>2. mem[c] # NoBlock /\ pool' = Recycle(pool, mem[c]) /\ Holds(c, NoBlock, 0, 0, <<>>)
  BY DEF SkipAll
<1>3. PICK b \in Used(mem) : b = mem[c]
  BY <1>1, <1>2, BlockHeld
<1>4. PICK l : l = len[c] /\ l \in 1..MaxLen /\ Content(c) \in Data /\ Len(Content(c)) = l
  BY <1>1, <1>2, BlockHeld DEF Shows
<1>5. 0 \in 0..MaxLen /\ NoBlock \in Blocks \cup {NoBlock} /\ NoBlock \notin Used(mem)
  BY CacheAssumption DEF Used
<1>6. /\ MemoryInv' /\ Used(mem)' = (Used(mem) \ {mem[c]}) \cup ({NoBlock} \ {NoBlock})
      /\ Content(c)' = <<>>
      /\ \A d \in Caches \ {c} : Content(d)' = Content(d)
  BY <1>1, <1>2, <1>5, HoldsKeeps
<1>7. Used(mem)' = Used(mem) \ {b}
  BY <1>3, <1>6
<1>8. PoolOK(pool', Used(mem) \ {b})
  BY <1>1, <1>2, <1>3, RecycleKeeps
<1>9. dead' = dead
  BY <1>2 DEF Holds
<1>10. Content(c)' = SubSeq(Content(c), l + 1, Len(Content(c)))
  BY <1>4, <1>6 DEF Data
<1>11. Queues!Take(c, l)
  BY <1>6, <1>9, <1>10, TakeIs DEF Others
<1> QED
  BY <1>1, <1>4, <1>6, <1>7, <1>8, <1>9, <1>11 DEF CachesInv, PoolOK, Keeps

-----------------------------------------------------------------------------
LEMMA CachesStart == CachesInit => CachesInv /\ Queues!ByteQueuesInit
<1> SUFFICES ASSUME CachesInit
             PROVE  CachesInv /\ Queues!ByteQueuesInit
  OBVIOUS
<1>1. /\ mem = [c \in Caches |-> NoBlock] /\ head = [c \in Caches |-> 0]
      /\ len = [c \in Caches |-> 0] /\ bytes = <<>> /\ dead = FALSE /\ pool = EmptyPool
  BY DEF CachesInit
<1>2. Used(mem) = {} /\ DOMAIN bytes = {}
  BY <1>1 DEF Used
<1>3. MemoryInv
  BY <1>1, <1>2, CacheAssumption DEF MemoryInv
<1>4. ASSUME NEW s \in Sizes
      PROVE  Keeps(pool, {}, s)
  <2>1. pool.free[s] = <<>> /\ pool.stub[s] = {}
    BY <1>1 DEF EmptyPool
  <2>2. IsFiniteSet({})
    BY FS_EmptySet
  <2>3. <<>> \in Seq(Blocks) /\ IsInjective(<<>>) /\ ToSet(<<>>) = {}
    BY DEF IsInjective, ToSet
  <2> QED
    BY <2>1, <2>2, <2>3 DEF Keeps
<1>5. pool.free \in [Sizes -> Seq(Blocks)] /\ pool.stub \in [Sizes -> SUBSET Blocks]
  BY <1>1 DEF EmptyPool
<1>6. PoolOK(pool, Used(mem))
  BY <1>2, <1>4, <1>5 DEF PoolOK
<1>7. [c \in Caches |-> Content(c)] = [c \in Caches |-> <<>>]
  <2>1. \A c \in Caches : Content(c) = <<>>
    BY <1>1 DEF Content
  <2> QED
    BY <2>1
<1> QED
  BY <1>1, <1>3, <1>6, <1>7 DEF CachesInv, Queues!ByteQueuesInit

LEMMA CachesStep ==
    CachesInv /\ [CachesNext]_cacheVars
        => CachesInv' /\ [Queues!ByteQueuesNext]_<<[c \in Caches |-> Content(c)], dead>>
<1> SUFFICES ASSUME CachesInv, [CachesNext]_cacheVars
             PROVE  CachesInv' /\ [Queues!ByteQueuesNext]_<<[c \in Caches |-> Content(c)], dead>>
  OBVIOUS
<1>1. ASSUME NEW c \in Caches, NEW n \in Chunks,
             AppendFirst(c, n) \/ AppendInPlace(c, n) \/ AppendRealloc(c, n) \/ AppendMove(c, n)
      PROVE  CachesInv' /\ Queues!ByteQueuesNext
  <2>1. ~dead
    BY <1>1 DEF AppendFirst, AppendInPlace, AppendRealloc, AppendMove, MayAppend
  <2>2. CachesInv' /\ (Queues!Put(c, n) \/ Queues!Fail)
    BY <1>1, AppendFirstStep, AppendInPlaceStep, AppendReallocStep, AppendMoveStep
  <2> QED
    BY <2>1, <2>2 DEF Queues!ByteQueuesNext
<1>2. ASSUME NEW c \in Caches, NEW n \in Skips, Skip(c, n)
      PROVE  CachesInv' /\ Queues!ByteQueuesNext
  <2>1. ~dead
    BY <1>2 DEF Skip
  <2>2. CachesInv' /\ n \in 1..Len(Content(c)) /\ Queues!Take(c, n)
    BY <1>2, SkipStep
  <2> QED
    BY <2>1, <2>2 DEF Queues!ByteQueuesNext
<1>3. ASSUME NEW c \in Caches, SkipAll(c)
      PROVE  CachesInv' /\ Queues!ByteQueuesNext
  <2>1. ~dead
    BY <1>3 DEF SkipAll
  <2>2. CachesInv' /\ \E n \in 1..Len(Content(c)) : Queues!Take(c, n)
    BY <1>3, SkipAllStep
  <2> QED
    BY <2>1, <2>2 DEF Queues!ByteQueuesNext
<1>4. CASE UNCHANGED cacheVars
  <2>1. /\ pool' = pool /\ mem' = mem /\ head' = head /\ len' = len /\ bytes' = bytes /\ dead' = dead
    BY <1>4 DEF cacheVars
  <2>2. Used(mem)' = Used(mem)
    BY <2>1
  <2>3. CachesInv'
    BY <2>1, <2>2 DEF CachesInv, MemoryInv, PoolOK, Keeps
  <2>4. [c \in Caches |-> Content(c)]' = [c \in Caches |-> Content(c)]
    BY <2>1 DEF Content
  <2> QED
    BY <2>1, <2>3, <2>4
<1> QED
  BY <1>1, <1>2, <1>3, <1>4 DEF CachesNext

(* The caches and the pool are always as the invariant says. *)
THEOREM CachesInvariant == CachesSpec => []CachesInv
<1>1. CachesInv /\ [CachesNext]_cacheVars => CachesInv'
  BY CachesStep
<1> QED
  BY <1>1, CachesStart, PTL DEF CachesSpec

(* A cache that holds data has a block of the pool in which they fit, and  *)
(* only then (_mem, _data_head and _data_len after any append and skip).   *)
THEOREM CachesTypeCorrect == CachesSpec => []CachesTypeOK
  BY CachesInvariant, InvImplies, PTL

(* Every block of the pool is used by one cache or once in its free list,  *)
(* whatever is allocated, recycled, extended and released.                 *)
THEOREM NoBlockTwice == CachesSpec => []BlocksAreKeptOnce
  BY CachesInvariant, InvImplies, PTL

(* The caches implement queues of bytes: what comes out of one is what was *)
(* appended to it, in that order, whatever blocks the data move through.   *)
THEOREM CachesAreQueues == CachesSpec => ImplementsByteQueues
<1>1. CachesInit => Queues!ByteQueuesInit
  BY CachesStart
<1>2. CachesInv /\ [CachesNext]_cacheVars
        => [Queues!ByteQueuesNext]_<<[c \in Caches |-> Content(c)], dead>>
  BY CachesStep
<1> QED
  BY <1>1, <1>2, CachesInvariant, PTL DEF CachesSpec, ImplementsByteQueues, Queues!ByteQueuesSpec

-----------------------------------------------------------------------------
(* How many bytes the pool has: what is listed is counted right. *)
LEMMA SizesAreFinite == IsFiniteSet(Sizes)
<1> DEFINE f == [i \in 0..TopExponent |-> MinBlock * 2^i]
<1>1. f \in Surjection(0..TopExponent, Sizes)
  BY DEF Surjection, Sizes
<1>2. IsFiniteSet(0..TopExponent)
  BY PoolAssumption, FS_Interval
<1> QED
  BY <1>1, <1>2, FS_Surjection

LEMMA BytesAreSum ==
    ASSUME NEW k
    PROVE  \E g : IsSum([s \in Sizes |-> s * k[s]], Sizes, g) /\ BytesOf(k) = g[Sizes]
<1> DEFINE F == [s \in Sizes |-> s * k[s]]
           R(h) == h = [s \in SUBSET Sizes |-> IF s = {} THEN 0
                                               ELSE LET x == CHOOSE x \in s : TRUE
                                                    IN  (x * k[x]) + h[s \ {x}]]
<1>1. \A h : R(h) <=> IsSum(F, Sizes, h)
  BY DEF IsSum, SumStep, Taken
<1>2. PICK g : g = CHOOSE h : R(h)
  OBVIOUS
<1>3. BytesOf(k) = g[Sizes]
  BY <1>2 DEF BytesOf, MapThenSumSet, MapThenFoldSet
<1> HIDE DEF R, F
<1>4. \E h : R(h)
  BY <1>1, SumExists, SizesAreFinite
<1>5. R(g)
  BY <1>2, <1>4
<1>6. IsSum(F, Sizes, g)
  BY <1>1, <1>5
<1> QED
  BY <1>3, <1>6 DEF F

(* The first blocks of a free list are as many as one counts. *)
LEMMA CountFirst ==
    ASSUME NEW S, NEW f \in Seq(S), IsInjective(f), NEW n \in 0..Len(f)
    PROVE  IsFiniteSet(ToSet(SubSeq(f, 1, n))) /\ Cardinality(ToSet(SubSeq(f, 1, n))) = n
<1>1. PICK h : h = SubSeq(f, 1, n)
  OBVIOUS
<1>2. DOMAIN h = 1..n /\ (\A k \in 1..n : h[k] = f[k] /\ k \in DOMAIN f) /\ h \in Seq(S)
  BY <1>1
<1>3. h \in Surjection(1..n, ToSet(h)) /\ h \in Injection(1..n, ToSet(h))
  <2>1. \A i, j \in 1..n : h[i] = h[j] => i = j
    BY <1>2 DEF IsInjective
  <2>2. h \in [1..n -> ToSet(h)]
    BY <1>2 DEF ToSet
  <2> QED
    BY <1>2, <2>1, <2>2 DEF Surjection, Injection, IsInjective, ToSet
<1>4. IsFiniteSet(1..n) /\ Cardinality(1..n) = n
  BY FS_Interval
<1> QED
  BY <1>1, <1>3, <1>4, FS_Surjection

Stubs(p) == [s \in Sizes |-> Cardinality(p.stub[s])]

PoolBound(p) == p.allocated = BytesOf(Stubs(p)) /\ p.allocated <= MaxPool

(* Blocks of each size, together with more of them. *)
LEMMA BytesAdd ==
    ASSUME NEW k, NEW l, NEW m,
           \A s \in Sizes : l[s] \in Nat /\ m[s] \in Nat /\ k[s] = l[s] + m[s]
    PROVE  BytesOf(l) \in Nat /\ BytesOf(m) \in Nat /\ BytesOf(k) = BytesOf(l) + BytesOf(m)
<1> DEFINE F == [s \in Sizes |-> s * k[s]]
           G == [s \in Sizes |-> s * l[s]]
           H == [s \in Sizes |-> s * m[s]]
<1>1. \A s \in Sizes : G[s] \in Nat /\ H[s] \in Nat /\ F[s] = G[s] + H[s]
  <2>1. SUFFICES ASSUME NEW s \in Sizes
                 PROVE  G[s] \in Nat /\ H[s] \in Nat /\ F[s] = G[s] + H[s]
    OBVIOUS
  <2>2. PICK x \in Nat : x = s
    BY PoolAssumption
  <2>3. PICK a \in Nat : a = l[s]
    OBVIOUS
  <2>4. PICK b \in Nat : b = m[s]
    OBVIOUS
  <2>5. G[s] = x * a /\ H[s] = x * b /\ F[s] = x * (a + b)
    BY <2>2, <2>3, <2>4
  <2>6. x * a \in Nat /\ x * b \in Nat /\ x * (a + b) = x * a + x * b
    OBVIOUS
  <2> QED
    BY <2>5, <2>6
<1>2. PICK f : IsSum(F, Sizes, f) /\ BytesOf(k) = f[Sizes]
  BY BytesAreSum
<1>3. PICK g : IsSum(G, Sizes, g) /\ BytesOf(l) = g[Sizes]
  BY BytesAreSum
<1>4. PICK h : IsSum(H, Sizes, h) /\ BytesOf(m) = h[Sizes]
  BY BytesAreSum
<1> HIDE DEF F, G, H
<1>5. h[Sizes] \in Nat /\ g[Sizes] \in Nat
  BY <1>1, <1>3, <1>4, SizesAreFinite, SumIsNat
<1>6. f[Sizes] = g[Sizes] + h[Sizes]
  <2>1. \A s \in Sizes : G[s] \in Int /\ H[s] \in Int /\ F[s] = G[s] + H[s]
    BY <1>1
  <2> QED
    BY <1>2, <1>3, <1>4, <2>1, SizesAreFinite, SumOfSums
<1> QED
  BY <1>2, <1>3, <1>4, <1>5, <1>6

LEMMA BytesOfOneSize ==
    ASSUME NEW s \in Sizes, NEW n \in Nat
    PROVE  BytesOf([t \in Sizes |-> IF t = s THEN n ELSE 0]) = s * n
<1> DEFINE k == [t \in Sizes |-> IF t = s THEN n ELSE 0]
           H == [t \in Sizes |-> t * k[t]]
<1>1. PICK x \in Nat : x = s
  BY PoolAssumption
<1>2. s * n \in Int
  <2>1. x * n \in Int
    OBVIOUS
  <2> QED
    BY <1>1, <2>1
<1>3. \A t \in Sizes : H[t] = IF t = s THEN s * n ELSE 0
  <2>1. \A y \in Nat : y * 0 = 0
    OBVIOUS
  <2> QED
    BY <2>1, PoolAssumption
<1>4. PICK h : IsSum(H, Sizes, h) /\ BytesOf(k) = h[Sizes]
  BY BytesAreSum
<1> HIDE DEF H
<1>5. h[Sizes] = s * n
  BY <1>2, <1>3, <1>4, SizesAreFinite, SumOfOne
<1> QED
  BY <1>4, <1>5

LEMMA GiveBackBound ==
    ASSUME NEW p, NEW U, PoolOK(p, U), PoolBound(p),
           NEW k, \A s \in Sizes : k[s] \in 0..Len(p.free[s])
    PROVE  PoolBound(GiveBack(p, k))
<1>1. PICK q : q = GiveBack(p, k)
  OBVIOUS
<1>2. /\ \A s \in Sizes : q.stub[s] = p.stub[s] \ ToSet(SubSeq(p.free[s], 1, k[s]))
      /\ q.allocated = p.allocated - BytesOf(k)
  BY <1>1 DEF GiveBack
<1>3. ASSUME NEW s \in Sizes
      PROVE  /\ k[s] \in Nat /\ Stubs(q)[s] \in Nat
             /\ Stubs(p)[s] = Stubs(q)[s] + k[s]
  <2>1. Keeps(p, U, s)
    BY DEF PoolOK
  <2>2. PICK f \in Seq(Blocks), n \in Nat : f = p.free[s] /\ n = k[s] /\ n \in 0..Len(f)
    BY <2>1 DEF Keeps
  <2>3. PICK gone : gone = ToSet(SubSeq(f, 1, n))
    OBVIOUS
  <2>4. IsFiniteSet(gone) /\ Cardinality(gone) = n
    BY <2>1, <2>2, <2>3, CountFirst DEF Keeps
  <2>5. gone \subseteq ToSet(f)
    <3>1. \A i \in 1..n : i \in DOMAIN f /\ SubSeq(f, 1, n)[i] = f[i]
      BY <2>2
    <3>2. DOMAIN SubSeq(f, 1, n) = 1..n
      BY <2>2
    <3> QED
      BY <2>3, <3>1, <3>2 DEF ToSet
  <2>6. IsFiniteSet(p.stub[s]) /\ p.stub[s] \cap gone = gone
    BY <2>1, <2>2, <2>5 DEF Keeps
  <2>7. /\ IsFiniteSet(p.stub[s] \ gone)
        /\ Cardinality(p.stub[s] \ gone) = Cardinality(p.stub[s]) - n
    BY <2>4, <2>6, FS_Difference
  <2>8. Cardinality(p.stub[s] \ gone) \in Nat /\ Cardinality(p.stub[s]) \in Nat
    BY <2>6, <2>7, FS_CardinalityType
  <2>9. Stubs(p)[s] = Cardinality(p.stub[s]) /\ Stubs(q)[s] = Cardinality(p.stub[s] \ gone)
    BY <1>2, <2>2, <2>3 DEF Stubs
  <2> QED
    BY <2>2, <2>7, <2>8, <2>9
<1>4. PICK kp, kq : kp = Stubs(p) /\ kq = Stubs(q)
  OBVIOUS
<1>5. BytesOf(kq) \in Nat /\ BytesOf(k) \in Nat /\ BytesOf(kp) = BytesOf(kq) + BytesOf(k)
  <2>1. \A s \in Sizes : kq[s] \in Nat /\ k[s] \in Nat /\ kp[s] = kq[s] + k[s]
    BY <1>3, <1>4
  <2> QED
    BY <2>1, BytesAdd
<1>6. q.allocated = BytesOf(kq) /\ q.allocated <= MaxPool
  BY <1>2, <1>4, <1>5, PoolAssumption DEF PoolBound
<1> QED
  BY <1>1, <1>4, <1>6 DEF PoolBound

LEMMA ReleaseBound ==
    ASSUME NEW p, NEW U, PoolOK(p, U), PoolBound(p), NEW s \in Sizes, NEW waterMark
    PROVE  PoolBound(Release(p, s, waterMark))
<1>1. \A t \in Sizes : Len(p.free[t]) \in Nat
  BY DEF PoolOK
<1>2. \A t \in Sizes : (IF t = s THEN Todo(p, s, waterMark) ELSE 0) \in 0..Len(p.free[t])
  BY <1>1, ToReleaseBound DEF Todo
<1> QED
  BY <1>2, GiveBackBound DEF Release

LEMMA RoomBound ==
    ASSUME NEW p, NEW U, PoolOK(p, U), PoolBound(p), NEW need
    PROVE  PoolBound(Room(p, need))
<1>1. ASSUME NEW n
      PROVE  PoolBound(Purge(p, n))
  <2>1. \A t \in Sizes : Len(p.free[t]) \in Nat
    BY DEF PoolOK
  <2>2. \A t \in Sizes : (IF t \in Purged(p, n) THEN Todo(p, t, AllocCapacity) ELSE 0)
                            \in 0..Len(p.free[t])
    BY <2>1, ToReleaseBound DEF Todo
  <2> QED
    BY <2>2, GiveBackBound DEF Purge
<1> QED
  BY <1>1 DEF Room

LEMMA AddedBound ==
    ASSUME NEW p, NEW U \in SUBSET Blocks, PoolOK(p, U), PoolBound(p),
           NEW s \in Sizes, NEW n \in Nat, p.allocated + s * n <= MaxPool
    PROVE  PoolBound(Added(p, s, n))
<1>1. PICK new : new = NewBlocks(p, s, n)
  OBVIOUS
<1>2. Keeps(p, U, s)
  BY DEF PoolOK
<1>3. /\ new \in Seq(BlocksOf(s)) /\ IsInjective(new) /\ Len(new) = n
      /\ ToSet(new) \cap p.stub[s] = {}
  BY <1>1, <1>2, NewBlocksAreNew DEF Keeps
<1>4. PICK q : q = Added(p, s, n)
  OBVIOUS
<1>5. /\ q.stub = [p.stub EXCEPT ![s] = p.stub[s] \cup ToSet(new)]
      /\ q.allocated = p.allocated + s * n
  BY <1>1, <1>4 DEF Added
<1>6. IsFiniteSet(ToSet(new)) /\ Cardinality(ToSet(new)) = n
  <2>1. PICK all : all = SubSeq(new, 1, n)
    OBVIOUS
  <2>2. n \in 0..Len(new) /\ all = new
    BY <1>3, <2>1
  <2> QED
    BY <1>3, <2>1, <2>2, CountFirst
<1>7. PICK kp, kq, k : /\ kp = Stubs(p) /\ kq = Stubs(q)
                       /\ k = [t \in Sizes |-> IF t = s THEN n ELSE 0]
  OBVIOUS
<1>8. ASSUME NEW t \in Sizes
      PROVE  kp[t] \in Nat /\ k[t] \in Nat /\ kq[t] = kp[t] + k[t]
  <2>1. Keeps(p, U, t) /\ kp[t] = Cardinality(p.stub[t]) /\ kq[t] = Cardinality(q.stub[t])
    BY <1>7 DEF PoolOK, Stubs
  <2>2. kp[t] \in Nat
    BY <2>1, FS_CardinalityType DEF Keeps
  <2>3. CASE t # s
    <3>1. q.stub[t] = p.stub[t]
      BY <1>5, <2>3 DEF PoolOK
    <3> QED
      BY <1>7, <2>1, <2>2, <2>3, <3>1
  <2>4. CASE t = s
    <3>1. q.stub[t] = p.stub[t] \cup ToSet(new)
      BY <1>5, <2>4 DEF PoolOK
    <3>2. IsFiniteSet(p.stub[t]) /\ p.stub[t] \cap ToSet(new) = {}
      BY <1>3, <2>1, <2>4 DEF Keeps
    <3>3. Cardinality(q.stub[t]) = Cardinality(p.stub[t]) + n - Cardinality({})
      BY <1>6, <3>1, <3>2, FS_Union
    <3>4. Cardinality({}) = 0
      BY FS_EmptySet
    <3> QED
      BY <1>7, <2>1, <2>2, <2>4, <3>3, <3>4
  <2> QED
    BY <2>3, <2>4
<1>9. BytesOf(kp) \in Nat /\ BytesOf(kq) = BytesOf(kp) + BytesOf(k)
  BY <1>8, BytesAdd
<1>10. BytesOf(k) = s * n
  BY <1>7, BytesOfOneSize
<1>11. q.allocated = BytesOf(kq) /\ q.allocated <= MaxPool
  BY <1>5, <1>7, <1>9, <1>10 DEF PoolBound
<1> QED
  BY <1>4, <1>7, <1>11 DEF PoolBound

LEMMA ExtendBound ==
    ASSUME NEW p, NEW U \in SUBSET Blocks, PoolOK(p, U), PoolBound(p), NEW s \in Sizes
    PROVE  PoolBound(Extend(p, s))
<1>1. PICK n \in Nat : n = FitExtendSet(s)
  BY ExtendSetType
<1>2. PICK q : q = Room(p, s * n)
  OBVIOUS
<1>3. PoolOK(q, U) /\ PoolBound(q)
  BY <1>2, RoomKeeps, RoomBound
<1>4. Extend(p, s) = IF q.allocated + s * n > MaxPool THEN q ELSE Added(q, s, n)
  BY <1>1, <1>2 DEF Extend
<1>5. CASE q.allocated + s * n > MaxPool
  BY <1>3, <1>4, <1>5
<1>6. CASE ~(q.allocated + s * n > MaxPool)
  <2>1. PICK a \in Int : a = q.allocated
    <3>1. BytesOf(Stubs(q)) \in Nat
      <4>1. PICK kq : kq = Stubs(q)
        OBVIOUS
      <4>2. \A t \in Sizes : kq[t] \in Nat
        BY <1>3, <4>1, FS_CardinalityType DEF Stubs, PoolOK, Keeps
      <4>3. PICK none : none = [t \in Sizes |-> 0]
        OBVIOUS
      <4>4. \A t \in Sizes : kq[t] \in Nat /\ none[t] \in Nat /\ kq[t] = kq[t] + none[t]
        BY <4>2, <4>3
      <4> QED
        BY <4>1, <4>4, BytesAdd
    <3> QED
      BY <1>3, <3>1 DEF PoolBound
  <2>2. PICK x \in Nat : x = s
    BY PoolAssumption
  <2>3. x * n \in Int
    OBVIOUS
  <2>4. q.allocated + s * n <= MaxPool
    BY <1>6, <2>1, <2>2, <2>3, PoolAssumption
  <2> QED
    BY <1>3, <1>4, <1>6, <2>4, AddedBound
<1> QED
  BY <1>5, <1>6

LEMMA AllocateBound ==
    ASSUME NEW p, NEW U \in SUBSET Blocks, PoolOK(p, U), PoolBound(p), NEW n \in 0..MaxLen
    PROVE  PoolBound(Allocate(p, n).pool)
<1>1. PICK s \in Sizes : s = FitBlockSize(n)
  BY FitsInSize
<1>2. PICK q : q = IF p.free[s] = <<>> THEN Extend(p, s) ELSE p
  OBVIOUS
<1>3. PoolBound(q)
  BY <1>2, ExtendBound
<1>4. PICK w : w = WithFree(q, s, Tail(q.free[s]))
  OBVIOUS
<1>5. w.stub = q.stub /\ w.allocated = q.allocated
  BY <1>4 DEF WithFree
<1>6. PoolBound(w)
  BY <1>3, <1>5 DEF PoolBound, Stubs
<1>7. Allocate(p, n).pool = q \/ Allocate(p, n).pool = w
  BY <1>1, <1>2, <1>4 DEF Allocate
<1> QED
  BY <1>3, <1>6, <1>7

LEMMA RecycleBound ==
    ASSUME NEW p, NEW U \in SUBSET Blocks, PoolOK(p, U), PoolBound(p), NEW b \in U
    PROVE  PoolBound(Recycle(p, b))
<1>1. PICK w : /\ w.stub = p.stub /\ w.allocated = p.allocated /\ PoolOK(w, U \ {b})
               /\ SizeOf(b) \in Sizes
               /\ Recycle(p, b) = Release(w, SizeOf(b), MaxWaterMark)
  BY PutBack
<1>2. PoolBound(w)
  BY <1>1 DEF PoolBound, Stubs
<1> QED
  BY <1>1, <1>2, ReleaseBound

(* What the steps of the caches do to the pool. *)
LEMMA PoolStep ==
    ASSUME CachesInv, PoolBound(pool), [CachesNext]_cacheVars
    PROVE  PoolBound(pool')
<1>1. MemoryInv /\ PoolOK(pool, Used(mem)) /\ Used(mem) \in SUBSET Blocks
  BY UsedAreBlocks DEF CachesInv
<1>2. ASSUME NEW n \in 0..MaxLen
      PROVE  PoolBound(Allocate(pool, n).pool)
  BY <1>1, <1>2, AllocateBound
<1>3. ASSUME NEW c \in Caches, NEW n \in Chunks, MayAppend(c, n)
      PROVE  n \in 0..MaxLen /\ n + len[c] \in 0..MaxLen
  BY <1>1, <1>3, CacheAssumption DEF MayAppend, MemoryInv
<1>4. ASSUME NEW c \in Caches, NEW n \in Chunks, AppendFirst(c, n)
      PROVE  PoolBound(pool')
  <2>1. pool' = Allocate(pool, n).pool /\ MayAppend(c, n)
    BY <1>4 DEF AppendFirst, AppendFails
  <2> QED
    BY <1>2, <1>3, <2>1
<1>5. ASSUME NEW c \in Caches, NEW n \in Chunks, AppendRealloc(c, n)
      PROVE  PoolBound(pool')
  <2>1. PICK r : r = Allocate(pool, n + len[c])
    OBVIOUS
  <2>2. MayAppend(c, n) /\ mem[c] # NoBlock
    BY <1>5 DEF AppendRealloc
  <2>3. n + len[c] \in 0..MaxLen
    BY <1>3, <2>2
  <2>4. PoolBound(r.pool)
    BY <1>2, <2>1, <2>3
  <2>5. \/ r.block = NoBlock /\ pool' = r.pool
        \/ r.block # NoBlock /\ pool' = Recycle(r.pool, mem[c])
    BY <1>5, <2>1 DEF AppendRealloc, AppendFails
  <2>6. CASE r.block # NoBlock /\ pool' = Recycle(r.pool, mem[c])
    <3>1. PICK b \in Blocks : b = r.block /\ PoolOK(r.pool, Used(mem) \cup {b})
      BY <1>1, <2>1, <2>3, <2>6, AllocateKeeps
    <3>2. mem[c] \in Used(mem) \cup {b} /\ Used(mem) \cup {b} \in SUBSET Blocks
      BY <1>1, <2>2, BlockHeld
    <3> QED
      BY <2>4, <2>6, <3>1, <3>2, RecycleBound
  <2> QED
    BY <2>4, <2>5, <2>6
<1>6. ASSUME NEW c \in Caches, SkipAll(c)
      PROVE  PoolBound(pool')
  <2>1. mem[c] \in Used(mem) /\ pool' = Recycle(pool, mem[c])
    BY <1>1, <1>6, BlockHeld DEF SkipAll
  <2> QED
    BY <1>1, <2>1, RecycleBound
<1>7. CASE pool' = pool
  BY <1>7
<1> QED
  BY <1>4, <1>5, <1>6, <1>7 DEF CachesNext, AppendInPlace, AppendMove, Skip, cacheVars

LEMMA PoolStart == CachesInit => PoolBound(pool)
<1> SUFFICES ASSUME CachesInit
             PROVE  PoolBound(pool)
  OBVIOUS
<1>1. pool.allocated = 0 /\ \A s \in Sizes : pool.stub[s] = {}
  BY DEF CachesInit, EmptyPool
<1>2. PICK k : k = Stubs(pool)
  OBVIOUS
<1>3. \A s \in Sizes : k[s] = 0
  BY <1>1, <1>2, FS_EmptySet DEF Stubs
<1>4. \A s \in Sizes : k[s] \in Nat /\ k[s] = k[s] + k[s]
  BY <1>3
<1>5. BytesOf(k) \in Nat /\ BytesOf(k) = BytesOf(k) + BytesOf(k)
  BY <1>4, BytesAdd
<1>6. PICK b \in Nat : b = BytesOf(k)
  BY <1>5
<1>7. PICK c \in Nat : c = b + b
  OBVIOUS
<1>8. b = 0 \/ c > b
  BY <1>7
<1>9. b = c
  BY <1>5, <1>6, <1>7
<1>10. b = 0
  BY <1>8, <1>9
<1> QED
  BY <1>1, <1>2, <1>6, <1>10, PoolAssumption DEF PoolBound

(* The pool counts its bytes right, and they are never more than it may    *)
(* have: release_size makes the room that extend then takes, or extend     *)
(* takes nothing.                                                          *)
THEOREM PoolStaysBounded == CachesSpec => []PoolIsBounded
<1>1. CachesInit => PoolBound(pool)
  BY PoolStart
<1>2. CachesInv /\ PoolBound(pool) /\ [CachesNext]_cacheVars => PoolBound(pool)'
  BY PoolStep
<1>3. PoolBound(pool) => PoolIsBounded
  BY DEF PoolBound, PoolIsBounded, Stubs
<1> QED
  BY <1>1, <1>2, <1>3, CachesInvariant, PTL DEF CachesSpec
=============================================================================
