---------------------------- MODULE PollerProofs ----------------------------
(***************************************************************************)
(* Proofs about Poller, for any objects, any table size and any width of   *)
(* the sequence numbers: its slot table is sound, the kernel's copy of the *)
(* numbers is current, and an event reaches only the object, and the life  *)
(* of the object, that it was reported for.                                *)
(***************************************************************************)
EXTENDS Poller, TLAPS

-----------------------------------------------------------------------------
(* A slot's number has moved on from that of an event by the changes made  *)
(* since epoll_wait, modulo SeqMod; without a change its owner is the one  *)
(* the event was reported for.                                             *)
BatchInv ==
    \A e \in batch :
        /\ \/ seq[e.slot] = e.seq + bumps[e.slot]
           \/ seq[e.slot] = e.seq + bumps[e.slot] - SeqMod
        /\ bumps[e.slot] = 0 => poller[e.slot] = e.obj /\ life[e.obj] = e.life

PollerInv ==
    /\ PollerTypeOK
    /\ EverySlotOnce
    /\ NobodyIsDeaf
    /\ BatchInv

-----------------------------------------------------------------------------
(* What a change of a slot's number means to the events of the batch. *)
LEMMA BumpMoves ==
    ASSUME PollerTypeOK, BatchInv, NEW s \in Slots, Bump(s)
    PROVE  /\ seq' \in [Slots -> 0..(SeqMod - 1)]
           /\ bumps' \in [Slots -> 0..(SeqMod - 1)]
           /\ seq'[s] = NextSeq(seq[s])
           /\ \A t \in Slots \ {s} : seq'[t] = seq[t]
           /\ \A e \in batch :
                /\ \/ seq'[e.slot] = e.seq + bumps'[e.slot]
                   \/ seq'[e.slot] = e.seq + bumps'[e.slot] - SeqMod
                /\ bumps'[e.slot] = 0 => e.slot # s /\ bumps[e.slot] = 0
<1> USE PollerAssumption
<1>1. NextSeq(seq[s]) \in 0..(SeqMod - 1)
  <2>1. seq[s] \in 0..(SeqMod - 1)
    BY DEF PollerTypeOK
  <2> QED
    BY <2>1 DEF NextSeq
<1>2. bumps[s] + 1 \in 0..(SeqMod - 1)
  BY DEF Bump, PollerTypeOK
<1>3. seq' = [seq EXCEPT ![s] = NextSeq(seq[s])] /\ bumps' = [bumps EXCEPT ![s] = bumps[s] + 1]
  BY DEF Bump
<1>4. seq' \in [Slots -> 0..(SeqMod - 1)] /\ bumps' \in [Slots -> 0..(SeqMod - 1)]
  BY <1>1, <1>2, <1>3 DEF PollerTypeOK
<1>5. ASSUME NEW e \in batch
      PROVE  /\ \/ seq'[e.slot] = e.seq + bumps'[e.slot]
                \/ seq'[e.slot] = e.seq + bumps'[e.slot] - SeqMod
             /\ bumps'[e.slot] = 0 => e.slot # s /\ bumps[e.slot] = 0
  <2>1. PICK t \in Slots : e.slot = t
    BY DEF PollerTypeOK, EventRecord
  <2>2. e.seq \in 0..(SeqMod - 1)
    BY DEF PollerTypeOK, EventRecord
  <2>3. seq[t] \in 0..(SeqMod - 1) /\ bumps[t] \in 0..(SeqMod - 1)
    BY DEF PollerTypeOK
  <2>4. seq[t] = e.seq + bumps[t] \/ seq[t] = e.seq + bumps[t] - SeqMod
    BY <2>1 DEF BatchInv
  <2>5. CASE t # s
    <3>1. seq'[t] = seq[t] /\ bumps'[t] = bumps[t]
      BY <1>3, <2>5 DEF PollerTypeOK
    <3> QED
      BY <2>1, <2>4, <2>5, <3>1
  <2>6. CASE t = s
    <3>1. seq'[t] = NextSeq(seq[t]) /\ bumps'[t] = bumps[t] + 1
      BY <1>3, <2>6 DEF PollerTypeOK
    <3>2. seq'[t] = e.seq + bumps'[t] \/ seq'[t] = e.seq + bumps'[t] - SeqMod
      BY <1>2, <2>2, <2>3, <2>4, <2>6, <3>1 DEF NextSeq
    <3>3. bumps'[t] # 0
      BY <2>3, <3>1
    <3> QED
      BY <2>1, <3>2, <3>3
  <2> QED
    BY <2>5, <2>6
<1> QED
  BY <1>3, <1>4, <1>5 DEF PollerTypeOK

(* AllocEpollSlot takes one slot off the list and gives it to its object. *)
LEMMA AllocSound ==
    ASSUME PollerTypeOK, EverySlotOnce, NEW o \in Objects, epslot[o] = NoSlot, AllocSlot(o)
    PROVE  /\ Head(freeSlotList) \in Slots
           /\ poller[Head(freeSlotList)] = NoObject
           /\ freeSlotList' \in Seq(Slots)
           /\ usedPollers' \in Int
           /\ EverySlotOnce'
<1> USE PollerAssumption
<1> DEFINE f == freeSlotList
<1>1. PICK s : s = Head(f)
  OBVIOUS
<1>2. f \in Seq(Slots) /\ f # <<>> /\ f' = Tail(f)
  BY DEF AllocSlot, PollerTypeOK
<1>3. s \in Slots /\ 1 \in 1..Len(f) /\ f[1] = s
  BY <1>1, <1>2
<1>4. f' \in Seq(Slots) /\ Len(f') = Len(f) - 1
  BY <1>2
<1>5. \A n \in 1..Len(f') : n + 1 \in 1..Len(f) /\ f'[n] = f[n + 1]
  BY <1>2
<1>6. InFreeList(s) /\ poller[s] = NoObject
  BY <1>3 DEF InFreeList, EverySlotOnce
<1>7. poller' = [poller EXCEPT ![s] = o] /\ epslot' = [epslot EXCEPT ![o] = s]
  BY <1>1 DEF AllocSlot
<1>8. usedPollers' = usedPollers + 1 /\ usedPollers + Len(f) = MaxPollers
  BY DEF AllocSlot, EverySlotOnce
<1>9. usedPollers' + Len(f') = MaxPollers /\ usedPollers' \in Int
  BY <1>2, <1>4, <1>8 DEF PollerTypeOK
<1>10. \A m, n \in 1..Len(f') : f'[m] = f'[n] => m = n
  <2>1. SUFFICES ASSUME NEW m \in 1..Len(f'), NEW n \in 1..Len(f'), f'[m] = f'[n]
                 PROVE  m = n
    OBVIOUS
  <2>2. m + 1 = n + 1
    BY <1>5, <2>1 DEF EverySlotOnce
  <2> QED
    BY <2>2
<1>11. \A t \in Slots : InFreeList(t)' <=> InFreeList(t) /\ t # s
  <2>1. SUFFICES ASSUME NEW t \in Slots
                 PROVE  InFreeList(t)' <=> InFreeList(t) /\ t # s
    OBVIOUS
  <2>2. ASSUME InFreeList(t)'
        PROVE  InFreeList(t) /\ t # s
    <3>1. PICK n \in 1..Len(f') : f'[n] = t
      BY <2>2 DEF InFreeList
    <3>2. n + 1 \in 1..Len(f) /\ f[n + 1] = t /\ n + 1 # 1
      BY <1>5, <3>1
    <3> QED
      BY <1>3, <3>2 DEF InFreeList, EverySlotOnce
  <2>3. ASSUME InFreeList(t), t # s
        PROVE  InFreeList(t)'
    <3>1. PICK n \in 1..Len(f) : f[n] = t
      BY <2>3 DEF InFreeList
    <3>2. n # 1
      BY <1>3, <2>3, <3>1
    <3>3. n - 1 \in 1..Len(f') /\ f'[n - 1] = t
      BY <1>2, <1>4, <3>1, <3>2
    <3> QED
      BY <3>3 DEF InFreeList
  <2> QED
    BY <2>2, <2>3
<1>12. \A t \in Slots : InFreeList(t)' <=> poller'[t] = NoObject
  BY <1>3, <1>7, <1>11 DEF EverySlotOnce, PollerTypeOK
<1>13. \A t \in Slots : poller'[t] # NoObject => epslot'[poller'[t]] = t
  <2>1. SUFFICES ASSUME NEW t \in Slots, poller'[t] # NoObject
                 PROVE  epslot'[poller'[t]] = t
    OBVIOUS
  <2>2. CASE t = s
    BY <1>3, <1>7, <2>2 DEF PollerTypeOK
  <2>3. CASE t # s
    <3>1. poller'[t] = poller[t] /\ poller[t] \in Objects /\ epslot[poller[t]] = t
      BY <1>7, <2>1, <2>3 DEF EverySlotOnce, PollerTypeOK
    <3>2. poller[t] # o
      BY <3>1 DEF NoSlot, Slots
    <3> QED
      BY <1>7, <3>1, <3>2 DEF PollerTypeOK
  <2> QED
    BY <2>2, <2>3
<1>14. \A p \in Objects : epslot'[p] # NoSlot => poller'[epslot'[p]] = p
  <2>1. SUFFICES ASSUME NEW p \in Objects, epslot'[p] # NoSlot
                 PROVE  poller'[epslot'[p]] = p
    OBVIOUS
  <2>2. CASE p = o
    BY <1>3, <1>7, <2>2 DEF PollerTypeOK
  <2>3. CASE p # o
    <3>1. epslot'[p] = epslot[p] /\ epslot[p] \in Slots /\ poller[epslot[p]] = p
      BY <1>7, <2>1, <2>3 DEF EverySlotOnce, PollerTypeOK
    <3>2. epslot[p] # s
      BY <1>6, <3>1
    <3> QED
      BY <1>7, <3>1, <3>2 DEF PollerTypeOK
  <2> QED
    BY <2>2, <2>3
<1> QED
  BY <1>1, <1>3, <1>4, <1>6, <1>9, <1>10, <1>12, <1>13, <1>14 DEF EverySlotOnce

(* FreeEpollSlot puts the slot of an object in front of the list. *)
LEMMA FreeSound ==
    ASSUME PollerTypeOK, EverySlotOnce, NEW o \in Objects, epslot[o] # NoSlot,
           FreeSlot(epslot[o]), epslot' = [epslot EXCEPT ![o] = NoSlot]
    PROVE  /\ epslot[o] \in Slots /\ poller[epslot[o]] = o
           /\ freeSlotList' \in Seq(Slots)
           /\ usedPollers' \in Int
           /\ EverySlotOnce'
<1> USE PollerAssumption
<1> DEFINE f == freeSlotList
<1>1. PICK s : s = epslot[o]
  OBVIOUS
<1>2. s \in Slots /\ poller[s] = o /\ ~ InFreeList(s)
  BY <1>1 DEF EverySlotOnce, PollerTypeOK
<1>3. f \in Seq(Slots) /\ f' = <<s>> \o f
  BY <1>1 DEF FreeSlot, PollerTypeOK
<1>4. f' \in Seq(Slots) /\ Len(f') = Len(f) + 1 /\ 1 \in 1..Len(f') /\ f'[1] = s
  BY <1>2, <1>3
<1>5. \A n \in 1..Len(f) : n + 1 \in 1..Len(f') /\ f'[n + 1] = f[n]
  BY <1>2, <1>3
<1>6. \A n \in 1..Len(f') : n = 1 \/ (n - 1 \in 1..Len(f) /\ f'[n] = f[n - 1])
  BY <1>2, <1>3
<1>7. poller' = [poller EXCEPT ![s] = NoObject] /\ epslot' = [epslot EXCEPT ![o] = NoSlot]
  BY <1>1 DEF FreeSlot
<1>8. usedPollers' = usedPollers - 1 /\ usedPollers + Len(f) = MaxPollers
  BY DEF FreeSlot, EverySlotOnce
<1>9. usedPollers' + Len(f') = MaxPollers /\ usedPollers' \in Int
  BY <1>3, <1>4, <1>8 DEF PollerTypeOK
<1>10. \A m, n \in 1..Len(f') : f'[m] = f'[n] => m = n
  <2>1. SUFFICES ASSUME NEW m \in 1..Len(f'), NEW n \in 1..Len(f'), f'[m] = f'[n]
                 PROVE  m = n
    OBVIOUS
  <2>2. \A k \in 1..Len(f) : f[k] # s
    BY <1>2 DEF InFreeList
  <2>3. CASE m = 1 \/ n = 1
    BY <1>4, <1>6, <2>1, <2>2, <2>3
  <2>4. CASE m # 1 /\ n # 1
    <3>1. /\ m - 1 \in 1..Len(f) /\ n - 1 \in 1..Len(f)
          /\ f[m - 1] = f'[m] /\ f[n - 1] = f'[n]
      BY <1>6, <2>4
    <3>2. \A i, j \in 1..Len(f) : f[i] = f[j] => i = j
      BY DEF EverySlotOnce
    <3>3. m - 1 = n - 1
      BY <2>1, <3>1, <3>2
    <3> QED
      BY <3>3
  <2> QED
    BY <2>3, <2>4
<1>11. \A t \in Slots : InFreeList(t)' <=> InFreeList(t) \/ t = s
  <2>1. SUFFICES ASSUME NEW t \in Slots
                 PROVE  InFreeList(t)' <=> InFreeList(t) \/ t = s
    OBVIOUS
  <2>2. ASSUME InFreeList(t)'
        PROVE  InFreeList(t) \/ t = s
    BY <1>4, <1>6, <2>2 DEF InFreeList
  <2>3. ASSUME InFreeList(t) \/ t = s
        PROVE  InFreeList(t)'
    BY <1>4, <1>5, <2>3 DEF InFreeList
  <2> QED
    BY <2>2, <2>3
<1>12. \A t \in Slots : InFreeList(t)' <=> poller'[t] = NoObject
  BY <1>2, <1>7, <1>11 DEF EverySlotOnce, PollerTypeOK
<1>13. \A t \in Slots : poller'[t] # NoObject => epslot'[poller'[t]] = t
  <2>1. SUFFICES ASSUME NEW t \in Slots, poller'[t] # NoObject
                 PROVE  epslot'[poller'[t]] = t
    OBVIOUS
  <2>2. t # s /\ poller'[t] = poller[t] /\ poller[t] \in Objects /\ epslot[poller[t]] = t
    BY <1>2, <1>7, <2>1 DEF EverySlotOnce, PollerTypeOK
  <2>3. poller[t] # o
    BY <1>1, <2>2
  <2> QED
    BY <1>7, <2>2, <2>3 DEF PollerTypeOK
<1>14. \A p \in Objects : epslot'[p] # NoSlot => poller'[epslot'[p]] = p
  <2>1. SUFFICES ASSUME NEW p \in Objects, epslot'[p] # NoSlot
                 PROVE  poller'[epslot'[p]] = p
    OBVIOUS
  <2>2. p # o /\ epslot'[p] = epslot[p] /\ epslot[p] \in Slots /\ poller[epslot[p]] = p
    BY <1>7, <2>1 DEF EverySlotOnce, PollerTypeOK
  <2>3. epslot[p] # s
    BY <1>2, <2>2
  <2> QED
    BY <1>7, <2>2, <2>3 DEF PollerTypeOK
<1> QED
  BY <1>1, <1>2, <1>4, <1>9, <1>10, <1>12, <1>13, <1>14 DEF EverySlotOnce

-----------------------------------------------------------------------------
(* Each call of the poller keeps the invariant. *)
LEMMA AttachStep ==
    ASSUME PollerInv, NEW o \in Objects, AttachPoller(o) \/ AttachPollerFails(o)
    PROVE  PollerInv'
<1> USE PollerAssumption DEF PollerInv
<1>1. PICK s : s = Head(freeSlotList)
  OBVIOUS
<1>2. epslot[o] = NoSlot /\ AllocSlot(o) /\ batch' = batch /\ running' = running
  BY DEF AttachPoller, AttachPollerFails
<1>3. /\ s \in Slots /\ poller[s] = NoObject
      /\ freeSlotList' \in Seq(Slots) /\ usedPollers' \in Int /\ EverySlotOnce'
  BY <1>1, <1>2, AllocSound
<1>4. /\ Bump(s)
      /\ poller' = [poller EXCEPT ![s] = o] /\ epslot' = [epslot EXCEPT ![o] = s]
  BY <1>1, <1>2 DEF AllocSlot
<1>5. reg[o] = NoReg
  BY <1>2 DEF NobodyIsDeaf
<1>6. \/ reg' = reg /\ life' = life
      \/ /\ reg' = [reg EXCEPT ![o] = [slot |-> s, seq |-> NextSeq(seq[s])]]
         /\ life' = [life EXCEPT ![o] = life[o] + 1] /\ life[o] < MaxLives
  BY <1>1 DEF AttachPoller, AttachPollerFails, Registered
<1>7. /\ seq' \in [Slots -> 0..(SeqMod - 1)] /\ bumps' \in [Slots -> 0..(SeqMod - 1)]
      /\ seq'[s] = NextSeq(seq[s])
      /\ \A t \in Slots \ {s} : seq'[t] = seq[t]
      /\ \A e \in batch :
           /\ \/ seq'[e.slot] = e.seq + bumps'[e.slot]
              \/ seq'[e.slot] = e.seq + bumps'[e.slot] - SeqMod
           /\ bumps'[e.slot] = 0 => e.slot # s /\ bumps[e.slot] = 0
  BY <1>3, <1>4, BumpMoves
<1>8. PollerTypeOK'
  <2>1. NextSeq(seq[s]) \in 0..(SeqMod - 1)
    BY <1>3, <1>7
  <2>2. [slot |-> s, seq |-> NextSeq(seq[s])] \in Registration
    BY <1>3, <2>1 DEF Registration
  <2>3. reg' \in [Objects -> Registration \cup {NoReg}] /\ life' \in [Objects -> 0..MaxLives]
    <3>1. reg \in [Objects -> Registration \cup {NoReg}] /\ life \in [Objects -> 0..MaxLives]
      BY DEF PollerTypeOK
    <3>2. CASE reg' = reg /\ life' = life
      BY <3>1, <3>2
    <3>3. CASE /\ reg' = [reg EXCEPT ![o] = [slot |-> s, seq |-> NextSeq(seq[s])]]
               /\ life' = [life EXCEPT ![o] = life[o] + 1] /\ life[o] < MaxLives
      <4>1. life[o] + 1 \in 0..MaxLives
        BY <3>1, <3>3
      <4> QED
        BY <2>2, <3>1, <3>3, <4>1
    <3> QED
      BY <1>6, <3>2, <3>3
  <2>4. poller' \in [Slots -> Objects \cup {NoObject}] /\ epslot' \in [Objects -> Slots \cup {NoSlot}]
    BY <1>3, <1>4 DEF PollerTypeOK
  <2> QED
    BY <1>2, <1>3, <1>7, <2>3, <2>4 DEF PollerTypeOK
<1>9. NobodyIsDeaf'
  <2>1. SUFFICES ASSUME NEW p \in Objects, reg'[p] # NoReg
                 PROVE  /\ epslot'[p] # NoSlot
                        /\ reg'[p] = [slot |-> epslot'[p], seq |-> seq'[epslot'[p]]]
    BY DEF NobodyIsDeaf
  <2>2. CASE p = o
    <3>1. epslot \in [Objects -> Slots \cup {NoSlot}] /\ reg \in [Objects -> Registration \cup {NoReg}]
      BY DEF PollerTypeOK
    <3>2. epslot'[o] = s /\ s # NoSlot
      BY <1>3, <1>4, <3>1 DEF NoSlot, Slots
    <3>3. reg' # reg
      BY <1>5, <2>1, <2>2
    <3>4. reg'[o] = [slot |-> s, seq |-> NextSeq(seq[s])]
      BY <1>6, <3>1, <3>3
    <3> QED
      BY <1>7, <2>2, <3>2, <3>4
  <2>3. CASE p # o
    <3>1. reg'[p] = reg[p] /\ epslot'[p] = epslot[p]
      BY <1>4, <1>6, <2>3 DEF PollerTypeOK
    <3>2. epslot[p] # NoSlot /\ reg[p] = [slot |-> epslot[p], seq |-> seq[epslot[p]]]
      BY <2>1, <3>1 DEF NobodyIsDeaf
    <3>3. epslot[p] \in Slots /\ epslot[p] # s
      BY <1>3, <3>2 DEF EverySlotOnce, PollerTypeOK
    <3> QED
      BY <1>7, <3>1, <3>2, <3>3
  <2> QED
    BY <2>2, <2>3
<1>10. BatchInv'
  <2>1. SUFFICES ASSUME NEW e \in batch, bumps'[e.slot] = 0
                 PROVE  poller'[e.slot] = e.obj /\ life'[e.obj] = e.life
    BY <1>2, <1>7 DEF BatchInv
  <2>2. e.slot # s /\ poller[e.slot] = e.obj /\ life[e.obj] = e.life
    BY <1>7, <2>1 DEF BatchInv
  <2>3. e.slot \in Slots /\ e.obj \in Objects
    BY DEF PollerTypeOK, EventRecord
  <2>4. epslot[e.obj] = e.slot
    BY <2>2, <2>3 DEF EverySlotOnce
  <2>5. e.obj # o
    BY <1>2, <2>3, <2>4 DEF NoSlot, Slots
  <2> QED
    BY <1>4, <1>6, <2>2, <2>3, <2>5 DEF PollerTypeOK
<1> QED
  BY <1>3, <1>8, <1>9, <1>10

LEMMA ModifyStep ==
    ASSUME PollerInv, NEW o \in Objects, Modify(o),
           batch' = batch, running' \in {running, NoCall}
    PROVE  PollerInv'
<1> USE PollerAssumption DEF PollerInv
<1>1. PICK s : s = epslot[o]
  OBVIOUS
<1>2. s \in Slots /\ epslot[o] # NoSlot
  BY <1>1 DEF PollerTypeOK, Modify
<1>3. /\ UNCHANGED <<poller, freeSlotList, usedPollers, epslot, life>> /\ Bump(s)
      /\ reg' = IF reg[o] = NoReg THEN reg
                ELSE [reg EXCEPT ![o] = [slot |-> s, seq |-> NextSeq(seq[s])]]
  BY <1>1 DEF Modify, Registered
<1>4. /\ seq' \in [Slots -> 0..(SeqMod - 1)] /\ bumps' \in [Slots -> 0..(SeqMod - 1)]
      /\ seq'[s] = NextSeq(seq[s])
      /\ \A t \in Slots \ {s} : seq'[t] = seq[t]
      /\ \A e \in batch :
           /\ \/ seq'[e.slot] = e.seq + bumps'[e.slot]
              \/ seq'[e.slot] = e.seq + bumps'[e.slot] - SeqMod
           /\ bumps'[e.slot] = 0 => e.slot # s /\ bumps[e.slot] = 0
  BY <1>2, <1>3, BumpMoves
<1>5. PollerTypeOK'
  <2>1. NextSeq(seq[s]) \in 0..(SeqMod - 1)
    BY <1>2, <1>4
  <2>2. reg' \in [Objects -> Registration \cup {NoReg}]
    BY <1>2, <1>3, <2>1 DEF PollerTypeOK, Registration
  <2> QED
    BY <1>3, <1>4, <2>2 DEF PollerTypeOK
<1>6. EverySlotOnce'
  BY <1>3 DEF EverySlotOnce, InFreeList
<1>7. NobodyIsDeaf'
  <2>1. SUFFICES ASSUME NEW p \in Objects, reg'[p] # NoReg
                 PROVE  /\ epslot[p] # NoSlot
                        /\ reg'[p] = [slot |-> epslot[p], seq |-> seq'[epslot[p]]]
    BY <1>3 DEF NobodyIsDeaf
  <2>2. CASE p = o
    BY <1>1, <1>2, <1>3, <1>4, <2>1, <2>2 DEF PollerTypeOK
  <2>3. CASE p # o
    <3>1. reg'[p] = reg[p]
      BY <1>3, <2>3 DEF PollerTypeOK
    <3>2. epslot[p] # NoSlot /\ reg[p] = [slot |-> epslot[p], seq |-> seq[epslot[p]]]
      BY <2>1, <3>1 DEF NobodyIsDeaf
    <3>3. epslot[p] \in Slots /\ epslot[p] # s
      BY <1>1, <2>3, <3>2 DEF EverySlotOnce, PollerTypeOK
    <3> QED
      BY <1>4, <3>1, <3>2, <3>3
  <2> QED
    BY <2>2, <2>3
<1>8. BatchInv'
  BY <1>3, <1>4 DEF BatchInv
<1> QED
  BY <1>5, <1>6, <1>7, <1>8

(* The slot of an object is given back, and its registration is gone. *)
LEMMA ReleaseStep ==
    ASSUME PollerInv, NEW o \in Objects, epslot[o] # NoSlot, FreeSlot(epslot[o]),
           epslot' = [epslot EXCEPT ![o] = NoSlot], reg' = [reg EXCEPT ![o] = NoReg],
           life' \in {life, [life EXCEPT ![o] = life[o] + 1]},
           life' \in [Objects -> 0..MaxLives],
           UNCHANGED <<batch, running>>
    PROVE  PollerInv'
<1> USE PollerAssumption DEF PollerInv
<1>1. PICK s : s = epslot[o]
  OBVIOUS
<1>2. /\ s \in Slots /\ poller[s] = o
      /\ freeSlotList' \in Seq(Slots) /\ usedPollers' \in Int /\ EverySlotOnce'
  BY <1>1, FreeSound
<1>3. Bump(s) /\ poller' = [poller EXCEPT ![s] = NoObject]
  BY <1>1 DEF FreeSlot
<1>4. /\ seq' \in [Slots -> 0..(SeqMod - 1)] /\ bumps' \in [Slots -> 0..(SeqMod - 1)]
      /\ \A t \in Slots \ {s} : seq'[t] = seq[t]
      /\ \A e \in batch :
           /\ \/ seq'[e.slot] = e.seq + bumps'[e.slot]
              \/ seq'[e.slot] = e.seq + bumps'[e.slot] - SeqMod
           /\ bumps'[e.slot] = 0 => e.slot # s /\ bumps[e.slot] = 0
  BY <1>2, <1>3, BumpMoves
<1>5. PollerTypeOK'
  BY <1>2, <1>3, <1>4 DEF PollerTypeOK
<1>6. NobodyIsDeaf'
  <2>1. SUFFICES ASSUME NEW p \in Objects, reg'[p] # NoReg
                 PROVE  /\ epslot'[p] # NoSlot
                        /\ reg'[p] = [slot |-> epslot'[p], seq |-> seq'[epslot'[p]]]
    BY DEF NobodyIsDeaf
  <2>2. p # o /\ reg'[p] = reg[p] /\ epslot'[p] = epslot[p]
    BY <2>1 DEF PollerTypeOK
  <2>3. epslot[p] # NoSlot /\ reg[p] = [slot |-> epslot[p], seq |-> seq[epslot[p]]]
    BY <2>1, <2>2 DEF NobodyIsDeaf
  <2>4. epslot[p] \in Slots /\ epslot[p] # s
    BY <1>1, <2>2, <2>3 DEF EverySlotOnce, PollerTypeOK
  <2> QED
    BY <1>4, <2>2, <2>3, <2>4
<1>7. BatchInv'
  <2>1. SUFFICES ASSUME NEW e \in batch, bumps'[e.slot] = 0
                 PROVE  poller'[e.slot] = e.obj /\ life'[e.obj] = e.life
    BY <1>4 DEF BatchInv
  <2>2. e.slot # s /\ poller[e.slot] = e.obj /\ life[e.obj] = e.life
    BY <1>4, <2>1 DEF BatchInv
  <2>3. e.slot \in Slots /\ e.obj \in Objects
    BY DEF PollerTypeOK, EventRecord
  <2>4. e.obj # o
    BY <1>1, <2>2, <2>3 DEF EverySlotOnce
  <2> QED
    BY <1>3, <2>2, <2>3, <2>4 DEF PollerTypeOK
<1> QED
  BY <1>2, <1>5, <1>6, <1>7

LEMMA DestroyStep ==
    ASSUME PollerInv, NEW o \in Objects, Destroy(o)
    PROVE  PollerInv'
<1> USE PollerAssumption DEF PollerInv
<1>1. life' = [life EXCEPT ![o] = life[o] + 1] /\ life' \in [Objects -> 0..MaxLives]
  BY DEF Destroy, PollerTypeOK
<1>2. CASE epslot[o] # NoSlot
  BY <1>1, <1>2, ReleaseStep DEF Destroy
<1>3. CASE epslot[o] = NoSlot
  <2>1. UNCHANGED <<slotVars, epslot, reg, batch, running>>
    BY <1>3 DEF Destroy
  <2>2. PollerTypeOK' /\ EverySlotOnce' /\ NobodyIsDeaf'
    BY <1>1, <2>1 DEF slotVars, PollerTypeOK, EverySlotOnce, InFreeList, NobodyIsDeaf
  <2>3. BatchInv'
    <3>1. SUFFICES ASSUME NEW e \in batch, bumps[e.slot] = 0
                   PROVE  life'[e.obj] = e.life
      BY <2>1 DEF slotVars, BatchInv
    <3>2. poller[e.slot] = e.obj /\ life[e.obj] = e.life
      BY <3>1 DEF BatchInv
    <3>3. e.slot \in Slots /\ e.obj \in Objects
      BY DEF PollerTypeOK, EventRecord
    <3>4. epslot[e.obj] = e.slot
      BY <3>2, <3>3 DEF EverySlotOnce
    <3>5. e.obj # o
      BY <1>3, <3>3, <3>4 DEF NoSlot, Slots
    <3> QED
      BY <1>1, <3>2, <3>3, <3>5 DEF PollerTypeOK
  <2> QED
    BY <2>2, <2>3
<1> QED
  BY <1>2, <1>3

(* epoll_wait reports registrations as the kernel has them, and they are   *)
(* current.                                                                *)
LEMMA WaitStep ==
    ASSUME PollerInv, WaitPollerEvents
    PROVE  PollerInv'
<1> USE PollerAssumption DEF PollerInv
<1>1. PICK ready \in SUBSET {o \in Objects : reg[o] # NoReg} :
        batch' = {[slot |-> reg[o].slot, seq |-> reg[o].seq, obj |-> o, life |-> life[o]] :
                    o \in ready}
  BY DEF WaitPollerEvents
<1>2. /\ UNCHANGED <<seq, poller, freeSlotList, usedPollers, epslot, reg, life, running>>
      /\ bumps' = [s \in Slots |-> 0]
  BY DEF WaitPollerEvents, objectVars
<1>3. ASSUME NEW e \in batch'
      PROVE  /\ e \in EventRecord
             /\ seq[e.slot] = e.seq /\ poller[e.slot] = e.obj /\ life[e.obj] = e.life
  <2>1. PICK o \in Objects :
          /\ reg[o] # NoReg
          /\ e = [slot |-> reg[o].slot, seq |-> reg[o].seq, obj |-> o, life |-> life[o]]
    BY <1>1, <1>3
  <2>2. PICK s \in Slots : s = epslot[o] /\ reg[o] = [slot |-> s, seq |-> seq[s]]
    BY <2>1 DEF NobodyIsDeaf, PollerTypeOK
  <2>3. poller[s] = o
    BY <2>2 DEF EverySlotOnce, NoSlot, Slots
  <2>4. seq[s] \in 0..(SeqMod - 1) /\ life[o] \in Nat
    BY DEF PollerTypeOK
  <2> QED
    BY <2>1, <2>2, <2>3, <2>4 DEF EventRecord
<1>4. bumps' \in [Slots -> 0..(SeqMod - 1)] /\ \A e \in batch' : bumps'[e.slot] = 0
  BY <1>2, <1>3 DEF EventRecord
<1>5. PollerTypeOK'
  BY <1>2, <1>3, <1>4 DEF PollerTypeOK
<1>6. EverySlotOnce' /\ NobodyIsDeaf'
  BY <1>2 DEF EverySlotOnce, InFreeList, NobodyIsDeaf
<1>7. BatchInv'
  <2>1. SUFFICES ASSUME NEW e \in batch'
                 PROVE  seq[e.slot] = e.seq + 0 /\ poller[e.slot] = e.obj /\ life[e.obj] = e.life
    BY <1>2, <1>4 DEF BatchInv
  <2> QED
    BY <1>3 DEF EventRecord
<1> QED
  BY <1>5, <1>6, <1>7

(* Only an event that stands verifies. *)
LEMMA OwnerReached ==
    ASSUME PollerTypeOK, BatchInv
    PROVE  EventsReachTheirOwner
<1> SUFFICES ASSUME NEW e \in batch, Verified(e)
             PROVE  poller[e.slot] = e.obj /\ life[e.obj] = e.life
  BY DEF EventsReachTheirOwner
<1>1. PICK s \in Slots : s = e.slot
  BY DEF PollerTypeOK, EventRecord
<1>2. e.seq = seq[s] /\ e.seq \in 0..(SeqMod - 1) /\ bumps[s] \in 0..(SeqMod - 1)
  BY <1>1 DEF PollerTypeOK, EventRecord, Verified
<1>3. seq[s] = e.seq + bumps[s] \/ seq[s] = e.seq + bumps[s] - SeqMod
  BY <1>1 DEF BatchInv
<1>4. bumps[s] = 0
  BY <1>2, <1>3, PollerAssumption
<1> QED
  BY <1>1, <1>4 DEF BatchInv

(* The steps that only take events off the batch or end a call. *)
LEMMA EventStep ==
    ASSUME PollerInv,
           \/ \E e \in batch : DropEvent(e) \/ Dispatch(e)
           \/ InputThenOutput
           \/ EventDone /\ UNCHANGED <<slotVars, objectVars>>
    PROVE  PollerInv'
<1> USE DEF PollerInv
<1>1. UNCHANGED <<slotVars, objectVars>> /\ batch' \subseteq batch
  BY DEF DropEvent, Dispatch, InputThenOutput, EventDone
<1>2. running' \in CallRecord \cup {NoCall}
  <2>1. ASSUME NEW e \in batch, Dispatch(e)
        PROVE  running' \in CallRecord
    <3>1. e \in EventRecord /\ poller[e.slot] = e.obj
      BY <2>1, OwnerReached DEF EventsReachTheirOwner, Dispatch, PollerTypeOK
    <3>2. PICK call \in Calls :
            running' = [slot |-> e.slot, obj |-> poller[e.slot], life |-> e.life, call |-> call]
      BY <2>1 DEF Dispatch
    <3> QED
      BY <3>1, <3>2 DEF EventRecord, CallRecord
  <2>2. CASE InputThenOutput
    <3>1. running \in CallRecord
      BY <2>2 DEF InputThenOutput, PollerTypeOK, NoCall
    <3> QED
      BY <2>2, <3>1 DEF InputThenOutput, CallRecord, Calls
  <2> QED
    BY <2>1, <2>2 DEF DropEvent, EventDone, PollerTypeOK
<1>3. PollerTypeOK'
  BY <1>1, <1>2 DEF slotVars, objectVars, PollerTypeOK
<1>4. EverySlotOnce' /\ NobodyIsDeaf' /\ BatchInv'
  BY <1>1 DEF slotVars, objectVars, EverySlotOnce, InFreeList, NobodyIsDeaf, BatchInv
<1> QED
  BY <1>3, <1>4

-----------------------------------------------------------------------------
LEMMA PollerStep ==
    ASSUME PollerInv, [PollerNext]_pollerVars
    PROVE  PollerInv'
<1>1. ASSUME NEW o \in Objects, AttachPoller(o) \/ AttachPollerFails(o)
      PROVE  PollerInv'
  BY <1>1, AttachStep
<1>2. ASSUME NEW o \in Objects, ApplyEvents(o)
      PROVE  PollerInv'
  BY <1>2, ModifyStep DEF ApplyEvents
<1>3. ASSUME NEW o \in Objects, DetachPoller(o)
      PROVE  PollerInv'
  BY <1>3, ReleaseStep DEF DetachPoller, PollerInv, PollerTypeOK
<1>4. ASSUME NEW o \in Objects, Destroy(o)
      PROVE  PollerInv'
  BY <1>4, DestroyStep
<1>5. CASE WaitPollerEvents
  BY <1>5, WaitStep
<1>6. CASE \/ \E e \in batch : DropEvent(e) \/ Dispatch(e)
           \/ InputThenOutput
           \/ EventDone /\ UNCHANGED <<slotVars, objectVars>>
  BY <1>6, EventStep
<1>7. ASSUME EventDone, StillAttached, Modify(running.obj), running.call # "hangup"
      PROVE  PollerInv'
  <2>1. running \in CallRecord
    BY <1>7 DEF EventDone, PollerInv, PollerTypeOK
  <2>2. running.obj \in Objects /\ epslot[running.obj] # NoSlot
    BY <1>7, <2>1, PollerAssumption
       DEF CallRecord, StillAttached, PollerInv, EverySlotOnce, NoSlot, Slots
  <2> QED
    BY <1>7, <2>2, ModifyStep DEF EventDone
<1>8. CASE UNCHANGED pollerVars
  BY <1>8 DEF pollerVars, slotVars, objectVars, PollerInv, PollerTypeOK, EverySlotOnce,
              InFreeList, NobodyIsDeaf, BatchInv
<1> QED
  BY <1>1, <1>2, <1>3, <1>4, <1>5, <1>6, <1>7, <1>8 DEF PollerNext, EventDone

LEMMA PollerInitInv ==
    ASSUME PollerInit
    PROVE  PollerInv
<1> USE PollerAssumption DEF PollerInit
<1>1. PollerTypeOK
  BY DEF PollerTypeOK, Slots
<1>2. \A s \in Slots : InFreeList(s)
  <2>1. SUFFICES ASSUME NEW s \in Slots
                 PROVE  InFreeList(s)
    OBVIOUS
  <2>2. s + 1 \in 1..Len(freeSlotList) /\ freeSlotList[s + 1] = s
    BY DEF Slots
  <2> QED
    BY <2>2 DEF InFreeList
<1>3. EverySlotOnce
  BY <1>2 DEF EverySlotOnce
<1>4. NobodyIsDeaf /\ BatchInv
  BY DEF NobodyIsDeaf, BatchInv
<1> QED
  BY <1>1, <1>3, <1>4 DEF PollerInv

THEOREM PollerInvariance == PollerSpec => []PollerInv
<1> QED
  BY PollerInitInv, PollerStep, PTL DEF PollerSpec

(* The slot table, the events and the running call stay of their types; in *)
(* particular no slot is owned that the table does not have, and a changed *)
(* number stays below the modulus.                                         *)
THEOREM PollerTypeCorrect == PollerSpec => []PollerTypeOK
<1>1. PollerInv => PollerTypeOK
  BY DEF PollerInv
<1> QED
  BY <1>1, PollerInvariance, PTL

(* The free list and the objects' slots never disagree, whatever is        *)
(* attached, detached and deleted in whatever order.                       *)
THEOREM SlotsCorrect == PollerSpec => []EverySlotOnce
<1>1. PollerInv => EverySlotOnce
  BY DEF PollerInv
<1> QED
  BY <1>1, PollerInvariance, PTL

(* No registered object loses its events to a stale number in the kernel.  *)
THEOREM RegistrationsCorrect == PollerSpec => []NobodyIsDeaf
<1>1. PollerInv => NobodyIsDeaf
  BY DEF PollerInv
<1> QED
  BY <1>1, PollerInvariance, PTL

(* VerifyEvents lets through only the events of registrations that stand,  *)
(* although sequence numbers wrap.                                         *)
THEOREM EventsCorrect == PollerSpec => []EventsReachTheirOwner
<1>1. PollerInv => EventsReachTheirOwner
  BY OwnerReached DEF PollerInv
<1> QED
  BY <1>1, PollerInvariance, PTL

(* InputNotify, OutputNotify and HangupNotify are called only on objects   *)
(* that have the event's slot, in the life it was reported for.            *)
THEOREM CallsCorrect == PollerSpec => CallsLiveObjects
<1>1. PollerInv /\ [PollerNext]_pollerVars =>
        [running' # running /\ running' # NoCall =>
           /\ poller'[running'.slot] = running'.obj
           /\ life'[running'.obj] = running'.life]_pollerVars
  <2>1. SUFFICES ASSUME PollerInv, PollerNext, running' # running, running' # NoCall
                 PROVE  /\ poller'[running'.slot] = running'.obj
                        /\ life'[running'.obj] = running'.life
    OBVIOUS
  <2>2. CASE \E e \in batch : Dispatch(e)
    <3>1. PICK e \in batch : Dispatch(e)
      BY <2>2
    <3>2. poller[e.slot] = e.obj /\ life[e.obj] = e.life
      BY <2>1, <3>1, OwnerReached DEF PollerInv, EventsReachTheirOwner, Dispatch
    <3> QED
      BY <3>1, <3>2 DEF Dispatch, slotVars, objectVars
  <2>3. CASE InputThenOutput
    <3>1. running \in CallRecord
      BY <2>1, <2>3 DEF InputThenOutput, PollerInv, PollerTypeOK, NoCall
    <3> QED
      BY <2>3, <3>1 DEF InputThenOutput, StillAttached, Succeeds, CallRecord, slotVars, objectVars
  <2> QED
    BY <2>1, <2>2, <2>3 DEF PollerNext, AttachPoller, AttachPollerFails, ApplyEvents,
       DetachPoller, Destroy, WaitPollerEvents, DropEvent, EventDone
<1> QED
  BY <1>1, PollerInvariance, PTL DEF PollerSpec, CallsLiveObjects
=============================================================================
