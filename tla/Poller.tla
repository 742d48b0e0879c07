------------------------------- MODULE Poller -------------------------------
(***************************************************************************)
(* The server's poller: the slot table that stands between the kernel's    *)
(* epoll set and the objects that handle its events (core/poller.cpp).     *)
(*                                                                         *)
(* The kernel keeps, for each registered descriptor, the number of a slot  *)
(* and the slot's sequence number at the time of the last epoll_ctl.  A    *)
(* batch of events carries those numbers.  While it is processed handlers  *)
(* attach, change, detach and delete any object, so an event may speak of  *)
(* an object that is gone, and of a slot that another one has.             *)
(*                                                                         *)
(* The objects' handlers are left open: a handler makes any calls of the   *)
(* poller.  When an event mask does not change ApplyEvents does nothing,   *)
(* and AttachPoller without a free slot does nothing but fail: both are    *)
(* stuttering steps.  epoll_ctl MOD and DEL of a registered descriptor do  *)
(* not fail.                                                               *)
(***************************************************************************)
EXTENDS Integers, Sequences

CONSTANTS Objects,      \* poller objects, named by their addresses
          NoObject,     \* NULL
          MaxPollers,   \* maxPollers: the size of the slot table
          SeqMod,       \* 2^32: where a slot's sequence number wraps
          MaxLives      \* bound: registrations and deletions of one object

NoSlot == -1
Slots == 0..(MaxPollers - 1)

ASSUME PollerAssumption ==
    /\ NoObject \notin Objects
    /\ MaxPollers \in Nat \ {0}
    /\ SeqMod \in Nat /\ SeqMod > 1
    /\ MaxLives \in Nat

VARIABLES seq,           \* seq[s]: pollerTable[s].seq
          poller,        \* poller[s]: pollerTable[s].poller
          freeSlotList,  \* the free slots, in the order of the list
          usedPollers,
          epslot,        \* epslot[o]: the slot of o, or NoSlot
          reg,           \* reg[o]: what the kernel has stored for the descriptor of o
          batch,         \* the events of ep_events not yet processed
          running,       \* the handler that is running, or NoCall
          life,          \* history: life[o] grows when o is registered, and when it is deleted
          bumps          \* history: bumps[s] counts the changes of seq[s] since epoll_wait

slotVars == <<seq, poller, freeSlotList, usedPollers, bumps>>
objectVars == <<epslot, reg, life>>
pollerVars == <<slotVars, objectVars, batch, running>>

NoReg == [slot |-> NoSlot, seq |-> 0]
NoCall == [slot |-> NoSlot, obj |-> NoObject, life |-> 0, call |-> "none"]
Calls == {"hangup", "input", "output"}

Registration == [slot : Slots, seq : 0..(SeqMod - 1)]
EventRecord == [slot : Slots, seq : 0..(SeqMod - 1), obj : Objects, life : Nat]
CallRecord == [slot : Slots, obj : Objects, life : Nat, call : Calls]

PollerTypeOK ==
    /\ seq \in [Slots -> 0..(SeqMod - 1)]
    /\ poller \in [Slots -> Objects \cup {NoObject}]
    /\ freeSlotList \in Seq(Slots)
    /\ usedPollers \in Int
    /\ epslot \in [Objects -> Slots \cup {NoSlot}]
    /\ reg \in [Objects -> Registration \cup {NoReg}]
    /\ batch \subseteq EventRecord
    /\ running \in CallRecord \cup {NoCall}
    /\ life \in [Objects -> 0..MaxLives]
    /\ bumps \in [Slots -> 0..(SeqMod - 1)]

(* InitializePollerUnit *)
PollerInit ==
    /\ seq = [s \in Slots |-> 0]
    /\ poller = [s \in Slots |-> NoObject]
    /\ freeSlotList = [n \in 1..MaxPollers |-> n - 1]
    /\ usedPollers = 0
    /\ epslot = [o \in Objects |-> NoSlot]
    /\ reg = [o \in Objects |-> NoReg]
    /\ batch = {}
    /\ running = NoCall
    /\ life = [o \in Objects |-> 0]
    /\ bumps = [s \in Slots |-> 0]

-----------------------------------------------------------------------------
(* seq++, in the width of the field. *)
NextSeq(n) == IF n + 1 = SeqMod THEN 0 ELSE n + 1

(* A slot's number is not changed SeqMod times while one batch is handled: *)
(* each change is a system call.                                           *)
Bump(s) ==
    /\ bumps[s] + 1 < SeqMod
    /\ seq' = [seq EXCEPT ![s] = NextSeq(@)]
    /\ bumps' = [bumps EXCEPT ![s] = @ + 1]

(* AllocEpollSlot, poller = this, ++seq *)
AllocSlot(o) ==
    /\ freeSlotList # <<>>
    /\ freeSlotList' = Tail(freeSlotList)
    /\ usedPollers' = usedPollers + 1
    /\ poller' = [poller EXCEPT ![Head(freeSlotList)] = o]
    /\ epslot' = [epslot EXCEPT ![o] = Head(freeSlotList)]
    /\ Bump(Head(freeSlotList))

(* Mutant: the number is the same when the slot is used again. *)
FreeSlotKeepsSeq(s) ==
    /\ freeSlotList' = <<s>> \o freeSlotList
    /\ poller' = [poller EXCEPT ![s] = NoObject]
    /\ usedPollers' = usedPollers - 1
    /\ UNCHANGED <<seq, bumps>>

(* FreeEpollSlot *)
FreeSlot(s) ==
    /\ freeSlotList' = <<s>> \o freeSlotList
    /\ poller' = [poller EXCEPT ![s] = NoObject]
    /\ usedPollers' = usedPollers - 1
    /\ Bump(s)

(* Handlers and timers call the poller; nothing does between two events.   *)
MayCall == running # NoCall \/ batch = {}

(* Mutant: the kernel is given the number from before the increment. *)
RegisteredBefore(s) == [slot |-> s, seq |-> seq[s]]

(* ev.data of an epoll_ctl that follows ++seq *)
Registered(s) == [slot |-> s, seq |-> NextSeq(seq[s])]

-----------------------------------------------------------------------------
(* AttachPoller of an object without a slot. *)
AttachPoller(o) ==
    /\ MayCall
    /\ epslot[o] = NoSlot
    /\ life[o] < MaxLives
    /\ AllocSlot(o)
    /\ reg' = [reg EXCEPT ![o] = Registered(Head(freeSlotList))]
    /\ life' = [life EXCEPT ![o] = @ + 1]
    /\ UNCHANGED <<batch, running>>

(* The same when EPOLL_CTL_ADD fails: the object keeps the slot. *)
AttachPollerFails(o) ==
    /\ MayCall
    /\ epslot[o] = NoSlot
    /\ AllocSlot(o)
    /\ UNCHANGED <<reg, life, batch, running>>

(* ++seq, EPOLL_CTL_MOD, which fails if the descriptor is not registered;  *)
(* nothing is done for an object without a slot.                           *)
Modify(o) ==
    /\ epslot[o] # NoSlot
    /\ Bump(epslot[o])
    /\ reg' = IF reg[o] = NoReg THEN reg
              ELSE [reg EXCEPT ![o] = Registered(epslot[o])]
    /\ UNCHANGED <<poller, freeSlotList, usedPollers, epslot, life>>

(* ApplyEvents, or AttachPoller of an attached object, with a new mask. *)
ApplyEvents(o) ==
    /\ MayCall
    /\ Modify(o)
    /\ UNCHANGED <<batch, running>>

(* Mutant: the object still points to the slot it has given back. *)
DetachPollerKeepsSlot(o) ==
    /\ MayCall
    /\ epslot[o] # NoSlot
    /\ FreeSlot(epslot[o])
    /\ reg' = [reg EXCEPT ![o] = NoReg]
    /\ UNCHANGED <<epslot, life, batch, running>>

(* DetachPoller of an attached object. *)
DetachPoller(o) ==
    /\ MayCall
    /\ epslot[o] # NoSlot
    /\ FreeSlot(epslot[o])
    /\ epslot' = [epslot EXCEPT ![o] = NoSlot]
    /\ reg' = [reg EXCEPT ![o] = NoReg]
    /\ UNCHANGED <<life, batch, running>>

(* ~CPollerObject: the slot is given back, and close takes the descriptor  *)
(* off the epoll set.  The address can be used for another object.         *)
Destroy(o) ==
    /\ MayCall
    /\ life[o] < MaxLives
    /\ IF epslot[o] = NoSlot
       THEN UNCHANGED <<slotVars, epslot, reg>>
       ELSE /\ FreeSlot(epslot[o])
            /\ epslot' = [epslot EXCEPT ![o] = NoSlot]
            /\ reg' = [reg EXCEPT ![o] = NoReg]
    /\ life' = [life EXCEPT ![o] = @ + 1]
    /\ UNCHANGED <<batch, running>>

-----------------------------------------------------------------------------
(* WaitPollerEvents: any of the registered descriptors have an event. *)
WaitPollerEvents ==
    /\ batch = {}
    /\ running = NoCall
    /\ \E ready \in SUBSET {o \in Objects : reg[o] # NoReg} :
         batch' = {[slot |-> reg[o].slot, seq |-> reg[o].seq, obj |-> o, life |-> life[o]] :
                     o \in ready}
    /\ bumps' = [s \in Slots |-> 0]
    /\ UNCHANGED <<seq, poller, freeSlotList, usedPollers, objectVars, running>>

(* VerifyEvents *)
Verified(e) == e.seq = seq[e.slot]

(* An event that does not verify is dropped ... *)
DropEvent(e) ==
    /\ running = NoCall
    /\ ~Verified(e)
    /\ batch' = batch \ {e}
    /\ UNCHANGED <<slotVars, objectVars, running>>

(* ... and one that does goes to the object in the slot. *)
Dispatch(e) ==
    /\ running = NoCall
    /\ Verified(e)
    /\ batch' = batch \ {e}
    /\ \E call \in Calls :
         running' = [slot |-> e.slot, obj |-> poller[e.slot], life |-> e.life, call |-> call]
    /\ UNCHANGED <<slotVars, objectVars>>

(* The handler returns POLLER_SUCC.  One that has deleted or registered    *)
(* its object anew returns something else.                                 *)
Succeeds == life[running.obj] = running.life

(* Mutant: the return code alone is checked. *)
StillAttachedUnchecked == TRUE

(* s->poller == p *)
StillAttached == poller[running.slot] = running.obj

(* InputNotify has returned, and the event has EPOLLOUT too. *)
InputThenOutput ==
    /\ running.call = "input"
    /\ StillAttached
    /\ Succeeds
    /\ running' = [running EXCEPT !.call = "output"]
    /\ UNCHANGED <<slotVars, objectVars, batch>>

(* The event is done with; a handler that has succeeded may have left a    *)
(* new mask, which ApplyEvents gives to the kernel.                        *)
EventDone ==
    /\ running # NoCall
    /\ \/ UNCHANGED <<slotVars, objectVars>>
       \/ /\ running.call # "hangup"
          /\ StillAttached
          /\ Succeeds
          /\ Modify(running.obj)
    /\ running' = NoCall
    /\ UNCHANGED batch

PollerNext ==
    \/ \E o \in Objects :
         \/ AttachPoller(o) \/ AttachPollerFails(o) \/ ApplyEvents(o)
         \/ DetachPoller(o) \/ Destroy(o)
    \/ WaitPollerEvents
    \/ \E e \in batch : DropEvent(e) \/ Dispatch(e)
    \/ InputThenOutput
    \/ EventDone

PollerSpec == PollerInit /\ [][PollerNext]_pollerVars

-----------------------------------------------------------------------------
InFreeList(s) == \E n \in 1..Len(freeSlotList) : freeSlotList[n] = s

(* Every slot is on the free list once, or belongs to the one object that  *)
(* points to it; usedPollers counts the latter.                            *)
EverySlotOnce ==
    /\ \A m, n \in 1..Len(freeSlotList) :
         freeSlotList[m] = freeSlotList[n] => m = n
    /\ \A s \in Slots : InFreeList(s) <=> poller[s] = NoObject
    /\ \A s \in Slots : poller[s] # NoObject => epslot[poller[s]] = s
    /\ \A o \in Objects : epslot[o] # NoSlot => poller[epslot[o]] = o
    /\ usedPollers + Len(freeSlotList) = MaxPollers

(* Nobody is deaf: what the kernel has stored for a registered object is   *)
(* its slot with the slot's current number, so its next event verifies.    *)
NobodyIsDeaf ==
    \A o \in Objects :
        reg[o] # NoReg =>
            /\ epslot[o] # NoSlot
            /\ reg[o] = [slot |-> epslot[o], seq |-> seq[epslot[o]]]

(* An event of the batch verifies only while the registration it was       *)
(* reported for stands: whatever the handlers before it have detached,     *)
(* deleted or attached again, in its slot or at its object's address.      *)
EventsReachTheirOwner ==
    \A e \in batch :
        Verified(e) => poller[e.slot] = e.obj /\ life[e.obj] = e.life

(* A handler is called only for an object that has the slot, in the life   *)
(* in which the event was reported.                                        *)
CallsLiveObjects ==
    [][running' # running /\ running' # NoCall =>
         /\ poller'[running'.slot] = running'.obj
         /\ life'[running'.obj] = running'.life]_pollerVars
=============================================================================
