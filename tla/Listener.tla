------------------------------ MODULE Listener ------------------------------
(***************************************************************************)
(* How connections come into being and end: the listening socket           *)
(* (proxy/listener.cpp), with the decoder and client units it creates for  *)
(* each connection (decode_unit.cpp, client_unit.cpp) and deletes again.   *)
(*                                                                         *)
(* A connection is known by its descriptor.  accept(2) fails with EMFILE   *)
(* when the process has MaxFds descriptors for connections, even if nobody *)
(* waits, as Linux does it.  Memory and EPOLL_CTL_ADD do not fail.         *)
(***************************************************************************)
EXTENDS TimerLists, FiniteSets

CONSTANTS MaxFds,         \* RLIMIT_NOFILE, less what the process has open anyway
          SlotChoices,    \* the MaxFdCount that may be configured
          AcceptCnt,      \* MAX_ACCEPT_COUNT
          WebTimeout,     \* _webtimeout
          MaxBacklog,     \* the backlog given to listen(2)
          MaxFaults       \* bound: accepts that fail for EINTR, ECONNABORTED and the like,
                          \* and settings of the clock

Fds == 1..MaxFds
NoFd == -1

ASSUME ListenerAssumption ==
    /\ MaxFds \in Nat /\ AcceptCnt \in Nat \ {0}
    /\ MaxBacklog \in Nat /\ MaxFaults \in Nat
    /\ SlotChoices \subseteq Nat \ {0}
    /\ Fds \subseteq TimerObjects
    /\ WebTimeout \in Timeouts

VARIABLES backlog,      \* connections that wait to be accepted
          open,         \* the descriptors of accepted connections
          units,        \* the descriptors that have their units
          slots,        \* _maxpoller
          usedPollers,  \* of the poller's slots; the listener has one
          fd_array,     \* _fd_array, as far as proc_accept has come
          newfd_cnt,    \* _newfd_cnt
          served,       \* i of proc_request: the entries it has been through
          interrupts,   \* history: how many accepts were interrupted
          aborts,       \* history: how many connections were aborted before
          pc            \* where the main loop is; "request" and "last" are
                        \* proc_request, before another proc_accept or none

listenerVars == <<backlog, open, units, slots, usedPollers, fd_array, newfd_cnt,
                  served, interrupts, aborts>>

ListenerTypeOK ==
    /\ backlog \in 0..MaxBacklog
    /\ open \subseteq Fds
    /\ units \subseteq Fds
    /\ slots \in SlotChoices
    /\ usedPollers \in Nat
    /\ fd_array \in Seq(Fds \cup {NoFd}) /\ Len(fd_array) <= AcceptCnt
    /\ newfd_cnt \in 0..Len(fd_array)
    /\ served \in 0..newfd_cnt
    /\ interrupts \in Nat /\ aborts \in Nat /\ interrupts + aborts <= MaxFaults
    /\ pc \in {"wait", "batch", "accept", "request", "last", "expire", "down"}

(* Attach *)
ListenerInit ==
    /\ backlog = 0
    /\ open = {}
    /\ units = {}
    /\ slots \in SlotChoices
    /\ usedPollers = 1
    /\ fd_array = <<>>
    /\ newfd_cnt = 0
    /\ served = 0
    /\ interrupts = 0 /\ aborts = 0

-----------------------------------------------------------------------------
(* A client's handshake is complete. *)
Connect ==
    /\ pc # "down"
    /\ backlog < MaxBacklog
    /\ backlog' = backlog + 1
    /\ UNCHANGED <<open, units, slots, usedPollers, fd_array, newfd_cnt, served,
                   interrupts, aborts, pc, timerVars>>

(* There may be another fault. *)
MayFail == interrupts + aborts + settings < MaxFaults

LowestFree == CHOOSE f \in Fds \ open : \A g \in Fds \ open : f <= g

(* The next call of accept; f is what it leaves in _fd_array[i]. *)
Accepted(f) ==
    /\ pc = "accept"
    /\ Len(fd_array) < AcceptCnt
    /\ fd_array' = Append(fd_array, f)
    /\ UNCHANGED <<units, slots, usedPollers, served, pc, timerVars>>

AcceptOne ==
    /\ backlog > 0 /\ open # Fds
    /\ Accepted(LowestFree)
    /\ open' = open \cup {LowestFree}
    /\ backlog' = backlog - 1
    /\ newfd_cnt' = newfd_cnt + 1
    /\ UNCHANGED <<interrupts, aborts>>

(* ECONNABORTED, and the other errors of the connection itself. *)
AcceptAborted ==
    /\ backlog > 0 /\ open # Fds
    /\ MayFail
    /\ aborts' = aborts + 1
    /\ Accepted(NoFd)
    /\ backlog' = backlog - 1
    /\ newfd_cnt' = newfd_cnt + 1
    /\ UNCHANGED <<open, interrupts>>

(* EMFILE *)
AcceptTooMany ==
    /\ open = Fds
    /\ Accepted(NoFd)
    /\ newfd_cnt' = newfd_cnt + 1
    /\ UNCHANGED <<backlog, open, interrupts, aborts>>

(* EINTR: _fd_array[i] stays -1, and _newfd_cnt what it was. *)
AcceptInterrupted ==
    /\ MayFail
    /\ Accepted(NoFd)
    /\ interrupts' = interrupts + 1
    /\ UNCHANGED <<backlog, open, newfd_cnt, aborts>>

(* proc_accept is left. InputNotify calls proc_request, unless _newfd_cnt  *)
(* is 0: then it returns.                                                  *)
AcceptReturns(next) ==
    /\ IF newfd_cnt > 0
       THEN pc' = next /\ UNCHANGED fd_array
       ELSE pc' = "batch" /\ fd_array' = <<>>
    /\ UNCHANGED <<backlog, open, units, slots, usedPollers, newfd_cnt, served,
                   interrupts, aborts, timerVars>>

(* EAGAIN: nobody waits any more. *)
AcceptDrained ==
    /\ pc = "accept"
    /\ Len(fd_array) < AcceptCnt
    /\ open # Fds /\ backlog = 0
    /\ AcceptReturns("last")

(* _accept_cnt calls are made. *)
AcceptedAll ==
    /\ pc = "accept"
    /\ Len(fd_array) = AcceptCnt
    /\ AcceptReturns("request")

-----------------------------------------------------------------------------
(* proc_request comes to entry served + 1, which is f. *)
Requested(f) ==
    /\ pc \in {"request", "last"}
    /\ served < newfd_cnt
    /\ f = fd_array[served + 1]
    /\ UNCHANGED <<backlog, open, slots, fd_array, newfd_cnt, interrupts, aborts,
                   clockVars>>

(* Mutant: break instead of continue, at an entry without a descriptor.    *)
RequestBreaks ==
    /\ Requested(NoFd)
    /\ served' = newfd_cnt
    /\ UNCHANGED <<units, usedPollers, lists, left, pc>>

(* continue *)
RequestNoFd ==
    /\ Requested(NoFd)
    /\ served' = served + 1
    /\ UNCHANGED <<units, usedPollers, lists, left, pc>>

(* create_decoderunit, listener_input, CClientUnit::Attach.                *)
RequestUnit(f) ==
    /\ Requested(f)
    /\ usedPollers < slots
    /\ units' = units \cup {f}
    /\ usedPollers' = usedPollers + 1
    /\ AttachTimer(f, WebTimeout)
    /\ served' = served + 1
    /\ UNCHANGED pc

(* Without a slot AttachPoller fails, listener_input returns -1, the unit  *)
(* is deleted, and its NULL pointer is used.                               *)
RequestNoSlot(f) ==
    /\ Requested(f)
    /\ usedPollers >= slots
    /\ pc' = "down"
    /\ UNCHANGED <<units, usedPollers, lists, left, served>>

(* proc_request returns; InputNotify goes round or returns, by the result  *)
(* of proc_accept.                                                         *)
RequestDone ==
    /\ pc \in {"request", "last"}
    /\ served = newfd_cnt
    /\ pc' = IF pc = "request" THEN "accept" ELSE "batch"
    /\ fd_array' = <<>>
    /\ newfd_cnt' = 0
    /\ served' = 0
    /\ UNCHANGED <<backlog, open, units, slots, usedPollers, interrupts, aborts,
                   timerVars>>

(* Mutant: the destructor forgets FreeEpollSlot. *)
CompleteKeepsSlot(c) ==
    /\ units' = units \ {c}
    /\ open' = open \ {c}
    /\ DetachTimer(c)
    /\ UNCHANGED usedPollers

(* complete: ~CDecoderUnit, ~CClientUnit, ~CPollerObject (slot, close),    *)
(* ~CTimerObject.                                                          *)
Complete(c) ==
    /\ units' = units \ {c}
    /\ open' = open \ {c}
    /\ usedPollers' = usedPollers - 1
    /\ DetachTimer(c)

ListenerStep ==
    \/ AcceptOne \/ AcceptAborted \/ AcceptTooMany \/ AcceptInterrupted
    \/ AcceptDrained \/ AcceptedAll
    \/ RequestNoFd \/ RequestDone
    \/ \E f \in Fds : RequestUnit(f) \/ RequestNoSlot(f)
=============================================================================
