----------------------------- MODULE ServerLoop -----------------------------
(***************************************************************************)
(* The server's main loop (CIncoming::run): wait for events, read the      *)
(* clock, handle the events, then tell the timers that have expired.  The  *)
(* listener creates connections, their events and their timers end them.   *)
(*                                                                         *)
(* What a connection's handler does with its bytes is left open (ClientUnit*)
(* has it): it keeps the connection or ends it.  The events of a unit that *)
(* is gone are dropped, as Poller shows.                                   *)
(***************************************************************************)
EXTENDS Listener

CONSTANTS RealTimer,    \* the CRealTimer object
          RealTimeout   \* 60 seconds

ListenFd == 0

ASSUME ServerAssumption ==
    /\ RealTimer \notin Fds
    /\ TimerObjects = Fds \cup {RealTimer}
    /\ RealTimeout \in Timeouts

VARIABLES batch,   \* the descriptors whose events are not yet processed
          idle     \* history: the time since the last event of a unit, and what
                   \* the clock was set forward since, up to WebTimeout in all

serverVars == <<listenerVars, timerVars, pc, batch, idle>>

ServerTypeOK ==
    /\ TimerTypeOK
    /\ ListenerTypeOK
    /\ batch \subseteq Fds \cup {ListenFd}
    /\ idle \in [Fds -> 0..WebTimeout]

(* CIncoming::open *)
ServerInit ==
    /\ ListenerInit
    /\ lists = [t \in Timeouts |-> IF t = RealTimeout THEN <<RealTimer>> ELSE <<>>]
    /\ left = [o \in TimerObjects |-> IF o = RealTimer THEN RealTimeout ELSE 0]
    /\ lag = 0
    /\ patience = ExpireMicroSeconds
    /\ back = 0 /\ ahead = 0 /\ settings = 0 /\ setBack = 0
    /\ pc = "wait"
    /\ batch = {}
    /\ idle = [c \in Fds |-> 0]

-----------------------------------------------------------------------------
Fresh(cs) == [c \in Fds |-> IF c \in cs THEN 0 ELSE idle[c]]

Aged(d) == [c \in Fds |-> IF c \in units THEN AtMost(idle[c] + d, WebTimeout) ELSE idle[c]]

(* Time passes: epoll_wait returns when its timeout is over, and a round   *)
(* comes to an end.                                                        *)
Tick ==
    /\ \/ pc = "wait" /\ patience > 0 /\ patience' = patience - 1 /\ UNCHANGED lag
       \/ pc \notin {"wait", "down"} /\ lag < MaxLag /\ lag' = lag + 1
          /\ UNCHANGED patience
    /\ Older(1)
    /\ idle' = Aged(1)
    /\ UNCHANGED <<lists, back, ahead, settings, setBack, listenerVars, pc, batch>>

(* The clock is set back, and the now of the round is not.                 *)
ClockSetBack(d) ==
    /\ pc # "down" /\ MayFail
    /\ StepBack(d)
    /\ IF pc = "wait" THEN UNCHANGED <<lag, setBack>>
                      ELSE lag' = lag - d /\ setBack' = setBack + d
    /\ UNCHANGED <<lists, patience, listenerVars, pc, batch, idle>>

(* The clock is set forward, and the now of the round is not.              *)
ClockSetForward(d) ==
    /\ pc # "down" /\ MayFail
    /\ StepForward(d)
    /\ lag' = IF pc = "wait" THEN lag ELSE lag + d
    /\ idle' = Aged(d)
    /\ UNCHANGED <<lists, patience, setBack, listenerVars, pc, batch>>

(* WaitPollerEvents, and now = GET_TIMESTAMP(): epoll_wait reports every   *)
(* descriptor that is ready.                                               *)
Wake ==
    /\ pc = "wait"
    /\ \E ready \in SUBSET units :
          batch' = ready \cup (IF backlog > 0 THEN {ListenFd} ELSE {})
    /\ batch' # {} \/ patience = 0
    /\ lag' = 0 /\ setBack' = 0
    /\ pc' = "batch"
    /\ UNCHANGED <<lists, left, patience, back, ahead, settings, listenerVars, idle>>

(* The listener's InputNotify is called. *)
StartAccept ==
    /\ pc = "batch" /\ ListenFd \in batch
    /\ batch' = batch \ {ListenFd}
    /\ pc' = "accept"
    /\ UNCHANGED <<listenerVars, timerVars, idle>>

Accept ==
    /\ ListenerStep
    /\ idle' = Fresh(units' \ units)
    /\ UNCHANGED batch

(* InputNotify or OutputNotify of a connection: update_timer.              *)
HandleEvent(c) ==
    /\ pc = "batch" /\ c \in batch
    /\ batch' = batch \ {c}
    /\ AttachTimer(c, WebTimeout)
    /\ idle' = Fresh({c})
    /\ UNCHANGED <<listenerVars, clockVars, pc>>

(* A handler that ends its connection: web_input, web_output, web_hangup.  *)
HandleLastEvent(c) ==
    /\ pc = "batch" /\ c \in batch
    /\ batch' = batch \ {c}
    /\ Complete(c)
    /\ idle' = Fresh({c})
    /\ UNCHANGED <<backlog, slots, fd_array, newfd_cnt, served, interrupts,
                   aborts, clockVars, pc>>

StartExpire ==
    /\ pc = "batch" /\ batch = {}
    /\ pc' = "expire"
    /\ UNCHANGED <<listenerVars, timerVars, batch, idle>>

(* CClientUnit::TimerNotify: web_timer. *)
ConnectionExpires(c) ==
    /\ pc = "expire" /\ CheckExpired(c)
    /\ Complete(c)
    /\ idle' = Fresh({c})
    /\ UNCHANGED <<backlog, slots, fd_array, newfd_cnt, served, interrupts,
                   aborts, clockVars, pc, batch>>

(* CRealTimer::TimerNotify: it attaches itself again. *)
RealTimerExpires ==
    /\ pc = "expire" /\ CheckExpired(RealTimer)
    /\ AttachTimer(RealTimer, RealTimeout)
    /\ UNCHANGED <<listenerVars, clockVars, pc, batch, idle>>

(* CTimerUnit::CheckExpired returns (the list `pending' is always empty),  *)
(* and run goes round.                                                     *)
NextRound ==
    /\ pc = "expire" /\ NothingExpired
    /\ pc' = "wait"
    /\ lag' = 0 /\ setBack' = 0
    /\ patience' = ExpireMicroSeconds
    /\ UNCHANGED <<lists, left, back, ahead, settings, listenerVars, batch, idle>>

ServerStep ==
    \/ Wake \/ StartAccept \/ Accept \/ StartExpire \/ RealTimerExpires \/ NextRound
    \/ \E c \in Fds : HandleEvent(c) \/ HandleLastEvent(c) \/ ConnectionExpires(c)

Arrive == Connect /\ UNCHANGED <<batch, idle>>

ServerNext ==
    \/ ServerStep \/ Arrive \/ Tick
    \/ \E d \in 1..MaxBack : ClockSetBack(d)
    \/ \E d \in 1..MaxAhead : ClockSetForward(d)

(* The process runs and time passes. *)
ServerSpec ==
    /\ ServerInit /\ [][ServerNext]_serverVars
    /\ WF_serverVars(ServerStep) /\ WF_serverVars(Tick)

-----------------------------------------------------------------------------
Injective(q) == \A m, n \in DOMAIN q : q[m] = q[n] => m = n

(* The lists and the slot table speak of the living units: each unit is in *)
(* one list once, so is CRealTimer, nobody else is, and every unit has one *)
(* slot (update_timer, AttachTimer, the destructors).                      *)
ListsHoldTheLiving ==
    /\ \A t \in Timeouts : Injective(lists[t])
    /\ \A t, u \in Timeouts : t # u => In(lists[t]) \cap In(lists[u]) = {}
    /\ Attached = units \cup {RealTimer}
    /\ usedPollers = Cardinality(units) + 1

(* When the listener is done, every open descriptor has its units, but for *)
(* one at most for each accept that was interrupted: such an accept leaves *)
(* a hole in _fd_array that proc_request counts as a descriptor.           *)
DescriptorsAreServed ==
    /\ units \subseteq open
    /\ pc \in {"wait", "batch", "expire"} =>
          Cardinality(open \ units) <= interrupts

(* The server dies for want of a slot only where MaxFdCount allows fewer   *)
(* connections than the descriptor limit (listener.cpp:116).               *)
SlotsSuffice == pc = "down" => slots <= MaxFds

(* No timer that is waited for is overdue by more than the time a round    *)
(* took and the clock was set either way: to look at the heads only is     *)
(* enough.                                                                 *)
TimersInTime ==
    pc = "wait" => \A o \in Attached : left[o] > -(MaxLag + ahead + back)

(* A timer ends a connection only when its last event lies back by         *)
(* WebTimeout, with what the clock was set forward since counted in; or    *)
(* when the clock was set back by WebTimeout or more since the now of this *)
(* round, so that now is past an objexp that has just been set.            *)
NeverEndedEarly ==
    [][pc = "expire" /\ setBack < WebTimeout =>
          \A c \in units \ units' : idle[c] >= WebTimeout]_serverVars

(* The process is dead, or busy for ever in InputNotify: accept fails with *)
(* EMFILE, and proc_accept takes that for a connection (listener.cpp:146). *)
OutOfOrder == pc = "down" \/ (pc \in {"accept", "request"} /\ open = Fds)

(* The server comes back to its wait for ever, unless it is out of order.  *)
RoundsGoOn == []<>(pc = "wait") \/ <>[]OutOfOrder
=============================================================================
