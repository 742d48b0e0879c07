----------------------------- MODULE TimerLists -----------------------------
(***************************************************************************)
(* The server's timers (core/timerlist.cpp): one list of objects for each  *)
(* timeout, in the order in which the objects were attached.  CheckExpired *)
(* looks at the heads only.                                                *)
(*                                                                         *)
(* Time is gettimeofday, which may be set forward and back by any amount.  *)
(* To keep it finite a timer is told by what is left of it, left[o] =      *)
(* objexp - clock, and the `now' that the main loop reads once in a round  *)
(* by its age, lag = clock - now.  The left of an object in no list has no *)
(* meaning and is 0.                                                       *)
(***************************************************************************)
EXTENDS Integers, Sequences, SequencesExt

CONSTANTS TimerObjects,   \* the objects that have a timer
          Timeouts,       \* the timeouts asked of GetTimerList, each a list
          MaxWait,        \* _epwaittimeout
          MaxLag,         \* bound: no time passes in a round whose now is so old
          MaxBack,        \* bound: by how much the clock is set back, in all
          MaxAhead        \* bound: by how much it is set forward, in all

ASSUME TimerAssumption ==
    /\ Timeouts \subseteq Nat \ {0}
    /\ MaxWait \in Nat \ {0}
    /\ MaxLag \in Nat \ {0} /\ MaxBack \in Nat /\ MaxAhead \in Nat

VARIABLES lists,      \* lists[t]: the CTimerList whose timeout is t
          left,       \* left[o]: objexp of o, less the clock
          lag,        \* the clock, less the now of this round
          patience,   \* what is left of the timeout given to epoll_wait
          back,       \* history: by how much the clock was set back
          ahead,      \* history: by how much the clock was set forward
          settings,   \* history: how often it was set
          setBack     \* history: by how much of `back' since the now of this round

clockVars == <<lag, patience, back, ahead, settings, setBack>>
timerVars == <<lists, left, clockVars>>

(* An object below the floor has expired whatever the clock still does.    *)
Floor == -(MaxLag + MaxAhead + MaxBack)

AtLeast(a, b) == IF a < b THEN b ELSE a
AtMost(a, b) == IF a > b THEN b ELSE a

Lefts == {n \in Int : n >= Floor}

TimerTypeOK ==
    /\ lists \in [Timeouts -> Seq(TimerObjects)]
    /\ left \in [TimerObjects -> Lefts]
    /\ lag \in (-MaxBack)..(MaxLag + MaxAhead)
    /\ patience \in 0..MaxWait
    /\ back \in 0..MaxBack /\ ahead \in 0..MaxAhead
    /\ setBack \in 0..back
    /\ settings \in Nat

In(q) == {q[n] : n \in DOMAIN q}
Attached == UNION {In(lists[t]) : t \in Timeouts}
Heads == {Head(lists[t]) : t \in {u \in Timeouts : lists[u] # <<>>}}
Expired(o) == left[o] + lag <= 0

(* ListDel: the list q without o. *)
Without(q, o) ==
    IF o \in In(q) THEN RemoveAt(q, CHOOSE n \in DOMAIN q : q[n] = o) ELSE q

-----------------------------------------------------------------------------
(* Mutant: an object that is attached again keeps its old time.            *)
AttachKeepsTime(o, t) ==
    /\ lists' = [u \in Timeouts |-> IF u = t THEN Append(Without(lists[u], o), o)
                                             ELSE Without(lists[u], o)]
    /\ left' = IF o \in Attached THEN left ELSE [left EXCEPT ![o] = t]

(* Mutant: list_move instead of list_move_tail. *)
AttachInFront(o, t) ==
    /\ lists' = [u \in Timeouts |-> IF u = t THEN <<o>> \o Without(lists[u], o)
                                             ELSE Without(lists[u], o)]
    /\ left' = [left EXCEPT ![o] = t]

(* AttachTimer: ListMoveTail out of the list it is in, if any. *)
AttachTimer(o, t) ==
    /\ lists' = [u \in Timeouts |-> IF u = t THEN Append(Without(lists[u], o), o)
                                             ELSE Without(lists[u], o)]
    /\ left' = [left EXCEPT ![o] = t]

(* ListDel, and ~CListObject when the object is deleted. *)
DetachTimer(o) ==
    /\ lists' = [u \in Timeouts |-> Without(lists[u], o)]
    /\ left' = [left EXCEPT ![o] = 0]

(* Mutant: an overdue timer gives a negative timeout, which is none.       *)
ExpireUnclamped ==
    CHOOSE n \in Floor..MaxWait :
        /\ n = MaxWait \/ \E o \in Heads : left[o] = n
        /\ \A o \in Heads : n <= left[o]

(* ExpireMicroSeconds: how long epoll_wait may wait.                       *)
ExpireMicroSeconds ==
    CHOOSE n \in 0..MaxWait :
        /\ n = MaxWait \/ \E o \in Heads : AtLeast(left[o], 0) = n
        /\ \A o \in Heads : n <= AtLeast(left[o], 0)

(* The head of a list has expired: the object is to be detached and told.  *)
CheckExpired(o) == o \in Heads /\ Expired(o)

(* Every list is empty, or its head has not expired. *)
NothingExpired == \A o \in Heads : ~Expired(o)

Older(d) ==
    left' = [o \in TimerObjects |->
               IF o \in Attached THEN AtLeast(left[o] - d, Floor) ELSE 0]

(* The clock is set back, or forward, by d. *)
StepBack(d) ==
    /\ d \in 1..(MaxBack - back)
    /\ back' = back + d
    /\ settings' = settings + 1
    /\ Older(-d)
    /\ UNCHANGED ahead

StepForward(d) ==
    /\ d \in 1..(MaxAhead - ahead)
    /\ ahead' = ahead + d
    /\ settings' = settings + 1
    /\ Older(d)
    /\ UNCHANGED back
=============================================================================
