-------------------------- MODULE ServerLoopProofs --------------------------
(***************************************************************************)
(* Proofs about ServerLoop, for any number of descriptors, slots and       *)
(* accepts to a call, any timeouts and any bounds on time: its timers are  *)
(* those of the living units and none is told late or early, and no        *)
(* descriptor is lost but to an interrupted accept.                        *)
(***************************************************************************)
EXTENDS ServerLoop, TLAPS, FiniteSetTheorems, SequenceTheorems,
        WellFoundedInduction

-----------------------------------------------------------------------------
(* The entries of _fd_array that proc_request has yet to come to. *)
Entries == {n \in (served + 1)..Len(fd_array) : fd_array[n] # NoFd}

(* A descriptor that waits for its unit is open, has none, and is in       *)
(* _fd_array once.                                                         *)
EntryInv ==
    /\ units \subseteq open
    /\ \A n \in Entries : fd_array[n] \in open \ units
    /\ \A m, n \in Entries : fd_array[m] = fd_array[n] => m = n

(* The open descriptors without a unit are those still to be served, and   *)
(* at most one for each accept that was interrupted before this call.      *)
LostInv ==
    Cardinality(open \ units) + (Len(fd_array) - newfd_cnt)
        <= interrupts + Cardinality(Entries)

(* Each list is in the order of the timers, but for what the clock was set *)
(* back.                                                                   *)
OrderInv ==
    \A t \in Timeouts : \A n \in DOMAIN lists[t] :
        /\ left[lists[t][n]] <= t + back
        /\ \A m \in 1..(n - 1) : left[lists[t][n]] + back >= left[lists[t][m]]

(* epoll_wait returns before a head is overdue by more than a round took   *)
(* and the clock was set forward.                                          *)
HeadInv ==
    pc = "wait" => \A o \in Heads :
        \/ left[o] + ahead >= patience
        \/ patience = 0 /\ left[o] + ahead > -MaxLag

(* The timer of a unit measures the time since its last event, by the clock*)
(* and, unless the clock was set back too far since, by the now of this    *)
(* round.                                                                  *)
IdleInv ==
    \A c \in units : idle[c] < WebTimeout =>
        /\ left[c] >= WebTimeout - idle[c]
        /\ setBack < WebTimeout => left[c] + lag > 0

(* No object is in two places. *)
ListsApart ==
    /\ \A t \in Timeouts : Injective(lists[t])
    /\ \A t, u \in Timeouts : t # u => In(lists[t]) \cap In(lists[u]) = {}

TimerInv ==
    /\ TimerTypeOK
    /\ units \subseteq Fds
    /\ idle \in [Fds -> 0..WebTimeout]
    /\ pc = "wait" => lag = 0
    /\ -setBack <= lag /\ lag <= MaxLag + ahead
    /\ ListsApart
    /\ Attached = units \cup {RealTimer}
    /\ OrderInv
    /\ HeadInv
    /\ IdleInv

AcceptInv ==
    /\ ListenerTypeOK
    /\ pc \in {"wait", "batch", "expire"} => fd_array = <<>>
    /\ pc \in {"wait", "expire"} => batch = {}
    /\ pc = "accept" => served = 0
    /\ batch \subseteq units \cup {ListenFd}
    /\ usedPollers = Cardinality(units) + 1
    /\ EntryInv
    /\ LostInv
    /\ SlotsSuffice

ServerInv == TimerInv /\ AcceptInv

-----------------------------------------------------------------------------
(* A set of numbers has a least one. *)
LEMMA Least ==
    ASSUME NEW T \in SUBSET Nat, T # {}
    PROVE  \E x \in T : \A y \in T : x <= y
<1>1. IsWellFoundedOn(OpToRel(<, Nat), Nat)
  BY NatLessThanWellFounded
<1>2. PICK x \in T : \A y \in T : ~(<<y, x>> \in OpToRel(<, Nat))
  BY <1>1, WFMin
<1>3. \A y \in T : ~(y < x)
  BY <1>2 DEF OpToRel
<1> QED
  BY <1>3

(* What Without does to a list that holds o: one place goes, and those     *)
(* behind it move up.                                                      *)
LEMMA WithoutPlaces ==
    ASSUME NEW S, NEW q \in Seq(S), NEW o \in In(q)
    PROVE  \E k \in 1..Len(q) :
              /\ q[k] = o
              /\ Without(q, o) \in Seq(S)
              /\ Len(Without(q, o)) = Len(q) - 1
              /\ \A n \in 1..(Len(q) - 1) :
                    Without(q, o)[n] = IF n < k THEN q[n] ELSE q[n + 1]
<1> DEFINE k == CHOOSE n \in DOMAIN q : q[n] = o
           a == SubSeq(q, 1, k - 1)
           b == SubSeq(q, k + 1, Len(q))
<1>1. k \in 1..Len(q) /\ q[k] = o
  <2>1. DOMAIN q = 1..Len(q)
    OBVIOUS
  <2> QED
    BY <2>1 DEF In
<1>2. Without(q, o) = a \o b
  BY DEF Without, RemoveAt
<1> HIDE DEF k
<1>3. \A n \in 1..Len(q) : q[n] \in S
  OBVIOUS
<1>4. /\ a \in Seq(S) /\ Len(a) = k - 1
      /\ \A n \in 1..(k - 1) : a[n] = q[n]
  <2>1. \A n \in 1..(k - 1) : q[n] \in S
    BY <1>1, <1>3
  <2>2. /\ a \in Seq(S)
        /\ Len(a) = IF 1 <= k - 1 THEN k - 1 - 1 + 1 ELSE 0
        /\ \A n \in 1..(k - 1 - 1 + 1) : a[n] = q[1 + n - 1]
    BY <1>1, <2>1, SubSeqProperties
  <2> HIDE DEF a
  <2> QED
    BY <1>1, <2>2
<1>5. /\ b \in Seq(S) /\ Len(b) = Len(q) - k
      /\ \A n \in 1..(Len(q) - k) : b[n] = q[k + n]
  <2>1. \A n \in (k + 1)..Len(q) : q[n] \in S
    BY <1>1, <1>3
  <2>2. /\ b \in Seq(S)
        /\ Len(b) = IF k + 1 <= Len(q) THEN Len(q) - (k + 1) + 1 ELSE 0
        /\ \A n \in 1..(Len(q) - (k + 1) + 1) : b[n] = q[(k + 1) + n - 1]
    BY <1>1, <2>1, SubSeqProperties
  <2> HIDE DEF b
  <2> QED
    BY <1>1, <2>2
<1> HIDE DEF a, b
<1>6. /\ a \o b \in Seq(S)
      /\ Len(a \o b) = Len(a) + Len(b)
      /\ \A n \in 1..(Len(a) + Len(b)) :
            (a \o b)[n] = IF n <= Len(a) THEN a[n] ELSE b[n - Len(a)]
  BY <1>4, <1>5, ConcatProperties
<1>7. \A n \in 1..(Len(q) - 1) : (a \o b)[n] = IF n < k THEN q[n] ELSE q[n + 1]
  BY <1>1, <1>4, <1>5, <1>6
<1>8. a \o b \in Seq(S) /\ Len(a \o b) = Len(q) - 1
  BY <1>1, <1>4, <1>5, <1>6
<1> HIDE DEF In, Without
<1> QED
  BY <1>1, <1>2, <1>7, <1>8

(* Without takes o away, the others stay in the order they had.            *)
LEMMA WithoutKeeps ==
    ASSUME NEW S, NEW q \in Seq(S), NEW o, Injective(q)
    PROVE  /\ Without(q, o) \in Seq(S)
           /\ Injective(Without(q, o))
           /\ In(Without(q, o)) = In(q) \ {o}
           /\ \A n \in DOMAIN Without(q, o) :
                 \E j \in DOMAIN q :
                    /\ q[j] = Without(q, o)[n]
                    /\ \A m \in 1..(n - 1) :
                          \E i \in 1..(j - 1) : q[i] = Without(q, o)[m]
<1>1. DOMAIN q = 1..Len(q)
  OBVIOUS
<1>2. CASE o \notin In(q)
  <2>1. Without(q, o) = q
    BY <1>2 DEF Without
  <2> QED
    BY <1>1, <1>2, <2>1
<1>3. CASE o \in In(q)
  <2> DEFINE w == Without(q, o)
  <2>1. PICK k \in 1..Len(q) :
           /\ q[k] = o
           /\ w \in Seq(S)
           /\ Len(w) = Len(q) - 1
           /\ \A n \in 1..(Len(q) - 1) : w[n] = IF n < k THEN q[n] ELSE q[n + 1]
    BY <1>3, WithoutPlaces
  <2> HIDE DEF w
  <2>2. DOMAIN w = 1..(Len(q) - 1)
    BY <2>1
  <2>3. \A m, n \in 1..Len(q) : q[m] = q[n] => m = n
    BY <1>1 DEF Injective
  <2> DEFINE At(p) == IF p < k THEN p ELSE p + 1
  <2>8. ASSUME NEW n \in 1..(Len(q) - 1)
        PROVE  At(n) \in 1..Len(q) /\ At(n) # k /\ w[n] = q[At(n)]
    <3>1. CASE n < k
      BY <2>1, <3>1
    <3>2. CASE ~(n < k)
      BY <2>1, <3>2
    <3> QED
      BY <3>1, <3>2
  <2>9. \A m, n \in 1..(Len(q) - 1) : m < n => At(m) < At(n)
    OBVIOUS
  <2> HIDE DEF At
  <2>4. Injective(w)
    <3>1. ASSUME NEW m \in 1..(Len(q) - 1), NEW n \in 1..(Len(q) - 1), w[m] = w[n]
          PROVE  m = n
      <4>1. At(m) = At(n)
        BY <2>3, <2>8, <3>1
      <4>2. At(m) \in Int
        BY <2>8
      <4> QED
        BY <2>9, <4>1, <4>2
    <3> QED
      BY <2>2, <3>1 DEF Injective
  <2>5. ASSUME NEW x \in In(w)
        PROVE  x \in In(q) \ {o}
    <3>1. PICK n \in 1..(Len(q) - 1) : w[n] = x
      BY <2>2 DEF In
    <3>2. At(n) \in 1..Len(q) /\ q[At(n)] = x /\ x # o
      BY <2>1, <2>3, <2>8, <3>1
    <3> QED
      BY <1>1, <3>2 DEF In
  <2>6. ASSUME NEW x \in In(q) \ {o}
        PROVE  x \in In(w)
    <3>1. PICK n \in 1..Len(q) : q[n] = x
      BY <1>1 DEF In
    <3>2. CASE n < k
      <4>1. n \in 1..(Len(q) - 1) /\ w[n] = x
        BY <2>1, <3>1, <3>2
      <4> QED
        BY <2>2, <4>1 DEF In
    <3>3. CASE ~(n < k)
      <4>1. n - 1 \in 1..(Len(q) - 1) /\ w[n - 1] = x
        BY <2>1, <3>1, <3>3
      <4> QED
        BY <2>2, <4>1 DEF In
    <3> QED
      BY <3>2, <3>3
  <2>7. ASSUME NEW n \in 1..(Len(q) - 1)
        PROVE  \E j \in 1..Len(q) :
                  /\ q[j] = w[n]
                  /\ \A m \in 1..(n - 1) : \E i \in 1..(j - 1) : q[i] = w[m]
    <3>1. \A m \in 1..(n - 1) : At(m) \in 1..(At(n) - 1) /\ q[At(m)] = w[m]
      BY <2>8, <2>9
    <3> QED
      BY <2>8, <3>1
  <2>10. In(w) = In(q) \ {o}
    BY <2>5, <2>6
  <2>11. \A n \in DOMAIN w :
           \E j \in DOMAIN q :
              /\ q[j] = w[n]
              /\ \A m \in 1..(n - 1) : \E i \in 1..(j - 1) : q[i] = w[m]
    <3> SUFFICES ASSUME NEW n \in DOMAIN w
                 PROVE  \E j \in DOMAIN q :
                           /\ q[j] = w[n]
                           /\ \A m \in 1..(n - 1) : \E i \in 1..(j - 1) : q[i] = w[m]
      OBVIOUS
    <3>1. n \in 1..(Len(q) - 1)
      BY <2>2
    <3>2. PICK j \in 1..Len(q) :
             /\ q[j] = w[n]
             /\ \A m \in 1..(n - 1) : \E i \in 1..(j - 1) : q[i] = w[m]
      BY <2>7, <3>1
    <3> QED
      BY <1>1, <3>2
  <2> QED
    BY <2>1, <2>4, <2>10, <2>11 DEF w
<1> QED
  BY <1>2, <1>3

(* The lists without o, whatever its timer becomes, are apart and in order.*)
LEMMA OthersStay ==
    ASSUME TimerTypeOK, ListsApart, OrderInv,
           NEW o, NEW t \in Timeouts,
           NEW e \in [TimerObjects -> Int], \A p \in TimerObjects \ {o} : e[p] = left[p]
    PROVE  LET w == Without(lists[t], o) IN
           /\ w \in Seq(TimerObjects)
           /\ Injective(w)
           /\ In(w) = In(lists[t]) \ {o}
           /\ \A n \in DOMAIN w :
                 /\ e[w[n]] <= t + back
                 /\ \A m \in 1..(n - 1) : e[w[n]] + back >= e[w[m]]
<1> DEFINE q == lists[t]
           w == Without(q, o)
<1>1. q \in Seq(TimerObjects)
  BY DEF TimerTypeOK
<1>2. Injective(q)
  BY DEF ListsApart
<1>3. /\ \A n \in DOMAIN q : left[q[n]] <= t + back
      /\ \A n \in DOMAIN q : \A m \in 1..(n - 1) : left[q[n]] + back >= left[q[m]]
  BY DEF OrderInv
<1> HIDE DEF q
<1>4. /\ w \in Seq(TimerObjects)
      /\ Injective(w)
      /\ In(w) = In(q) \ {o}
      /\ \A n \in DOMAIN w :
            \E j \in DOMAIN q :
               /\ q[j] = w[n]
               /\ \A m \in 1..(n - 1) : \E i \in 1..(j - 1) : q[i] = w[m]
  BY <1>1, <1>2, WithoutKeeps
<1> HIDE DEF w
<1>5. \A n \in DOMAIN w : w[n] \in TimerObjects \ {o}
  <2>1. \A n \in DOMAIN w : w[n] \in TimerObjects
    BY <1>4
  <2>2. \A n \in DOMAIN w : w[n] \in In(w)
    BY DEF In
  <2> QED
    BY <1>4, <2>1, <2>2
<1>6. ASSUME NEW n \in DOMAIN w
      PROVE  /\ e[w[n]] <= t + back
             /\ \A m \in 1..(n - 1) : e[w[n]] + back >= e[w[m]]
  <2>1. PICK j \in DOMAIN q :
           /\ q[j] = w[n]
           /\ \A m \in 1..(n - 1) : \E i \in 1..(j - 1) : q[i] = w[m]
    BY <1>4
  <2>2. e[w[n]] = left[q[j]]
    BY <1>5, <2>1
  <2>3. ASSUME NEW m \in 1..(n - 1)
        PROVE  e[w[n]] + back >= e[w[m]]
    <3>1. m \in DOMAIN w
      BY <1>4
    <3>2. PICK i \in 1..(j - 1) : q[i] = w[m]
      BY <2>1
    <3>3. left[q[j]] + back >= left[q[i]]
      BY <1>3
    <3>4. e[w[m]] = left[q[i]]
      BY <1>5, <3>1, <3>2
    <3> QED
      BY <2>2, <3>3, <3>4
  <2>4. left[q[j]] <= t + back
    BY <1>3
  <2> QED
    BY <2>2, <2>3, <2>4
<1> QED
  BY <1>4, <1>6 DEF q, w

(* AttachTimer puts o, and nobody else, into the lists, and keeps them     *)
(* apart and in order.                                                     *)
LEMMA AttachSorts ==
    ASSUME TimerTypeOK, ListsApart, OrderInv, back' = back,
           NEW o \in TimerObjects, NEW t \in Timeouts, AttachTimer(o, t)
    PROVE  /\ lists' \in [Timeouts -> Seq(TimerObjects)]
           /\ left' \in [TimerObjects -> Lefts]
           /\ ListsApart'
           /\ OrderInv'
           /\ Attached' = Attached \cup {o}
<1> DEFINE w(u) == Without(lists[u], o)
<1>1. /\ lists' = [u \in Timeouts |-> IF u = t THEN Append(w(u), o) ELSE w(u)]
      /\ left' = [left EXCEPT ![o] = t]
  BY DEF AttachTimer
<1>2. t \in Nat /\ back \in Nat /\ t \in Lefts
  BY TimerAssumption DEF TimerTypeOK, Lefts, Floor
<1>3. left' \in [TimerObjects -> Lefts] /\ left'[o] = t
  BY <1>1, <1>2 DEF TimerTypeOK
<1>4. left' \in [TimerObjects -> Int]
  BY <1>3 DEF Lefts
<1>5. \A p \in TimerObjects \ {o} : left'[p] = left[p]
  BY <1>1 DEF TimerTypeOK
<1>6. ASSUME NEW u \in Timeouts
      PROVE  /\ w(u) \in Seq(TimerObjects)
             /\ Injective(w(u))
             /\ In(w(u)) = In(lists[u]) \ {o}
             /\ \A n \in DOMAIN w(u) :
                   /\ left'[w(u)[n]] <= u + back
                   /\ \A m \in 1..(n - 1) : left'[w(u)[n]] + back >= left'[w(u)[m]]
  BY <1>4, <1>5, OthersStay
<1> HIDE DEF w
<1>7. \A u \in Timeouts \ {t} : lists'[u] = w(u)
  BY <1>1
<1>8. /\ lists'[t] \in Seq(TimerObjects)
      /\ Len(lists'[t]) = Len(w(t)) + 1
      /\ \A n \in 1..Len(w(t)) : lists'[t][n] = w(t)[n]
      /\ lists'[t][Len(w(t)) + 1] = o
  <2>1. lists'[t] = Append(w(t), o)
    BY <1>1
  <2> QED
    BY <1>6, <2>1, AppendProperties
<1>9. /\ Len(w(t)) \in Nat /\ DOMAIN w(t) = 1..Len(w(t))
      /\ DOMAIN lists'[t] = 1..(Len(w(t)) + 1)
  BY <1>6, <1>8
<1>10. lists' \in [Timeouts -> Seq(TimerObjects)]
  <2>1. \A u \in Timeouts : lists'[u] \in Seq(TimerObjects)
    BY <1>6, <1>7, <1>8
  <2> QED
    BY <1>1, <2>1
<1>11. In(lists'[t]) = In(lists[t]) \cup {o}
  <2>1. In(lists'[t]) = In(w(t)) \cup {o}
    BY <1>8, <1>9 DEF In
  <2> QED
    BY <1>6, <2>1
<1>12. \A u \in Timeouts \ {t} : In(lists'[u]) = In(lists[u]) \ {o}
  BY <1>6, <1>7
<1>13. Injective(lists'[t])
  <2>1. o \notin In(w(t))
    BY <1>6
  <2>2. \A n \in 1..Len(w(t)) : w(t)[n] # o
    BY <1>9, <2>1 DEF In
  <2>3. \A m, n \in 1..Len(w(t)) : w(t)[m] = w(t)[n] => m = n
    BY <1>6, <1>9 DEF Injective
  <2> QED
    BY <1>8, <1>9, <2>2, <2>3 DEF Injective
<1>14. ListsApart'
  <2>1. \A u \in Timeouts : Injective(lists'[u])
    BY <1>6, <1>7, <1>13
  <2>2. \A u, v \in Timeouts : u # v => In(lists'[u]) \cap In(lists'[v]) = {}
    BY <1>11, <1>12 DEF ListsApart
  <2> QED
    BY <2>1, <2>2 DEF ListsApart
<1>15. OrderInv'
  <2>1. ASSUME NEW u \in Timeouts, NEW n \in DOMAIN lists'[u]
        PROVE  /\ left'[lists'[u][n]] <= u + back
               /\ \A m \in 1..(n - 1) : left'[lists'[u][n]] + back >= left'[lists'[u][m]]
    <3>1. CASE u # t
      BY <1>6, <1>7, <3>1
    <3>2. CASE u = t /\ n \in 1..Len(w(t))
      <4>1. \A m \in 1..(n - 1) : m \in 1..Len(w(t))
        BY <1>9, <3>2
      <4> QED
        BY <1>6, <1>8, <1>9, <3>2, <4>1
    <3>3. CASE u = t /\ n = Len(w(t)) + 1
      <4>1. left'[lists'[u][n]] = t
        BY <1>3, <1>8, <3>3
      <4>2. ASSUME NEW m \in 1..(n - 1)
            PROVE  t + back >= left'[lists'[u][m]]
        <5>1. m \in 1..Len(w(t))
          BY <1>9, <3>3
        <5>2. left'[w(t)[m]] <= t + back /\ w(t)[m] \in TimerObjects
          BY <1>6, <1>9, <5>1
        <5>3. left'[w(t)[m]] \in Int
          BY <1>4, <5>2
        <5> QED
          BY <1>2, <1>8, <3>3, <5>1, <5>2, <5>3
      <4> QED
        BY <1>2, <3>3, <4>1, <4>2
    <3> QED
      BY <1>9, <3>1, <3>2, <3>3
  <2> QED
    BY <2>1 DEF OrderInv
<1>16. Attached' = Attached \cup {o}
  BY <1>11, <1>12 DEF Attached
<1> QED
  BY <1>3, <1>10, <1>14, <1>15, <1>16

(* DetachTimer takes o, and nobody else, out of the lists, and keeps them  *)
(* apart and in order.                                                     *)
LEMMA DetachKeeps ==
    ASSUME TimerTypeOK, ListsApart, OrderInv, back' = back,
           NEW o \in TimerObjects, DetachTimer(o)
    PROVE  /\ lists' \in [Timeouts -> Seq(TimerObjects)]
           /\ left' \in [TimerObjects -> Lefts]
           /\ ListsApart'
           /\ OrderInv'
           /\ Attached' = Attached \ {o}
<1> DEFINE w(u) == Without(lists[u], o)
<1>1. /\ lists' = [u \in Timeouts |-> w(u)]
      /\ left' = [left EXCEPT ![o] = 0]
  BY DEF DetachTimer
<1>2. 0 \in Lefts
  BY TimerAssumption DEF Lefts, Floor
<1>3. left' \in [TimerObjects -> Lefts]
  BY <1>1, <1>2 DEF TimerTypeOK
<1>4. left' \in [TimerObjects -> Int]
  BY <1>3 DEF Lefts
<1>5. \A p \in TimerObjects \ {o} : left'[p] = left[p]
  BY <1>1 DEF TimerTypeOK
<1>6. ASSUME NEW u \in Timeouts
      PROVE  /\ w(u) \in Seq(TimerObjects)
             /\ Injective(w(u))
             /\ In(w(u)) = In(lists[u]) \ {o}
             /\ \A n \in DOMAIN w(u) :
                   /\ left'[w(u)[n]] <= u + back
                   /\ \A m \in 1..(n - 1) : left'[w(u)[n]] + back >= left'[w(u)[m]]
  BY <1>4, <1>5, OthersStay
<1> HIDE DEF w
<1>7. \A u \in Timeouts : lists'[u] = w(u)
  BY <1>1
<1>8. lists' \in [Timeouts -> Seq(TimerObjects)]
  BY <1>1, <1>6
<1>9. ListsApart'
  BY <1>6, <1>7 DEF ListsApart
<1>10. OrderInv'
  BY <1>6, <1>7 DEF OrderInv
<1>11. Attached' = Attached \ {o}
  BY <1>6, <1>7 DEF Attached
<1> QED
  BY <1>3, <1>8, <1>9, <1>10, <1>11

(* When time passes, or the clock is set back and `back' says so, the      *)
(* lists stay in order.                                                    *)
LEMMA OlderKeeps ==
    ASSUME TimerTypeOK, OrderInv, NEW d \in Int, Older(d),
           UNCHANGED lists, back' \in Nat, back <= back' + d, back <= back'
    PROVE  /\ left' \in [TimerObjects -> Lefts]
           /\ \A o \in Attached : left'[o] >= left[o] - d
           /\ OrderInv'
<1>1. Floor \in Int /\ Floor <= 0 /\ back \in Nat
  BY TimerAssumption DEF Floor, TimerTypeOK
<1>2. \A o \in TimerObjects : left[o] \in Int /\ left[o] >= Floor
  BY DEF TimerTypeOK, Lefts
<1>3. left' = [o \in TimerObjects |->
                  IF o \in Attached THEN AtLeast(left[o] - d, Floor) ELSE 0]
  BY DEF Older
<1>4. \A o \in TimerObjects :
         /\ left'[o] \in Int /\ left'[o] >= Floor
         /\ o \in Attached => left'[o] = AtLeast(left[o] - d, Floor)
  BY <1>1, <1>2, <1>3 DEF AtLeast
<1>5. left' \in [TimerObjects -> Lefts]
  <2>1. \A o \in TimerObjects : left'[o] \in Lefts
    BY <1>4 DEF Lefts
  <2> QED
    BY <1>3, <2>1
<1>6. \A t \in Timeouts : \A n \in DOMAIN lists[t] :
         lists[t][n] \in TimerObjects /\ lists[t][n] \in Attached
  BY DEF TimerTypeOK, Attached, In
<1>7. Attached \subseteq TimerObjects
  BY DEF TimerTypeOK, Attached, In
<1>8. \A o \in Attached : left'[o] >= left[o] - d
  BY <1>1, <1>2, <1>4, <1>7 DEF AtLeast
<1>9. ASSUME NEW t \in Timeouts, NEW n \in DOMAIN lists[t]
      PROVE  /\ left'[lists[t][n]] <= t + back'
             /\ \A m \in 1..(n - 1) : left'[lists[t][n]] + back' >= left'[lists[t][m]]
  <2> DEFINE o == lists[t][n]
  <2>1. t \in Nat
    BY TimerAssumption
  <2>2. /\ left[o] \in Int /\ left[o] <= t + back
        /\ left'[o] = AtLeast(left[o] - d, Floor)
    BY <1>2, <1>4, <1>6 DEF OrderInv
  <2>3. left'[o] <= t + back'
    BY <1>1, <2>1, <2>2 DEF AtLeast
  <2>4. ASSUME NEW m \in 1..(n - 1)
        PROVE  left'[o] + back' >= left'[lists[t][m]]
    <3> DEFINE p == lists[t][m]
    <3>1. m \in DOMAIN lists[t]
      BY DEF TimerTypeOK
    <3>2. left[p] \in Int /\ left'[p] = AtLeast(left[p] - d, Floor)
      BY <1>2, <1>4, <1>6, <3>1
    <3>3. left[o] + back >= left[p]
      BY DEF OrderInv
    <3> HIDE DEF o, p
    <3>4. left'[o] + back' >= left'[p]
      BY <1>1, <2>2, <3>2, <3>3 DEF AtLeast
    <3> QED
      BY <3>4 DEF o, p
  <2> QED
    BY <2>3, <2>4
<1>10. OrderInv'
  BY <1>9 DEF OrderInv
<1> QED
  BY <1>5, <1>8, <1>10

(* The timeout given to epoll_wait is in its range, and no head expires    *)
(* before it.                                                              *)
LEMMA ExpireBound ==
    ASSUME lists \in [Timeouts -> Seq(TimerObjects)], left \in [TimerObjects -> Lefts]
    PROVE  /\ ExpireMicroSeconds \in 0..MaxWait
           /\ \A o \in Heads : ExpireMicroSeconds <= AtLeast(left[o], 0)
<1> DEFINE Bound(n) == n = MaxWait \/ \E o \in Heads : AtLeast(left[o], 0) = n
           T == {n \in 0..MaxWait : Bound(n)}
<1>1. MaxWait \in Nat
  BY TimerAssumption
<1>2. \A o \in Heads : AtLeast(left[o], 0) \in Nat
  <2>1. Heads \subseteq TimerObjects
    BY DEF Heads
  <2>2. \A o \in TimerObjects : left[o] \in Int
    BY DEF Lefts
  <2> QED
    BY <2>1, <2>2 DEF AtLeast
<1>3. T \in SUBSET Nat /\ MaxWait \in T
  BY <1>1
<1>4. PICK n \in T : \A m \in T : n <= m
  <2>1. T # {}
    BY <1>3
  <2> QED
    BY <1>3, <2>1, Least
<1>5. ASSUME NEW o \in Heads
      PROVE  n <= AtLeast(left[o], 0)
  <2>1. AtLeast(left[o], 0) \in Nat /\ n \in 0..MaxWait
    BY <1>2
  <2>2. CASE AtLeast(left[o], 0) <= MaxWait
    BY <1>1, <1>4, <2>1, <2>2
  <2>3. CASE ~(AtLeast(left[o], 0) <= MaxWait)
    BY <1>1, <2>1, <2>3
  <2> QED
    BY <2>2, <2>3
<1>6. \E x \in 0..MaxWait : Bound(x) /\ \A o \in Heads : x <= AtLeast(left[o], 0)
  BY <1>5
<1> QED
  BY <1>6 DEF ExpireMicroSeconds

-----------------------------------------------------------------------------
(* The timers, step by step.  A step that leaves them alone: *)
LEMMA TimersRest ==
    ASSUME TimerInv, UNCHANGED <<timerVars, units, idle>>,
           pc' = "wait" => pc = "wait"
    PROVE  TimerInv'
<1>1. UNCHANGED <<lists, left, lag, patience, back, ahead, settings, setBack, units, idle>>
  BY DEF timerVars, clockVars
<1>2. Attached' = Attached /\ Heads' = Heads
  BY <1>1 DEF Attached, Heads, In
<1> QED
  BY <1>1, <1>2 DEF TimerInv, TimerTypeOK, ListsApart, OrderInv, HeadInv, IdleInv

(* An event's or a new unit's AttachTimer, and that of CRealTimer.         *)
LEMMA TimersAttach ==
    ASSUME TimerInv, UNCHANGED clockVars, pc' # "wait",
           NEW o \in TimerObjects, NEW t \in Timeouts, AttachTimer(o, t),
           \/ /\ o \in Fds /\ t = WebTimeout
              /\ units' = units \cup {o} /\ idle' = Fresh({o})
           \/ o = RealTimer /\ UNCHANGED <<units, idle>>
    PROVE  TimerInv'
<1> UNCHANGED <<lag, patience, back, ahead, settings, setBack>>
  BY DEF clockVars
<1>1. /\ lists' \in [Timeouts -> Seq(TimerObjects)]
      /\ left' \in [TimerObjects -> Lefts]
      /\ ListsApart'
      /\ OrderInv'
      /\ Attached' = Attached \cup {o}
  BY AttachSorts DEF TimerInv
<1>2. TimerTypeOK'
  BY <1>1 DEF TimerInv, TimerTypeOK
<1>3. idle' \in [Fds -> 0..WebTimeout]
  BY ListenerAssumption, TimerAssumption DEF TimerInv, Fresh
<1>4. Attached' = units' \cup {RealTimer}
  BY <1>1 DEF TimerInv
<1>5. HeadInv'
  BY DEF HeadInv
<1>6. IdleInv'
  <2> SUFFICES ASSUME NEW c \in units', idle'[c] < WebTimeout
               PROVE  /\ left'[c] >= WebTimeout - idle'[c]
                      /\ setBack < WebTimeout => left'[c] + lag > 0
    BY DEF IdleInv
  <2>1. left' = [left EXCEPT ![o] = t]
    BY DEF AttachTimer
  <2>2. lag \in Int /\ setBack \in Int /\ -setBack <= lag
    BY TimerAssumption DEF TimerInv, TimerTypeOK
  <2>3. WebTimeout \in Nat
    BY TimerAssumption, ListenerAssumption
  <2>4. CASE c = o /\ c \in Fds /\ t = WebTimeout /\ idle' = Fresh({o})
    <3>1. left'[c] = WebTimeout /\ idle'[c] = 0
      BY <2>1, <2>4 DEF TimerInv, TimerTypeOK, Fresh
    <3> QED
      BY <2>2, <2>3, <3>1
  <2>5. CASE c # o
    <3>1. c \in units /\ idle'[c] = idle[c]
      BY <2>5 DEF TimerInv, Fresh
    <3>2. left'[c] = left[c]
      BY <2>1, <2>5, <3>1 DEF TimerInv, TimerTypeOK
    <3> QED
      BY <3>1, <3>2 DEF TimerInv, IdleInv
  <2> QED
    BY <2>4, <2>5, ServerAssumption DEF TimerInv
<1> QED
  BY <1>1, <1>2, <1>3, <1>4, <1>5, <1>6 DEF TimerInv

(* The end of a connection: DetachTimer.                                   *)
LEMMA TimersDetach ==
    ASSUME TimerInv, UNCHANGED clockVars, pc' # "wait",
           NEW c \in Fds, Complete(c), idle' = Fresh({c})
    PROVE  TimerInv'
<1> UNCHANGED <<lag, patience, back, ahead, settings, setBack>>
  BY DEF clockVars
<1>1. DetachTimer(c) /\ units' = units \ {c}
  BY DEF Complete
<1>2. c \in TimerObjects
  BY ListenerAssumption
<1>3. /\ lists' \in [Timeouts -> Seq(TimerObjects)]
      /\ left' \in [TimerObjects -> Lefts]
      /\ ListsApart'
      /\ OrderInv'
      /\ Attached' = Attached \ {c}
  BY <1>1, <1>2, DetachKeeps DEF TimerInv
<1>4. TimerTypeOK'
  BY <1>3 DEF TimerInv, TimerTypeOK
<1>5. Attached' = units' \cup {RealTimer}
  BY <1>1, <1>3, ServerAssumption DEF TimerInv
<1>6. HeadInv'
  BY DEF HeadInv
<1>7. IdleInv'
  <2>1. \A p \in units' : p \in units /\ left'[p] = left[p] /\ idle'[p] = idle[p]
    BY <1>1 DEF DetachTimer, TimerInv, TimerTypeOK, Fresh
  <2> QED
    BY <2>1 DEF TimerInv, IdleInv
<1>8. idle' \in [Fds -> 0..WebTimeout]
  BY ListenerAssumption, TimerAssumption DEF TimerInv, Fresh
<1> QED
  BY <1>1, <1>3, <1>4, <1>5, <1>6, <1>7, <1>8 DEF TimerInv

(* A unit's idle time grows by d, up to WebTimeout.                        *)
LEMMA AgedUnits ==
    ASSUME TimerInv, NEW d \in Nat, idle' = Aged(d)
    PROVE  /\ idle' \in [Fds -> 0..WebTimeout]
           /\ \A c \in units : idle'[c] < WebTimeout =>
                 idle[c] < WebTimeout /\ idle'[c] = idle[c] + d
<1>1. WebTimeout \in Nat
  BY TimerAssumption, ListenerAssumption
<1>2. \A c \in Fds : idle[c] \in 0..WebTimeout
  BY DEF TimerInv
<1>3. \A c \in Fds : idle'[c] = IF c \in units THEN AtMost(idle[c] + d, WebTimeout) ELSE idle[c]
  BY DEF Aged
<1>4. \A c \in Fds : idle'[c] \in 0..WebTimeout
  BY <1>1, <1>2, <1>3 DEF AtMost
<1>5. idle' \in [Fds -> 0..WebTimeout]
  BY <1>4 DEF Aged
<1>6. \A c \in units : idle'[c] = AtMost(idle[c] + d, WebTimeout) /\ idle[c] \in 0..WebTimeout
  BY <1>2, <1>3 DEF TimerInv
<1>7. \A c \in units : idle'[c] < WebTimeout =>
         idle[c] < WebTimeout /\ idle'[c] = idle[c] + d
  BY <1>1, <1>6 DEF AtMost
<1> QED
  BY <1>5, <1>7

(* The timers, the clock's readings and the history of its settings are    *)
(* integers.                                                               *)
LEMMA TimerTypes ==
    ASSUME TimerInv
    PROVE  /\ MaxLag \in Nat \ {0} /\ MaxWait \in Nat /\ MaxBack \in Nat /\ MaxAhead \in Nat
           /\ WebTimeout \in Nat
           /\ lag \in Int /\ patience \in 0..MaxWait
           /\ back \in 0..MaxBack /\ ahead \in 0..MaxAhead /\ setBack \in 0..back
           /\ settings \in Nat
           /\ Attached \subseteq TimerObjects /\ Heads \subseteq Attached
           /\ units \subseteq Attached
           /\ \A o \in TimerObjects : left[o] \in Int
<1>1. /\ lag \in (-MaxBack)..(MaxLag + MaxAhead) /\ patience \in 0..MaxWait
      /\ back \in 0..MaxBack /\ ahead \in 0..MaxAhead /\ setBack \in 0..back
      /\ settings \in Nat
  BY DEF TimerInv, TimerTypeOK
<1>2. /\ MaxLag \in Nat \ {0} /\ MaxWait \in Nat /\ MaxBack \in Nat /\ MaxAhead \in Nat
      /\ WebTimeout \in Nat
  BY TimerAssumption, ListenerAssumption
<1>3. Attached \subseteq TimerObjects /\ Heads \subseteq Attached
  BY DEF Attached, Heads, In, TimerInv, TimerTypeOK
<1>4. \A o \in TimerObjects : left[o] \in Int
  BY DEF TimerInv, TimerTypeOK, Lefts
<1> QED
  BY <1>1, <1>2, <1>3, <1>4 DEF TimerInv

(* Time passes: no timer loses more than the patience of epoll_wait, or the*)
(* lag of this round, accounts for.                                        *)
LEMMA TimersTick ==
    ASSUME TimerInv, Tick
    PROVE  TimerInv'
<1>1. /\ Older(1) /\ idle' = Aged(1)
      /\ UNCHANGED <<lists, back, ahead, settings, setBack, units, pc>>
  BY DEF Tick, listenerVars
<1>2. \/ pc = "wait" /\ patience > 0 /\ patience' = patience - 1 /\ lag' = lag
      \/ pc # "wait" /\ lag < MaxLag /\ lag' = lag + 1 /\ patience' = patience
  BY DEF Tick
<1>3. /\ MaxLag \in Nat \ {0} /\ MaxWait \in Nat /\ MaxBack \in Nat /\ MaxAhead \in Nat
      /\ WebTimeout \in Nat
      /\ lag \in Int /\ patience \in 0..MaxWait
      /\ back \in 0..MaxBack /\ ahead \in 0..MaxAhead /\ setBack \in 0..back
      /\ settings \in Nat
      /\ Attached \subseteq TimerObjects /\ Heads \subseteq Attached
      /\ units \subseteq Attached
      /\ \A o \in TimerObjects : left[o] \in Int
  BY TimerTypes
<1>4. /\ left' \in [TimerObjects -> Lefts]
      /\ \A o \in Attached : left'[o] >= left[o] - 1
      /\ OrderInv'
  BY <1>1, <1>3, OlderKeeps DEF TimerInv
<1>5. (pc' = "wait" => lag' = 0) /\ -setBack' <= lag' /\ lag' <= MaxLag + ahead'
  BY <1>1, <1>2, <1>3 DEF TimerInv
<1>6. TimerTypeOK'
  <2>1. lag' \in (-MaxBack)..(MaxLag + MaxAhead)
    BY <1>1, <1>2, <1>3, <1>5
  <2> QED
    BY <1>1, <1>2, <1>3, <1>4, <2>1 DEF TimerInv, TimerTypeOK
<1>7. Attached' = Attached /\ Heads' = Heads /\ ListsApart'
  <2>1. Attached' = Attached /\ Heads' = Heads
    BY <1>1 DEF Attached, Heads, In
  <2>2. ListsApart'
    BY <1>1 DEF TimerInv, ListsApart
  <2> QED
    BY <2>1, <2>2
<1>8. \A o \in Attached : left[o] \in Int /\ left'[o] \in Int
  BY <1>3, <1>4 DEF Lefts
<1>9. HeadInv'
  <2> SUFFICES ASSUME pc' = "wait", NEW o \in Heads
               PROVE  left'[o] + ahead >= patience'
    BY <1>1, <1>7 DEF HeadInv
  <2>1. patience > 0 /\ patience' = patience - 1
    BY <1>1, <1>2
  <2>2. left[o] + ahead >= patience
    BY <1>1, <2>1 DEF TimerInv, HeadInv
  <2>3. left[o] \in Int /\ left'[o] \in Int /\ left'[o] >= left[o] - 1
    BY <1>3, <1>4, <1>8
  <2> QED
    BY <1>3, <2>1, <2>2, <2>3
<1>10. IdleInv'
  <2> SUFFICES ASSUME NEW c \in units, idle'[c] < WebTimeout
               PROVE  /\ left'[c] >= WebTimeout - idle'[c]
                      /\ setBack < WebTimeout => left'[c] + lag' > 0
    BY <1>1 DEF IdleInv
  <2>1. idle'[c] = idle[c] + 1 /\ idle[c] < WebTimeout /\ idle[c] \in 0..WebTimeout
    BY <1>1, AgedUnits DEF TimerInv
  <2>2. /\ left[c] >= WebTimeout - idle[c]
        /\ setBack < WebTimeout => left[c] + lag > 0
    BY <2>1 DEF TimerInv, IdleInv
  <2>3. left'[c] >= left[c] - 1 /\ left[c] \in Int /\ left'[c] \in Int
    BY <1>3, <1>4, <1>8
  <2>4. left'[c] >= WebTimeout - idle'[c]
    BY <1>3, <2>1, <2>2, <2>3
  <2>5. ASSUME setBack < WebTimeout
        PROVE  left'[c] + lag' > 0
    <3>1. CASE pc = "wait" /\ lag' = lag
      BY <1>3, <2>1, <2>3, <2>4, <3>1 DEF TimerInv
    <3>2. CASE lag' = lag + 1
      BY <1>3, <2>2, <2>3, <2>5, <3>2
    <3> QED
      BY <1>2, <3>1, <3>2
  <2> QED
    BY <2>4, <2>5
<1>11. idle' \in [Fds -> 0..WebTimeout]
  BY <1>1, AgedUnits
<1> QED
  BY <1>1, <1>4, <1>5, <1>6, <1>7, <1>9, <1>10, <1>11 DEF TimerInv

(* The clock is set back: the timers gain what the now of the round loses. *)
LEMMA TimersSetBack ==
    ASSUME TimerInv, NEW d \in Nat, ClockSetBack(d)
    PROVE  TimerInv'
<1>1. /\ Older(-d) /\ d \in 1..(MaxBack - back) /\ back' = back + d
      /\ settings' = settings + 1
      /\ UNCHANGED <<lists, patience, ahead, units, pc, idle>>
  BY DEF ClockSetBack, StepBack, listenerVars
<1>2. \/ pc = "wait" /\ lag' = lag /\ setBack' = setBack
      \/ pc # "wait" /\ lag' = lag - d /\ setBack' = setBack + d
  BY DEF ClockSetBack
<1>3. /\ MaxLag \in Nat \ {0} /\ MaxWait \in Nat /\ MaxBack \in Nat /\ MaxAhead \in Nat
      /\ WebTimeout \in Nat
      /\ lag \in Int /\ patience \in 0..MaxWait
      /\ back \in 0..MaxBack /\ ahead \in 0..MaxAhead /\ setBack \in 0..back
      /\ settings \in Nat
      /\ Attached \subseteq TimerObjects /\ Heads \subseteq Attached
      /\ units \subseteq Attached
      /\ \A o \in TimerObjects : left[o] \in Int
  BY TimerTypes
<1>4. /\ left' \in [TimerObjects -> Lefts]
      /\ \A o \in Attached : left'[o] >= left[o] - (-d)
      /\ OrderInv'
  <2>1. -d \in Int /\ back' \in Nat /\ back <= back' + (-d) /\ back <= back'
    BY <1>1, <1>3
  <2> QED
    BY <1>1, <2>1, OlderKeeps DEF TimerInv
<1>5. /\ pc' = "wait" => lag' = 0
      /\ -setBack' <= lag' /\ lag' <= MaxLag + ahead'
      /\ back' \in 0..MaxBack /\ setBack' \in 0..back'
  BY <1>1, <1>2, <1>3 DEF TimerInv
<1>6. TimerTypeOK'
  <2>1. lag' \in (-MaxBack)..(MaxLag + MaxAhead)
    BY <1>1, <1>2, <1>3, <1>5
  <2> QED
    BY <1>1, <1>3, <1>4, <1>5, <2>1 DEF TimerInv, TimerTypeOK
<1>7. Attached' = Attached /\ Heads' = Heads /\ ListsApart'
  <2>1. Attached' = Attached /\ Heads' = Heads
    BY <1>1 DEF Attached, Heads, In
  <2>2. ListsApart'
    BY <1>1 DEF TimerInv, ListsApart
  <2> QED
    BY <2>1, <2>2
<1>8. \A o \in Attached : left[o] \in Int /\ left'[o] \in Int /\ left'[o] >= left[o] + d
  BY <1>3, <1>4 DEF Lefts
<1>9. HeadInv'
  <2> SUFFICES ASSUME pc = "wait", NEW o \in Heads
               PROVE  \/ left'[o] + ahead >= patience
                      \/ patience = 0 /\ left'[o] + ahead > -MaxLag
    BY <1>1, <1>7 DEF HeadInv
  <2>1. \/ left[o] + ahead >= patience
        \/ patience = 0 /\ left[o] + ahead > -MaxLag
    BY DEF TimerInv, HeadInv
  <2>2. left[o] \in Int /\ left'[o] \in Int /\ left'[o] >= left[o] + d
    BY <1>3, <1>8
  <2> QED
    BY <1>3, <2>1, <2>2
<1>10. IdleInv'
  <2> SUFFICES ASSUME NEW c \in units, idle[c] < WebTimeout
               PROVE  /\ left'[c] >= WebTimeout - idle[c]
                      /\ setBack' < WebTimeout => left'[c] + lag' > 0
    BY <1>1 DEF IdleInv
  <2>1. /\ left[c] >= WebTimeout - idle[c] /\ idle[c] \in 0..WebTimeout
        /\ setBack < WebTimeout => left[c] + lag > 0
    BY DEF TimerInv, IdleInv
  <2>2. left[c] \in Int /\ left'[c] \in Int /\ left'[c] >= left[c] + d
    BY <1>3, <1>8
  <2> QED
    BY <1>1, <1>2, <1>3, <2>1, <2>2
<1> QED
  BY <1>1, <1>4, <1>5, <1>6, <1>7, <1>9, <1>10 DEF TimerInv

(* The clock is set forward: the timers lose what `ahead' gains, and so    *)
(* does the now of the round.                                              *)
LEMMA TimersSetForward ==
    ASSUME TimerInv, NEW d \in Nat, ClockSetForward(d)
    PROVE  TimerInv'
<1>1. /\ Older(d) /\ d \in 1..(MaxAhead - ahead) /\ ahead' = ahead + d
      /\ settings' = settings + 1
      /\ idle' = Aged(d)
      /\ UNCHANGED <<lists, patience, back, setBack, units, pc>>
  BY DEF ClockSetForward, StepForward, listenerVars
<1>2. \/ pc = "wait" /\ lag' = lag
      \/ pc # "wait" /\ lag' = lag + d
  BY DEF ClockSetForward
<1>3. /\ MaxLag \in Nat \ {0} /\ MaxWait \in Nat /\ MaxBack \in Nat /\ MaxAhead \in Nat
      /\ WebTimeout \in Nat
      /\ lag \in Int /\ patience \in 0..MaxWait
      /\ back \in 0..MaxBack /\ ahead \in 0..MaxAhead /\ setBack \in 0..back
      /\ settings \in Nat
      /\ Attached \subseteq TimerObjects /\ Heads \subseteq Attached
      /\ units \subseteq Attached
      /\ \A o \in TimerObjects : left[o] \in Int
  BY TimerTypes
<1>4. /\ left' \in [TimerObjects -> Lefts]
      /\ \A o \in Attached : left'[o] >= left[o] - d
      /\ OrderInv'
  <2>1. d \in Int /\ back' \in Nat /\ back <= back' + d /\ back <= back'
    BY <1>1, <1>3
  <2> QED
    BY <1>1, <2>1, OlderKeeps DEF TimerInv
<1>5. /\ pc' = "wait" => lag' = 0
      /\ -setBack' <= lag' /\ lag' <= MaxLag + ahead'
      /\ ahead' \in 0..MaxAhead
  BY <1>1, <1>2, <1>3 DEF TimerInv
<1>6. TimerTypeOK'
  <2>1. lag' \in (-MaxBack)..(MaxLag + MaxAhead)
    BY <1>1, <1>2, <1>3, <1>5
  <2> QED
    BY <1>1, <1>3, <1>4, <1>5, <2>1 DEF TimerInv, TimerTypeOK
<1>7. Attached' = Attached /\ Heads' = Heads /\ ListsApart'
  <2>1. Attached' = Attached /\ Heads' = Heads
    BY <1>1 DEF Attached, Heads, In
  <2>2. ListsApart'
    BY <1>1 DEF TimerInv, ListsApart
  <2> QED
    BY <2>1, <2>2
<1>8. \A o \in Attached : left[o] \in Int /\ left'[o] \in Int /\ left'[o] >= left[o] - d
  BY <1>3, <1>4 DEF Lefts
<1>9. HeadInv'
  <2> SUFFICES ASSUME pc = "wait", NEW o \in Heads
               PROVE  \/ left'[o] + ahead' >= patience
                      \/ patience = 0 /\ left'[o] + ahead' > -MaxLag
    BY <1>1, <1>7 DEF HeadInv
  <2>1. \/ left[o] + ahead >= patience
        \/ patience = 0 /\ left[o] + ahead > -MaxLag
    BY DEF TimerInv, HeadInv
  <2>2. left[o] \in Int /\ left'[o] \in Int /\ left'[o] >= left[o] - d
    BY <1>3, <1>8
  <2> QED
    BY <1>1, <1>3, <2>1, <2>2
<1>10. IdleInv'
  <2> SUFFICES ASSUME NEW c \in units, idle'[c] < WebTimeout
               PROVE  /\ left'[c] >= WebTimeout - idle'[c]
                      /\ setBack < WebTimeout => left'[c] + lag' > 0
    BY <1>1 DEF IdleInv
  <2>1. idle'[c] = idle[c] + d /\ idle[c] < WebTimeout /\ idle[c] \in 0..WebTimeout
    BY <1>1, AgedUnits DEF TimerInv
  <2>2. /\ left[c] >= WebTimeout - idle[c]
        /\ setBack < WebTimeout => left[c] + lag > 0
    BY <2>1 DEF TimerInv, IdleInv
  <2>3. left'[c] >= left[c] - d /\ left[c] \in Int /\ left'[c] \in Int
    BY <1>3, <1>8
  <2>4. left'[c] >= WebTimeout - idle'[c]
    BY <1>3, <2>1, <2>2, <2>3
  <2>5. ASSUME setBack < WebTimeout
        PROVE  left'[c] + lag' > 0
    <3>1. CASE pc = "wait" /\ lag' = lag
      BY <1>3, <2>1, <2>3, <2>4, <3>1 DEF TimerInv
    <3>2. CASE lag' = lag + d
      BY <1>3, <2>2, <2>3, <2>5, <3>2
    <3> QED
      BY <1>2, <3>1, <3>2
  <2> QED
    BY <2>4, <2>5
<1>11. idle' \in [Fds -> 0..WebTimeout]
  BY <1>1, AgedUnits
<1> QED
  BY <1>1, <1>4, <1>5, <1>6, <1>7, <1>9, <1>10, <1>11 DEF TimerInv

(* Where the round's now is the clock, what a unit's timer has left is     *)
(* positive while the unit has not been idle for WebTimeout.               *)
LEMMA NewRoundIdle ==
    ASSUME TimerInv, UNCHANGED <<left, units, idle>>, lag' = 0
    PROVE  IdleInv'
<1> SUFFICES ASSUME NEW c \in units, idle[c] < WebTimeout
             PROVE  left[c] >= WebTimeout - idle[c] /\ left[c] + 0 > 0
  BY DEF IdleInv
<1>1. left[c] >= WebTimeout - idle[c] /\ idle[c] \in 0..WebTimeout
  BY DEF TimerInv, IdleInv
<1>2. left[c] \in Int
  BY ListenerAssumption DEF TimerInv, TimerTypeOK, Lefts
<1>3. WebTimeout \in Nat
  BY TimerAssumption, ListenerAssumption
<1> QED
  BY <1>1, <1>2, <1>3

(* The clock is read again, after the wait.                                *)
LEMMA TimersWake ==
    ASSUME TimerInv, Wake
    PROVE  TimerInv'
<1>1. /\ lag' = 0 /\ setBack' = 0 /\ pc = "wait" /\ pc' = "batch"
      /\ UNCHANGED <<lists, left, patience, back, ahead, settings, units, idle>>
  BY DEF Wake, listenerVars
<1>2. Attached' = Attached
  BY <1>1 DEF Attached, In
<1>3. TimerTypeOK' /\ lag' <= MaxLag + ahead'
  BY <1>1, TimerAssumption DEF TimerInv, TimerTypeOK
<1>4. IdleInv'
  BY <1>1, NewRoundIdle
<1>5. ListsApart' /\ OrderInv' /\ HeadInv'
  BY <1>1 DEF TimerInv, ListsApart, OrderInv, HeadInv
<1> QED
  BY <1>1, <1>2, <1>3, <1>4, <1>5 DEF TimerInv

(* A round ends when no head has expired by its now, which is at most      *)
(* MaxLag + ahead old; then epoll_wait is given the time to the first one. *)
LEMMA TimersNextRound ==
    ASSUME TimerInv, NextRound
    PROVE  TimerInv'
<1>1. /\ NothingExpired /\ lag' = 0 /\ setBack' = 0 /\ patience' = ExpireMicroSeconds
      /\ UNCHANGED <<lists, left, back, ahead, settings, units, idle>>
  BY DEF NextRound, listenerVars
<1>2. /\ ExpireMicroSeconds \in 0..MaxWait
      /\ \A o \in Heads : ExpireMicroSeconds <= AtLeast(left[o], 0)
  BY ExpireBound DEF TimerInv, TimerTypeOK
<1>3. /\ MaxLag \in Nat /\ MaxWait \in Nat /\ MaxBack \in Nat /\ MaxAhead \in Nat
      /\ lag \in Int /\ lag <= MaxLag + ahead /\ back \in 0..MaxBack /\ ahead \in 0..MaxAhead
  BY TimerAssumption DEF TimerInv, TimerTypeOK
<1>4. Attached' = Attached /\ Heads' = Heads
  BY <1>1 DEF Attached, Heads, In
<1>5. Attached \subseteq TimerObjects /\ Heads \subseteq Attached
  BY DEF Attached, Heads, In, TimerInv, TimerTypeOK
<1>6. \A o \in Attached : left[o] \in Int
  BY <1>5 DEF TimerInv, TimerTypeOK, Lefts
<1>7. TimerTypeOK'
  BY <1>1, <1>2, <1>3 DEF TimerInv, TimerTypeOK
<1>8. HeadInv'
  <2> SUFFICES ASSUME NEW o \in Heads
               PROVE  \/ left[o] + ahead >= ExpireMicroSeconds
                      \/ ExpireMicroSeconds = 0 /\ left[o] + ahead > -MaxLag
    BY <1>1, <1>4 DEF HeadInv
  <2> DEFINE n == ExpireMicroSeconds
  <2>1. n \in 0..MaxWait /\ n <= AtLeast(left[o], 0) /\ left[o] \in Int
    BY <1>2, <1>5, <1>6
  <2>2. left[o] + lag > 0
    BY <1>1, <1>3, <2>1 DEF NothingExpired, Expired
  <2> HIDE DEF n
  <2>3. left[o] + ahead >= n \/ (n = 0 /\ left[o] + ahead > -MaxLag)
    BY <1>3, <2>1, <2>2 DEF AtLeast
  <2> QED
    BY <2>3 DEF n
<1>9. IdleInv'
  BY <1>1, NewRoundIdle
<1>10. ListsApart' /\ OrderInv'
  BY <1>1 DEF TimerInv, ListsApart, OrderInv
<1> QED
  BY <1>1, <1>3, <1>4, <1>7, <1>8, <1>9, <1>10 DEF TimerInv

-----------------------------------------------------------------------------
(* The listener, step by step.  What is counted is finite. *)
LEMMA Finite ==
    ASSUME AcceptInv
    PROVE  /\ IsFiniteSet(Fds) /\ Cardinality(Fds) = MaxFds
           /\ IsFiniteSet(units) /\ Cardinality(units) \in Nat
           /\ IsFiniteSet(open \ units) /\ Cardinality(open \ units) \in Nat
           /\ IsFiniteSet(Entries) /\ Cardinality(Entries) \in Nat
<1>1. IsFiniteSet(Fds) /\ Cardinality(Fds) = MaxFds
  <2>1. MaxFds \in Nat
    BY ListenerAssumption
  <2>2. /\ IsFiniteSet(1..MaxFds)
        /\ Cardinality(1..MaxFds) = IF 1 > MaxFds THEN 0 ELSE MaxFds - 1 + 1
    BY <2>1, FS_Interval
  <2> QED
    BY <2>1, <2>2 DEF Fds
<1>2. IsFiniteSet(units) /\ IsFiniteSet(open \ units)
  BY <1>1, FS_Subset DEF AcceptInv, ListenerTypeOK
<1>3. IsFiniteSet(Entries)
  <2>1. served + 1 \in Int /\ Len(fd_array) \in Int
    BY DEF AcceptInv, ListenerTypeOK
  <2>2. IsFiniteSet((served + 1)..Len(fd_array))
    BY <2>1, FS_Interval
  <2>3. Entries \subseteq (served + 1)..Len(fd_array)
    BY DEF Entries
  <2> QED
    BY <2>2, <2>3, FS_Subset
<1> QED
  BY <1>1, <1>2, <1>3, FS_CardinalityType

(* A step that leaves the descriptors and the slots alone.                 *)
LEMMA AcceptRest ==
    ASSUME AcceptInv,
           UNCHANGED <<open, units, slots, usedPollers, fd_array, newfd_cnt, served,
                       interrupts, aborts>>,
           backlog' \in 0..MaxBacklog,
           batch' \subseteq units \cup {ListenFd},
           pc' \in {"wait", "batch", "accept", "request", "last", "expire", "down"},
           pc' \in {"wait", "batch", "expire"} => fd_array = <<>>,
           pc' \in {"wait", "expire"} => batch' = {},
           pc' = "accept" => served = 0,
           pc' = "down" => pc = "down"
    PROVE  AcceptInv'
<1>1. Entries' = Entries
  BY DEF Entries
<1>2. ListenerTypeOK'
  BY DEF AcceptInv, ListenerTypeOK
<1>3. EntryInv' /\ LostInv' /\ SlotsSuffice'
  BY <1>1 DEF AcceptInv, EntryInv, LostInv, SlotsSuffice
<1> QED
  BY <1>2, <1>3 DEF AcceptInv

(* What accept leaves in _fd_array. *)
LEMMA AcceptedEntry ==
    ASSUME AcceptInv, NEW f \in Fds \cup {NoFd}, Accepted(f)
    PROVE  /\ fd_array' \in Seq(Fds \cup {NoFd})
           /\ Len(fd_array) \in Nat /\ Len(fd_array') = Len(fd_array) + 1
           /\ Len(fd_array') <= AcceptCnt
           /\ \A n \in 1..Len(fd_array) : fd_array'[n] = fd_array[n]
           /\ fd_array'[Len(fd_array) + 1] = f
           /\ served = 0 /\ served' = 0
<1>1. fd_array \in Seq(Fds \cup {NoFd}) /\ Len(fd_array) \in Nat
  BY DEF AcceptInv, ListenerTypeOK
<1>2. fd_array' = Append(fd_array, f) /\ served' = served /\ Len(fd_array) < AcceptCnt
  BY DEF Accepted
<1>3. served = 0
  BY DEF AcceptInv, Accepted
<1>4. /\ Append(fd_array, f) \in Seq(Fds \cup {NoFd})
      /\ Len(Append(fd_array, f)) = Len(fd_array) + 1
      /\ \A n \in 1..Len(fd_array) : Append(fd_array, f)[n] = fd_array[n]
      /\ Append(fd_array, f)[Len(fd_array) + 1] = f
  BY <1>1, AppendProperties
<1>5. AcceptCnt \in Nat
  BY ListenerAssumption
<1> QED
  BY <1>1, <1>2, <1>3, <1>4, <1>5

(* An accept that gives no descriptor: it is counted in _newfd_cnt, or it  *)
(* was interrupted.                                                        *)
LEMMA AcceptsNone ==
    ASSUME AcceptInv, Accepted(NoFd), UNCHANGED <<open, batch>>,
           backlog' \in 0..MaxBacklog,
           interrupts' \in Nat, aborts' \in Nat, interrupts' + aborts' <= MaxFaults,
           \/ newfd_cnt' = newfd_cnt + 1 /\ interrupts' = interrupts
           \/ newfd_cnt' = newfd_cnt /\ interrupts' = interrupts + 1
    PROVE  AcceptInv'
<1>1. /\ fd_array' \in Seq(Fds \cup {NoFd})
      /\ Len(fd_array) \in Nat /\ Len(fd_array') = Len(fd_array) + 1
      /\ Len(fd_array') <= AcceptCnt
      /\ \A n \in 1..Len(fd_array) : fd_array'[n] = fd_array[n]
      /\ fd_array'[Len(fd_array) + 1] = NoFd
      /\ served = 0 /\ served' = 0
  BY AcceptedEntry
<1>2. pc = "accept" /\ UNCHANGED <<open, units, slots, usedPollers, pc, batch>>
  BY DEF Accepted
<1>3. newfd_cnt \in 0..Len(fd_array) /\ newfd_cnt' \in 0..Len(fd_array')
  BY <1>1 DEF AcceptInv, ListenerTypeOK
<1>4. Entries' = Entries /\ \A n \in Entries : fd_array'[n] = fd_array[n]
  BY <1>1 DEF Entries
<1>5. ListenerTypeOK'
  <2>1. served' \in 0..newfd_cnt'
    BY <1>1, <1>3
  <2> QED
    BY <1>1, <1>2, <1>3, <2>1 DEF AcceptInv, ListenerTypeOK
<1>6. EntryInv'
  BY <1>2, <1>4 DEF AcceptInv, EntryInv
<1>7. LostInv'
  <2> DEFINE lost == Cardinality(open \ units)
             owed == Cardinality(Entries)
  <2>1. lost \in Nat /\ owed \in Nat
    BY Finite
  <2>2. lost + (Len(fd_array) - newfd_cnt) <= interrupts + owed
    BY DEF AcceptInv, LostInv
  <2>3. /\ interrupts \in Nat /\ newfd_cnt \in Nat /\ Len(fd_array) \in Nat
        /\ Len(fd_array') = Len(fd_array) + 1
    BY <1>1, <1>3 DEF AcceptInv, ListenerTypeOK
  <2> HIDE DEF lost, owed
  <2>4. lost + (Len(fd_array') - newfd_cnt') <= interrupts' + owed
    <3>1. CASE newfd_cnt' = newfd_cnt + 1 /\ interrupts' = interrupts
      BY <2>1, <2>2, <2>3, <3>1
    <3>2. CASE newfd_cnt' = newfd_cnt /\ interrupts' = interrupts + 1
      BY <2>1, <2>2, <2>3, <3>2
    <3> QED
      BY <3>1, <3>2
  <2> QED
    BY <1>2, <1>4, <2>4 DEF LostInv, lost, owed
<1> QED
  BY <1>1, <1>2, <1>5, <1>6, <1>7 DEF AcceptInv, SlotsSuffice

(* An accept that gives a descriptor that nobody had.                      *)
LEMMA AcceptsFd ==
    ASSUME AcceptInv, AcceptOne, UNCHANGED batch
    PROVE  AcceptInv'
<1> DEFINE f == LowestFree
           n1 == Len(fd_array) + 1
<1>1. f \in Fds \ open
  <2>1. Fds \ open # {} /\ Fds \ open \in SUBSET Nat
    <3>1. Fds \subseteq Nat
      BY ListenerAssumption DEF Fds
    <3> QED
      BY <3>1 DEF AcceptOne, AcceptInv, ListenerTypeOK
  <2>2. \E x \in Fds \ open : \A g \in Fds \ open : x <= g
    BY <2>1, Least
  <2> QED
    BY <2>2 DEF LowestFree
<1>2. /\ Accepted(f) /\ open' = open \cup {f}
      /\ backlog > 0 /\ backlog' = backlog - 1
      /\ newfd_cnt' = newfd_cnt + 1
      /\ UNCHANGED <<interrupts, aborts>>
  BY DEF AcceptOne
<1> HIDE DEF f
<1>3. /\ fd_array' \in Seq(Fds \cup {NoFd})
      /\ Len(fd_array) \in Nat /\ Len(fd_array') = Len(fd_array) + 1
      /\ Len(fd_array') <= AcceptCnt
      /\ \A n \in 1..Len(fd_array) : fd_array'[n] = fd_array[n]
      /\ fd_array'[Len(fd_array) + 1] = f
      /\ served = 0 /\ served' = 0
  BY <1>1, <1>2, AcceptedEntry
<1>4. pc = "accept" /\ UNCHANGED <<units, slots, usedPollers, pc, batch>>
  BY <1>2 DEF Accepted
<1>5. f # NoFd
  BY <1>1 DEF Fds, NoFd
<1>6. /\ n1 \notin Entries
      /\ Entries' = Entries \cup {n1}
      /\ \A n \in Entries : fd_array'[n] = fd_array[n]
  BY <1>3, <1>5 DEF Entries
<1>7. ListenerTypeOK'
  <2>1. newfd_cnt' \in 0..Len(fd_array')
    BY <1>2, <1>3 DEF AcceptInv, ListenerTypeOK
  <2>2. backlog' \in 0..MaxBacklog
    BY <1>2, ListenerAssumption DEF AcceptInv, ListenerTypeOK
  <2> QED
    BY <1>1, <1>2, <1>3, <1>4, <2>1, <2>2 DEF AcceptInv, ListenerTypeOK
<1>8. f \notin units /\ f \notin open
  BY <1>1 DEF AcceptInv, EntryInv
<1>9. EntryInv'
  <2>1. \A n \in Entries' : fd_array'[n] \in open' \ units'
    BY <1>2, <1>3, <1>4, <1>6, <1>8 DEF AcceptInv, EntryInv
  <2>2. \A n \in Entries : fd_array[n] # f
    BY <1>8 DEF AcceptInv, EntryInv
  <2>3. \A m, n \in Entries' : fd_array'[m] = fd_array'[n] => m = n
    BY <1>3, <1>6, <2>2 DEF AcceptInv, EntryInv
  <2>4. units' \subseteq open'
    BY <1>2, <1>4 DEF AcceptInv, EntryInv
  <2> QED
    BY <2>1, <2>3, <2>4 DEF EntryInv
<1>10. LostInv'
  <2> DEFINE lost == Cardinality(open \ units)
             owed == Cardinality(Entries)
  <2>1. Cardinality(Entries') = owed + 1
    BY <1>6, Finite, FS_AddElement
  <2>2. Cardinality(open' \ units') = lost + 1
    <3>1. open' \ units' = (open \ units) \cup {f}
      BY <1>2, <1>4, <1>8
    <3> QED
      BY <1>8, <3>1, Finite, FS_AddElement
  <2>3. lost \in Nat /\ owed \in Nat
    BY Finite
  <2>4. lost + (Len(fd_array) - newfd_cnt) <= interrupts + owed
    BY DEF AcceptInv, LostInv
  <2>5. newfd_cnt \in Nat /\ interrupts \in Nat
    BY <1>3 DEF AcceptInv, ListenerTypeOK
  <2> HIDE DEF lost, owed
  <2>6. lost + 1 + (Len(fd_array') - newfd_cnt') <= interrupts' + (owed + 1)
    BY <1>2, <1>3, <2>3, <2>4, <2>5
  <2> QED
    BY <2>1, <2>2, <2>6 DEF LostInv
<1> QED
  BY <1>3, <1>4, <1>7, <1>9, <1>10 DEF AcceptInv, SlotsSuffice

(* proc_request passes over an entry without a descriptor.                 *)
LEMMA PassesNoFd ==
    ASSUME AcceptInv, RequestNoFd, UNCHANGED batch
    PROVE  AcceptInv'
<1>1. /\ fd_array[served + 1] = NoFd /\ served < newfd_cnt /\ served' = served + 1
      /\ pc \in {"request", "last"}
      /\ UNCHANGED <<backlog, open, units, slots, usedPollers, fd_array, newfd_cnt,
                     interrupts, aborts, pc, batch>>
  BY DEF RequestNoFd, Requested
<1>2. newfd_cnt \in 0..Len(fd_array) /\ served \in 0..newfd_cnt /\ Len(fd_array) \in Nat
  BY DEF AcceptInv, ListenerTypeOK
<1>3. Entries' = Entries
  BY <1>1, <1>2 DEF Entries
<1>4. served' \in 0..newfd_cnt
  BY <1>1, <1>2
<1>5. ListenerTypeOK'
  BY <1>1, <1>4 DEF AcceptInv, ListenerTypeOK
<1> QED
  BY <1>1, <1>3, <1>5 DEF AcceptInv, EntryInv, LostInv, SlotsSuffice

(* proc_request makes the units of the descriptor it has come to.          *)
LEMMA ServesFd ==
    ASSUME AcceptInv, NEW f \in Fds, RequestUnit(f), UNCHANGED batch
    PROVE  AcceptInv'
<1> DEFINE n1 == served + 1
<1>1. /\ fd_array[n1] = f /\ served < newfd_cnt /\ served' = served + 1
      /\ pc \in {"request", "last"}
      /\ units' = units \cup {f} /\ usedPollers' = usedPollers + 1
      /\ UNCHANGED <<backlog, open, slots, fd_array, newfd_cnt, interrupts, aborts,
                     pc, batch>>
  BY DEF RequestUnit, Requested
<1>2. newfd_cnt \in 0..Len(fd_array) /\ served \in 0..newfd_cnt /\ Len(fd_array) \in Nat
  BY DEF AcceptInv, ListenerTypeOK
<1>3. f # NoFd
  BY ListenerAssumption DEF Fds, NoFd
<1>4. n1 \in Entries /\ Entries' = Entries \ {n1}
  BY <1>1, <1>2, <1>3 DEF Entries
<1>5. f \in open \ units
  BY <1>1, <1>4 DEF AcceptInv, EntryInv
<1>6. Cardinality(units') = Cardinality(units) + 1 /\ Cardinality(units) \in Nat
  BY <1>1, <1>5, Finite, FS_AddElement
<1>7. usedPollers' = Cardinality(units') + 1 /\ usedPollers' \in Nat
  BY <1>1, <1>6 DEF AcceptInv
<1>8. ListenerTypeOK'
  <2>1. served' \in 0..newfd_cnt
    BY <1>1, <1>2
  <2> QED
    BY <1>1, <1>7, <2>1 DEF AcceptInv, ListenerTypeOK
<1>9. EntryInv'
  <2>1. \A n \in Entries' : n \in Entries /\ fd_array[n] # f
    BY <1>1, <1>4 DEF AcceptInv, EntryInv
  <2> QED
    BY <1>1, <1>5, <2>1 DEF AcceptInv, EntryInv
<1>10. LostInv'
  <2> DEFINE lost == Cardinality(open \ units)
             owed == Cardinality(Entries)
  <2>1. Cardinality(Entries') = owed - 1
    BY <1>4, Finite, FS_RemoveElement
  <2>2. Cardinality(open' \ units') = lost - 1
    <3>1. open' \ units' = (open \ units) \ {f}
      BY <1>1
    <3> QED
      BY <1>5, <3>1, Finite, FS_RemoveElement
  <2>3. lost \in Nat /\ owed \in Nat
    BY Finite
  <2>4. lost + (Len(fd_array) - newfd_cnt) <= interrupts + owed
    BY DEF AcceptInv, LostInv
  <2>5. newfd_cnt \in Nat /\ interrupts \in Nat
    BY <1>2 DEF AcceptInv, ListenerTypeOK
  <2> HIDE DEF lost, owed
  <2>6. lost - 1 + (Len(fd_array) - newfd_cnt) <= interrupts + (owed - 1)
    BY <1>2, <2>3, <2>4, <2>5
  <2> QED
    BY <1>1, <2>1, <2>2, <2>6 DEF LostInv
<1> QED
  BY <1>1, <1>7, <1>8, <1>9, <1>10 DEF AcceptInv, SlotsSuffice

(* When no slot is left for a descriptor, the units are fewer than the     *)
(* descriptors, and with the listener's they have all the slots.           *)
LEMMA FindsNoSlot ==
    ASSUME AcceptInv, NEW f \in Fds, RequestNoSlot(f), UNCHANGED batch
    PROVE  AcceptInv'
<1>1. /\ fd_array[served + 1] = f /\ served < newfd_cnt
      /\ usedPollers >= slots /\ pc' = "down"
      /\ UNCHANGED <<backlog, open, units, slots, usedPollers, fd_array, newfd_cnt, served,
                     interrupts, aborts, batch>>
  BY DEF RequestNoSlot, Requested
<1>2. newfd_cnt \in 0..Len(fd_array) /\ served \in 0..newfd_cnt /\ Len(fd_array) \in Nat
  BY DEF AcceptInv, ListenerTypeOK
<1>3. f # NoFd
  BY ListenerAssumption DEF Fds, NoFd
<1>4. served + 1 \in Entries
  BY <1>1, <1>2, <1>3 DEF Entries
<1>5. f \notin units
  BY <1>1, <1>4 DEF AcceptInv, EntryInv
<1>6. slots <= MaxFds
  <2>1. units \subseteq Fds /\ units # Fds
    BY <1>5 DEF AcceptInv, ListenerTypeOK
  <2>2. Cardinality(units) <= MaxFds /\ Cardinality(units) # MaxFds
    BY <2>1, Finite, FS_Subset
  <2>3. MaxFds \in Nat /\ slots \in Nat /\ Cardinality(units) \in Nat
    BY ListenerAssumption, Finite DEF AcceptInv, ListenerTypeOK
  <2>4. usedPollers = Cardinality(units) + 1
    BY DEF AcceptInv
  <2> QED
    BY <1>1, <2>2, <2>3, <2>4
<1>7. Entries' = Entries
  BY <1>1 DEF Entries
<1> QED
  BY <1>1, <1>6, <1>7 DEF AcceptInv, ListenerTypeOK, EntryInv, LostInv, SlotsSuffice

(* When proc_request returns, the descriptors it did not come to are as    *)
(* many at most as the accepts of this call that were interrupted.         *)
LEMMA LeavesNone ==
    ASSUME AcceptInv, served = newfd_cnt
    PROVE  Cardinality(open \ units) <= interrupts
<1>1. newfd_cnt \in 0..Len(fd_array) /\ Len(fd_array) \in Nat /\ interrupts \in Nat
  BY DEF AcceptInv, ListenerTypeOK
<1>2. Entries \subseteq (newfd_cnt + 1)..Len(fd_array)
  BY DEF Entries
<1>3. /\ IsFiniteSet((newfd_cnt + 1)..Len(fd_array))
      /\ Cardinality((newfd_cnt + 1)..Len(fd_array)) = Len(fd_array) - newfd_cnt
  <2>1. newfd_cnt + 1 \in Int /\ Len(fd_array) \in Int
    BY <1>1
  <2>2. /\ IsFiniteSet((newfd_cnt + 1)..Len(fd_array))
        /\ Cardinality((newfd_cnt + 1)..Len(fd_array)) =
              IF newfd_cnt + 1 > Len(fd_array) THEN 0 ELSE Len(fd_array) - (newfd_cnt + 1) + 1
    BY <2>1, FS_Interval
  <2> QED
    BY <1>1, <2>2
<1>4. Cardinality(Entries) <= Len(fd_array) - newfd_cnt
  BY <1>2, <1>3, FS_Subset
<1>5. Cardinality(open \ units) \in Nat /\ Cardinality(Entries) \in Nat
  BY Finite
<1>6. Cardinality(open \ units) + (Len(fd_array) - newfd_cnt)
         <= interrupts + Cardinality(Entries)
  BY DEF AcceptInv, LostInv
<1> QED
  BY <1>1, <1>4, <1>5, <1>6

(* _fd_array is done with. *)
LEMMA ForgetsEntries ==
    ASSUME AcceptInv, served = newfd_cnt,
           UNCHANGED <<backlog, open, units, slots, usedPollers, interrupts, aborts, batch>>,
           fd_array' = <<>>, newfd_cnt' = 0, served' = 0,
           pc \in {"accept", "request", "last"}, pc' \in {"accept", "batch"}
    PROVE  AcceptInv'
<1>1. Len(fd_array') = 0 /\ fd_array' \in Seq(Fds \cup {NoFd})
  OBVIOUS
<1>2. Entries' = {}
  BY <1>1 DEF Entries
<1>3. ListenerTypeOK'
  <2>1. newfd_cnt' \in 0..Len(fd_array') /\ served' \in 0..newfd_cnt'
    BY <1>1
  <2>2. Len(fd_array') <= AcceptCnt
    BY <1>1, ListenerAssumption
  <2> QED
    BY <1>1, <2>1, <2>2 DEF AcceptInv, ListenerTypeOK
<1>4. EntryInv'
  BY <1>2 DEF AcceptInv, EntryInv
<1>5. LostInv'
  <2>1. Cardinality(Entries') = 0
    BY <1>2, FS_EmptySet
  <2>2. Cardinality(open \ units) <= interrupts
    BY LeavesNone
  <2>3. Cardinality(open \ units) \in Nat /\ interrupts \in Nat
    BY Finite DEF AcceptInv, ListenerTypeOK
  <2>4. Cardinality(open \ units) + (0 - 0) <= interrupts + 0
    BY <2>2, <2>3
  <2> QED
    BY <1>1, <2>1, <2>4 DEF LostInv
<1>6. SlotsSuffice'
  BY DEF SlotsSuffice
<1> QED
  BY <1>3, <1>4, <1>5, <1>6 DEF AcceptInv

(* The end of a connection gives its descriptor and its slot back.         *)
LEMMA AcceptEnds ==
    ASSUME AcceptInv, NEW c \in units, Complete(c),
           UNCHANGED <<backlog, slots, fd_array, newfd_cnt, served, interrupts, aborts, pc>>,
           pc \in {"batch", "expire"}, batch' \subseteq batch \ {c}
    PROVE  AcceptInv'
<1>1. /\ units' = units \ {c} /\ open' = open \ {c}
      /\ usedPollers' = usedPollers - 1
  BY DEF Complete
<1>2. open' \ units' = open \ units
  BY <1>1
<1>3. Entries' = Entries
  BY DEF Entries
<1>4. Cardinality(units') = Cardinality(units) - 1 /\ Cardinality(units') \in Nat
  <2>1. IsFiniteSet(units) /\ IsFiniteSet(units')
    BY <1>1, Finite, FS_RemoveElement
  <2> QED
    BY <1>1, <2>1, FS_RemoveElement, FS_CardinalityType
<1>5. usedPollers' = Cardinality(units') + 1 /\ usedPollers' \in Nat
  <2>1. usedPollers = Cardinality(units) + 1 /\ Cardinality(units) \in Nat
    BY Finite DEF AcceptInv
  <2> QED
    BY <1>1, <1>4, <2>1
<1>6. ListenerTypeOK'
  BY <1>1, <1>5 DEF AcceptInv, ListenerTypeOK
<1>7. fd_array = <<>> /\ Entries = {}
  BY DEF AcceptInv, Entries, ListenerTypeOK
<1>8. EntryInv'
  BY <1>1, <1>3, <1>7 DEF AcceptInv, EntryInv
<1>9. LostInv'
  BY <1>2, <1>3 DEF AcceptInv, LostInv
<1> QED
  BY <1>1, <1>5, <1>6, <1>8, <1>9 DEF AcceptInv, SlotsSuffice

-----------------------------------------------------------------------------
(* The listener's handler: its steps make units, or change no timer.       *)
LEMMA AcceptStep ==
    ASSUME ServerInv, Accept
    PROVE  ServerInv'
<1> USE DEF ServerInv
<1>1. ListenerStep /\ idle' = Fresh(units' \ units) /\ UNCHANGED batch
  BY DEF Accept
<1>2. units' = units => idle' = idle
  BY <1>1 DEF Fresh, TimerInv
<1>3. /\ backlog \in 0..MaxBacklog /\ MaxBacklog \in Nat /\ MaxFaults \in Nat
      /\ interrupts \in Nat /\ aborts \in Nat /\ interrupts + aborts <= MaxFaults
      /\ settings \in Nat
  BY ListenerAssumption, TimerTypes DEF AcceptInv, ListenerTypeOK
<1>4. CASE AcceptOne
  <2>1. UNCHANGED <<timerVars, units, pc>>
    BY <1>4 DEF AcceptOne, Accepted
  <2> QED
    BY <1>1, <1>2, <1>4, <2>1, TimersRest, AcceptsFd
<1>5. CASE AcceptAborted \/ AcceptTooMany \/ AcceptInterrupted
  <2>1. Accepted(NoFd) /\ UNCHANGED open
    BY <1>5 DEF AcceptAborted, AcceptTooMany, AcceptInterrupted
  <2>2. UNCHANGED <<timerVars, units, pc>>
    BY <2>1 DEF Accepted
  <2>3. /\ backlog' \in 0..MaxBacklog
        /\ interrupts' \in Nat /\ aborts' \in Nat /\ interrupts' + aborts' <= MaxFaults
        /\ \/ newfd_cnt' = newfd_cnt + 1 /\ interrupts' = interrupts
           \/ newfd_cnt' = newfd_cnt /\ interrupts' = interrupts + 1
    <3>1. CASE AcceptAborted
      BY <1>3, <3>1 DEF AcceptAborted, MayFail
    <3>2. CASE AcceptTooMany
      BY <1>3, <3>2 DEF AcceptTooMany
    <3>3. CASE AcceptInterrupted
      BY <1>3, <3>3 DEF AcceptInterrupted, MayFail
    <3> QED
      BY <1>5, <3>1, <3>2, <3>3
  <2>4. AcceptInv'
    BY <1>1, <2>1, <2>3, AcceptsNone
  <2> QED
    BY <1>2, <2>2, <2>4, TimersRest
<1>6. CASE AcceptDrained \/ AcceptedAll
  <2>1. /\ pc = "accept"
        /\ AcceptReturns("last") \/ AcceptReturns("request")
    BY <1>6 DEF AcceptDrained, AcceptedAll
  <2>2. /\ UNCHANGED <<backlog, open, units, slots, usedPollers, newfd_cnt, served,
                       interrupts, aborts>>
        /\ UNCHANGED timerVars
    BY <2>1 DEF AcceptReturns
  <2>3. served = 0
    BY <2>1 DEF AcceptInv
  <2>4. CASE newfd_cnt > 0
    <3>1. pc' \in {"last", "request"} /\ UNCHANGED fd_array
      BY <2>1, <2>4 DEF AcceptReturns
    <3>2. batch' \subseteq units \cup {ListenFd}
      BY <1>1 DEF AcceptInv
    <3>3. AcceptInv'
      BY <1>3, <2>2, <3>1, <3>2, AcceptRest
    <3> QED
      BY <1>2, <2>2, <3>1, <3>3, TimersRest
  <2>5. CASE ~(newfd_cnt > 0)
    <3>1. pc' = "batch" /\ fd_array' = <<>>
      BY <2>1, <2>5 DEF AcceptReturns
    <3>2. newfd_cnt = 0
      BY <2>5 DEF AcceptInv, ListenerTypeOK
    <3>3. AcceptInv'
      BY <1>1, <2>1, <2>2, <2>3, <3>1, <3>2, ForgetsEntries
    <3> QED
      BY <1>2, <2>2, <3>1, <3>3, TimersRest
  <2> QED
    BY <2>4, <2>5
<1>7. CASE RequestNoFd
  <2>1. UNCHANGED <<timerVars, units, pc>>
    BY <1>7 DEF RequestNoFd, Requested, timerVars
  <2> QED
    BY <1>1, <1>2, <1>7, <2>1, TimersRest, PassesNoFd
<1>8. CASE RequestDone
  <2>1. /\ served = newfd_cnt /\ fd_array' = <<>> /\ newfd_cnt' = 0 /\ served' = 0
        /\ pc \in {"accept", "request", "last"} /\ pc' \in {"accept", "batch"}
        /\ UNCHANGED <<backlog, open, units, slots, usedPollers, interrupts, aborts>>
        /\ UNCHANGED timerVars
    BY <1>8 DEF RequestDone
  <2>2. AcceptInv'
    BY <1>1, <2>1, ForgetsEntries
  <2> QED
    BY <1>2, <2>1, <2>2, TimersRest
<1>9. ASSUME NEW f \in Fds, RequestUnit(f)
      PROVE  ServerInv'
  <2>1. AcceptInv'
    BY <1>1, <1>9, ServesFd
  <2>2. /\ f = fd_array[served + 1] /\ served < newfd_cnt
        /\ units' = units \cup {f} /\ AttachTimer(f, WebTimeout)
        /\ UNCHANGED <<clockVars, pc>> /\ pc # "wait"
    BY <1>9 DEF RequestUnit, Requested
  <2>3. f \notin units
    <3>1. served + 1 \in Entries
      BY <2>2 DEF AcceptInv, ListenerTypeOK, Entries, Fds, NoFd
    <3> QED
      BY <2>2, <3>1 DEF AcceptInv, EntryInv
  <2>4. idle' = Fresh({f})
    BY <1>1, <2>2, <2>3 DEF Fresh
  <2>5. f \in TimerObjects /\ WebTimeout \in Timeouts
    BY ListenerAssumption
  <2>6. TimerInv'
    BY <2>2, <2>4, <2>5, TimersAttach
  <2> QED
    BY <2>1, <2>6
<1>10. ASSUME NEW f \in Fds, RequestNoSlot(f)
       PROVE  ServerInv'
  <2>1. pc' = "down" /\ UNCHANGED <<timerVars, units>>
    BY <1>10 DEF RequestNoSlot, Requested, timerVars
  <2> QED
    BY <1>1, <1>2, <1>10, <2>1, TimersRest, FindsNoSlot
<1> QED
  BY <1>1, <1>4, <1>5, <1>6, <1>7, <1>8, <1>9, <1>10 DEF ListenerStep

(* Every step of the server keeps its invariant.                           *)
LEMMA ServerStepKeeps ==
    ASSUME ServerInv, ServerNext
    PROVE  ServerInv'
<1> USE DEF ServerInv
<1>1. /\ backlog \in 0..MaxBacklog /\ MaxBacklog \in Nat /\ units \subseteq Fds
      /\ pc \in {"wait", "batch", "accept", "request", "last", "expire", "down"}
  BY ListenerAssumption DEF AcceptInv, ListenerTypeOK
<1>2. /\ pc \in {"wait", "batch", "expire"} => fd_array = <<>>
      /\ pc \in {"wait", "expire"} => batch = {}
      /\ pc = "accept" => served = 0
      /\ batch \subseteq units \cup {ListenFd}
  BY DEF AcceptInv
<1>3. ListenFd \notin Fds
  BY ListenerAssumption DEF ListenFd, Fds
<1>4. CASE Arrive
  <2>1. /\ backlog' \in 0..MaxBacklog
        /\ UNCHANGED <<open, units, slots, usedPollers, fd_array, newfd_cnt, served,
                       interrupts, aborts, pc, batch, idle>>
        /\ UNCHANGED timerVars
    BY <1>1, <1>4 DEF Arrive, Connect
  <2>2. AcceptInv'
    BY <1>1, <1>2, <2>1, AcceptRest
  <2> QED
    BY <2>1, <2>2, TimersRest
<1>5. CASE Tick
  <2>1. UNCHANGED <<listenerVars, pc, batch>>
    BY <1>5 DEF Tick
  <2>2. AcceptInv'
    BY <1>1, <1>2, <2>1, AcceptRest DEF listenerVars
  <2> QED
    BY <1>5, <2>2, TimersTick
<1>6. ASSUME NEW d \in 1..MaxBack, ClockSetBack(d)
      PROVE  ServerInv'
  <2>1. UNCHANGED <<listenerVars, pc, batch>>
    BY <1>6 DEF ClockSetBack
  <2>2. AcceptInv'
    BY <1>1, <1>2, <2>1, AcceptRest DEF listenerVars
  <2> QED
    BY <1>6, <2>2, TimersSetBack
<1>16. ASSUME NEW d \in 1..MaxAhead, ClockSetForward(d)
       PROVE  ServerInv'
  <2>1. UNCHANGED <<listenerVars, pc, batch>>
    BY <1>16 DEF ClockSetForward
  <2>2. AcceptInv'
    BY <1>1, <1>2, <2>1, AcceptRest DEF listenerVars
  <2> QED
    BY <1>16, <2>2, TimersSetForward
<1>7. CASE Wake
  <2>1. /\ pc = "wait" /\ pc' = "batch" /\ UNCHANGED listenerVars
        /\ batch' \subseteq units \cup {ListenFd}
    BY <1>7 DEF Wake
  <2>2. AcceptInv'
    BY <1>1, <1>2, <2>1, AcceptRest DEF listenerVars
  <2> QED
    BY <1>7, <2>2, TimersWake
<1>8. CASE StartAccept
  <2>1. /\ pc = "batch" /\ pc' = "accept" /\ UNCHANGED <<listenerVars, timerVars, idle>>
        /\ batch' \subseteq batch
    BY <1>8 DEF StartAccept
  <2>2. served = 0
    BY <1>2, <2>1 DEF AcceptInv, ListenerTypeOK
  <2>3. AcceptInv'
    BY <1>1, <1>2, <2>1, <2>2, AcceptRest DEF listenerVars
  <2> QED
    BY <2>1, <2>3, TimersRest DEF listenerVars
<1>9. CASE Accept
  BY <1>9, AcceptStep
<1>10. CASE StartExpire
  <2>1. /\ pc = "batch" /\ pc' = "expire" /\ batch = {}
        /\ UNCHANGED <<listenerVars, timerVars, batch, idle>>
    BY <1>10 DEF StartExpire
  <2>2. AcceptInv'
    BY <1>1, <1>2, <2>1, AcceptRest DEF listenerVars
  <2> QED
    BY <2>1, <2>2, TimersRest DEF listenerVars
<1>11. CASE RealTimerExpires
  <2>1. /\ pc = "expire" /\ AttachTimer(RealTimer, RealTimeout)
        /\ UNCHANGED <<listenerVars, clockVars, pc, batch, idle>>
    BY <1>11 DEF RealTimerExpires
  <2>2. AcceptInv'
    BY <1>1, <1>2, <2>1, AcceptRest DEF listenerVars
  <2>3. RealTimer \in TimerObjects /\ RealTimeout \in Timeouts
    BY ServerAssumption
  <2> QED
    BY <2>1, <2>2, <2>3, TimersAttach DEF listenerVars
<1>12. CASE NextRound
  <2>1. pc = "expire" /\ pc' = "wait" /\ UNCHANGED <<listenerVars, batch>>
    BY <1>12 DEF NextRound
  <2>2. AcceptInv'
    BY <1>1, <1>2, <2>1, AcceptRest DEF listenerVars
  <2> QED
    BY <1>12, <2>2, TimersNextRound
<1>13. ASSUME NEW c \in Fds, HandleEvent(c)
       PROVE  ServerInv'
  <2>1. /\ pc = "batch" /\ c \in batch /\ batch' \subseteq batch
        /\ AttachTimer(c, WebTimeout) /\ idle' = Fresh({c})
        /\ UNCHANGED <<listenerVars, clockVars, pc>>
    BY <1>13 DEF HandleEvent
  <2>2. AcceptInv'
    BY <1>1, <1>2, <2>1, AcceptRest DEF listenerVars
  <2>3. units' = units \cup {c}
    BY <1>2, <1>3, <2>1 DEF listenerVars
  <2>4. c \in TimerObjects /\ WebTimeout \in Timeouts
    BY ListenerAssumption
  <2> QED
    BY <2>1, <2>2, <2>3, <2>4, TimersAttach
<1>14. ASSUME NEW c \in Fds, HandleLastEvent(c)
       PROVE  ServerInv'
  <2>1. /\ pc = "batch" /\ c \in batch /\ batch' = batch \ {c} /\ Complete(c)
        /\ idle' = Fresh({c})
        /\ UNCHANGED <<backlog, slots, fd_array, newfd_cnt, served, interrupts,
                       aborts, clockVars, pc>>
    BY <1>14 DEF HandleLastEvent
  <2>2. c \in units
    BY <1>2, <1>3, <2>1
  <2>3. AcceptInv'
    BY <2>1, <2>2, AcceptEnds
  <2> QED
    BY <2>1, <2>3, TimersDetach
<1>15. ASSUME NEW c \in Fds, ConnectionExpires(c)
       PROVE  ServerInv'
  <2>1. /\ pc = "expire" /\ c \in Heads /\ Complete(c)
        /\ idle' = Fresh({c})
        /\ UNCHANGED <<backlog, slots, fd_array, newfd_cnt, served, interrupts,
                       aborts, clockVars, pc, batch>>
    BY <1>15 DEF ConnectionExpires, CheckExpired
  <2>2. c \in units
    <3>1. Heads \subseteq Attached
      BY DEF Heads, Attached, In, TimerInv, TimerTypeOK
    <3> QED
      BY <2>1, <3>1, ServerAssumption DEF TimerInv
  <2>3. AcceptInv'
    BY <1>2, <2>1, <2>2, AcceptEnds
  <2> QED
    BY <2>1, <2>3, TimersDetach
<1> QED
  BY <1>4, <1>5, <1>6, <1>7, <1>8, <1>9, <1>10, <1>11, <1>12, <1>13, <1>14, <1>15, <1>16
     DEF ServerNext, ServerStep

(* The server starts with one timer, that of CRealTimer.                   *)
LEMMA ServerInitInv ==
    ASSUME ServerInit
    PROVE  ServerInv
<1>1. lists = [t \in Timeouts |-> IF t = RealTimeout THEN <<RealTimer>> ELSE <<>>]
  BY DEF ServerInit
<1>2. left = [o \in TimerObjects |-> IF o = RealTimer THEN RealTimeout ELSE 0]
  BY DEF ServerInit
<1>3. RealTimer \in TimerObjects /\ RealTimeout \in Timeouts
  BY ServerAssumption
<1>4. /\ lists \in [Timeouts -> Seq(TimerObjects)]
      /\ \A t \in Timeouts : \A n \in DOMAIN lists[t] :
            t = RealTimeout /\ n = 1 /\ lists[t][n] = RealTimer
      /\ 1 \in DOMAIN lists[RealTimeout] /\ lists[RealTimeout][1] = RealTimer
  <2>1. \A t \in Timeouts : lists[t] = IF t = RealTimeout THEN <<RealTimer>> ELSE <<>>
    BY <1>1
  <2>2. <<RealTimer>> \in Seq(TimerObjects) /\ <<>> \in Seq(TimerObjects)
    BY <1>3
  <2>3. lists \in [Timeouts -> Seq(TimerObjects)]
    BY <1>1, <2>2
  <2>4. /\ DOMAIN <<RealTimer>> = 1..1 /\ <<RealTimer>>[1] = RealTimer
        /\ \A n \in DOMAIN <<>> : FALSE
    OBVIOUS
  <2>5. lists[RealTimeout] = <<RealTimer>>
    BY <1>3, <2>1
  <2>6. ASSUME NEW t \in Timeouts, NEW n \in DOMAIN lists[t]
        PROVE  t = RealTimeout /\ n = 1 /\ lists[t][n] = RealTimer
    <3>1. CASE t = RealTimeout
      <4>1. n \in 1..1
        BY <2>4, <2>5, <3>1
      <4> QED
        BY <2>4, <2>5, <3>1, <4>1
    <3>2. CASE t # RealTimeout
      BY <2>1, <2>4, <3>2
    <3> QED
      BY <3>1, <3>2
  <2> QED
    BY <2>3, <2>4, <2>5, <2>6
<1>5. /\ RealTimeout \in Nat /\ MaxBack \in Nat /\ MaxAhead \in Nat /\ MaxLag \in Nat
      /\ MaxWait \in Nat
  BY TimerAssumption, ServerAssumption
<1>6. left \in [TimerObjects -> Lefts] /\ left[RealTimer] = RealTimeout
  <2>1. 0 \in Lefts /\ RealTimeout \in Lefts
    BY <1>5 DEF Lefts, Floor
  <2> QED
    BY <1>2, <1>3, <2>1
<1>7. /\ lag = 0 /\ back = 0 /\ ahead = 0 /\ settings = 0 /\ setBack = 0
      /\ patience = ExpireMicroSeconds
      /\ pc = "wait" /\ batch = {}
  BY DEF ServerInit
<1>8. /\ patience \in 0..MaxWait
      /\ \A o \in Heads : patience <= AtLeast(left[o], 0)
  BY <1>4, <1>6, <1>7, ExpireBound
<1>9. TimerTypeOK
  BY <1>4, <1>5, <1>6, <1>7, <1>8 DEF TimerTypeOK
<1>10. /\ backlog = 0 /\ open = {} /\ units = {} /\ slots \in SlotChoices
       /\ usedPollers = 1 /\ fd_array = <<>> /\ newfd_cnt = 0 /\ served = 0
       /\ interrupts = 0 /\ aborts = 0
       /\ idle = [c \in Fds |-> 0]
  BY DEF ServerInit, ListenerInit
<1>11. ListsApart /\ Attached = {RealTimer}
  <2>1. \A t \in Timeouts : Injective(lists[t])
    BY <1>4 DEF Injective
  <2>2. \A t \in Timeouts : In(lists[t]) = IF t = RealTimeout THEN {RealTimer} ELSE {}
    BY <1>4 DEF In
  <2> QED
    BY <1>3, <2>1, <2>2 DEF ListsApart, Attached
<1>12. OrderInv
  <2> SUFFICES ASSUME NEW t \in Timeouts, NEW n \in DOMAIN lists[t]
               PROVE  /\ left[lists[t][n]] <= t + back
                      /\ \A m \in 1..(n - 1) : left[lists[t][n]] + back >= left[lists[t][m]]
    BY DEF OrderInv
  <2>1. t = RealTimeout /\ n = 1 /\ left[lists[t][n]] = RealTimeout
    BY <1>4, <1>6
  <2> QED
    BY <1>5, <1>7, <2>1
<1>13. HeadInv
  <2> SUFFICES ASSUME NEW o \in Heads
               PROVE  left[o] + ahead >= patience
    BY DEF HeadInv
  <2>1. o = RealTimer
    <3>1. Heads \subseteq Attached
      BY <1>9 DEF Heads, Attached, In, TimerTypeOK
    <3> QED
      BY <1>11, <3>1
  <2> QED
    BY <1>5, <1>6, <1>7, <1>8, <2>1 DEF AtLeast
<1>14. TimerInv
  <2>1. idle \in [Fds -> 0..WebTimeout]
    BY <1>10, TimerAssumption, ListenerAssumption
  <2> QED
    BY <1>5, <1>7, <1>9, <1>10, <1>11, <1>12, <1>13, <2>1 DEF TimerInv, IdleInv
<1>15. Entries = {}
  BY <1>10 DEF Entries
<1>16. ListenerTypeOK
  <2>1. Len(fd_array) = 0 /\ fd_array \in Seq(Fds \cup {NoFd})
    BY <1>10
  <2> QED
    BY <1>7, <1>10, <2>1, ListenerAssumption DEF ListenerTypeOK
<1>17. LostInv
  <2>1. open \ units = {}
    BY <1>10
  <2>2. Cardinality({}) = 0 /\ Len(fd_array) = 0
    BY <1>10, FS_EmptySet
  <2> QED
    BY <1>10, <1>15, <2>1, <2>2 DEF LostInv
<1>18. usedPollers = Cardinality(units) + 1
  BY <1>10, FS_EmptySet
<1>19. AcceptInv
  BY <1>7, <1>10, <1>15, <1>16, <1>17, <1>18 DEF AcceptInv, EntryInv, SlotsSuffice
<1> QED
  BY <1>14, <1>19 DEF ServerInv

(* The inductive invariant of the main loop, its listener and its timers.  *)
THEOREM ServerInvariant == ServerSpec => []ServerInv
<1>1. ServerInit => ServerInv
  BY ServerInitInv
<1>2. ServerInv /\ [ServerNext]_serverVars => ServerInv'
  <2> SUFFICES ASSUME ServerInv, [ServerNext]_serverVars
               PROVE  ServerInv'
    OBVIOUS
  <2>1. CASE ServerNext
    BY <2>1, ServerStepKeeps
  <2>2. CASE UNCHANGED serverVars
    <3>1. /\ UNCHANGED <<timerVars, units, idle, pc, batch>>
          /\ UNCHANGED listenerVars
      BY <2>2 DEF serverVars, listenerVars
    <3>2. /\ backlog \in 0..MaxBacklog
          /\ pc \in {"wait", "batch", "accept", "request", "last", "expire", "down"}
      BY DEF ServerInv, AcceptInv, ListenerTypeOK
    <3>3. AcceptInv'
      BY <3>1, <3>2, AcceptRest DEF ServerInv, AcceptInv, listenerVars
    <3> QED
      BY <3>1, <3>3, TimersRest DEF ServerInv
  <2> QED
    BY <2>1, <2>2
<1> QED
  BY <1>1, <1>2, PTL DEF ServerSpec

(* Type correctness of the main loop (CIncoming::run). *)
THEOREM ServerTypeCorrect == ServerSpec => []ServerTypeOK
<1>1. ServerInv => ServerTypeOK
  BY DEF ServerInv, TimerInv, AcceptInv, ServerTypeOK, ListenerTypeOK
<1> QED
  BY <1>1, ServerInvariant, PTL

(* Each living unit is in one timer list once and has one poller slot, and *)
(* so has nobody else but CRealTimer and the listener (update_timer,       *)
(* AttachTimer, the destructors).                                          *)
THEOREM ListsCorrect == ServerSpec => []ListsHoldTheLiving
<1>1. ServerInv => ListsHoldTheLiving
  BY DEF ServerInv, TimerInv, AcceptInv, ListsApart, ListsHoldTheLiving
<1> QED
  BY <1>1, ServerInvariant, PTL

(* However many accepts are made, aborted or refused, a descriptor is left *)
(* without its units only by an interrupted accept (CListener::proc_accept *)
(* and proc_request).                                                      *)
THEOREM NoneUnserved == ServerSpec => []DescriptorsAreServed
<1>1. ServerInv => DescriptorsAreServed
  <2> SUFFICES ASSUME ServerInv
               PROVE  DescriptorsAreServed
    OBVIOUS
  <2>1. units \subseteq open
    BY DEF ServerInv, AcceptInv, EntryInv
  <2>2. ASSUME pc \in {"wait", "batch", "expire"}
        PROVE  Cardinality(open \ units) <= interrupts
    <3>1. fd_array = <<>>
      BY <2>2 DEF ServerInv, AcceptInv
    <3>2. served = newfd_cnt
      BY <3>1 DEF ServerInv, AcceptInv, ListenerTypeOK
    <3> QED
      BY <3>2, LeavesNone DEF ServerInv
  <2> QED
    BY <2>1, <2>2 DEF DescriptorsAreServed
<1> QED
  BY <1>1, ServerInvariant, PTL

(* The server dies for want of a slot only where MaxFdCount is not above   *)
(* the limit of descriptors (CListener::proc_request).                     *)
THEOREM SlotsDoSuffice == ServerSpec => []SlotsSuffice
<1>1. ServerInv => SlotsSuffice
  BY DEF ServerInv, AcceptInv
<1> QED
  BY <1>1, ServerInvariant, PTL

(* CTimerList::CheckExpired and ExpireMicroSeconds look at the heads only, *)
(* and yet no timer that is waited for is overdue by more than a round took*)
(* and the clock was set either way.                                       *)
THEOREM NoTimerLate == ServerSpec => []TimersInTime
<1>1. ServerInv => TimersInTime
  <2> SUFFICES ASSUME TimerInv, pc = "wait", NEW o \in Attached
               PROVE  left[o] > -(MaxLag + ahead + back)
    BY DEF ServerInv, TimersInTime
  <2>1. PICK t \in Timeouts : o \in In(lists[t])
    BY DEF Attached
  <2>2. PICK n \in DOMAIN lists[t] : o = lists[t][n]
    BY <2>1 DEF In
  <2>3. lists[t] \in Seq(TimerObjects)
    BY DEF TimerInv, TimerTypeOK
  <2>4. lists[t] # <<>> /\ 1 \in DOMAIN lists[t] /\ n \in Nat \ {0} /\ Head(lists[t]) = lists[t][1]
    BY <2>3
  <2>5. lists[t][1] \in Heads
    BY <2>4 DEF Heads
  <2>6. /\ MaxLag \in Nat \ {0} /\ back \in Nat /\ ahead \in Nat /\ patience \in Nat
        /\ left[o] \in Int /\ left[lists[t][1]] \in Int
    BY <2>2, <2>3, <2>4, TimerAssumption DEF TimerInv, TimerTypeOK, Lefts
  <2>7. left[lists[t][1]] + ahead > -MaxLag
    BY <2>5, <2>6 DEF TimerInv, HeadInv
  <2>8. CASE n = 1
    BY <2>2, <2>6, <2>7, <2>8
  <2>9. CASE n # 1
    <3>1. 1 \in 1..(n - 1)
      BY <2>4, <2>9
    <3>2. left[o] + back >= left[lists[t][1]]
      BY <2>2, <3>1 DEF TimerInv, OrderInv
    <3> QED
      BY <2>6, <2>7, <3>2
  <2> QED
    BY <2>8, <2>9
<1> QED
  BY <1>1, ServerInvariant, PTL

(* A timer ends a connection only when its last event lies back by         *)
(* WebTimeout, with what the clock was set forward since counted in, or    *)
(* when the clock was set back by WebTimeout or more within the round      *)
(* (CTimerObject::AttachTimer, CTimerList::CheckExpired).                  *)
THEOREM NoneEndedEarly == ServerSpec => NeverEndedEarly
<1> DEFINE EndsIdle == pc = "expire" /\ setBack < WebTimeout =>
                          \A c \in units \ units' : idle[c] >= WebTimeout
<1>1. ServerInv /\ [ServerNext]_serverVars => [EndsIdle]_serverVars
  <2> SUFFICES ASSUME ServerInv, ServerNext, pc = "expire", setBack < WebTimeout,
                      NEW c \in units \ units'
               PROVE  idle[c] >= WebTimeout
    OBVIOUS
  <2>1. PICK d \in Fds : ConnectionExpires(d)
    <3>1. /\ ~Tick /\ ~Arrive
          /\ \A d \in 1..MaxBack : ~ClockSetBack(d)
          /\ \A d \in 1..MaxAhead : ~ClockSetForward(d)
      BY DEF Tick, Arrive, Connect, ClockSetBack, ClockSetForward, listenerVars
    <3>2. ~Wake /\ ~StartAccept /\ ~StartExpire /\ ~RealTimerExpires /\ ~NextRound
      BY DEF Wake, StartAccept, StartExpire, RealTimerExpires, NextRound, listenerVars
    <3>3. ~Accept
      BY DEF Accept, ListenerStep, AcceptOne, AcceptAborted, AcceptTooMany,
             AcceptInterrupted, AcceptDrained, AcceptedAll, Accepted, RequestNoFd,
             RequestUnit, RequestNoSlot, RequestDone, Requested
    <3>4. \A d \in Fds : ~HandleEvent(d) /\ ~HandleLastEvent(d)
      BY DEF HandleEvent, HandleLastEvent
    <3> QED
      BY <3>1, <3>2, <3>3, <3>4 DEF ServerNext, ServerStep
  <2>2. c = d /\ left[c] + lag <= 0
    BY <2>1 DEF ConnectionExpires, Complete, CheckExpired, Expired
  <2>3. /\ idle[c] < WebTimeout => left[c] + lag > 0
        /\ idle[c] \in 0..WebTimeout
        /\ left[c] \in Int /\ lag \in Int
    BY TimerAssumption, ListenerAssumption
       DEF ServerInv, TimerInv, IdleInv, TimerTypeOK, Lefts
  <2>4. WebTimeout \in Nat
    BY TimerAssumption, ListenerAssumption
  <2> QED
    BY <2>2, <2>3, <2>4
<1> QED
  BY <1>1, ServerInvariant, PTL DEF ServerSpec, NeverEndedEarly
=============================================================================
