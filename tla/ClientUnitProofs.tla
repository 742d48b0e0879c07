-------------------------- MODULE ClientUnitProofs --------------------------
(***************************************************************************)
(* Proofs about ClientUnit: for any streams of requests, any size of a     *)
(* reply and of the kernel's buffers, and any number of send errors.       *)
(***************************************************************************)
EXTENDS ClientUnit, SequenceTheorems, TLAPS

USE DEF alive

-----------------------------------------------------------------------------
(* Two units of the stream, d units apart. *)
Apart(u, v, d) ==
    \/ u.req = v.req /\ v.part - u.part = d
    \/ u.req < v.req /\ requests[u.req].size - u.part + v.part <= d

(* A run of the client's stream that ends with the next unit to write. *)
Chain(b) ==
    /\ b \in Seq(Unit)
    /\ Len(b) > 0
    /\ \A n \in 1..(Len(b) - 1) :
         /\ b[n].req <= Len(requests)
         /\ b[n].part <= requests[b[n].req].size
         /\ b[n + 1] = After(b[n])
    /\ \A j, k \in 1..Len(b) : j < k => Apart(b[j], b[k], k - j)

Bytes == r \o toServer \o <<next>>

NextInv ==
    /\ next.req <= Len(requests) + 1
    /\ next.req <= Len(requests) => next.part <= requests[next.req].size

BytesInv ==
    alive =>
      /\ Chain(Bytes)
      /\ Bytes[1] = [req |-> IF pc = "reply" THEN handled ELSE handled + 1, part |-> 1]

RequestsInv ==
    /\ Len(requests) \in Nat
    /\ \A i \in 1..Len(requests) :
         requests[i].size \in Nat \ {0} /\ requests[i].kind \in {"bad", "refused", "data"}

(* The mask follows _w, except while a new reply waits for its first send. *)
MaskInv ==
    alive =>
      /\ newEvents = oldEvents
      /\ "in" \in oldEvents
      /\ pc # "reply" => oldEvents = IF w = <<>> THEN {"in"} ELSE {"in", "out"}

(* That reply is to a whole request at the head of _r. *)
ReplyInv ==
    pc = "reply" => HandleInput > 0

UnitInv == UnitTypeOK /\ NextInv /\ BytesInv /\ MaskInv /\ ReplyInv

-----------------------------------------------------------------------------
LEMMA StreamsTyped ==
    ASSUME NEW stream \in Streams
    PROVE  /\ Len(stream) \in Nat
           /\ \A i \in 1..Len(stream) :
                stream[i].size \in Nat \ {0} /\ stream[i].kind \in Kinds
<1>1. stream \in Seq([size : Nat, kind : Kinds])
  BY UnitAssumption
<1>2. Len(stream) \in Nat /\ DOMAIN stream = 1..Len(stream)
  BY <1>1, LenProperties
<1>3. \A i \in 1..Len(stream) : stream[i] \in [size : Nat, kind : Kinds]
  BY <1>1, ElementOfSeq
<1>4. HeadSize \in Nat \ {0} /\ \A i \in 1..Len(stream) : stream[i].size >= HeadSize
  BY <1>2, UnitAssumption
<1> QED
  BY <1>2, <1>3, <1>4

LEMMA MinOfTwo ==
    ASSUME NEW a \in Nat, NEW b \in Nat
    PROVE  Min({a, b}) = IF a <= b THEN a ELSE b
  BY DEF Min

LEMMA Suffix ==
    ASSUME NEW A, NEW q \in Seq(A), NEW n \in 0..Len(q)
    PROVE  /\ SubSeq(q, n + 1, Len(q)) \in Seq(A)
           /\ Len(SubSeq(q, n + 1, Len(q))) = Len(q) - n
           /\ \A i \in 1..(Len(q) - n) : SubSeq(q, n + 1, Len(q))[i] = q[n + i]
<1>1. SubSeq(q, n + 1, Len(q)) \in Seq(A)
  OBVIOUS
<1>2. Len(SubSeq(q, n + 1, Len(q))) = Len(q) - n
  OBVIOUS
<1>3. ASSUME NEW i \in 1..(Len(q) - n)
      PROVE  SubSeq(q, n + 1, Len(q))[i] = q[n + i]
  OBVIOUS
<1> QED
  BY <1>1, <1>2, <1>3

LEMMA Prefix ==
    ASSUME NEW A, NEW q \in Seq(A), NEW n \in 0..Len(q)
    PROVE  /\ SubSeq(q, 1, n) \in Seq(A)
           /\ Len(SubSeq(q, 1, n)) = n
           /\ \A i \in 1..n : SubSeq(q, 1, n)[i] = q[i]
<1>1. SubSeq(q, 1, n) \in Seq(A) /\ Len(SubSeq(q, 1, n)) = n
  OBVIOUS
<1>2. ASSUME NEW i \in 1..n
      PROVE  SubSeq(q, 1, n)[i] = q[i]
  OBVIOUS
<1> QED
  BY <1>1, <1>2

LEMMA Joined ==
    ASSUME NEW A, NEW p \in Seq(A), NEW q \in Seq(A)
    PROVE  p \o q \in Seq(A) /\ Len(p \o q) = Len(p) + Len(q)
  OBVIOUS

(* A read moves units from the front of one sequence to the end of the     *)
(* other: the two together stay what they are.                             *)
LEMMA Moved ==
    ASSUME NEW A, NEW p \in Seq(A), NEW q \in Seq(A), NEW n \in 0..Len(q)
    PROVE  /\ p \o SubSeq(q, 1, n) \in Seq(A)
           /\ Len(p \o SubSeq(q, 1, n)) = Len(p) + n
           /\ (p \o SubSeq(q, 1, n)) \o SubSeq(q, n + 1, Len(q)) = p \o q
<1> DEFINE front == SubSeq(q, 1, n)
           rest == SubSeq(q, n + 1, Len(q))
<1>1. Len(p) \in Nat /\ Len(q) \in Nat
  BY LenProperties
<1>2. /\ front \in Seq(A) /\ Len(front) = n
      /\ \A i \in 1..n : front[i] = q[i]
  BY Prefix
<1>3. /\ rest \in Seq(A) /\ Len(rest) = Len(q) - n
      /\ \A i \in 1..(Len(q) - n) : rest[i] = q[n + i]
  BY Suffix
<1> HIDE DEF front, rest
<1>4. /\ front \o rest \in Seq(A)
      /\ Len(front \o rest) = Len(q)
  <2>1. front \o rest \in Seq(A) /\ Len(front \o rest) = Len(front) + Len(rest)
    BY <1>2, <1>3, Joined
  <2> QED
    BY <1>1, <1>2, <1>3, <2>1
<1>5. ASSUME NEW i \in 1..Len(q)
      PROVE  (front \o rest)[i] = q[i]
  <2>1. (front \o rest)[i] = IF i <= n THEN front[i] ELSE rest[i - n]
    BY <1>1, <1>2, <1>3
  <2>2. i > n => i - n \in 1..(Len(q) - n) /\ n + (i - n) = i
    BY <1>1
  <2>3. i <= n => i \in 1..n
    BY <1>1
  <2> QED
    BY <1>2, <1>3, <2>1, <2>2, <2>3
<1>6. front \o rest = q
  BY <1>4, <1>5, SeqEqual
<1>7. (p \o front) \o rest = p \o (front \o rest)
  <2>1. p \in Seq(A) /\ front \in Seq(A) /\ rest \in Seq(A)
    BY <1>2, <1>3, Zenon
  <2> QED
    BY ONLY <2>1
<1>8. p \o front \in Seq(A) /\ Len(p \o front) = Len(p) + n
  <2>1. p \o front \in Seq(A) /\ Len(p \o front) = Len(p) + Len(front)
    BY <1>2, Joined
  <2> QED
    BY <1>2, <2>1
<1> QED
  BY <1>6, <1>7, <1>8 DEF front, rest

(* The same, for every two sequences of units. *)
LEMMA MovedUnits ==
    \A p, q \in Seq(Unit) : \A m \in 0..Len(q) :
        /\ p \o SubSeq(q, 1, m) \in Seq(Unit)
        /\ Len(p \o SubSeq(q, 1, m)) = Len(p) + m
        /\ (p \o SubSeq(q, 1, m)) \o SubSeq(q, m + 1, Len(q)) = p \o q
  BY Moved

(* Units taken from the front of one sequence are taken from the front of  *)
(* the two together.                                                       *)
LEMMA Dropped ==
    ASSUME NEW A, NEW p \in Seq(A), NEW q \in Seq(A), NEW n \in 0..Len(p)
    PROVE  SubSeq(p, n + 1, Len(p)) \o q = SubSeq(p \o q, n + 1, Len(p \o q))
<1> DEFINE rest == SubSeq(p, n + 1, Len(p))
           both == p \o q
<1>1. Len(p) \in Nat /\ Len(q) \in Nat
  BY LenProperties
<1>2. /\ rest \in Seq(A) /\ Len(rest) = Len(p) - n
      /\ \A i \in 1..(Len(p) - n) : rest[i] = p[n + i]
  BY Suffix
<1>3. both \in Seq(A) /\ Len(both) = Len(p) + Len(q) /\ n \in 0..Len(both)
  BY <1>1, Joined
<1>4. \A i \in 1..Len(both) : both[i] = IF i <= Len(p) THEN p[i] ELSE q[i - Len(p)]
  BY <1>1, <1>3
<1> HIDE DEF rest, both
<1>5. /\ SubSeq(both, n + 1, Len(both)) \in Seq(A)
      /\ Len(SubSeq(both, n + 1, Len(both))) = Len(both) - n
      /\ \A i \in 1..(Len(both) - n) : SubSeq(both, n + 1, Len(both))[i] = both[n + i]
  BY <1>3, Suffix
<1>6. /\ rest \o q \in Seq(A) /\ Len(rest \o q) = Len(both) - n
      /\ \A i \in 1..(Len(both) - n) :
           (rest \o q)[i] = IF i <= Len(p) - n THEN rest[i] ELSE q[i - (Len(p) - n)]
  <2>1. rest \o q \in Seq(A) /\ Len(rest \o q) = Len(rest) + Len(q)
    BY <1>2, Joined
  <2>2. \A i \in 1..(Len(rest) + Len(q)) :
          (rest \o q)[i] = IF i <= Len(rest) THEN rest[i] ELSE q[i - Len(rest)]
    BY <1>1, <1>2
  <2>3. Len(rest) + Len(q) = Len(both) - n
    BY <1>1, <1>2, <1>3
  <2> QED
    BY <1>2, <2>1, <2>2, <2>3
<1>7. ASSUME NEW i \in 1..(Len(both) - n)
      PROVE  (rest \o q)[i] = both[n + i]
  <2>1. n + i \in 1..Len(both) /\ (n + i) - Len(p) = i - (Len(p) - n)
    BY <1>1, <1>3
  <2>2. i <= Len(p) - n <=> n + i <= Len(p)
    BY <1>1, <1>3
  <2>3. i <= Len(p) - n => rest[i] = p[n + i]
    BY <1>1, <1>2
  <2> QED
    BY <1>4, <1>6, <2>1, <2>2, <2>3
<1>8. rest \o q = SubSeq(both, n + 1, Len(both))
  BY <1>1, <1>3, <1>5, <1>6, <1>7, SeqEqual
<1> QED
  BY <1>8 DEF rest, both

(* The rest of a run is a run. *)
LEMMA RestOfChain ==
    ASSUME NEW b, Chain(b), NEW m \in 0..(Len(b) - 1)
    PROVE  /\ Chain(SubSeq(b, m + 1, Len(b)))
           /\ SubSeq(b, m + 1, Len(b))[1] = b[m + 1]
<1> DEFINE c == SubSeq(b, m + 1, Len(b))
<1>1. b \in Seq(Unit) /\ Len(b) \in Nat
  BY DEF Chain
<1>2. /\ c \in Seq(Unit)
      /\ Len(c) = Len(b) - m
      /\ \A i \in 1..(Len(b) - m) : c[i] = b[m + i]
  <2>1. m \in 0..Len(b)
    BY <1>1
  <2> QED
    BY <1>1, <2>1, Suffix
<1> HIDE DEF c
<1>3. ASSUME NEW n \in 1..(Len(c) - 1)
      PROVE  /\ c[n].req <= Len(requests)
             /\ c[n].part <= requests[c[n].req].size
             /\ c[n + 1] = After(c[n])
  <2>1. /\ n \in 1..(Len(b) - m) /\ n + 1 \in 1..(Len(b) - m)
        /\ m + n \in 1..(Len(b) - 1) /\ m + (n + 1) = (m + n) + 1
    BY <1>1, <1>2
  <2>2. c[n] = b[m + n] /\ c[n + 1] = b[(m + n) + 1]
    BY <1>2, <2>1
  <2> QED
    BY <2>1, <2>2 DEF Chain
<1>4. ASSUME NEW j \in 1..Len(c), NEW k \in 1..Len(c), j < k
      PROVE  Apart(c[j], c[k], k - j)
  <2>1. m + j \in 1..Len(b) /\ m + k \in 1..Len(b) /\ m + j < m + k /\ (m + k) - (m + j) = k - j
    BY <1>1, <1>2, <1>4
  <2>2. Apart(b[m + j], b[m + k], (m + k) - (m + j))
    BY <2>1 DEF Chain
  <2>3. c[j] = b[m + j] /\ c[k] = b[m + k] /\ (m + k) - (m + j) = k - j
    BY <1>2, <2>1
  <2> QED
    BY <2>2, <2>3
<1>5. Chain(c)
  <2>1. Len(c) > 0
    BY <1>1, <1>2
  <2> QED
    BY <1>2, <1>3, <1>4, <2>1 DEF Chain
<1> QED
  BY <1>1, <1>2, <1>5 DEF c

(* Behind the units of a request that a run begins with comes the first    *)
(* unit of the next request.                                               *)
LEMMA NextRequest ==
    ASSUME NEW b, Chain(b), b[1].part = 1,
           NEW n \in Nat \ {0}, n = requests[b[1].req].size, Len(b) > n
    PROVE  b[n + 1] = [req |-> b[1].req + 1, part |-> 1]
<1>1. b \in Seq(Unit) /\ Len(b) \in Nat
  BY DEF Chain
<1>2. 1 \in 1..Len(b) /\ n \in 1..Len(b) /\ n \in 1..(Len(b) - 1)
  BY <1>1
<1>3. b[1] \in Unit /\ b[n] \in Unit
  BY <1>1, <1>2, ElementOfSeq
<1>4. b[n].req = b[1].req /\ b[n].part = n
  <2>1. CASE n = 1
    BY <2>1
  <2>2. CASE n > 1
    <3>1. Apart(b[1], b[n], n - 1)
      BY <1>2, <2>2 DEF Chain
    <3>2. \/ b[1].req = b[n].req /\ b[n].part - 1 = n - 1
          \/ n - 1 + b[n].part <= n - 1
      BY <3>1 DEF Apart
    <3>3. b[n].part \in Int /\ b[n].part > 0 /\ n \in Int
      BY <1>3 DEF Unit
    <3>4. ~(n - 1 + b[n].part <= n - 1)
      BY <3>3
    <3>5. b[1].req = b[n].req /\ b[n].part - 1 = n - 1
      BY <3>2, <3>4
    <3>6. \A x, y \in Int : x - 1 = y - 1 => x = y
      OBVIOUS
    <3>7. b[n].part = n
      BY <3>3, <3>5, <3>6, Zenon
    <3> QED
      BY <3>5, <3>7
  <2> QED
    BY <2>1, <2>2
<1>5. b[n + 1] = After(b[n])
  BY <1>2 DEF Chain
<1> QED
  BY <1>4, <1>5 DEF After

(* The distance grows by one when the second unit is followed by the next. *)
LEMMA ApartAfter ==
    ASSUME RequestsInv,
           NEW u \in Unit, NEW x \in Unit, NEW d \in Nat,
           u.req <= Len(requests), u.part <= requests[u.req].size,
           x.req <= Len(requests),
           Apart(x, u, d)
    PROVE  Apart(x, After(u), d + 1)
<1> DEFINE size == requests[u.req].size
           end == requests[x.req].size
<1>1. /\ Len(requests) \in Nat
      /\ u.req \in Nat \ {0} /\ u.part \in Nat \ {0}
      /\ x.req \in Nat \ {0} /\ x.part \in Nat \ {0}
  BY DEF Unit, RequestsInv
<1>2. u.req \in 1..Len(requests) /\ x.req \in 1..Len(requests)
  BY <1>1
<1>3. size \in Nat /\ end \in Nat
  BY <1>2 DEF RequestsInv
<1>4. \/ x.req = u.req /\ u.part - x.part = d
      \/ x.req < u.req /\ end - x.part + u.part <= d
  BY DEF Apart
<1>5. x.req = u.req => end = size
  OBVIOUS
<1> HIDE DEF size, end
<1>6. CASE u.part = size
  <2>1. After(u).req = u.req + 1 /\ After(u).part = 1
    BY <1>6 DEF After, size
  <2>2. x.req < u.req + 1 /\ end - x.part + 1 <= d + 1
    <3>1. CASE x.req = u.req /\ u.part - x.part = d
      BY <1>1, <1>5, <1>6, <3>1
    <3>2. CASE x.req < u.req /\ end - x.part + u.part <= d
      <4>1. x.req < u.req + 1
        BY <1>1, <3>2
      <4>2. end - x.part + 1 <= end - x.part + u.part
        BY <1>1, <1>3
      <4> QED
        BY <1>1, <1>3, <3>2, <4>1, <4>2
    <3> QED
      BY <1>4, <3>1, <3>2
  <2> QED
    BY <2>1, <2>2 DEF Apart, end
<1>7. CASE u.part # size
  <2>1. After(u).req = u.req /\ After(u).part = u.part + 1
    BY <1>7 DEF After, size
  <2>2. \/ x.req = u.req /\ u.part + 1 - x.part = d + 1
        \/ x.req < u.req /\ end - x.part + (u.part + 1) <= d + 1
    <3>1. u.part - x.part = d => u.part + 1 - x.part = d + 1
      BY <1>1
    <3>2. end - x.part + u.part <= d => end - x.part + (u.part + 1) <= d + 1
      BY <1>1, <1>3
    <3> QED
      BY <1>4, <3>1, <3>2, Zenon
  <2>3. CASE x.req = u.req /\ u.part + 1 - x.part = d + 1
    <3>1. x.req = After(u).req /\ After(u).part - x.part = d + 1
      BY ONLY <1>1, <2>1, <2>3
    <3> QED
      BY <3>1 DEF Apart, end
  <2>4. CASE x.req < u.req /\ end - x.part + (u.part + 1) <= d + 1
    <3>1. x.req < After(u).req /\ end - x.part + After(u).part <= d + 1
      BY <2>1, <2>4
    <3> QED
      BY <3>1 DEF Apart, end
  <2> QED
    BY <2>2, <2>3, <2>4
<1> QED
  BY <1>6, <1>7

(* A run goes on with the unit after its last. *)
LEMMA LongerChain ==
    ASSUME RequestsInv,
           NEW b, Chain(b),
           NEW u, u = b[Len(b)],
           u.req <= Len(requests), u.part <= requests[u.req].size
    PROVE  /\ After(u) \in Unit
           /\ Chain(b \o <<After(u)>>)
           /\ (b \o <<After(u)>>)[1] = b[1]
<1> DEFINE v == After(u)
           c == b \o <<v>>
           L == Len(b)
<1>1. b \in Seq(Unit) /\ L \in Nat /\ L > 0
  BY DEF Chain
<1>2. L \in 1..L
  BY <1>1
<1>3. u \in Unit
  BY <1>1, <1>2, ElementOfSeq
<1>4. v \in Unit
  BY <1>3 DEF After, Unit
<1> HIDE DEF v
<1>5. /\ c \in Seq(Unit) /\ Len(c) = L + 1
      /\ \A i \in 1..L : c[i] = b[i]
      /\ c[L + 1] = v
  <2>1. c \in Seq(Unit) /\ Len(c) = L + 1
    BY <1>1, <1>4
  <2>2. ASSUME NEW i \in 1..L PROVE c[i] = b[i]
    BY <1>1, <1>4
  <2>3. c[L + 1] = v
    BY <1>1, <1>4
  <2> QED
    BY <2>1, <2>2, <2>3
<1> HIDE DEF c, L
<1>6. ASSUME NEW n \in 1..(Len(c) - 1)
      PROVE  /\ c[n].req <= Len(requests)
             /\ c[n].part <= requests[c[n].req].size
             /\ c[n + 1] = After(c[n])
  <2>1. n \in 1..L /\ c[n] = b[n]
    BY <1>1, <1>5
  <2>2. CASE n = L
    BY <1>5, <2>1, <2>2 DEF v, L
  <2>3. CASE n < L
    <3>1. n \in 1..(L - 1) /\ n + 1 \in 1..L
      BY <1>1, <2>1, <2>3
    <3>2. c[n + 1] = b[n + 1]
      BY <1>5, <3>1
    <3>3. /\ b[n].req <= Len(requests)
          /\ b[n].part <= requests[b[n].req].size
          /\ b[n + 1] = After(b[n])
      BY <3>1 DEF Chain, L
    <3> QED
      BY <2>1, <3>2, <3>3
  <2> QED
    BY <1>1, <2>1, <2>2, <2>3
<1>7. ASSUME NEW j \in 1..Len(c), NEW k \in 1..Len(c), j < k
      PROVE  Apart(c[j], c[k], k - j)
  <2>1. j \in 1..L /\ c[j] = b[j]
    BY <1>1, <1>5, <1>7
  <2>2. CASE k <= L
    <3>1. k \in 1..L /\ c[k] = b[k]
      BY <1>1, <1>5, <2>2
    <3>2. Apart(b[j], b[k], k - j)
      BY <1>7, <2>1, <3>1 DEF Chain, L
    <3> QED
      BY <2>1, <3>1, <3>2
  <2>3. CASE k = L + 1
    <3>1. c[k] = After(u)
      BY <1>5, <2>3 DEF v
    <3>2. CASE j = L
      <4>1. Apart(u, u, 0)
        BY <1>3 DEF Apart, Unit
      <4>2. Apart(u, After(u), 0 + 1)
        BY <1>3, <4>1, ApartAfter
      <4>3. k - j = 0 + 1
        BY <1>1, <2>3, <3>2
      <4>4. c[j] = u
        BY <2>1, <3>2 DEF L
      <4> QED
        BY <3>1, <4>2, <4>3, <4>4
    <3>3. CASE j < L
      <4>1. j \in 1..(L - 1) /\ L - j \in Nat /\ k - j = (L - j) + 1
        BY <1>1, <2>1, <2>3, <3>3
      <4>2. Apart(b[j], u, L - j)
        BY <1>2, <2>1, <3>3 DEF Chain, L
      <4>3. b[j] \in Unit /\ b[j].req <= Len(requests)
        <5>1. b[j] \in Unit
          BY <1>1, <2>1, ElementOfSeq DEF L
        <5>2. b[j].req <= Len(requests)
          BY <4>1 DEF Chain, L
        <5> QED
          BY <5>1, <5>2
      <4>4. Apart(b[j], After(u), (L - j) + 1)
        BY <1>3, <4>1, <4>2, <4>3, ApartAfter
      <4> QED
        BY <2>1, <3>1, <4>1, <4>4
    <3> QED
      BY <1>1, <2>1, <3>2, <3>3
  <2> QED
    BY <1>1, <1>5, <2>2, <2>3
<1>8. Len(c) > 0
  BY <1>1, <1>5
<1>9. Chain(c)
  BY <1>5, <1>6, <1>7, <1>8 DEF Chain
<1>10. c[1] = b[1]
  BY <1>1, <1>5
<1> QED
  BY <1>4, <1>9, <1>10 DEF v, c

-----------------------------------------------------------------------------
(* Facts about one state or one call, used by several steps. *)

LEMMA RequestsTyped ==
    ASSUME UnitTypeOK
    PROVE  RequestsInv
<1>1. requests \in Streams
  BY DEF UnitTypeOK
<1> QED
  BY <1>1, StreamsTyped DEF RequestsInv, Kinds

(* A run does not depend on more than the requests. *)
LEMMA ChainStays ==
    ASSUME requests' = requests, NEW b, Chain(b)
    PROVE  Chain(b)'
  BY DEF Chain, Apart, After

LEMMA BytesTyped ==
    ASSUME UnitTypeOK
    PROVE  /\ Bytes \in Seq(Unit)
           /\ Len(Bytes) = Len(r) + Len(toServer) + 1
           /\ \A n \in 1..Len(r) : Bytes[n] = r[n]
           /\ Bytes[Len(Bytes)] = next
           /\ Bytes = r \o (toServer \o <<next>>)
<1>1. r \in Seq(Unit) /\ toServer \in Seq(Unit) /\ next \in Unit
  BY DEF UnitTypeOK
<1>2. <<next>> \in Seq(Unit)
  BY <1>1
<1>3. Bytes = r \o (toServer \o <<next>>)
  BY <1>1, <1>2, ConcatAssociative DEF Bytes
<1>4. Bytes \in Seq(Unit) /\ Len(Bytes) = Len(r) + Len(toServer) + 1
  BY <1>1, <1>2 DEF Bytes
<1>5. ASSUME NEW n \in 1..Len(r) PROVE Bytes[n] = r[n]
  BY <1>1, <1>2, <1>3
<1>6. Bytes[Len(Bytes)] = next
  BY <1>1, <1>2 DEF Bytes
<1> QED
  BY <1>3, <1>4, <1>5, <1>6

(* What HandleInput returns for a request it accepts. *)
LEMMA Accepted ==
    ASSUME UnitInv, alive, HandleInput > 0
    PROVE  /\ Head(r) = Bytes[1] /\ Bytes[1].part = 1
           /\ Bytes[1].req \in 1..Len(requests)
           /\ HandleInput = requests[Bytes[1].req].size
           /\ HandleInput \in Nat \ {0} /\ HandleInput <= Len(r)
<1>1. r \in Seq(Unit) /\ toServer \in Seq(Unit)
  BY DEF UnitInv, UnitTypeOK
<1>2. Len(r) \in Nat /\ Len(toServer) \in Nat /\ HeadSize \in Nat \ {0}
  BY <1>1, UnitAssumption, LenProperties
<1>3. /\ ~(Len(r) < HeadSize)
      /\ ~(Len(r) < requests[Head(r).req].size)
      /\ HandleInput = requests[Head(r).req].size
      /\ Head(r).part = 1
  BY DEF HandleInput
<1>4. 1 \in 1..Len(r)
  BY <1>2, <1>3
<1>5. Head(r) = Bytes[1]
  <2>1. Head(r) = r[1]
    BY <1>1, <1>4
  <2> QED
    BY <1>4, <2>1, BytesTyped DEF UnitInv
<1>6. Bytes[1] \in Unit /\ Bytes[1].req <= Len(requests)
  <2>1. Bytes \in Seq(Unit) /\ Len(Bytes) = Len(r) + Len(toServer) + 1
    BY BytesTyped DEF UnitInv
  <2>2. 1 \in 1..Len(Bytes) /\ 1 \in 1..(Len(Bytes) - 1)
    BY <1>2, <1>4, <2>1
  <2>3. Bytes[1] \in Unit
    BY <2>1, <2>2, ElementOfSeq
  <2>4. Chain(Bytes)
    BY DEF UnitInv, BytesInv
  <2> QED
    BY <2>2, <2>3, <2>4 DEF Chain
<1>7. RequestsInv
  BY RequestsTyped DEF UnitInv
<1>8. Bytes[1].req \in 1..Len(requests)
  BY <1>6, <1>7 DEF Unit, RequestsInv
<1>9. requests[Bytes[1].req].size \in Nat \ {0}
  BY <1>7, <1>8 DEF RequestsInv
<1> QED
  BY <1>2, <1>3, <1>5, <1>8, <1>9

LEMMA ReplyTyped ==
    ASSUME NEW n \in Nat \ {0}
    PROVE  S!Reply(n) \in Seq(Unit) /\ Len(S!Reply(n)) = ReplySize
<1>1. ReplySize \in Nat
  BY UnitAssumption
<1>2. \A part \in 1..ReplySize : [req |-> n, part |-> part] \in Unit
  BY <1>1 DEF Unit
<1> QED
  BY <1>1, <1>2 DEF S!Reply

(* A send that does not give the unit up. *)
LEMMA Sent ==
    ASSUME UnitTypeOK, newEvents = oldEvents, "in" \in oldEvents, Send
    PROVE  /\ toClient' \in Seq(Unit) /\ Len(toClient') <= SendRoom
           /\ w' \in Seq(Unit)
           /\ sendErrors' \in 0..(MaxSendErrors - 1)
           /\ newEvents' = oldEvents'
           /\ oldEvents' = IF w' = <<>> THEN {"in"} ELSE {"in", "out"}
           /\ clientOpen => toClient' \o w' = toClient \o w
<1>1. /\ toClient \in Seq(Unit) /\ w \in Seq(Unit)
      /\ Len(toClient) <= SendRoom
      /\ sendErrors \in 0..(MaxSendErrors - 1)
      /\ oldEvents \subseteq {"in", "out"}
  BY DEF UnitTypeOK, Masks
<1>2. /\ Len(toClient) \in Nat /\ Len(w) \in Nat
      /\ SendRoom \in Nat /\ MaxSendErrors \in Nat \ {0}
  BY <1>1, LenProperties, UnitAssumption
<1>3. /\ newEvents \ {"out"} = {"in"}
      /\ newEvents \cup {"out"} = {"in", "out"}
  BY <1>1
<1>4. CASE SendSome
  <2>1. PICK n \in 1..Len(w) :
          /\ IF clientOpen
             THEN /\ Len(toClient) + n <= SendRoom
                  /\ toClient' = toClient \o SubSeq(w, 1, n)
             ELSE /\ n = Len(w)
                  /\ UNCHANGED toClient
          /\ w' = SubSeq(w, n + 1, Len(w))
          /\ newEvents' = IF n = Len(w) THEN newEvents \ {"out"} ELSE newEvents \cup {"out"}
          /\ oldEvents' = newEvents'
          /\ sendErrors' = 0
    BY <1>4 DEF SendSome
  <2>2. n \in 0..Len(w)
    BY <1>2
  <2>3. w' \in Seq(Unit) /\ Len(w') = Len(w) - n
    BY <1>1, <2>1, <2>2, Suffix
  <2>4. w' = <<>> <=> n = Len(w)
    BY <1>2, <2>3
  <2>5. /\ toClient' \in Seq(Unit) /\ Len(toClient') <= SendRoom
        /\ clientOpen => toClient' \o w' = toClient \o w
    <3>1. CASE clientOpen
      <4>1. /\ toClient \o SubSeq(w, 1, n) \in Seq(Unit)
            /\ Len(toClient \o SubSeq(w, 1, n)) = Len(toClient) + n
            /\ (toClient \o SubSeq(w, 1, n)) \o SubSeq(w, n + 1, Len(w)) = toClient \o w
        BY <1>1, <2>2, MovedUnits, Zenon
      <4> QED
        BY <2>1, <3>1, <4>1
    <3>2. CASE ~clientOpen
      BY <1>1, <2>1, <3>2
    <3> QED
      BY <3>1, <3>2
  <2>6. sendErrors' \in 0..(MaxSendErrors - 1)
    BY <1>2, <2>1
  <2> QED
    BY <1>3, <2>1, <2>3, <2>4, <2>5, <2>6
<1>5. CASE SendAgain
  <2>1. sendErrors' \in 0..(MaxSendErrors - 1)
    BY <1>1, <1>2, <1>5 DEF SendAgain
  <2> QED
    BY <1>1, <1>3, <1>5, <2>1 DEF SendAgain
<1> QED
  BY <1>4, <1>5 DEF Send

-----------------------------------------------------------------------------
(* UnitInv is inductive. *)

LEMMA UnitInitInv == UnitInit => UnitInv
<1> SUFFICES ASSUME UnitInit
             PROVE  UnitInv
  OBVIOUS
<1> USE DEF UnitInit
<1>1. RequestsInv
  BY StreamsTyped DEF RequestsInv, Kinds
<1>2. UnitTypeOK
  BY <1>1, UnitAssumption DEF UnitTypeOK, RequestsInv, Unit, Masks, Steps
<1>3. NextInv
  <2>1. 1 <= Len(requests) + 1
    BY <1>1 DEF RequestsInv
  <2>2. 1 <= Len(requests) => 1 <= requests[1].size
    <3>1. 1 <= Len(requests) => 1 \in 1..Len(requests)
      BY <1>1 DEF RequestsInv
    <3> QED
      BY <1>1, <3>1 DEF RequestsInv
  <2> QED
    BY <2>1, <2>2 DEF NextInv
<1>4. BytesInv
  <2>1. Bytes = <<next>> /\ next \in Unit
    BY <1>2 DEF Bytes, UnitTypeOK
  <2>2. Chain(<<next>>)
    BY <2>1 DEF Chain
  <2> QED
    BY <2>1, <2>2 DEF BytesInv
<1> QED
  BY <1>2, <1>3, <1>4 DEF UnitInv, MaskInv, ReplyInv

(* A unit that is deleted has no state left to be wrong. *)
LEMMA CompleteStep ==
    ASSUME UnitInv, Complete
    PROVE  UnitInv'
<1>1. UnitTypeOK'
  <2>1. toClient' \in Seq(Unit) /\ Len(toClient') <= SendRoom
    <3>1. toClient' = toClient \/ toClient' = <<>>
      BY DEF Complete
    <3>2. toClient \in Seq(Unit) /\ Len(toClient) <= SendRoom /\ SendRoom \in Nat
      BY UnitAssumption DEF UnitInv, UnitTypeOK
    <3>3. <<>> \in Seq(Unit) /\ Len(<<>>) <= SendRoom
      BY <3>2
    <3> QED
      BY <3>1, <3>2, <3>3, Zenon
  <2> QED
    BY <2>1 DEF UnitInv, UnitTypeOK, Complete, clientVars, Masks, Steps
<1>2. NextInv'
  BY DEF UnitInv, NextInv, Complete, clientVars
<1> QED
  BY <1>1, <1>2 DEF UnitInv, BytesInv, MaskInv, ReplyInv, Complete

(* A step that moves no byte of the input and handles no request. *)
LEMMA InputStays ==
    ASSUME UnitInv, alive,
           UNCHANGED <<requests, next, toServer, r, handled>>,
           pc # "reply", pc' # "reply"
    PROVE  NextInv' /\ BytesInv' /\ ReplyInv'
<1>1. Chain(Bytes) /\ Bytes' = Bytes
  BY DEF UnitInv, BytesInv, Bytes
<1>2. Chain(Bytes)'
  BY <1>1, ChainStays
<1> QED
  BY <1>1, <1>2 DEF UnitInv, NextInv, BytesInv, ReplyInv

LEMMA UnitStep == UnitInv /\ [UnitNext]_unitVars => UnitInv'
<1> SUFFICES ASSUME UnitInv, [UnitNext]_unitVars
             PROVE  UnitInv'
  OBVIOUS
<1>1. RequestsInv
  BY RequestsTyped DEF UnitInv
<1>2. CASE ClientWrites
  <2> USE <1>2 DEF ClientWrites
  <2>1. /\ Chain(Bytes)
        /\ Bytes[Len(Bytes)] = next
        /\ r \in Seq(Unit) /\ toServer \in Seq(Unit) /\ next \in Unit
    BY BytesTyped DEF UnitInv, BytesInv, UnitTypeOK
  <2>2. next.req <= Len(requests) /\ next.part <= requests[next.req].size
    BY DEF UnitInv, NextInv
  <2>3. /\ After(next) \in Unit
        /\ Chain(Bytes \o <<After(next)>>)
        /\ (Bytes \o <<After(next)>>)[1] = Bytes[1]
    BY <1>1, <2>1, <2>2, LongerChain
  <2>4. Bytes' = Bytes \o <<After(next)>>
    <3>1. toServer' = toServer \o <<next>>
      BY <2>1
    <3>2. r' = r /\ next' = After(next)
      BY DEF serverVars
    <3>3. r \o (toServer \o <<next>>) = Bytes
      BY BytesTyped DEF UnitInv
    <3> QED
      BY <3>1, <3>2, <3>3 DEF Bytes
  <2>5. Chain(Bytes)'
    BY <2>3, <2>4, ChainStays
  <2>6. BytesInv'
    BY <2>3, <2>4, <2>5 DEF UnitInv, BytesInv, serverVars
  <2>7. NextInv'
    <3>1. /\ next.req \in Nat \ {0} /\ next.part \in Nat \ {0}
          /\ Len(requests) \in Nat /\ requests[next.req].size \in Nat
      BY <1>1, <2>1, <2>2 DEF RequestsInv, Unit
    <3>2. CASE next.part = requests[next.req].size
      <4>1. next'.req = next.req + 1 /\ next'.part = 1
        BY <3>2 DEF After
      <4>2. next.req + 1 <= Len(requests) => requests[next.req + 1].size >= 1
        BY <1>1, <3>1 DEF RequestsInv
      <4> QED
        BY <2>2, <3>1, <4>1, <4>2 DEF NextInv
    <3>3. CASE next.part # requests[next.req].size
      <4>1. next'.req = next.req /\ next'.part = next.part + 1
        BY <3>3 DEF After
      <4> QED
        BY <2>2, <3>1, <3>3, <4>1 DEF NextInv
    <3> QED
      BY <3>2, <3>3
  <2>8. UnitTypeOK'
    BY <2>1, <2>3 DEF UnitInv, UnitTypeOK, serverVars, maskVars
  <2>9. MaskInv' /\ ReplyInv'
    BY DEF UnitInv, MaskInv, ReplyInv, HandleInput, serverVars, maskVars
  <2> QED
    BY <2>6, <2>7, <2>8, <2>9 DEF UnitInv
<1>3. ASSUME \/ ClientReads \/ ClientCloses \/ UNCHANGED unitVars
      PROVE  UnitInv'
  <2> USE <1>3 DEF ClientReads, ClientCloses, unitVars, clientVars, serverVars, maskVars
  <2>1. UnitTypeOK'
    <3>1. toClient' \in Seq(Unit) /\ Len(toClient') <= SendRoom
      <4>1. toClient \in Seq(Unit) /\ Len(toClient) <= SendRoom /\ SendRoom \in Nat
        BY UnitAssumption DEF UnitInv, UnitTypeOK
      <4>2. \/ toClient' = toClient
            \/ toClient' = <<>>
            \/ toClient # <<>> /\ toClient' = Tail(toClient)
        OBVIOUS
      <4>3. toClient # <<>> => Tail(toClient) \in Seq(Unit) /\ Len(Tail(toClient)) <= SendRoom
        BY <4>1
      <4>4. <<>> \in Seq(Unit) /\ Len(<<>>) <= SendRoom
        BY <4>1
      <4> QED
        BY <4>1, <4>2, <4>3, <4>4, Zenon
    <3> QED
      BY <3>1 DEF UnitInv, UnitTypeOK
  <2>2. /\ UNCHANGED <<requests, next, toServer, serverVars>>
        /\ Bytes' = Bytes
    BY DEF Bytes
  <2>3. Chain(Bytes) => Chain(Bytes)'
    BY <2>2, ChainStays
  <2>4. BytesInv'
    BY <2>2, <2>3 DEF UnitInv, BytesInv
  <2>5. NextInv' /\ MaskInv' /\ ReplyInv'
    BY <2>2 DEF UnitInv, NextInv, MaskInv, ReplyInv, HandleInput
  <2> QED
    BY <2>1, <2>4, <2>5 DEF UnitInv
<1>4. CASE HangupNotify \/ TimerNotify \/ CutRejected
  BY <1>4, CompleteStep DEF HangupNotify, TimerNotify, CutRejected
<1>5. CASE TakeEvent
  <2> USE <1>5 DEF TakeEvent, clientVars
  <2>1. UnitTypeOK'
    BY DEF UnitInv, UnitTypeOK, Masks, Steps
  <2>2. MaskInv'
    BY DEF UnitInv, MaskInv
  <2>3. NextInv' /\ BytesInv' /\ ReplyInv'
    BY InputStays
  <2> QED
    BY <2>1, <2>2, <2>3 DEF UnitInv
<1>6. CASE Recv
  <2>1. CASE toServer = <<>>
    BY <1>6, <2>1, CompleteStep DEF Recv
  <2>2. CASE toServer # <<>>
    <3> DEFINE n == Min({Len(toServer), MaxWebRecvLen})
    <3>1. /\ pc = "recv" /\ pc' = "cut"
          /\ r' = r \o SubSeq(toServer, 1, n)
          /\ toServer' = SubSeq(toServer, n + 1, Len(toServer))
          /\ UNCHANGED <<clientVars, toClient, w, handled, sendErrors, maskVars, event>>
      BY <1>6, <2>2 DEF Recv
    <3>2. n \in 0..Len(toServer)
      <4>1. Len(toServer) \in Nat /\ MaxWebRecvLen \in Nat
        BY UnitAssumption DEF UnitInv, UnitTypeOK
      <4>2. n = IF Len(toServer) <= MaxWebRecvLen THEN Len(toServer) ELSE MaxWebRecvLen
        BY <4>1, MinOfTwo
      <4> HIDE DEF n
      <4> QED
        BY <4>1, <4>2
    <3> HIDE DEF n
    <3>3. r \in Seq(Unit) /\ toServer \in Seq(Unit)
      BY DEF UnitInv, UnitTypeOK
    <3>4. r' \in Seq(Unit) /\ toServer' \in Seq(Unit) /\ r' \o toServer' = r \o toServer
      <4>2. toServer' \in Seq(Unit)
        BY <3>1, <3>2, <3>3, Suffix
      <4> QED
        BY <3>1, <3>2, <3>3, MovedUnits, <4>2, Zenon
    <3>5. UnitTypeOK'
      BY <3>1, <3>4 DEF UnitInv, UnitTypeOK, clientVars, maskVars, Steps
    <3>6. Chain(Bytes) /\ Bytes' = Bytes
      BY <3>1, <3>4 DEF UnitInv, BytesInv, Bytes, clientVars
    <3>7. Chain(Bytes)'
      BY <3>1, <3>6, ChainStays DEF clientVars
    <3>8. NextInv' /\ BytesInv' /\ MaskInv' /\ ReplyInv'
      BY <3>1, <3>6, <3>7 DEF UnitInv, NextInv, BytesInv, MaskInv, ReplyInv, clientVars, maskVars
    <3> QED
      BY <3>5, <3>8 DEF UnitInv
  <2> QED
    BY <2>1, <2>2
<1>7. CASE CutDone
  <2> USE <1>7 DEF CutDone, clientVars
  <2>1. UnitTypeOK'
    BY DEF UnitInv, UnitTypeOK, Masks, Steps
  <2>2. MaskInv'
    BY DEF UnitInv, MaskInv
  <2>3. NextInv' /\ BytesInv' /\ ReplyInv'
    BY InputStays
  <2> QED
    BY <2>1, <2>2, <2>3 DEF UnitInv
<1>8. CASE CmdData
  <2> USE <1>8 DEF CmdData, clientVars, maskVars
  <2>1. /\ Head(r) = Bytes[1]
        /\ Bytes[1].req \in 1..Len(requests)
        /\ Bytes[1].req = handled + 1
    BY Accepted DEF UnitInv, BytesInv
  <2>2. w' \in Seq(Unit)
    <3>1. S!Reply(Head(r).req) \in Seq(Unit)
      BY <1>1, <2>1, ReplyTyped DEF RequestsInv
    <3> QED
      BY <3>1, Joined DEF UnitInv, UnitTypeOK
  <2>3. handled' \in 0..Len(requests)
    BY <1>1, <2>1 DEF RequestsInv, UnitInv, UnitTypeOK
  <2>4. UnitTypeOK'
    BY <2>2, <2>3 DEF UnitInv, UnitTypeOK, Steps
  <2>5. Chain(Bytes) /\ Bytes' = Bytes
    BY DEF UnitInv, BytesInv, Bytes
  <2>6. Chain(Bytes)'
    BY <2>5, ChainStays
  <2>7. NextInv' /\ BytesInv' /\ MaskInv' /\ ReplyInv'
    BY <2>5, <2>6 DEF UnitInv, NextInv, BytesInv, MaskInv, ReplyInv, HandleInput
  <2> QED
    BY <2>4, <2>7 DEF UnitInv
<1>9. CASE CmdSend
  <2>1. CASE SendFails /\ Complete
    BY <2>1, CompleteStep
  <2>2. CASE /\ Send
             /\ r' = SubSeq(r, HandleInput + 1, Len(r))
             /\ pc' = "cut"
             /\ UNCHANGED <<clientVars, toServer, handled, event>>
    <3> DEFINE n == HandleInput
    <3> USE <2>2 DEF clientVars
    <3>1. pc = "reply" /\ n > 0
      BY <1>9 DEF CmdSend, UnitInv, ReplyInv
    <3>2. /\ Bytes[1].part = 1
          /\ n = requests[Bytes[1].req].size
          /\ n \in Nat \ {0} /\ n <= Len(r)
          /\ Bytes[1].req = handled
      BY <3>1, Accepted DEF UnitInv, BytesInv
    <3>3. r' = SubSeq(r, n + 1, Len(r))
      BY DEF n
    <3> HIDE DEF n
    <3>4. /\ r \in Seq(Unit) /\ toServer \in Seq(Unit) /\ next \in Unit
          /\ Len(r) \in Nat /\ Len(toServer) \in Nat
      BY DEF UnitInv, UnitTypeOK
    <3>5. n \in 0..Len(r)
      BY <3>2, <3>4
    <3>6. r' \in Seq(Unit)
      BY <3>3, <3>4, <3>5, Suffix
    <3>7. Len(Bytes) = Len(r) + Len(toServer) + 1 /\ Chain(Bytes)
      BY <3>1, BytesTyped DEF UnitInv, BytesInv
    <3>8. Bytes' = SubSeq(Bytes, n + 1, Len(Bytes))
      <4>1. Bytes' = r' \o (toServer \o <<next>>)
        <5>1. <<next>> \in Seq(Unit)
          BY <3>4
        <5>2. (r' \o toServer) \o <<next>> = r' \o (toServer \o <<next>>)
          <6>1. \A p, q, t \in Seq(Unit) : (p \o q) \o t = p \o (q \o t)
            BY ConcatAssociative
          <6> QED
            BY <3>4, <3>6, <5>1, <6>1, Zenon
        <5> QED
          BY <5>2 DEF Bytes
      <4>2. Bytes = r \o (toServer \o <<next>>)
        BY BytesTyped DEF UnitInv
      <4> QED
        <5> DEFINE t == toServer \o <<next>>
        <5>1. t \in Seq(Unit)
          BY <3>4
        <5> HIDE DEF t
        <5>2. \A p, q \in Seq(Unit) : \A m \in 0..Len(p) :
                SubSeq(p, m + 1, Len(p)) \o q = SubSeq(p \o q, m + 1, Len(p \o q))
          BY Dropped
        <5>3. SubSeq(r, n + 1, Len(r)) \o t = SubSeq(r \o t, n + 1, Len(r \o t))
          BY <3>4, <3>5, <5>1, <5>2, Zenon
        <5> QED
          BY <3>3, <4>1, <4>2, <5>3 DEF t
    <3>9. n \in 0..(Len(Bytes) - 1) /\ Len(Bytes) > n
      BY <3>2, <3>4, <3>7
    <3>10. Chain(Bytes') /\ Bytes'[1] = Bytes[n + 1]
      BY <3>7, <3>8, <3>9, RestOfChain
    <3>11. Bytes[n + 1] = [req |-> handled + 1, part |-> 1]
      BY <3>2, <3>7, <3>9, NextRequest
    <3>12. BytesInv'
      <4>1. Chain(Bytes)'
        BY <3>10, ChainStays
      <4> QED
        BY <3>10, <3>11, <4>1 DEF BytesInv
    <3>13. newEvents = oldEvents /\ "in" \in oldEvents
      BY <3>1 DEF UnitInv, MaskInv
    <3>14. /\ toClient' \in Seq(Unit) /\ Len(toClient') <= SendRoom
           /\ w' \in Seq(Unit)
           /\ sendErrors' \in 0..(MaxSendErrors - 1)
           /\ newEvents' = oldEvents'
           /\ oldEvents' = IF w' = <<>> THEN {"in"} ELSE {"in", "out"}
      BY <3>13, Sent DEF UnitInv
    <3>15. UnitTypeOK'
      BY <3>6, <3>14 DEF UnitInv, UnitTypeOK, Masks, Steps
    <3>16. NextInv' /\ MaskInv' /\ ReplyInv'
      BY <3>14 DEF UnitInv, NextInv, MaskInv, ReplyInv
    <3> QED
      BY <3>12, <3>15, <3>16 DEF UnitInv
  <2> QED
    BY <1>9, <2>1, <2>2 DEF CmdSend
<1>10. CASE OutputNotify
  <2>1. CASE SendFails /\ Complete
    BY <2>1, CompleteStep
  <2>2. CASE /\ Send
             /\ pc' = IF pc = "send" /\ w' # <<>> THEN "resend" ELSE "wait"
             /\ UNCHANGED <<clientVars, toServer, r, handled, event>>
    <3> USE <2>2 DEF clientVars
    <3>1. pc \in {"send", "resend"}
      BY <1>10 DEF OutputNotify
    <3>2. newEvents = oldEvents /\ "in" \in oldEvents
      BY <3>1 DEF UnitInv, MaskInv
    <3>3. /\ toClient' \in Seq(Unit) /\ Len(toClient') <= SendRoom
          /\ w' \in Seq(Unit)
          /\ sendErrors' \in 0..(MaxSendErrors - 1)
          /\ newEvents' = oldEvents'
          /\ oldEvents' = IF w' = <<>> THEN {"in"} ELSE {"in", "out"}
      BY <3>2, Sent DEF UnitInv
    <3>4. UnitTypeOK'
      BY <3>3 DEF UnitInv, UnitTypeOK, Masks, Steps
    <3>5. MaskInv'
      BY <3>3 DEF MaskInv
    <3>6. NextInv' /\ BytesInv' /\ ReplyInv'
      BY <3>1, InputStays
    <3> QED
      BY <3>4, <3>5, <3>6 DEF UnitInv
  <2> QED
    BY <1>10, <2>1, <2>2 DEF OutputNotify
<1> QED
  BY <1>2, <1>3, <1>4, <1>5, <1>6, <1>7, <1>8, <1>9, <1>10 DEF UnitNext

(* What holds in every reachable state of a connection. *)
THEOREM UnitInvariance == UnitSpec => []UnitInv
  BY UnitInitInv, UnitStep, PTL DEF UnitSpec

-----------------------------------------------------------------------------
(* The caches, masks and counters of a connection have their types; the     *)
(* kernel's buffer and the error counter stay within their limits.          *)
THEOREM UnitTypeCorrect == UnitSpec => []UnitTypeOK
  BY UnitInvariance, PTL DEF UnitInv

LEMMA BytesChained ==
    ASSUME UnitInv
    PROVE  NoByteLost
<1> SUFFICES ASSUME alive PROVE NoByteLost
  BY DEF NoByteLost
<1>1. /\ Chain(Bytes)
      /\ Bytes[1] = [req |-> IF pc = "reply" THEN handled ELSE handled + 1, part |-> 1]
  BY DEF UnitInv, BytesInv
<1>2. Head(Bytes) = Bytes[1]
  BY <1>1 DEF Chain
<1>3. \A n \in 1..(Len(Bytes) - 1) : Bytes[n + 1] = After(Bytes[n])
  BY <1>1 DEF Chain
<1> QED
  BY <1>1, <1>2, <1>3 DEF NoByteLost, Bytes

(* Whatever the pieces in which input arrives, and whatever the order of    *)
(* the calls, the server cuts requests at the right byte and loses none.    *)
THEOREM BytesCorrect == UnitSpec => []NoByteLost
  BY UnitInvariance, BytesChained, PTL

(* Between two events the unit waits for room to send exactly when it has   *)
(* replies to send, and always for input.                                   *)
THEOREM OutputCorrect == UnitSpec => []OutputIsWatched
<1>1. UnitInv => OutputIsWatched
  BY DEF UnitInv, MaskInv, OutputIsWatched
<1> QED
  BY <1>1, UnitInvariance, PTL

-----------------------------------------------------------------------------
(* The connection implements Session. *)

LEMMA CompleteCloses ==
    ASSUME UnitTypeOK, alive, Complete
    PROVE  S!Close
<1> DEFINE replies == IF clientOpen THEN toClient \o w ELSE <<>>
<1>1. toClient \in Seq(Unit) /\ w \in Seq(Unit)
  BY DEF UnitTypeOK
<1>2. /\ clientOpen' = clientOpen /\ w' = <<>>
      /\ toClient' = toClient \/ toClient' = <<>>
  BY DEF Complete, clientVars
<1>3. \E n \in 0..Len(replies) : replies' = SubSeq(replies, 1, n)
  <2>1. CASE ~clientOpen \/ toClient' = <<>>
    <3>1. replies' = <<>>
      BY <1>2, <2>1
    <3>2. replies \in Seq(Unit)
      BY <1>1
    <3> HIDE DEF replies
    <3>3. 0 \in 0..Len(replies) /\ SubSeq(replies, 1, 0) = <<>>
      BY <3>2
    <3> QED
      BY <3>1, <3>3
  <2>2. CASE clientOpen /\ toClient' = toClient
    <3>1. replies' = toClient
      BY <1>1, <1>2, <2>2
    <3>2. Len(toClient) \in 0..Len(toClient \o w)
      BY <1>1
    <3>3. SubSeq(toClient \o w, 1, Len(toClient)) = toClient
      BY <1>1
    <3> QED
      BY <2>2, <3>1, <3>2, <3>3
  <2> QED
    BY <1>2, <2>1, <2>2
<1> QED
  BY <1>2, <1>3 DEF S!Close, Complete, clientVars

LEMMA SessionStep == UnitInv /\ [UnitNext]_unitVars => [S!SessionNext]_S!sessionVars
<1> SUFFICES ASSUME UnitInv, [UnitNext]_unitVars
             PROVE  S!SessionNext \/ UNCHANGED S!sessionVars
  OBVIOUS
<1>1. /\ toClient \in Seq(Unit) /\ w \in Seq(Unit)
      /\ next.req \in Nat \ {0}
  BY DEF UnitInv, UnitTypeOK, Unit
<1>2. CASE ClientWrites
  <2> USE <1>2 DEF ClientWrites, serverVars
  <2>1. CASE next.part = requests[next.req].size
    <3>1. next'.req - 1 = (next.req - 1) + 1
      BY <1>1, <2>1 DEF After
    <3> QED
      BY <3>1 DEF S!SessionNext, S!Write
  <2>2. CASE next.part # requests[next.req].size
    <3>1. next'.req = next.req
      BY <2>2 DEF After
    <3> QED
      BY <3>1 DEF S!sessionVars
  <2> QED
    BY <2>1, <2>2
<1>3. CASE ClientReads
  <2>1. toClient \o w # <<>> /\ Tail(toClient) \o w = Tail(toClient \o w)
    BY <1>1, <1>3 DEF ClientReads
  <2> QED
    BY <1>3, <2>1 DEF ClientReads, clientVars, serverVars, S!SessionNext, S!Read
<1>4. CASE ClientCloses
  BY <1>4 DEF ClientCloses, serverVars, S!SessionNext, S!Leave
<1>5. ASSUME alive, Complete
      PROVE  S!SessionNext
  BY <1>5, CompleteCloses DEF UnitInv, S!SessionNext
<1>6. CASE HangupNotify \/ TimerNotify \/ CutRejected
  BY <1>5, <1>6 DEF HangupNotify, TimerNotify, CutRejected
<1>7. CASE TakeEvent \/ CutDone
  BY <1>7 DEF TakeEvent, CutDone, clientVars, S!sessionVars
<1>8. CASE Recv
  BY <1>5, <1>8 DEF Recv, clientVars, S!sessionVars
<1>9. CASE CmdData
  <2> USE <1>9 DEF CmdData, clientVars
  <2>1. /\ Head(r) = Bytes[1] /\ Bytes[1].part = 1
        /\ Bytes[1].req = handled + 1
        /\ HandleInput = requests[Bytes[1].req].size
        /\ HandleInput \in Nat \ {0} /\ HandleInput <= Len(r)
    BY Accepted DEF UnitInv, BytesInv
  <2> DEFINE n == HandleInput
             L == Len(Bytes)
  <2>2. /\ L = Len(r) + Len(toServer) + 1
        /\ Bytes[L] = next
        /\ Chain(Bytes) /\ Bytes \in Seq(Unit)
        /\ Len(r) \in Nat /\ Len(toServer) \in Nat
    BY BytesTyped DEF UnitInv, UnitTypeOK, BytesInv
  <2>3. n \in Nat \ {0} /\ n <= Len(r) /\ n = requests[Bytes[1].req].size
    BY <2>1
  <2> HIDE DEF n, L
  <2>4. /\ L \in Nat /\ n < L /\ n + 1 \in 1..L /\ L \in 1..L
    <3>1. /\ n \in Nat \ {0} /\ n <= Len(r) /\ Len(r) \in Nat /\ Len(toServer) \in Nat
          /\ L = Len(r) + Len(toServer) + 1
      BY <2>2, <2>3, Zenon
    <3> QED
      BY ONLY <3>1
  <2>5. Bytes[n + 1] = [req |-> handled + 2, part |-> 1]
    <3>1. Bytes[n + 1] = [req |-> Bytes[1].req + 1, part |-> 1]
      BY <2>1, <2>2, <2>3, <2>4, NextRequest DEF L
    <3>2. Bytes[1].req + 1 = handled + 2
      BY <2>1 DEF UnitInv, UnitTypeOK
    <3> QED
      BY <3>1, <3>2
  <2>6. handled + 2 <= next.req
    <3>1. CASE n + 1 = L
      BY <1>1, <2>2, <2>5, <3>1
    <3>2. CASE n + 1 # L
      <4>1. Apart(Bytes[n + 1], Bytes[L], L - (n + 1))
        <5>1. n + 1 < L
          <6>1. n \in Nat /\ L \in Nat /\ n < L /\ n + 1 # L
            BY <2>3, <2>4, <3>2, Zenon
          <6> QED
            BY ONLY <6>1
        <5>2. \A j, k \in 1..L : j < k => Apart(Bytes[j], Bytes[k], k - j)
          BY <2>2 DEF Chain, L
        <5> QED
          BY <2>4, <5>1, <5>2
      <4>2. handled + 2 = next.req \/ handled + 2 < next.req
        BY <2>2, <2>5, <4>1 DEF Apart
      <4> QED
        BY <1>1, <4>2 DEF UnitInv, UnitTypeOK
    <3> QED
      BY <3>1, <3>2
  <2>7. handled < next.req - 1
    BY <1>1, <2>6 DEF UnitInv, UnitTypeOK
  <2>8. w' = w \o S!Reply(handled + 1)
    BY <2>1
  <2>9. S!Reply(handled + 1) \in Seq(Unit)
    BY ReplyTyped DEF UnitInv, UnitTypeOK
  <2>10. toClient' \o w' = (toClient \o w) \o S!Reply(handled + 1)
    <3> DEFINE new == S!Reply(handled + 1)
    <3>1. new \in Seq(Unit) /\ w' = w \o new
      BY <2>8, <2>9
    <3> HIDE DEF new
    <3>2. new \in Seq(Unit) /\ w \in Seq(Unit) /\ toClient \in Seq(Unit)
      BY <1>1, <3>1, Zenon
    <3>3. (toClient \o w) \o new = toClient \o (w \o new)
      BY ONLY <3>2
    <3> QED
      BY <3>1, <3>3 DEF new
  <2> QED
    BY <2>7, <2>10 DEF S!SessionNext, S!Handle
<1>10. CASE CmdSend \/ OutputNotify
  <2>1. CASE SendFails /\ Complete
    BY <1>5, <1>10, <2>1 DEF CmdSend, OutputNotify
  <2>2. CASE Send /\ pc' # "closed" /\ UNCHANGED <<clientVars, handled>>
    <3>1. newEvents = oldEvents /\ "in" \in oldEvents /\ alive
      BY <1>10 DEF CmdSend, OutputNotify, UnitInv, MaskInv
    <3>2. clientOpen => toClient' \o w' = toClient \o w
      BY <2>2, <3>1, Sent DEF UnitInv
    <3> QED
      BY <2>2, <3>1, <3>2 DEF clientVars, S!sessionVars
  <2> QED
    BY <1>10, <2>1, <2>2 DEF CmdSend, OutputNotify
<1>11. CASE UNCHANGED unitVars
  BY <1>11 DEF unitVars, clientVars, serverVars, S!sessionVars
<1> QED
  BY <1>2, <1>3, <1>4, <1>6, <1>7, <1>8, <1>9, <1>10, <1>11 DEF UnitNext

(* Every behaviour of a connection, byte by byte, is one of Session, packet *)
(* by packet: each request is handled once, in order and only when all of   *)
(* it has arrived, and replies are read in that order.                      *)
THEOREM SessionCorrect == UnitSpec => ImplementsSession
<1>1. UnitInit => S!SessionInit
  BY DEF UnitInit, S!SessionInit
<1> QED
  BY <1>1, UnitInvariance, SessionStep, PTL DEF UnitSpec, ImplementsSession, S!SessionSpec
=============================================================================
