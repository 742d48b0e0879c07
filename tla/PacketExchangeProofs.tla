------------------------ MODULE PacketExchangeProofs ------------------------
(***************************************************************************)
(* Theorems about PacketExchange: both sides read what the other wrote,    *)
(* and a damaged octet of a body never goes unnoticed.                     *)
(***************************************************************************)
EXTENDS PacketExchange, SequenceTheorems, WellFoundedInduction, TLAPS

(* A set of naturals that is not empty has a least element. *)
LEMMA LeastOf ==
    ASSUME NEW T \in SUBSET Nat, T # {}
    PROVE  \E x \in T : \A y \in T : x <= y
<1>1. IsWellFoundedOn(OpToRel(<, Nat), Nat)
  BY NatLessThanWellFounded
<1>2. PICK x \in T : \A y \in T : ~(<<y, x>> \in OpToRel(<, Nat))
  BY <1>1, WFMin
<1>3. \A y \in T : ~(y < x)
  BY <1>2 DEF OpToRel
<1> QED
  BY <1>3

(* What holds of a number when it holds of all below it holds up to L. *)
LEMMA UpTo ==
    ASSUME NEW L \in Nat, NEW Good,
           \A n \in 0..L : (\A k \in 0..(n - 1) : k \in Good) => n \in Good
    PROVE  \A n \in 0..L : n \in Good
<1>1. PICK Bad : Bad = {n \in 0..L : n \notin Good}
  OBVIOUS
<1>2. SUFFICES ASSUME Bad # {}
               PROVE  FALSE
  BY <1>1
<1>3. Bad \in SUBSET Nat
  BY <1>1
<1>4. PICK n \in Bad : \A k \in Bad : n <= k
  BY <1>2, <1>3, LeastOf
<1>5. \A k \in 0..(n - 1) : k \in 0..L /\ ~(n <= k)
  BY <1>1
<1>6. \A k \in 0..(n - 1) : k \in Good
  BY <1>1, <1>4, <1>5
<1> QED
  BY <1>1, <1>6

-----------------------------------------------------------------------------
(* Sum8 by halves is the sum that the code computes, octet after octet.    *)

IsSums(s, sum) == sum = [n \in 0..Len(s) |-> HalfSums(s, sum, n)]

Total(s, t, k) == IF k = 0 THEN 0 ELSE (t[k - 1] + s[k]) % 256

IsTotals(s, t) == t = [k \in 0..Len(s) |-> Total(s, t, k)]

LEMMA Halving ==
    ASSUME NEW n \in Nat, n # 0, n # 1
    PROVE  /\ n \div 2 \in 0..(n - 1) /\ n - n \div 2 \in 0..(n - 1)
           /\ n \div 2 + (n - n \div 2) = n
  OBVIOUS

LEMMA SumsExist ==
    ASSUME NEW s \in Seq(Octet)
    PROVE  \E sum : IsSums(s, sum)
<1> DEFINE Part(m, g) == g = [n \in 0..m |-> HalfSums(s, g, n)]
<1>1. PICK L \in Nat : L = Len(s)
  OBVIOUS
<1>2. PICK Good : Good = {m \in 0..L : \E g : Part(m, g)}
  OBVIOUS
<1>3. ASSUME NEW m \in 0..L, \A k \in 0..(m - 1) : k \in Good
      PROVE  m \in Good
  <2>1. CASE m = 0
    <3>1. PICK g : g = [n \in 0..0 |-> [i \in Nat |-> 0]]
      OBVIOUS
    <3>2. \A n \in 0..0 : HalfSums(s, g, n) = g[n]
      BY <3>1 DEF HalfSums
    <3>3. Part(0, g)
      BY <3>1, <3>2
    <3> QED
      BY <1>2, <2>1, <3>3
  <2>2. CASE m # 0
    <3>1. m - 1 \in Good
      BY <1>3, <2>2
    <3>2. PICK g : Part(m - 1, g)
      BY <1>2, <3>1
    <3>3. PICK h : h = [n \in 0..m |-> HalfSums(s, g, n)]
      OBVIOUS
    <3>4. \A n \in 0..(m - 1) : h[n] = g[n]
      BY <3>2, <3>3
    <3>5. ASSUME NEW n \in 0..m
          PROVE  HalfSums(s, h, n) = HalfSums(s, g, n)
      <4>1. CASE n = 0 \/ n = 1
        BY <4>1 DEF HalfSums
      <4>2. CASE n # 0 /\ n # 1
        <5>1. n \div 2 \in 0..(m - 1) /\ n - n \div 2 \in 0..(m - 1)
          BY <4>2, Halving
        <5>2. PICK p \in 0..(m - 1), q \in 0..(m - 1) : p = n \div 2 /\ q = n - n \div 2
          BY <5>1
        <5>3. h[p] = g[p] /\ h[q] = g[q]
          BY <3>4
        <5> QED
          BY <5>2, <5>3 DEF HalfSums
      <4> QED
        BY <4>1, <4>2
    <3>6. Part(m, h)
      BY <3>3, <3>5
    <3> QED
      BY <1>2, <3>6
  <2> QED
    BY <2>1, <2>2
<1>4. L \in Good
  BY <1>3, UpTo
<1> QED
  BY <1>1, <1>2, <1>4 DEF IsSums

LEMMA TotalsExist ==
    ASSUME NEW s \in Seq(Octet)
    PROVE  \E t : IsTotals(s, t)
<1> DEFINE Part(m, g) == g = [k \in 0..m |-> Total(s, g, k)]
<1>1. PICK L \in Nat : L = Len(s)
  OBVIOUS
<1>2. PICK Good : Good = {m \in 0..L : \E g : Part(m, g)}
  OBVIOUS
<1>3. ASSUME NEW m \in 0..L, \A k \in 0..(m - 1) : k \in Good
      PROVE  m \in Good
  <2>1. CASE m = 0
    <3>1. PICK g : g = [k \in 0..0 |-> 0]
      OBVIOUS
    <3>2. \A k \in 0..0 : Total(s, g, k) = g[k]
      BY <3>1 DEF Total
    <3>3. Part(0, g)
      BY <3>1, <3>2
    <3> QED
      BY <1>2, <2>1, <3>3
  <2>2. CASE m # 0
    <3>1. m - 1 \in Good
      BY <1>3, <2>2
    <3>2. PICK g : Part(m - 1, g)
      BY <1>2, <3>1
    <3>3. PICK h : h = [k \in 0..m |-> Total(s, g, k)]
      OBVIOUS
    <3>4. ASSUME NEW k \in 0..(m - 1)
          PROVE  h[k] = g[k]
      <4>1. g[k] = Total(s, g, k)
        BY <3>2
      <4>2. k \in 0..m
        OBVIOUS
      <4>3. h[k] = Total(s, g, k)
        BY <3>3, <4>2
      <4> QED
        BY <4>1, <4>3
    <3>5. \A k \in 0..m : k = 0 \/ k - 1 \in 0..(m - 1)
      OBVIOUS
    <3>6. \A k \in 0..m : Total(s, h, k) = Total(s, g, k)
      BY <3>4, <3>5 DEF Total
    <3>7. Part(m, h)
      BY <3>3, <3>6
    <3> QED
      BY <1>2, <3>7
  <2> QED
    BY <2>1, <2>2
<1>4. L \in Good
  BY <1>3, UpTo
<1> QED
  BY <1>1, <1>2, <1>4 DEF IsTotals

LEMMA TotalStep ==
    ASSUME NEW s \in Seq(Octet), NEW t, IsTotals(s, t)
    PROVE  /\ t[0] = 0
           /\ \A k \in 0..Len(s) : t[k] \in Octet
           /\ \A k \in 1..Len(s) : t[k] = (t[k - 1] + s[k]) % 256
<1>1. PICK L \in Nat : L = Len(s)
  OBVIOUS
<1>2. t[0] = 0
  BY <1>1 DEF IsTotals, Total
<1>3. ASSUME NEW k \in 1..L
      PROVE  k \in 0..L /\ k - 1 \in 0..L /\ t[k] = (t[k - 1] + s[k]) % 256
  BY <1>1 DEF IsTotals, Total
<1>4. PICK Good : Good = {k \in 0..L : t[k] \in Octet}
  OBVIOUS
<1>5. ASSUME NEW k \in 0..L, \A j \in 0..(k - 1) : j \in Good
      PROVE  k \in Good
  <2>1. CASE k = 0
    BY <1>2, <1>4, <2>1 DEF Octet
  <2>2. CASE k # 0
    <3>1. k \in 1..L /\ k - 1 \in 0..(k - 1)
      BY <2>2
    <3>2. s[k] \in Octet /\ t[k - 1] \in Octet
      BY <1>1, <1>4, <1>5, <3>1
    <3>3. PICK x \in Octet, y \in Octet : x = t[k - 1] /\ y = s[k]
      BY <3>2
    <3>4. (x + y) % 256 \in Octet
      BY DEF Octet
    <3> QED
      BY <1>3, <1>4, <3>1, <3>3, <3>4
  <2> QED
    BY <2>1, <2>2
<1>6. \A k \in 0..L : k \in Good
  BY <1>5, UpTo
<1> QED
  BY <1>1, <1>2, <1>3, <1>4, <1>6

(* The sum that the halves give is the one the code adds up.              *)
LEMMA SumIsTotal ==
    ASSUME NEW s \in Seq(Octet), NEW t, IsTotals(s, t)
    PROVE  Sum8(s) = t[Len(s)] /\ Sum8(s) \in Octet
<1>1. PICK L \in Nat : L = Len(s)
  OBVIOUS
<1>2. /\ t[0] = 0
      /\ \A k \in 0..L : t[k] \in Octet
      /\ \A k \in 1..L : t[k] = (t[k - 1] + s[k]) % 256
  BY <1>1, TotalStep
<1>3. PICK sum : IsSums(s, sum) /\ Sum8(s) = sum[L][0]
  BY <1>1, SumsExist DEF Sum8, IsSums
<1>4. \A n \in 0..L, i \in Nat :
          sum[n][i] = IF n = 0 THEN 0
                      ELSE IF n = 1 THEN s[i + 1]
                      ELSE (sum[n \div 2][i] + sum[n - n \div 2][i + n \div 2]) % 256
  <2>1. ASSUME NEW n \in 0..L, NEW i \in Nat
        PROVE  sum[n][i] = HalfSums(s, sum, n)[i]
    BY <1>1, <1>3 DEF IsSums
  <2>2. ASSUME NEW n \in 0..L, NEW i \in Nat
        PROVE  HalfSums(s, sum, n)[i] =
                   IF n = 0 THEN 0
                   ELSE IF n = 1 THEN s[i + 1]
                   ELSE (sum[n \div 2][i] + sum[n - n \div 2][i + n \div 2]) % 256
    BY DEF HalfSums
  <2> QED
    BY <2>1, <2>2
<1> DEFINE Gap(n, i) == (t[i + n] + 256 - t[i]) % 256
<1>5. PICK Good : Good = {n \in 0..L : \A i \in 0..(L - n) : sum[n][i] = Gap(n, i)}
  OBVIOUS
<1>6. ASSUME NEW n \in 0..L, \A k \in 0..(n - 1) : k \in Good
      PROVE  n \in Good
  <2>1. SUFFICES ASSUME NEW i \in 0..(L - n)
                 PROVE  sum[n][i] = Gap(n, i)
    BY <1>5
  <2>2. i \in Nat /\ i \in 0..L /\ i + n \in 0..L
    BY <1>1
  <2>3. PICK a \in Octet, c \in Octet : a = t[i] /\ c = t[i + n]
    BY <1>2, <2>2
  <2>4. CASE n = 0
    <3>1. a = c /\ (a + 256 - a) % 256 = 0
      BY <2>2, <2>3, <2>4 DEF Octet
    <3> QED
      BY <1>4, <2>2, <2>3, <2>4, <3>1
  <2>5. CASE n = 1
    <3>1. i + 1 \in 1..L /\ i + 1 - 1 = i
      BY <2>2, <2>5
    <3>2. PICK x \in Octet : x = s[i + 1]
      BY <1>1, <3>1
    <3>3. c = (a + x) % 256
      BY <1>2, <2>3, <2>5, <3>1, <3>2
    <3>4. (c + 256 - a) % 256 = x
      BY <3>3 DEF Octet
    <3> QED
      BY <1>4, <2>2, <2>3, <2>5, <3>2, <3>4
  <2>6. CASE n # 0 /\ n # 1
    <3>1. PICK p \in 0..(n - 1), q \in 0..(n - 1) :
              p = n \div 2 /\ q = n - n \div 2 /\ p + q = n
      BY <2>6, Halving
    <3>2. i \in 0..(L - p) /\ i + p \in 0..(L - q) /\ i + p \in 0..L /\ i + p + q = i + n
      BY <2>2, <3>1
    <3>3. PICK b \in Octet : b = t[i + p]
      BY <1>2, <3>2
    <3>4. p \in Good /\ q \in Good
      BY <1>6
    <3>5. sum[p][i] = (b + 256 - a) % 256
      BY <1>5, <2>3, <3>2, <3>3, <3>4
    <3>6. sum[q][i + p] = (c + 256 - b) % 256
      <4>1. PICK j \in 0..(L - q) : j = i + p
        BY <3>2
      <4>2. j + q = i + n
        BY <3>2, <4>1
      <4>3. sum[q][j] = Gap(q, j)
        BY <1>5, <3>4
      <4> QED
        BY <2>3, <3>3, <4>1, <4>2, <4>3
    <3>7. (((b + 256 - a) % 256) + ((c + 256 - b) % 256)) % 256 = (c + 256 - a) % 256
      BY DEF Octet
    <3>8. sum[n][i] = (sum[p][i] + sum[q][i + p]) % 256
      BY <1>4, <2>2, <2>6, <3>1
    <3> QED
      BY <2>3, <3>5, <3>6, <3>7, <3>8
  <2> QED
    BY <2>4, <2>5, <2>6
<1>7. L \in Good
  BY <1>6, UpTo
<1>8. sum[L][0] = Gap(L, 0)
  BY <1>5, <1>7
<1>9. PICK a \in Octet : a = t[L]
  BY <1>2
<1>10. (a + 256 - 0) % 256 = a
  BY DEF Octet
<1>11. L + 0 = L /\ 0 + L = L
  OBVIOUS
<1> QED
  BY <1>1, <1>2, <1>3, <1>8, <1>9, <1>10, <1>11

(* A change of one octet changes the sum by as much.                       *)
LEMMA SumOfChanged ==
    ASSUME NEW s \in Seq(Octet), NEW p \in 1..Len(s), NEW b \in Octet
    PROVE  /\ [s EXCEPT ![p] = b] \in Seq(Octet)
           /\ Sum8(s) \in Octet
           /\ Sum8([s EXCEPT ![p] = b]) = (Sum8(s) + 256 + b - s[p]) % 256
<1>1. PICK L \in Nat : L = Len(s)
  OBVIOUS
<1>2. PICK z : z = [s EXCEPT ![p] = b]
  OBVIOUS
<1>3. z \in Seq(Octet) /\ Len(z) = L
  BY <1>1, <1>2
<1>4. PICK t : IsTotals(s, t)
  BY TotalsExist
<1>5. PICK u : IsTotals(z, u)
  BY <1>3, TotalsExist
<1>6. /\ t[0] = 0
      /\ \A k \in 0..L : t[k] \in Octet
      /\ \A k \in 1..L : t[k] = (t[k - 1] + s[k]) % 256
  BY <1>1, <1>4, TotalStep
<1>7. /\ u[0] = 0
      /\ \A k \in 0..L : u[k] \in Octet
      /\ \A k \in 1..L : u[k] = (u[k - 1] + z[k]) % 256
  <2>1. /\ u[0] = 0
        /\ \A k \in 0..Len(z) : u[k] \in Octet
        /\ \A k \in 1..Len(z) : u[k] = (u[k - 1] + z[k]) % 256
    BY SMTT(30), <1>3, <1>5, TotalStep
  <2> QED
    BY <1>3, <2>1
<1>8. PICK a \in Octet : a = s[p]
  BY <1>1
<1> DEFINE Moved(k) == IF k < p THEN t[k] ELSE (t[k] + 256 + b - a) % 256
<1>9. PICK Good : Good = {k \in 0..L : u[k] = Moved(k)}
  OBVIOUS
<1>10. ASSUME NEW k \in 0..L, \A j \in 0..(k - 1) : j \in Good
       PROVE  k \in Good
  <2>1. CASE k = 0
    BY <1>6, <1>7, <1>9, <2>1
  <2>2. CASE k # 0
    <3>1. k \in 1..L /\ k - 1 \in 0..(k - 1) /\ k - 1 \in 0..L
      BY <2>2
    <3>2. PICK x \in Octet, v \in Octet : x = t[k - 1] /\ v = u[k - 1]
      BY <1>6, <1>7, <3>1
    <3>3. v = IF k - 1 < p THEN x ELSE (x + 256 + b - a) % 256
      BY <1>9, <1>10, <3>1, <3>2
    <3>4. PICK c \in Octet : c = s[k]
      BY <1>1, <3>1
    <3>5. t[k] = (x + c) % 256
      BY <1>6, <3>1, <3>2, <3>4
    <3>6. u[k] = (v + z[k]) % 256
      BY <1>7, <3>1, <3>2
    <3>7. CASE k < p
      <4>1. z[k] = c
        BY <1>1, <1>2, <3>1, <3>4, <3>7
      <4>2. u[k] = (x + c) % 256
        BY <3>3, <3>6, <3>7, <4>1
      <4> QED
        BY <1>9, <3>5, <3>7, <4>2
    <3>8. CASE k = p
      <4>1. z[k] = b /\ c = a
        BY <1>1, <1>2, <1>8, <3>1, <3>4, <3>8
      <4>2. u[k] = (x + b) % 256
        BY <3>3, <3>6, <3>8, <4>1
      <4>3. (x + b) % 256 = (((x + a) % 256) + 256 + b - a) % 256
        BY DEF Octet
      <4> QED
        BY <1>9, <3>5, <3>8, <4>1, <4>2, <4>3
    <3>9. CASE k > p
      <4>1. z[k] = c
        BY <1>1, <1>2, <3>1, <3>4, <3>9
      <4>2. v = (x + 256 + b - a) % 256
        BY <3>3, <3>9
      <4>3. u[k] = (v + c) % 256
        BY <3>6, <4>1
      <4>4. (((x + 256 + b - a) % 256) + c) % 256 = (((x + c) % 256) + 256 + b - a) % 256
        BY DEF Octet
      <4> QED
        BY <1>9, <3>5, <3>9, <4>2, <4>3, <4>4
    <3> QED
      BY <3>7, <3>8, <3>9
  <2> QED
    BY <2>1, <2>2
<1>11. L \in Good
  <2> HIDE DEF Moved
  <2>1. \A k \in 0..L : k \in Good
    BY <1>10, UpTo
  <2> QED
    BY <2>1
<1>12. u[L] = (t[L] + 256 + b - a) % 256
  BY <1>1, <1>9, <1>11
<1>13. Sum8(s) = t[L] /\ Sum8(s) \in Octet
  BY <1>1, <1>4, SumIsTotal
<1>14. Sum8(z) = u[L]
  BY <1>3, <1>5, SumIsTotal
<1> QED
  BY <1>2, <1>3, <1>8, <1>12, <1>13, <1>14

(* The check code makes up for the sum, and for no other sum.              *)
LEMMA CodeMakesZero ==
    ASSUME NEW s \in Seq(Octet), NEW x \in Octet
    PROVE  /\ Sum8(s) \in Octet /\ CheckCode(s) \in Octet
           /\ (CheckCode(s) + x) % 256 = 0 <=> x = Sum8(s)
<1>1. PICK t : IsTotals(s, t)
  BY TotalsExist
<1>2. PICK y \in Octet : y = Sum8(s)
  BY <1>1, SumIsTotal
<1>3. PICK c \in Octet : c = (255 - y + 1) % 256 /\ c = IF y = 0 THEN 0 ELSE 256 - y
  BY DEF Octet
<1>4. CASE y = 0
  <2>1. (c + x) % 256 = 0 <=> x = y
    BY <1>3, <1>4 DEF Octet
  <2> QED
    BY <1>2, <1>3, <2>1 DEF CheckCode
<1>5. CASE y # 0
  <2>1. (256 - y + x) % 256 = 0 => x = y
    <3>1. PICK w \in 1..511 : w = 256 - y + x
      BY <1>5 DEF Octet
    <3>2. w % 256 = 0 => w = 256
      OBVIOUS
    <3> QED
      BY <3>1, <3>2 DEF Octet
  <2>2. (256 - y + y) % 256 = 0
    BY DEF Octet
  <2>3. (c + x) % 256 = 0 <=> x = y
    BY <1>3, <1>5, <2>1, <2>2
  <2> QED
    BY <1>2, <1>3, <2>3 DEF CheckCode
<1> QED
  BY <1>4, <1>5

-----------------------------------------------------------------------------
(* The tables: each side's undoes the other side's, both ways.             *)
LEMMA Tables ==
    \A x \in Octet :
        /\ encode_map[x + 1] \in Octet /\ decode_map[x + 1] \in Octet
        /\ decode_map[encode_map[x + 1] + 1] = x
        /\ encode_map[decode_map[x + 1] + 1] = x
<1>1. \A x \in 0..255 : encode_map[x + 1] \in 0..255
  BY SMTT(120) DEF encode_map
<1>2. \A x \in 0..255 : decode_map[x + 1] \in 0..255
  BY SMTT(120) DEF decode_map
<1>3. \A x \in 0..255 : decode_map[encode_map[x + 1] + 1] = x
  BY SMTT(120) DEF encode_map, decode_map
<1>4. \A x \in 0..255 : encode_map[decode_map[x + 1] + 1] = x
  BY SMTT(120) DEF encode_map, decode_map
<1> QED
  BY <1>1, <1>2, <1>3, <1>4 DEF Octet

LEMMA SameTables == SendByteMap = encode_map /\ RecvByteMap = decode_map
  BY DEF SendByteMap, RecvByteMap, encode_map, decode_map

-----------------------------------------------------------------------------
(* Packets: what the octets of one are.                                    *)

(* P has the header of a packet with n octets behind it. *)
Header(P, cmd, n) ==
    /\ P \in Seq(Octet) /\ Len(P) = 9 + n
    /\ 256 * P[1] + P[2] = 7 + n
    /\ P[3] = 66 /\ P[4] = 89
    /\ 256 * P[7] + P[8] = cmd

IsPacket(P, cmd, body) ==
    /\ Header(P, cmd, Len(body))
    /\ P[9] = CheckCode(body)
    /\ \A i \in 1..Len(body) : P[9 + i] = encode_map[body[i] + 1]

(* htons splits 16 bits. *)
LEMMA Shorts ==
    ASSUME NEW n \in Nat, n < 65536
    PROVE  /\ htons(n) \in Seq(Octet) /\ Len(htons(n)) = 2
           /\ htons(n)[1] \in Octet /\ htons(n)[2] \in Octet
           /\ 256 * htons(n)[1] + htons(n)[2] = n
<1>1. PICK a \in Nat, b \in Nat : a = (n \div 256) % 256 /\ b = n % 256
  OBVIOUS
<1>2. a \in 0..255 /\ b \in 0..255 /\ 256 * a + b = n
  BY <1>1
<1>3. htons(n) = <<a, b>>
  BY <1>1 DEF htons
<1> QED
  BY <1>2, <1>3 DEF Octet

(* One sequence, of k octets, before another, of l. *)
Cat(s, t) == s \o t

Joins(q, s, k, t, l) ==
    /\ Len(q) = k + l
    /\ \A i \in 1..(k + l) : q[i] = IF i <= k THEN s[i] ELSE t[i - k]

LEMMA Joined ==
    ASSUME NEW s \in Seq(Octet), NEW t \in Seq(Octet)
    PROVE  Cat(s, t) \in Seq(Octet) /\ Joins(Cat(s, t), s, Len(s), t, Len(t))
  BY ConcatProperties DEF Cat, Joins

(* A header, and a body behind it. *)
LaidOut(h, v, c, k, m, cmd, n) ==
    \E P : /\ P = Cat(Cat(Cat(Cat(h, v), c), k), m) /\ Header(P, cmd, n)
           /\ P[9] = k[1] /\ \A i \in 1..n : P[9 + i] = m[i]

LEMMA Layout ==
    ASSUME NEW h \in Seq(Octet), Len(h) = 2, NEW v \in Seq(Octet), Len(v) = 4,
           NEW c \in Seq(Octet), Len(c) = 2, NEW k \in Seq(Octet), Len(k) = 1,
           NEW m \in Seq(Octet), NEW n \in Nat, Len(m) = n,
           NEW cmd, 256 * h[1] + h[2] = 7 + n, v[1] = 66, v[2] = 89,
           256 * c[1] + c[2] = cmd
    PROVE  LaidOut(h, v, c, k, m, cmd, n)
<1>1. PICK p \in Seq(Octet) : p = Cat(h, v) /\ Joins(p, h, 2, v, 4)
  <2>1. Cat(h, v) \in Seq(Octet) /\ Joins(Cat(h, v), h, Len(h), v, Len(v))
    BY Joined
  <2> QED
    BY <2>1
<1>2. Len(p) = 6 /\ p[1] = h[1] /\ p[2] = h[2] /\ p[3] = 66 /\ p[4] = 89
  <2>1. Len(p) = 6 /\ \A i \in 1..6 : p[i] = IF i <= 2 THEN h[i] ELSE v[i - 2]
    BY <1>1 DEF Joins
  <2> QED
    BY <2>1
<1>3. PICK q \in Seq(Octet) : q = Cat(p, c) /\ Joins(q, p, 6, c, 2)
  <2>1. Cat(p, c) \in Seq(Octet) /\ Joins(Cat(p, c), p, Len(p), c, Len(c))
    BY Joined
  <2> QED
    BY <1>2, <2>1
<1>4. /\ Len(q) = 8
      /\ q[1] = h[1] /\ q[2] = h[2] /\ q[3] = 66 /\ q[4] = 89
      /\ q[7] = c[1] /\ q[8] = c[2]
  <2>1. Len(q) = 8 /\ \A i \in 1..8 : q[i] = IF i <= 6 THEN p[i] ELSE c[i - 6]
    BY <1>3 DEF Joins
  <2> QED
    BY <1>2, <2>1
<1>5. PICK e \in Seq(Octet) : e = Cat(q, k) /\ Joins(e, q, 8, k, 1)
  <2>1. Cat(q, k) \in Seq(Octet) /\ Joins(Cat(q, k), q, Len(q), k, Len(k))
    BY Joined
  <2> QED
    BY <1>4, <2>1
<1>6. /\ Len(e) = 9
      /\ e[1] = h[1] /\ e[2] = h[2] /\ e[3] = 66 /\ e[4] = 89
      /\ e[7] = c[1] /\ e[8] = c[2] /\ e[9] = k[1]
  <2>1. Len(e) = 9 /\ \A i \in 1..9 : e[i] = IF i <= 8 THEN q[i] ELSE k[i - 8]
    BY <1>5 DEF Joins
  <2> QED
    BY <1>4, <2>1
<1>7. PICK P \in Seq(Octet) : P = Cat(e, m) /\ Joins(P, e, 9, m, n)
  <2>1. Cat(e, m) \in Seq(Octet) /\ Joins(Cat(e, m), e, Len(e), m, Len(m))
    BY Joined
  <2> QED
    BY <1>6, <2>1
<1>8. Len(P) = 9 + n /\ \A i \in 1..(9 + n) : P[i] = IF i <= 9 THEN e[i] ELSE m[i - 9]
  BY <1>7 DEF Joins
<1>9. ASSUME NEW i \in 1..9
      PROVE  P[i] = e[i]
  <2>1. i \in 1..(9 + n) /\ i <= 9
    OBVIOUS
  <2> QED
    BY <1>8, <2>1
<1>10. ASSUME NEW i \in 1..n
       PROVE  P[9 + i] = m[i]
  <2>1. 9 + i \in 1..(9 + n) /\ ~(9 + i <= 9) /\ 9 + i - 9 = i
    OBVIOUS
  <2> QED
    BY <1>8, <2>1
<1>11. Header(P, cmd, n) /\ P[9] = k[1]
  <2>1. /\ P[1] = e[1] /\ P[2] = e[2] /\ P[3] = e[3] /\ P[4] = e[4]
        /\ P[7] = e[7] /\ P[8] = e[8] /\ P[9] = e[9]
    BY <1>9
  <2>2. 256 * P[1] + P[2] = 7 + n /\ 256 * P[7] + P[8] = cmd
    BY <1>6, <2>1
  <2> QED
    BY <1>6, <1>8, <2>1, <2>2 DEF Header
<1>12. P = Cat(Cat(Cat(Cat(h, v), c), k), m)
  BY <1>1, <1>3, <1>5, <1>7
<1> QED
  BY <1>10, <1>11, <1>12 DEF LaidOut

LEMMA Framing ==
    ASSUME NEW cmd \in Nat, cmd < 65536, NEW body \in Seq(Octet), Len(body) <= 32768
    PROVE  IsPacket(Encoded(cmd, body), cmd, body)
<1>1. PICK n \in Nat : n = Len(body) /\ n <= 32768
  OBVIOUS
<1>2. 9 + n - 2 = 7 + n /\ 7 + n \in Nat /\ 7 + n < 65536
  BY <1>1
<1>3. /\ htons(7 + n) \in Seq(Octet) /\ Len(htons(7 + n)) = 2
      /\ 256 * htons(7 + n)[1] + htons(7 + n)[2] = 7 + n
  BY <1>2, Shorts
<1>4. /\ htons(cmd) \in Seq(Octet) /\ Len(htons(cmd)) = 2
      /\ 256 * htons(cmd)[1] + htons(cmd)[2] = cmd
  BY Shorts
<1> DEFINE v == <<66, 89, 1, 1>>
           k == <<CheckCode(body)>>
           m == [i \in 1..n |-> encode_map[body[i] + 1]]
<1>5. v \in Seq(Octet) /\ Len(v) = 4 /\ v[1] = 66 /\ v[2] = 89
  BY DEF Octet
<1>6. k \in Seq(Octet) /\ Len(k) = 1 /\ k[1] = CheckCode(body)
  <2>1. 0 \in Octet
    BY DEF Octet
  <2>2. CheckCode(body) \in Octet
    BY <2>1, CodeMakesZero
  <2> QED
    BY <2>2
<1>7. m \in Seq(Octet) /\ Len(m) = n /\ \A i \in 1..n : m[i] = encode_map[body[i] + 1]
  <2>1. \A i \in 1..n : encode_map[body[i] + 1] \in Octet
    BY <1>1, Tables
  <2> QED
    BY <2>1
<1>8. Encoded(cmd, body) = Cat(Cat(Cat(Cat(htons(7 + n), v), htons(cmd)), k), m)
  <2>1. DOMAIN body = 1..n
    BY <1>1
  <2>2. 9 + Len(body) - 2 = 7 + n
    BY <1>1, <1>2
  <2>3. Encoded(cmd, body) =
            Cat(Cat(Cat(Cat(htons(9 + Len(body) - 2), <<66, 89, 1, 1>>), htons(cmd)),
                    <<CheckCode(body)>>),
                [i \in DOMAIN body |-> encode_map[body[i] + 1]])
    BY SMTT(30) DEF Encoded, Cat
  <2>4. [i \in DOMAIN body |-> encode_map[body[i] + 1]] = m
    BY <2>1
  <2>5. htons(9 + Len(body) - 2) = htons(7 + n)
    BY <2>2
  <2> HIDE DEF m
  <2> QED
    BY <2>3, <2>4, <2>5
<1> HIDE DEF v, k, m
<1>9. LaidOut(htons(7 + n), v, htons(cmd), k, m, cmd, n)
  <2>1. PICK h : h = htons(7 + n) /\ h \in Seq(Octet) /\ Len(h) = 2
                 /\ 256 * h[1] + h[2] = 7 + n
    BY <1>3
  <2>2. PICK c : c = htons(cmd) /\ c \in Seq(Octet) /\ Len(c) = 2
                 /\ 256 * c[1] + c[2] = cmd
    BY <1>4
  <2>3. m \in Seq(Octet) /\ Len(m) = n /\ n \in Nat
    BY <1>1, <1>7
  <2>4. LaidOut(h, v, c, k, m, cmd, n)
    BY ONLY <1>5, <1>6, <2>1, <2>2, <2>3, Layout
  <2> QED
    BY <2>1, <2>2, <2>4
<1>10. PICK P : /\ P = Encoded(cmd, body) /\ Header(P, cmd, n)
                /\ P[9] = k[1] /\ \A i \in 1..n : P[9 + i] = m[i]
  BY <1>8, <1>9 DEF LaidOut
<1>11. P[9] = CheckCode(body)
  BY <1>6, <1>10
<1>12. \A i \in 1..n : P[9 + i] = encode_map[body[i] + 1]
  BY <1>7, <1>10
<1> QED
  BY <1>1, <1>10, <1>11, <1>12 DEF IsPacket

(* The reply is framed alike. *)
LEMMA SameFrame ==
    ASSUME NEW cmd, NEW body
    PROVE  EncryptBuffer(cmd, body) = Encoded(cmd, body)
  BY SameTables DEF EncryptBuffer, Encoded, HeaderSize

(* What decode makes of the octets behind a header. *)
LEMMA BodyIs ==
    ASSUME NEW P \in Seq(Octet), NEW n \in Nat, Len(P) = 9 + n
    PROVE  /\ Body(P) \in Seq(Octet) /\ Len(Body(P)) = n
           /\ \A i \in 1..n : Body(P)[i] = decode_map[P[9 + i] + 1]
<1>1. \A i \in 1..n : 9 + i \in 1..Len(P)
  OBVIOUS
<1>2. \A i \in 1..n : decode_map[P[9 + i] + 1] \in Octet
  BY <1>1, Tables
<1>3. Len(P) - 9 = n
  OBVIOUS
<1>4. Body(P) = [i \in 1..n |-> decode_map[P[9 + i] + 1]]
  BY <1>3 DEF Body
<1> QED
  BY <1>2, <1>4

(* What one side writes into a packet is what the other reads from it. *)
LEMMA BodyBack ==
    ASSUME NEW cmd, NEW body \in Seq(Octet), NEW P, IsPacket(P, cmd, body)
    PROVE  Body(P) = body /\ Decode(P) = Len(body)
<1>1. PICK n \in Nat : n = Len(body)
  OBVIOUS
<1>2. P \in Seq(Octet) /\ Len(P) = 9 + n /\ Len(P) - 9 = n
  BY <1>1 DEF IsPacket, Header
<1>3. Body(P) \in Seq(Octet) /\ Len(Body(P)) = n
  BY <1>2, BodyIs
<1>4. ASSUME NEW i \in 1..n
      PROVE  Body(P)[i] = body[i]
  <2>1. Body(P)[i] = decode_map[P[9 + i] + 1]
    BY <1>2, BodyIs
  <2>2. P[9 + i] = encode_map[body[i] + 1]
    BY <1>1 DEF IsPacket
  <2>3. body[i] \in Octet
    BY <1>1
  <2> QED
    BY <2>1, <2>2, <2>3, Tables
<1>5. Body(P) = body
  BY <1>1, <1>3, <1>4, SeqEqual
<1>6. PICK x \in Octet : x = Sum8(body)
  <2>1. 0 \in Octet
    BY DEF Octet
  <2> QED
    BY <2>1, CodeMakesZero
<1>7. (CheckCode(body) + x) % 256 = 0
  BY <1>6, CodeMakesZero
<1>8. P[9] = CheckCode(body)
  BY DEF IsPacket
<1> QED
  BY <1>1, <1>2, <1>5, <1>6, <1>7, <1>8 DEF Decode

-----------------------------------------------------------------------------
(* Damage.                                                                 *)

(* The code of a packet fits its body. *)
Fits(P) == (P[9] + Sum8(Body(P))) % 256 = 0

LEMMA FitsIsDecoded ==
    ASSUME NEW cmd, NEW n \in Nat, NEW P, Header(P, cmd, n)
    PROVE  Decode(P) = IF Fits(P) THEN n ELSE -1
<1>1. Len(P) - 9 = n
  BY DEF Header
<1> QED
  BY <1>1 DEF Decode, Fits

(* The bodies of P and Q differ in the j-th octet. *)
DifferAt(P, Q, j) ==
    \E x \in Octet : Body(Q) = [Body(P) EXCEPT ![j] = x] /\ x # Body(P)[j]

(* A change of one octet is a change of the clear octet behind it. *)
LEMMA DamagedBody ==
    ASSUME NEW cmd, NEW n \in Nat, NEW P, Header(P, cmd, n),
           NEW j \in 1..n, NEW d \in 1..255
    PROVE  /\ Header(Damaged(P, 9 + j, d), cmd, n)
           /\ Damaged(P, 9 + j, d)[9] = P[9]
           /\ DifferAt(P, Damaged(P, 9 + j, d), j)
<1>1. PICK Q : Q = Damaged(P, 9 + j, d)
  OBVIOUS
<1>2. P \in Seq(Octet) /\ Len(P) = 9 + n /\ 9 + j \in 1..Len(P) /\ P[9 + j] \in Octet
  BY DEF Header
<1>3. PICK y \in Octet : y = (P[9 + j] + d) % 256 /\ y # P[9 + j]
  <2>1. PICK o \in Octet : o = P[9 + j]
    BY <1>2
  <2>2. o \in 0..255 /\ o + d \in 0..510
    BY DEF Octet
  <2>3. (o + d) % 256 = IF o + d < 256 THEN o + d ELSE o + d - 256
    BY <2>2
  <2>4. (o + d) % 256 \in 0..255 /\ (o + d) % 256 # o
    BY <2>2, <2>3
  <2> QED
    BY <2>1, <2>4 DEF Octet
<1>4. Q = [P EXCEPT ![9 + j] = y]
  BY <1>1, <1>3 DEF Damaged
<1>5. /\ Q \in Seq(Octet) /\ Len(Q) = 9 + n
      /\ \A i \in 1..(9 + n) : Q[i] = IF i = 9 + j THEN y ELSE P[i]
  BY <1>2, <1>4, ExceptSeq
<1>6. \A i \in 1..9 : Q[i] = P[i]
  <2>1. \A i \in 1..9 : i \in 1..(9 + n) /\ i # 9 + j
    OBVIOUS
  <2> QED
    BY <1>5, <2>1
<1>7. Header(Q, cmd, n)
  <2>1. /\ Q[1] = P[1] /\ Q[2] = P[2] /\ Q[3] = P[3] /\ Q[4] = P[4]
        /\ Q[7] = P[7] /\ Q[8] = P[8]
    BY <1>6
  <2> QED
    BY <1>5, <2>1 DEF Header
<1>8. PICK b : b = Body(P) /\ b \in Seq(Octet) /\ Len(b) = n
               /\ \A i \in 1..n : b[i] = decode_map[P[9 + i] + 1]
  <2>1. /\ Body(P) \in Seq(Octet) /\ Len(Body(P)) = n
        /\ \A i \in 1..n : Body(P)[i] = decode_map[P[9 + i] + 1]
    BY <1>2, BodyIs
  <2> QED
    BY <2>1
<1>9. PICK c : c = Body(Q) /\ c \in Seq(Octet) /\ Len(c) = n
               /\ \A i \in 1..n : c[i] = decode_map[Q[9 + i] + 1]
  <2>1. /\ Body(Q) \in Seq(Octet) /\ Len(Body(Q)) = n
        /\ \A i \in 1..n : Body(Q)[i] = decode_map[Q[9 + i] + 1]
    BY <1>5, BodyIs
  <2> QED
    BY <2>1
<1>10. c[j] \in Octet /\ c[j] # b[j]
  <2>1. Q[9 + j] = y
    BY <1>2, <1>5
  <2>2. encode_map[c[j] + 1] = y
    BY <1>9, <2>1, Tables
  <2>3. encode_map[b[j] + 1] = P[9 + j]
    BY <1>2, <1>8, Tables
  <2> QED
    BY <1>3, <1>9, <2>2, <2>3
<1>11. c = [b EXCEPT ![j] = c[j]]
  <2>1. PICK x \in Octet : x = c[j]
    BY <1>10
  <2>2. PICK e : e = [b EXCEPT ![j] = x]
    OBVIOUS
  <2>3. /\ e \in Seq(Octet) /\ Len(e) = n
        /\ \A i \in 1..n : e[i] = IF i = j THEN x ELSE b[i]
    BY <1>8, <2>2, ExceptSeq
  <2>4. ASSUME NEW i \in 1..n, i # j
        PROVE  c[i] = b[i]
    <3>1. 9 + i \in 1..(9 + n) /\ 9 + i # 9 + j
      BY <2>4
    <3>2. Q[9 + i] = P[9 + i]
      BY <1>5, <3>1
    <3> QED
      BY <1>8, <1>9, <3>2
  <2>5. \A i \in 1..Len(c) : c[i] = e[i]
    BY <1>9, <2>1, <2>3, <2>4
  <2>6. c = e
    BY <1>9, <2>3, <2>5, SeqEqual
  <2> QED
    BY <2>1, <2>2, <2>6
<1>12. Q[9] = P[9]
  BY <1>6
<1>13. \E x \in Octet : c = [b EXCEPT ![j] = x] /\ x # b[j]
  BY <1>10, <1>11
<1> QED
  BY <1>1, <1>7, <1>8, <1>9, <1>12, <1>13 DEF DifferAt

(* So the code does not fit any more.                                      *)
LEMMA DamageShows ==
    ASSUME NEW cmd, NEW n \in Nat, NEW P, Header(P, cmd, n), Fits(P),
           NEW j \in 1..n, NEW d \in 1..255
    PROVE  /\ Header(Damaged(P, 9 + j, d), cmd, n)
           /\ ~Fits(Damaged(P, 9 + j, d))
<1>1. PICK Q : Q = Damaged(P, 9 + j, d)
  OBVIOUS
<1>2. /\ Header(Damaged(P, 9 + j, d), cmd, n)
      /\ Damaged(P, 9 + j, d)[9] = P[9]
      /\ DifferAt(P, Damaged(P, 9 + j, d), j)
  BY DamagedBody
<1>3. PICK b : b = Body(P) /\ b \in Seq(Octet) /\ Len(b) = n
  <2>1. P \in Seq(Octet) /\ Len(P) = 9 + n
    BY DEF Header
  <2> QED
    BY <2>1, BodyIs
<1>4. PICK x \in Octet : Body(Q) = [b EXCEPT ![j] = x] /\ x # b[j]
  BY <1>1, <1>2, <1>3 DEF DifferAt
<1>5. b[j] \in Octet /\ j \in 1..Len(b)
  BY <1>3
<1>6. PICK o \in Octet : o = b[j]
  BY <1>5
<1>7. PICK u \in Octet : u = Sum8(b)
  BY <1>3, <1>4, <1>5, SumOfChanged
<1>8. Sum8(Body(Q)) = (u + 256 + x - o) % 256
  <2>1. b \in Seq(Octet) /\ j \in 1..Len(b) /\ x \in Octet
    BY <1>3, <1>4, <1>5
  <2>2. Sum8([b EXCEPT ![j] = x]) = (Sum8(b) + 256 + x - b[j]) % 256
    BY ONLY <2>1, SumOfChanged
  <2> QED
    BY <1>4, <1>6, <1>7, <2>2
<1>9. PICK h \in Octet : h = P[9]
  <2>1. 9 \in 1..Len(P) /\ P \in Seq(Octet)
    BY DEF Header
  <2> QED
    BY <2>1
<1>10. (h + u) % 256 = 0
  BY <1>3, <1>7, <1>9 DEF Fits
<1>11. PICK w \in Octet : w = (u + 256 + x - o) % 256 /\ w # u
  <2>1. PICK z \in 1..766 : z = u + 256 + x - o
    BY DEF Octet
  <2>2. x - o # 0 /\ x - o < 256 /\ x - o > -256
    BY <1>4, <1>6 DEF Octet
  <2>3. z % 256 \in 0..255 /\ \E k \in {0, 1, 2} : z = (256 * k) + (z % 256)
    OBVIOUS
  <2>4. z % 256 # u
    BY <2>1, <2>2, <2>3 DEF Octet
  <2> QED
    BY <2>1, <2>3, <2>4 DEF Octet
<1>12. (h + w) % 256 # 0
  <2> DEFINE Multiple(a) == a % 256 = 0 => a = 0 \/ a = 256
  <2>1. \A a \in 0..510 : Multiple(a)
    OBVIOUS
  <2>2. h + u \in 0..510 /\ h + w \in 0..510
    BY DEF Octet
  <2>3. h + u = 0 \/ h + u = 256
    BY <1>10, <2>1, <2>2
  <2>4. (h + w) % 256 = 0 => h + w = 0 \/ h + w = 256
    BY <2>1, <2>2
  <2> QED
    BY <1>11, <2>3, <2>4 DEF Octet
<1> QED
  BY <1>1, <1>2, <1>8, <1>9, <1>11, <1>12 DEF Fits

-----------------------------------------------------------------------------
(* Numbers of two and four octets, read out of a buffer.                   *)

Number(f, a) == 65536 * (256 * f[a] + f[a + 1]) + (256 * f[a + 2] + f[a + 3])

LEMMA ShortAt ==
    ASSUME NEW m \in Nat, NEW f, \A i \in 1..m : f[i] \in Octet,
           NEW a \in Nat, 1 <= a, a + 1 <= m
    PROVE  ntohs(SubSeq(f, a, a + 1)) = 256 * f[a] + f[a + 1]
<1>1. \A i \in a..(a + 1) : f[i] \in Octet
  OBVIOUS
<1>2. PICK q : q = SubSeq(f, a, a + 1)
  OBVIOUS
<1>3. \A i \in 1..(a + 1 - a + 1) : q[i] = f[a + i - 1]
  BY <1>1, <1>2, SubSeqProperties
<1>4. q[1] = f[a] /\ q[2] = f[a + 1]
  <2>1. a + 1 - a + 1 = 2 /\ a + 1 - 1 = a /\ a + 2 - 1 = a + 1
    OBVIOUS
  <2> QED
    BY <1>3, <2>1
<1> QED
  BY <1>2, <1>4 DEF ntohs

LEMMA LongAt ==
    ASSUME NEW m \in Nat, NEW f, \A i \in 1..m : f[i] \in Octet,
           NEW a \in Nat, 1 <= a, a + 3 <= m
    PROVE  ntohl(SubSeq(f, a, a + 3)) = Number(f, a)
<1>1. \A i \in a..(a + 3) : f[i] \in Octet
  OBVIOUS
<1>2. PICK q : q = SubSeq(f, a, a + 3)
  OBVIOUS
<1>3. \A i \in 1..(a + 3 - a + 1) : q[i] = f[a + i - 1]
  BY <1>1, <1>2, SubSeqProperties
<1>4. q[1] = f[a] /\ q[2] = f[a + 1] /\ q[3] = f[a + 2] /\ q[4] = f[a + 3]
  <2>1. a + 3 - a + 1 = 4 /\ a + 1 - 1 = a /\ a + 2 - 1 = a + 1
        /\ a + 3 - 1 = a + 2 /\ a + 4 - 1 = a + 3
    OBVIOUS
  <2> QED
    BY <1>3, <2>1
<1>5. \A i \in 1..4 : q[i] \in Octet
  BY <1>1, <1>4
<1>6. ntohs(SubSeq(q, 1, 2)) = 256 * q[1] + q[2]
  <2>1. ntohs(SubSeq(q, 1, 1 + 1)) = 256 * q[1] + q[1 + 1]
    BY <1>5, ShortAt
  <2> QED
    BY <2>1
<1>7. ntohs(SubSeq(q, 3, 4)) = 256 * q[3] + q[4]
  <2>1. ntohs(SubSeq(q, 3, 3 + 1)) = 256 * q[3] + q[3 + 1]
    BY <1>5, ShortAt
  <2> QED
    BY <2>1
<1>8. ntohl(q) = 65536 * (256 * q[1] + q[2]) + (256 * q[3] + q[4])
  BY <1>6, <1>7 DEF ntohl
<1> QED
  BY <1>2, <1>4, <1>8 DEF Number

(* htonl splits 32 bits. *)
LEMMA Longs ==
    ASSUME NEW x \in Nat, x < 32768 * 65536
    PROVE  /\ htonl(x) \in Seq(Octet) /\ Len(htonl(x)) = 4
           /\ Number(htonl(x), 1) = x
<1>1. PICK h \in Nat, l \in Nat : h = x \div 65536 /\ l = x % 65536
  OBVIOUS
<1>2. h < 65536 /\ l < 65536 /\ 65536 * h + l = x
  BY <1>1
<1>3. htons(x) = htons(l)
  <2>1. x \div 256 = 256 * h + l \div 256
    BY <1>2
  <2>2. (256 * h + l \div 256) % 256 = (l \div 256) % 256
    BY <1>2
  <2>3. x % 256 = l % 256
    BY <1>2
  <2> QED
    BY <2>1, <2>2, <2>3 DEF htons
<1>4. PICK s \in Seq(Octet) : s = htons(h) /\ Len(s) = 2 /\ s[1] \in Octet /\ s[2] \in Octet
                              /\ 256 * s[1] + s[2] = h
  BY <1>2, Shorts
<1>5. PICK t \in Seq(Octet) : t = htons(l) /\ Len(t) = 2 /\ t[1] \in Octet /\ t[2] \in Octet
                              /\ 256 * t[1] + t[2] = l
  BY <1>2, Shorts
<1>6. htonl(x) = Cat(s, t)
  BY <1>1, <1>3, <1>4, <1>5 DEF htonl, Cat
<1>7. PICK q \in Seq(Octet) : q = Cat(s, t) /\ Joins(q, s, 2, t, 2)
  <2>1. Cat(s, t) \in Seq(Octet) /\ Joins(Cat(s, t), s, Len(s), t, Len(t))
    BY Joined
  <2> QED
    BY <1>4, <1>5, <2>1
<1>8. Len(q) = 4 /\ q[1] = s[1] /\ q[2] = s[2] /\ q[3] = t[1] /\ q[4] = t[2]
  <2>1. Len(q) = 4 /\ \A i \in 1..4 : q[i] = IF i <= 2 THEN s[i] ELSE t[i - 2]
    BY <1>7 DEF Joins
  <2> QED
    BY <2>1
<1>9. 65536 * (256 * s[1] + s[2]) + (256 * t[1] + t[2]) = x
  BY <1>2, <1>4, <1>5
<1>10. Number(q, 1) = x
  <2>1. 1 + 1 = 2 /\ 1 + 2 = 3 /\ 1 + 3 = 4
    OBVIOUS
  <2> QED
    BY <1>8, <1>9, <2>1 DEF Number
<1> QED
  BY <1>6, <1>7, <1>8, <1>10

LEMMA EightOctets ==
    ASSUME NEW u \in [1..8 -> Octet]
    PROVE  u \in Seq(Octet) /\ Len(u) = 8
<1>1. PICK v : v = [i \in 1..8 |-> u[i]]
  OBVIOUS
<1>2. v = u
  BY <1>1
<1>3. v \in Seq(Octet) /\ Len(v) = 8
  BY <1>1
<1> QED
  BY <1>2, <1>3

(* An event id that went out in network order comes back.                  *)
LEMMA SwappedBack ==
    ASSUME NEW u \in [1..8 -> Octet]
    PROVE  /\ htonll(u) \in Seq(Octet) /\ Len(htonll(u)) = 8
           /\ htonll(htonll(u)) = u
<1>1. u \in Seq(Octet) /\ Len(u) = 8
  BY EightOctets
<1>2. PICK w : w = [i \in 1..8 |-> u[8 - i + 1]]
  OBVIOUS
<1>3. htonll(u) = w
  BY <1>1, <1>2 DEF htonll, Reverse
<1>4. w \in [1..8 -> Octet]
  BY <1>2
<1>5. w \in Seq(Octet) /\ Len(w) = 8
  BY <1>4, EightOctets
<1>6. htonll(w) = [i \in 1..8 |-> w[8 - i + 1]]
  BY <1>5 DEF htonll, Reverse
<1>7. \A i \in 1..8 : w[8 - i + 1] = u[i]
  BY <1>2
<1>8. htonll(w) = u
  BY <1>6, <1>7
<1> QED
  BY <1>3, <1>5, <1>8

-----------------------------------------------------------------------------
(* What the server finds in its buffer.                                    *)

(* A packet of z octets in the buffer f, the next read at k.               *)
Reader(f, z, k) == [strBuf |-> f, size |-> z, pos |-> k]

(* The n octets behind the k-th of f are those of s. *)
SameAt(f, k, s, n) == \A i \in 1..n : f[k + i] = s[i]

Filled(f) == \A i \in 1..BufferSize : f[i] \in Octet

(* The buffer holds the octets b behind a header, and zeros behind them.   *)
Clear(f, b) ==
    /\ SameAt(f, 9, b, Len(b)) /\ Filled(f)
    /\ \A i \in (10 + Len(b))..BufferSize : f[i] = 0

LEMMA SameWithin ==
    ASSUME NEW f, NEW k \in Nat, NEW b, NEW m \in Nat, SameAt(f, k, b, m),
           NEW j \in Nat, NEW s, NEW n \in Nat, j + n <= m, SameAt(b, j, s, n)
    PROVE  SameAt(f, k + j, s, n)
<1> SUFFICES ASSUME NEW i \in 1..n
             PROVE  f[k + j + i] = s[i]
  BY DEF SameAt
<1>1. j + i \in 1..m /\ k + (j + i) = k + j + i
  OBVIOUS
<1>2. f[k + (j + i)] = b[j + i]
  BY <1>1 DEF SameAt
<1>3. b[j + i] = s[i]
  BY DEF SameAt
<1> QED
  BY <1>1, <1>2, <1>3

(* The buffer f begins with the n octets of s, and is zero behind them.    *)
Holds(f, s, n) ==
    /\ f \in [1..BufferSize -> Octet]
    /\ \A i \in 1..n : f[i] = s[i]
    /\ \A i \in (n + 1)..BufferSize : f[i] = 0

LEMMA Copied ==
    ASSUME NEW P \in Seq(Octet), NEW n \in Nat, Len(P) = 9 + n,
           BufferSize \in Nat, 9 + n < BufferSize, NEW stack
    PROVE  \E f : /\ Copy(stack, P) = [strBuf |-> f, size |-> 9 + n, pos |-> 9]
                  /\ Holds(f, P, 9 + n)
<1>1. PICK f : f = [i \in 1..BufferSize |->
                       IF i <= Len(P) THEN P[i] ELSE [k \in 1..BufferSize |-> 0][i]]
  OBVIOUS
<1>2. Copy(stack, P) = [strBuf |-> f, size |-> 9 + n, pos |-> 9]
  BY <1>1 DEF Copy, Reset, HeaderSize
<1>3. \A i \in 1..(9 + n) : f[i] = P[i]
  BY <1>1
<1>4. \A i \in (9 + n + 1)..BufferSize : f[i] = 0
  BY <1>1
<1>5. f \in [1..BufferSize -> Octet]
  <2>1. 0 \in Octet
    BY DEF Octet
  <2>2. \A i \in 1..(9 + n) : P[i] \in Octet
    OBVIOUS
  <2>3. \A i \in 1..BufferSize : f[i] \in Octet
    BY <1>3, <1>4, <2>1, <2>2
  <2> QED
    BY <1>1, <2>3
<1>6. Holds(f, P, 9 + n)
  BY <1>3, <1>4, <1>5 DEF Holds
<1> QED
  BY <1>2, <1>6

(* The length and the command are where they were written, and decryption  *)
(* changes the octets of the body and no others.                           *)
LEMMA Received ==
    ASSUME NEW cmd, NEW n \in Nat, NEW P, Header(P, cmd, n),
           BufferSize \in Nat, 9 + n < BufferSize, NEW stack
    PROVE  /\ \E f : Decrypted(Copy(stack, P)) = Reader(f, 9 + n, 9) /\ Clear(f, Body(P))
           /\ GetCmdType(Decrypted(Copy(stack, P))) = cmd
           /\ DecryptBuffer(Copy(stack, P)) = IF Fits(P) THEN n ELSE -1
<1>1. PICK p : p = Copy(stack, P)
  OBVIOUS
<1>2. P \in Seq(Octet) /\ Len(P) = 9 + n
  BY DEF Header
<1>3. PICK f : p = [strBuf |-> f, size |-> 9 + n, pos |-> 9] /\ Holds(f, P, 9 + n)
  <2>1. \E f : /\ Copy(stack, P) = [strBuf |-> f, size |-> 9 + n, pos |-> 9]
               /\ Holds(f, P, 9 + n)
    BY <1>2, Copied
  <2> QED
    BY <1>1, <2>1
<1>4. \A i \in 1..BufferSize : f[i] \in Octet
  BY <1>3 DEF Holds
<1>5. \A i \in 1..(9 + n) : f[i] = P[i]
  BY <1>3 DEF Holds
<1>6. \A i \in (10 + n)..BufferSize : f[i] = 0
  <2>1. 9 + n + 1 = 10 + n
    OBVIOUS
  <2> QED
    BY <1>3, <2>1 DEF Holds
<1>7. DataSize(p) = n
  <2>1. ntohs(SubSeq(f, 1, 1 + 1)) = 256 * f[1] + f[1 + 1]
    BY <1>4, ShortAt
  <2>2. f[1] = P[1] /\ f[2] = P[2]
    BY <1>5
  <2>3. 256 * P[1] + P[2] = 7 + n
    BY DEF Header
  <2>4. GetBodyLength(p) = 7 + n
    BY <1>3, <2>1, <2>2, <2>3 DEF GetBodyLength
  <2>5. P[1] \in 0..255 /\ P[2] \in 0..255
    <3>1. f[1] \in Octet /\ f[2] \in Octet
      BY <1>4
    <3> QED
      BY <2>2, <3>1 DEF Octet
  <2>6. (7 + n - 7) % 65536 = n
    <3>1. \E x, y \in 0..255 : 256 * x + y = 7 + n
      BY ONLY <2>3, <2>5
    <3>2. PICK x \in 0..255, y \in 0..255 : 256 * x + y = 7 + n
      BY <3>1
    <3>3. n < 65536
      BY <3>2
    <3>4. n % 65536 = n
      BY ONLY <3>3, n \in Nat
    <3>5. 7 + n - 7 = n
      OBVIOUS
    <3> QED
      BY <3>4, <3>5
  <2> QED
    BY <2>4, <2>6 DEF DataSize
<1>8. PICK b : b = Body(P) /\ b \in Seq(Octet) /\ Len(b) = n
               /\ \A i \in 1..n : b[i] = decode_map[P[9 + i] + 1]
  <2>1. /\ Body(P) \in Seq(Octet) /\ Len(Body(P)) = n
        /\ \A i \in 1..n : Body(P)[i] = decode_map[P[9 + i] + 1]
    BY <1>2, BodyIs
  <2> QED
    BY <2>1
<1>9. PICK g : g = [i \in 1..BufferSize |->
                       IF i \in 10..(9 + n) THEN RecvByteMap[f[i] + 1] ELSE f[i]]
  OBVIOUS
<1>10. Decrypted(p) = [strBuf |-> g, size |-> 9 + n, pos |-> 9]
  <2> DEFINE D == [i \in 1..BufferSize |->
                     IF i \in (9 + 1)..(9 + DataSize(p)) THEN RecvByteMap[f[i] + 1] ELSE f[i]]
  <2>1. p.strBuf = f
    BY <1>3
  <2>2. Decrypted(p) = [p EXCEPT !.strBuf = D]
    BY <2>1 DEF Decrypted, HeaderSize
  <2>3. D = g
    BY <1>7, <1>9
  <2> HIDE DEF D
  <2> QED
    BY <1>3, <2>2, <2>3
<1>11. \A i \in 1..n : g[9 + i] = b[i]
  <2> SUFFICES ASSUME NEW i \in 1..n
               PROVE  g[9 + i] = b[i]
    OBVIOUS
  <2>1. 9 + i \in 1..BufferSize /\ 9 + i \in 10..(9 + n) /\ 9 + i \in 1..(9 + n)
    OBVIOUS
  <2>2. g[9 + i] = RecvByteMap[f[9 + i] + 1]
    BY <1>9, <2>1
  <2>3. f[9 + i] = P[9 + i]
    BY <1>5, <2>1
  <2> QED
    BY <1>8, <2>2, <2>3, SameTables
<1>12. \A i \in (10 + n)..BufferSize : g[i] = 0
  BY <1>9, <1>6
<1>13. \A i \in 1..9 : g[i] = P[i]
  BY <1>9, <1>5
<1>14. \A i \in 1..BufferSize : g[i] \in Octet
  <2> SUFFICES ASSUME NEW i \in 1..BufferSize
               PROVE  g[i] \in Octet
    OBVIOUS
  <2>1. f[i] \in Octet
    BY <1>4
  <2>2. RecvByteMap[f[i] + 1] \in Octet
    BY <2>1, SameTables, Tables
  <2> QED
    BY <1>9, <2>1, <2>2
<1>15. GetCmdType(Decrypted(p)) = cmd
  <2>1. ntohs(SubSeq(g, 7, 7 + 1)) = 256 * g[7] + g[7 + 1]
    BY <1>14, ShortAt
  <2>2. g[7] = P[7] /\ g[8] = P[8]
    BY <1>13
  <2>3. 256 * P[7] + P[8] = cmd
    BY DEF Header
  <2> QED
    BY <1>10, <2>1, <2>2, <2>3 DEF GetCmdType
<1>16. Decrypted(p) = Reader(g, 9 + n, 9) /\ Clear(g, b)
  BY <1>8, <1>10, <1>11, <1>12, <1>14 DEF Clear, Reader, SameAt, Filled
<1>17. SubSeq(Decrypted(p).strBuf, HeaderSize + 1, HeaderSize + DataSize(p)) = b
  <2>1. PICK q : q = SubSeq(g, 10, 9 + n)
    OBVIOUS
  <2>2. \A i \in 10..(9 + n) : g[i] \in Octet
    BY <1>14
  <2>3. /\ q \in Seq(Octet) /\ Len(q) = (IF 10 <= 9 + n THEN 9 + n - 10 + 1 ELSE 0)
        /\ \A i \in 1..(9 + n - 10 + 1) : q[i] = g[10 + i - 1]
    BY <2>1, <2>2, SubSeqProperties
  <2>4. 9 + n - 10 + 1 = n /\ (IF 10 <= 9 + n THEN 9 + n - 10 + 1 ELSE 0) = n
    OBVIOUS
  <2>5. \A i \in 1..n : 10 + i - 1 = 9 + i
    OBVIOUS
  <2>6. Len(q) = n /\ \A i \in 1..n : q[i] = b[i]
    BY <1>11, <2>3, <2>4, <2>5
  <2>7. q = b
    BY <1>8, <2>3, <2>6, SeqEqual
  <2>8. HeaderSize + 1 = 10 /\ HeaderSize + DataSize(p) = 9 + n
    BY <1>7 DEF HeaderSize
  <2> QED
    BY <1>10, <2>1, <2>7, <2>8
<1>18. p.strBuf[HeaderSize] = P[9]
  <2>1. f[9] = P[9]
    BY <1>5
  <2> QED
    BY <1>3, <2>1 DEF HeaderSize
<1>19. DecryptBuffer(p) = IF Fits(P) THEN n ELSE -1
  BY <1>7, <1>8, <1>17, <1>18 DEF DecryptBuffer, Fits
<1> QED
  BY <1>1, <1>8, <1>15, <1>16, <1>19

-----------------------------------------------------------------------------
(* The fields of a request.                                                *)

(* Four octets, eight, four more and l others behind them. *)
LEMMA FieldsLaidOut ==
    ASSUME NEW p \in Seq(Octet), Len(p) = 4, NEW u \in Seq(Octet), Len(u) = 8,
           NEW q \in Seq(Octet), Len(q) = 4, NEW l \in Nat,
           NEW s \in Seq(Octet), Len(s) = l,
           NEW b, b = Cat(Cat(p, u), Cat(q, s))
    PROVE  /\ b \in Seq(Octet) /\ Len(b) = 16 + l
           /\ SameAt(b, 0, p, 4) /\ SameAt(b, 4, u, 8)
           /\ SameAt(b, 12, q, 4) /\ SameAt(b, 16, s, l)
<1>1. PICK v \in Seq(Octet) : v = Cat(p, u) /\ Joins(v, p, 4, u, 8)
  <2>1. Cat(p, u) \in Seq(Octet) /\ Joins(Cat(p, u), p, Len(p), u, Len(u))
    BY Joined
  <2> QED
    BY <2>1
<1>2. Len(v) = 12 /\ \A i \in 1..12 : v[i] = IF i <= 4 THEN p[i] ELSE u[i - 4]
  BY <1>1 DEF Joins
<1>3. PICK w \in Seq(Octet) : w = Cat(q, s) /\ Joins(w, q, 4, s, l)
  <2>1. Cat(q, s) \in Seq(Octet) /\ Joins(Cat(q, s), q, Len(q), s, Len(s))
    BY Joined
  <2> QED
    BY <2>1
<1>4. Len(w) = 4 + l /\ \A i \in 1..(4 + l) : w[i] = IF i <= 4 THEN q[i] ELSE s[i - 4]
  BY <1>3 DEF Joins
<1>5. b \in Seq(Octet) /\ Joins(b, v, 12, w, 4 + l)
  <2>1. Cat(v, w) \in Seq(Octet) /\ Joins(Cat(v, w), v, Len(v), w, Len(w))
    BY Joined
  <2> QED
    BY <1>1, <1>2, <1>3, <1>4, <2>1
<1>6. /\ Len(b) = 12 + (4 + l)
      /\ \A i \in 1..(12 + (4 + l)) : b[i] = IF i <= 12 THEN v[i] ELSE w[i - 12]
  BY <1>5 DEF Joins
<1>7. \A i \in 1..12 : b[i] = v[i]
  <2>1. \A i \in 1..12 : i \in 1..(12 + (4 + l)) /\ i <= 12
    OBVIOUS
  <2> QED
    BY <1>6, <2>1
<1>8. \A i \in 1..(4 + l) : b[12 + i] = w[i]
  <2>1. \A i \in 1..(4 + l) : /\ 12 + i \in 1..(12 + (4 + l))
                              /\ ~(12 + i <= 12) /\ 12 + i - 12 = i
    OBVIOUS
  <2> QED
    BY <1>6, <2>1
<1>9. \A i \in 1..4 : b[0 + i] = p[i]
  <2>1. \A i \in 1..4 : i \in 1..12 /\ i <= 4 /\ 0 + i = i
    OBVIOUS
  <2> QED
    BY <1>2, <1>7, <2>1
<1>10. \A i \in 1..8 : b[4 + i] = u[i]
  <2>1. \A i \in 1..8 : 4 + i \in 1..12 /\ ~(4 + i <= 4) /\ 4 + i - 4 = i
    OBVIOUS
  <2> QED
    BY <1>2, <1>7, <2>1
<1>11. \A i \in 1..4 : b[12 + i] = q[i]
  <2>1. \A i \in 1..4 : i \in 1..(4 + l) /\ i <= 4
    OBVIOUS
  <2> QED
    BY <1>4, <1>8, <2>1
<1>12. \A i \in 1..l : b[16 + i] = s[i]
  <2> SUFFICES ASSUME NEW i \in 1..l
               PROVE  b[16 + i] = s[i]
    OBVIOUS
  <2>1. 4 + i \in 1..(4 + l) /\ ~(4 + i <= 4) /\ 4 + i - 4 = i /\ 12 + (4 + i) = 16 + i
    OBVIOUS
  <2>2. w[4 + i] = s[i]
    BY <1>4, <2>1
  <2>3. b[12 + (4 + i)] = w[4 + i]
    BY <1>8, <2>1
  <2> QED
    BY <2>1, <2>2, <2>3
<1> QED
  BY <1>5, <1>6, <1>9, <1>10, <1>11, <1>12 DEF SameAt

(* The three reads. *)
LEMMA SkipReads ==
    ASSUME NEW f, NEW z \in Nat, NEW k \in Nat, NEW n \in Nat, k + n <= z
    PROVE  /\ Skip(Reader(f, z, k), n) = Reader(f, z, k + n)
           /\ Has(Reader(f, z, k), n)
           /\ At(Reader(f, z, k), n) = SubSeq(f, k + 1, k + n)
  BY DEF Skip, Has, At, Reader

LEMMA ReadsInt ==
    ASSUME NEW f, NEW z \in Nat, NEW k \in Nat, k + 4 <= z, z <= BufferSize,
           BufferSize \in Nat, Filled(f),
           NEW q, SameAt(f, k, q, 4)
    PROVE  ReadInt(Reader(f, z, k)) = Number(q, 1)
<1>1. Has(Reader(f, z, k), 4) /\ At(Reader(f, z, k), 4) = SubSeq(f, k + 1, k + 4)
  BY DEF Has, At, Reader
<1>2. ntohl(SubSeq(f, (k + 1), (k + 1) + 3)) = Number(f, k + 1)
  <2>1. k + 1 \in Nat /\ 1 <= k + 1 /\ (k + 1) + 3 <= BufferSize
    OBVIOUS
  <2>2. \A i \in 1..BufferSize : f[i] \in Octet
    BY DEF Filled
  <2> QED
    BY <2>1, <2>2, LongAt
<1>3. (k + 1) + 3 = k + 4 /\ (k + 1) + 1 = k + 2 /\ (k + 1) + 2 = k + 3
  OBVIOUS
<1>4. Number(f, k + 1) = Number(q, 1)
  <2>1. f[k + 1] = q[1] /\ f[k + 2] = q[2] /\ f[k + 3] = q[3] /\ f[k + 4] = q[4]
    BY DEF SameAt
  <2>2. 1 + 1 = 2 /\ 1 + 2 = 3 /\ 1 + 3 = 4
    OBVIOUS
  <2> QED
    BY <1>3, <2>1, <2>2 DEF Number
<1> QED
  BY <1>1, <1>2, <1>3, <1>4 DEF ReadInt

LEMMA ReadsULong ==
    ASSUME NEW f, NEW z \in Nat, NEW k \in Nat, k + 8 <= z, z <= BufferSize,
           BufferSize \in Nat, Filled(f),
           NEW u \in [1..8 -> Octet], SameAt(f, k, htonll(u), 8)
    PROVE  ReadULong(Reader(f, z, k)) = u
<1>1. Has(Reader(f, z, k), 8) /\ At(Reader(f, z, k), 8) = SubSeq(f, k + 1, k + 8)
  BY DEF Has, At, Reader
<1>2. PICK w \in Seq(Octet) : w = htonll(u) /\ Len(w) = 8 /\ htonll(w) = u
  BY SwappedBack
<1>3. SubSeq(f, k + 1, k + 8) = w
  <2>1. PICK q : q = SubSeq(f, k + 1, k + 8)
    OBVIOUS
  <2>2. \A i \in (k + 1)..(k + 8) : f[i] \in Octet
    BY DEF Filled
  <2>3. /\ q \in Seq(Octet)
        /\ Len(q) = (IF k + 1 <= k + 8 THEN k + 8 - (k + 1) + 1 ELSE 0)
        /\ \A i \in 1..(k + 8 - (k + 1) + 1) : q[i] = f[k + 1 + i - 1]
    BY <2>1, <2>2, SubSeqProperties
  <2>4. Len(q) = 8 /\ \A i \in 1..8 : q[i] = f[k + i]
    <3>1. k + 8 - (k + 1) + 1 = 8 /\ k + 1 <= k + 8
      OBVIOUS
    <3>2. \A i \in 1..8 : k + 1 + i - 1 = k + i
      OBVIOUS
    <3> QED
      BY <2>3, <3>1, <3>2
  <2>5. \A i \in 1..8 : q[i] = w[i]
    BY <1>2, <2>4 DEF SameAt
  <2> QED
    BY <1>2, <2>1, <2>3, <2>4, <2>5, SeqEqual
<1> QED
  BY <1>1, <1>2, <1>3 DEF ReadULong

(* The zero that Reset left behind the packet ends the string.             *)
StringEnd(f, k, i) ==
    /\ i = BufferSize \/ f[i + 1] = 0
    /\ \A j \in k..(i - 1) : ~(j = BufferSize \/ f[j + 1] = 0)

LEMMA StringEnds ==
    ASSUME NEW f, NEW z \in Nat, NEW k \in Nat, NEW l \in Nat,
           BufferSize \in Nat, k + l < BufferSize,
           NEW s \in Seq(Octet \ {0}), Len(s) = l,
           SameAt(f, k, s, l), f[k + l + 1] = 0
    PROVE  CString(Reader(f, z, k)) = s
<1>1. CString(Reader(f, z, k)) =
          SubSeq(f, k + 1, CHOOSE i \in k..BufferSize : StringEnd(f, k, i))
  BY DEF CString, Reader, StringEnd
<1>2. k + l \in k..BufferSize /\ StringEnd(f, k, k + l)
  <2>1. ASSUME NEW j \in k..(k + l - 1)
        PROVE  j # BufferSize /\ f[j + 1] # 0
    <3>1. j + 1 - k \in 1..l /\ k + (j + 1 - k) = j + 1
      OBVIOUS
    <3>2. f[j + 1] = s[j + 1 - k]
      BY <3>1 DEF SameAt
    <3>3. s[j + 1 - k] # 0
      BY <3>1
    <3> QED
      BY <3>2, <3>3
  <2> QED
    BY <2>1 DEF StringEnd
<1>3. ASSUME NEW i \in k..BufferSize, StringEnd(f, k, i)
      PROVE  i = k + l
  <2>1. CASE i < k + l
    <3>1. i + 1 - k \in 1..l /\ k + (i + 1 - k) = i + 1 /\ i # BufferSize
      BY <2>1
    <3>2. f[i + 1] = s[i + 1 - k]
      BY <3>1 DEF SameAt
    <3>3. s[i + 1 - k] # 0
      BY <3>1
    <3> QED
      BY <1>3, <3>1, <3>2, <3>3 DEF StringEnd
  <2>2. CASE k + l < i
    <3>1. k + l \in k..(i - 1)
      BY <2>2
    <3> QED
      BY <1>3, <3>1 DEF StringEnd
  <2> QED
    BY <2>1, <2>2
<1>4. (CHOOSE i \in k..BufferSize : StringEnd(f, k, i)) = k + l
  BY <1>2, <1>3
<1>5. SubSeq(f, k + 1, k + l) = s
  <2>1. PICK q : q = SubSeq(f, k + 1, k + l)
    OBVIOUS
  <2>2. \A i \in (k + 1)..(k + l) : f[i] \in Octet \ {0}
    <3>1. \A i \in (k + 1)..(k + l) : i - k \in 1..l /\ k + (i - k) = i
      OBVIOUS
    <3>2. \A i \in 1..l : s[i] \in Octet \ {0}
      OBVIOUS
    <3> QED
      BY <3>1, <3>2 DEF SameAt
  <2>3. /\ q \in Seq(Octet \ {0})
        /\ Len(q) = (IF k + 1 <= k + l THEN k + l - (k + 1) + 1 ELSE 0)
        /\ \A i \in 1..(k + l - (k + 1) + 1) : q[i] = f[k + 1 + i - 1]
    BY <2>1, <2>2, SubSeqProperties
  <2>4. Len(q) = l /\ \A i \in 1..l : q[i] = f[k + i]
    <3>1. k + l - (k + 1) + 1 = l /\ (k + 1 <= k + l \/ l = 0)
      OBVIOUS
    <3>2. \A i \in 1..l : k + 1 + i - 1 = k + i
      OBVIOUS
    <3> QED
      BY <2>3, <3>1, <3>2
  <2>5. \A i \in 1..l : q[i] = s[i]
    BY <2>4 DEF SameAt
  <2> QED
    BY <2>1, <2>3, <2>4, <2>5, SeqEqual
<1> QED
  BY <1>1, <1>4, <1>5

(* What the client writes into the body of a request. *)
Written(c, u, s) == Cat(Cat(htonl(c), htonll(u)), Cat(htonl(Len(s)), s))

LEMMA WrittenOctets ==
    ASSUME NEW c \in Nat, c < 32768 * 65536, NEW u \in [1..8 -> Octet],
           NEW s \in Seq(Octet), NEW l \in Nat, Len(s) = l, l < 32768
    PROVE  /\ Written(c, u, s) \in Seq(Octet) /\ Len(Written(c, u, s)) = 16 + l
           /\ SameAt(Written(c, u, s), 0, htonl(c), 4)
           /\ SameAt(Written(c, u, s), 4, htonll(u), 8)
           /\ SameAt(Written(c, u, s), 12, htonl(l), 4)
           /\ SameAt(Written(c, u, s), 16, s, l)
<1>1. htonl(c) \in Seq(Octet) /\ Len(htonl(c)) = 4
  BY Longs
<1>2. htonl(l) \in Seq(Octet) /\ Len(htonl(l)) = 4
  BY Longs
<1>3. htonll(u) \in Seq(Octet) /\ Len(htonll(u)) = 8
  BY SwappedBack
<1>4. Written(c, u, s) = Cat(Cat(htonl(c), htonll(u)), Cat(htonl(l), s))
  BY DEF Written
<1> QED
  BY <1>1, <1>2, <1>3, <1>4, FieldsLaidOut

LEMMA FieldsRead ==
    ASSUME NEW c \in Nat, c < 32768 * 65536, NEW u \in [1..8 -> Octet],
           NEW s \in Seq(Octet \ {0}), NEW l \in Nat, Len(s) = l, l < 32768,
           BufferSize \in Nat, 25 + l < BufferSize,
           NEW f, Clear(f, Written(c, u, s))
    PROVE  Fields(Reader(f, 25 + l, 9)) = [client_id |-> c, event_id |-> u, data |-> s]
<1>1. s \in Seq(Octet)
  BY SeqMonotonic
<1>2. PICK b : /\ b = Written(c, u, s) /\ Len(b) = 16 + l
               /\ SameAt(b, 0, htonl(c), 4) /\ SameAt(b, 4, htonll(u), 8)
               /\ SameAt(b, 12, htonl(l), 4) /\ SameAt(b, 16, s, l)
  BY <1>1, WrittenOctets
<1>3. /\ SameAt(f, 9, b, 16 + l) /\ Filled(f)
      /\ \A i \in (10 + (16 + l))..BufferSize : f[i] = 0
  BY <1>2 DEF Clear
<1>4. SameAt(f, 9, htonl(c), 4)
  <2>1. 0 \in Nat /\ 4 \in Nat /\ 16 + l \in Nat /\ 0 + 4 <= 16 + l
    OBVIOUS
  <2>2. 9 \in Nat /\ 9 + 0 = 9
    OBVIOUS
  <2>3. SameAt(f, 9, b, 16 + l) /\ SameAt(b, 0, htonl(c), 4)
    BY <1>2, <1>3
  <2>4. SameAt(f, 9 + 0, htonl(c), 4)
    BY ONLY <2>1, <2>2, <2>3, SameWithin
  <2> QED
    BY <2>2, <2>4
<1>5. SameAt(f, 13, htonll(u), 8)
  <2>1. 4 \in Nat /\ 8 \in Nat /\ 16 + l \in Nat /\ 4 + 8 <= 16 + l
    OBVIOUS
  <2>2. 9 \in Nat /\ 9 + 4 = 13
    OBVIOUS
  <2>3. SameAt(f, 9, b, 16 + l) /\ SameAt(b, 4, htonll(u), 8)
    BY <1>2, <1>3
  <2>4. SameAt(f, 9 + 4, htonll(u), 8)
    BY ONLY <2>1, <2>2, <2>3, SameWithin
  <2> QED
    BY <2>2, <2>4
<1>6. SameAt(f, 21, htonl(l), 4)
  <2>1. 12 \in Nat /\ 4 \in Nat /\ 16 + l \in Nat /\ 12 + 4 <= 16 + l
    OBVIOUS
  <2>2. 9 \in Nat /\ 9 + 12 = 21
    OBVIOUS
  <2>3. SameAt(f, 9, b, 16 + l) /\ SameAt(b, 12, htonl(l), 4)
    BY <1>2, <1>3
  <2>4. SameAt(f, 9 + 12, htonl(l), 4)
    BY ONLY <2>1, <2>2, <2>3, SameWithin
  <2> QED
    BY <2>2, <2>4
<1>7. SameAt(f, 25, s, l)
  <2>1. 16 \in Nat /\ l \in Nat /\ 16 + l \in Nat /\ 16 + l <= 16 + l
    OBVIOUS
  <2>2. 9 \in Nat /\ 9 + 16 = 25
    OBVIOUS
  <2>3. SameAt(f, 9, b, 16 + l) /\ SameAt(b, 16, s, l)
    BY <1>2, <1>3
  <2>4. SameAt(f, 9 + 16, s, l)
    BY ONLY <2>1, <2>2, <2>3, SameWithin
  <2> QED
    BY <2>2, <2>4
<1>8. f[25 + l + 1] = 0
  <2>1. 25 + l + 1 \in (10 + (16 + l))..BufferSize
    OBVIOUS
  <2> QED
    BY <1>3, <2>1
<1>9. PICK z \in Nat : z = 25 + l
  OBVIOUS
<1>10. ReadInt(Reader(f, z, 9)) = c
  <2>1. ReadInt(Reader(f, z, 9)) = Number(htonl(c), 1)
    BY <1>3, <1>4, <1>9, ReadsInt
  <2> QED
    BY <2>1, Longs
<1>11. /\ Skip(Reader(f, z, 9), 4) = Reader(f, z, 13)
       /\ Skip(Reader(f, z, 13), 8) = Reader(f, z, 21)
  <2>1. 9 + 4 = 13 /\ 13 <= z /\ 13 + 8 = 21 /\ 21 <= z
    BY <1>9
  <2>2. Skip(Reader(f, z, 9), 4) = Reader(f, z, 13)
    BY <2>1 DEF Skip, Has, Reader
  <2>3. Skip(Reader(f, z, 13), 8) = Reader(f, z, 21)
    BY <2>1 DEF Skip, Has, Reader
  <2> QED
    BY <2>2, <2>3
<1>12. ReadULong(Reader(f, z, 13)) = u
  BY <1>3, <1>5, <1>9, ReadsULong
<1>13. ReadString(Reader(f, z, 21)) = s
  <2>1. ReadInt(Reader(f, z, 21)) = l
    <3>1. ReadInt(Reader(f, z, 21)) = Number(htonl(l), 1)
      BY <1>3, <1>6, <1>9, ReadsInt
    <3> QED
      BY <3>1, Longs
  <2>2. Skip(Reader(f, z, 21), 4) = Reader(f, z, 25) /\ Has(Reader(f, z, 25), l)
    BY <1>9 DEF Skip, Has, Reader
  <2>3. CString(Reader(f, z, 25)) = s
    BY <1>7, <1>8, <1>9, StringEnds
  <2> QED
    BY <2>1, <2>2, <2>3 DEF ReadString
<1> QED
  BY <1>9, <1>10, <1>11, <1>12, <1>13 DEF Fields

-----------------------------------------------------------------------------
(* The two packets.                                                        *)

(* A packet whose code fits. *)
Sound(P, n) == Header(P, 2, n) /\ Fits(P)

LEMMA PacketIsSound ==
    ASSUME NEW b \in Seq(Octet), Len(b) <= 32768
    PROVE  /\ Sound(Encoded(2, b), Len(b))
           /\ Body(Encoded(2, b)) = b
<1>1. PICK P : P = Encoded(2, b)
  OBVIOUS
<1>2. IsPacket(P, 2, b)
  BY <1>1, Framing
<1>3. Body(P) = b /\ Decode(P) = Len(b)
  BY <1>2, BodyBack
<1>4. Header(P, 2, Len(b)) /\ Len(b) \in Nat
  BY <1>2 DEF IsPacket
<1>5. Decode(P) = IF Fits(P) THEN Len(b) ELSE -1
  BY <1>4, FitsIsDecoded
<1> QED
  BY <1>1, <1>3, <1>4, <1>5 DEF Sound

LEMMA RequestIsSound ==
    ASSUME NEW u \in [1..8 -> Octet], NEW s \in Jsons
    PROVE  /\ s \in Seq(Octet \ {0}) /\ s \in Seq(Octet)
           /\ Len(s) \in Nat /\ Len(s) <= 16384 - 26
           /\ ClientId \in Nat /\ ClientId < 32768 * 65536
           /\ Sound(Request(ClientId, u, s), 16 + Len(s))
           /\ Body(Request(ClientId, u, s)) = Written(ClientId, u, s)
<1>1. s \in Seq(Octet \ {0}) /\ ClientId \in Nat /\ ClientId < 32768 * 65536
  <2>1. s \in Seq(Octet \ {0}) /\ ClientId \in Nat /\ ClientId \div 65536 < 32768
    BY PacketAssumption DEF PacketAssumption
  <2> QED
    BY <2>1
<1>2. s \in Seq(Octet)
  BY <1>1, SeqMonotonic
<1>3. PICK l \in Nat : l = Len(s) /\ l <= 16384 - 26
  <2>1. 9 + 4 + 8 + 4 + Len(s) + 1 <= 16 * 1024
    BY PacketAssumption DEF PacketAssumption, ClientBuffer
  <2>2. Len(s) \in Nat
    BY <1>2
  <2> QED
    BY <2>1, <2>2
<1>4. PICK b : b = Written(ClientId, u, s) /\ b \in Seq(Octet) /\ Len(b) = 16 + l
  <2>1. /\ Written(ClientId, u, s) \in Seq(Octet)
        /\ Len(Written(ClientId, u, s)) = 16 + l
    BY <1>1, <1>2, <1>3, WrittenOctets
  <2> QED
    BY <2>1
<1>5. Request(ClientId, u, s) = Encoded(2, b)
  BY <1>4 DEF Request, WriteString, CMD_DATA_SYNC, Written, Cat
<1>6. Sound(Encoded(2, b), 16 + l) /\ Body(Encoded(2, b)) = b
  BY <1>3, <1>4, PacketIsSound
<1> QED
  BY <1>1, <1>2, <1>3, <1>4, <1>5, <1>6

LEMMA AnswerIsSound ==
    ASSUME NEW u \in [1..8 -> Octet]
    PROVE  Sound(Answer(u), 8) /\ EventOf(Answer(u)) = u
<1>1. PICK b : b = htonll(u) /\ b \in Seq(Octet) /\ Len(b) = 8 /\ htonll(b) = u
  BY SwappedBack
<1>2. Answer(u) = Encoded(2, b)
  BY <1>1, SameFrame DEF Answer, SERVER_CMD_DATA_REP
<1>3. Sound(Encoded(2, b), 8) /\ Body(Encoded(2, b)) = b
  <2>1. b \in Seq(Octet) /\ Len(b) <= 32768
    BY <1>1
  <2>2. Sound(Encoded(2, b), Len(b)) /\ Body(Encoded(2, b)) = b
    BY ONLY <2>1, PacketIsSound
  <2> QED
    BY <1>1, <2>2
<1>4. SubSeq(b, 1, 8) = b
  BY <1>1, SubSeqFull
<1> QED
  BY <1>1, <1>2, <1>3, <1>4 DEF EventOf

(* HandleInput on the first k octets of a packet.                          *)
LEMMA Cut ==
    ASSUME NEW cmd, NEW n \in Nat, NEW P, Header(P, cmd, n),
           NEW k \in Nat, k <= 9 + n, MaxPacket \in Nat
    PROVE  HandleInput(SubSeq(P, 1, k)) = IF k < 9 THEN 0
                                          ELSE IF 9 + n > MaxPacket THEN -1
                                          ELSE IF k < 9 + n THEN 0
                                          ELSE 9 + n
<1>1. /\ P \in Seq(Octet) /\ Len(P) = 9 + n
      /\ 256 * P[1] + P[2] = 7 + n /\ P[3] = 66 /\ P[4] = 89
  BY DEF Header
<1>2. PICK q : q = SubSeq(P, 1, k)
  OBVIOUS
<1>3. q \in Seq(Octet) /\ Len(q) = k /\ \A i \in 1..k : q[i] = P[i]
  <2>1. \A i \in 1..k : P[i] \in Octet
    BY <1>1
  <2>2. /\ q \in Seq(Octet) /\ Len(q) = (IF 1 <= k THEN k - 1 + 1 ELSE 0)
        /\ \A i \in 1..(k - 1 + 1) : q[i] = P[1 + i - 1]
    BY <1>2, <2>1, SubSeqProperties
  <2>3. k - 1 + 1 = k /\ (IF 1 <= k THEN k - 1 + 1 ELSE 0) = k
    OBVIOUS
  <2>4. \A i \in 1..k : 1 + i - 1 = i
    OBVIOUS
  <2> QED
    BY <2>2, <2>3, <2>4
<1>4. CASE k < 9
  BY <1>2, <1>3, <1>4 DEF HandleInput, HeaderSize
<1>5. CASE ~(k < 9)
  <2>1. q[1] = P[1] /\ q[2] = P[2] /\ q[3] = 66 /\ q[4] = 89
    <3>1. 1 \in 1..k /\ 2 \in 1..k /\ 3 \in 1..k /\ 4 \in 1..k
      BY <1>5
    <3> QED
      BY <1>1, <1>3, <3>1
  <2>2. 2 + ntohs(q) = 9 + n
    <3>1. ntohs(q) = 7 + n
      BY <1>1, <2>1 DEF ntohs
    <3> QED
      BY <3>1
  <2>3. SubSeq(q, 3, 4) = <<66, 89>>
    <3>1. PICK t : t = SubSeq(q, 3, 4)
      OBVIOUS
    <3>2. \A i \in 3..4 : q[i] \in Octet
      BY <2>1 DEF Octet
    <3>3. t \in Seq(Octet) /\ Len(t) = 2 /\ t[1] = 66 /\ t[2] = 89
      <4>1. /\ t \in Seq(Octet) /\ Len(t) = (IF 3 <= 4 THEN 4 - 3 + 1 ELSE 0)
            /\ \A i \in 1..(4 - 3 + 1) : t[i] = q[3 + i - 1]
        BY <3>1, <3>2, SubSeqProperties
      <4>2. /\ (IF 3 <= 4 THEN 4 - 3 + 1 ELSE 0) = 2 /\ 4 - 3 + 1 = 2
            /\ 3 + 1 - 1 = 3 /\ 3 + 2 - 1 = 4
        OBVIOUS
      <4> QED
        BY <2>1, <4>1, <4>2
    <3>4. t = <<66, 89>>
      BY <3>3
    <3> QED
      BY <3>1, <3>4
  <2>4. HandleInput(q) = IF 9 + n > MaxPacket THEN -1
                         ELSE IF k < 9 + n THEN 0 ELSE 9 + n
    BY <1>3, <1>5, <2>2, <2>3 DEF HandleInput, HeaderSize
  <2> QED
    BY <1>2, <1>5, <2>4
<1> QED
  BY <1>4, <1>5

(* The server reads the fields of a request.                               *)
LEMMA ServerReads ==
    ASSUME NEW u \in [1..8 -> Octet], NEW s \in Jsons,
           BufferSize \in Nat, 25 + Len(s) < BufferSize, NEW stack,
           NEW p, p = Copy(stack, Request(ClientId, u, s))
    PROVE  /\ DecryptBuffer(p) # -1 /\ GetCmdType(Decrypted(p)) = 2
           /\ Fields(Decrypted(p)) = [client_id |-> ClientId, event_id |-> u, data |-> s]
<1>1. PICK l \in Nat : l = Len(s) /\ l < 32768
  BY RequestIsSound
<1>2. PICK P : P = Request(ClientId, u, s)
  OBVIOUS
<1>3. Header(P, 2, 16 + l) /\ Fits(P) /\ Body(P) = Written(ClientId, u, s)
  BY <1>1, <1>2, RequestIsSound DEF Sound
<1>4. PICK n \in Nat : n = 16 + l /\ 9 + n = 25 + l
  OBVIOUS
<1>5. /\ \E f : Decrypted(Copy(stack, P)) = Reader(f, 9 + n, 9) /\ Clear(f, Body(P))
      /\ GetCmdType(Decrypted(Copy(stack, P))) = 2
      /\ DecryptBuffer(Copy(stack, P)) = IF Fits(P) THEN n ELSE -1
  <2>1. Header(P, 2, n) /\ n \in Nat /\ BufferSize \in Nat /\ 9 + n < BufferSize
    BY <1>1, <1>3, <1>4
  <2> QED
    BY ONLY <2>1, Received
<1>6. PICK f : Decrypted(p) = Reader(f, 25 + l, 9) /\ Clear(f, Written(ClientId, u, s))
  BY <1>2, <1>3, <1>4, <1>5
<1>7. /\ s \in Seq(Octet \ {0}) /\ ClientId \in Nat /\ ClientId < 32768 * 65536
  BY RequestIsSound
<1>8. Fields(Reader(f, 25 + l, 9)) = [client_id |-> ClientId, event_id |-> u, data |-> s]
  <2>1. /\ l \in Nat /\ Len(s) = l /\ l < 32768 /\ 25 + l < BufferSize
        /\ BufferSize \in Nat /\ u \in [1..8 -> Octet]
    BY <1>1
  <2> QED
    BY ONLY <1>6, <1>7, <2>1, FieldsRead
<1> QED
  BY <1>2, <1>3, <1>4, <1>5, <1>6, <1>8

(* And refuses one that was damaged. *)
LEMMA ServerRefuses ==
    ASSUME NEW n \in Nat, NEW P, Header(P, 2, n), ~Fits(P),
           BufferSize \in Nat, 9 + n < BufferSize, NEW stack
    PROVE  DecryptBuffer(Copy(stack, P)) = -1
  BY Received

-----------------------------------------------------------------------------
(* The invariant.                                                          *)

(* What may be on its way: the packet that was sent, or after damage one   *)
(* with the same header whose code does not fit.                           *)
Travels(P, u, s, d) ==
    \/ P = Request(ClientId, u, s)
    \/ d > 0 /\ Header(P, 2, 16 + Len(s)) /\ ~Fits(P)

Returns(P, u, d) ==
    \/ P = Answer(u)
    \/ d > 0 /\ Header(P, 2, 8) /\ ~Fits(P)

(* The server has k octets of P, which are not all, and the rest is on its *)
(* way; a packet above the limit was not seen to be one yet.               *)
Parted(P, k, cache, rest) ==
    /\ k < Len(P) /\ (k < 9 \/ Len(P) <= MaxPacket)
    /\ cache = SubSeq(P, 1, k) /\ rest = SubSeq(P, k + 1, Len(P))

Busy == stage # "ready" => json \in Jsons /\ requests < MaxRequests
Idle == stage \in {"ready", "closed"} => r = <<>> /\ up = <<>>
Arriving ==
    stage = "sent" =>
        \E P : \E k \in Nat : Travels(P, event_id, json, damages) /\ Parted(P, k, r, up)
Answered ==
    stage = "answered" => /\ got = Asked /\ r = <<>> /\ up = <<>>
                          /\ Returns(down, event_id, damages)

ExchangeInv ==
    /\ PacketTypeOK /\ ReplyConfirms
    /\ Busy /\ Idle /\ Arriving /\ Answered

(* Some more octets arrive. *)
LEMMA MoreArrives ==
    ASSUME NEW P \in Seq(Octet), NEW k \in Nat, NEW cache, NEW rest, Parted(P, k, cache, rest),
           NEW m \in Nat, m <= Len(rest)
    PROVE  /\ cache \in Seq(Octet) /\ Len(cache) = k
           /\ rest \in Seq(Octet) /\ Len(rest) = Len(P) - k
           /\ cache \o SubSeq(rest, 1, m) = SubSeq(P, 1, k + m)
           /\ SubSeq(rest, m + 1, Len(rest)) = SubSeq(P, k + m + 1, Len(P))
<1>1. PICK L \in Nat : L = Len(P)
  OBVIOUS
<1>2. /\ cache \in Seq(Octet) /\ Len(cache) = k /\ \A i \in 1..k : cache[i] = P[i]
  <2>1. \A i \in 1..k : P[i] \in Octet
    BY <1>1 DEF Parted
  <2>2. cache = SubSeq(P, 1, k)
    BY DEF Parted
  <2>3. /\ cache \in Seq(Octet) /\ Len(cache) = (IF 1 <= k THEN k - 1 + 1 ELSE 0)
        /\ \A i \in 1..(k - 1 + 1) : cache[i] = P[1 + i - 1]
    BY <2>1, <2>2, SubSeqProperties
  <2>4. k - 1 + 1 = k /\ (IF 1 <= k THEN k - 1 + 1 ELSE 0) = k
    OBVIOUS
  <2>5. \A i \in 1..k : 1 + i - 1 = i
    OBVIOUS
  <2> QED
    BY <2>3, <2>4, <2>5
<1>3. k < L
  BY <1>1 DEF Parted
<1>4. /\ rest \in Seq(Octet) /\ Len(rest) = L - k
      /\ \A i \in 1..(L - k) : rest[i] = P[k + i]
  <2>1. \A i \in (k + 1)..L : P[i] \in Octet
    BY <1>1
  <2>2. rest = SubSeq(P, k + 1, L)
    BY <1>1 DEF Parted
  <2>3. /\ rest \in Seq(Octet) /\ Len(rest) = (IF k + 1 <= L THEN L - (k + 1) + 1 ELSE 0)
        /\ \A i \in 1..(L - (k + 1) + 1) : rest[i] = P[(k + 1) + i - 1]
    BY <2>1, <2>2, SubSeqProperties
  <2>4. L - (k + 1) + 1 = L - k /\ k + 1 <= L
    BY <1>3
  <2>5. \A i \in 1..(L - k) : (k + 1) + i - 1 = k + i
    OBVIOUS
  <2> QED
    BY <2>3, <2>4, <2>5
<1>5. m <= L - k
  BY <1>4
<1>6. PICK a \in Seq(Octet) : a = SubSeq(rest, 1, m) /\ Len(a) = m
                              /\ \A i \in 1..m : a[i] = P[k + i]
  <2>1. PICK a : a = SubSeq(rest, 1, m)
    OBVIOUS
  <2>2. \A i \in 1..m : rest[i] \in Octet
    BY <1>4, <1>5
  <2>3. /\ a \in Seq(Octet) /\ Len(a) = (IF 1 <= m THEN m - 1 + 1 ELSE 0)
        /\ \A i \in 1..(m - 1 + 1) : a[i] = rest[1 + i - 1]
    BY <2>1, <2>2, SubSeqProperties
  <2>4. m - 1 + 1 = m /\ (IF 1 <= m THEN m - 1 + 1 ELSE 0) = m
    OBVIOUS
  <2>5. \A i \in 1..m : 1 + i - 1 = i /\ i \in 1..(L - k)
    BY <1>5
  <2>6. Len(a) = m /\ \A i \in 1..m : a[i] = P[k + i]
    BY <1>4, <2>3, <2>4, <2>5
  <2> QED
    BY <2>1, <2>3, <2>6
<1>7. Cat(cache, a) = SubSeq(P, 1, k + m)
  <2>1. PICK q \in Seq(Octet) : q = Cat(cache, a) /\ Joins(q, cache, k, a, m)
    <3>1. Cat(cache, a) \in Seq(Octet) /\ Joins(Cat(cache, a), cache, Len(cache), a, Len(a))
      BY <1>2, Joined
    <3> QED
      BY <1>2, <1>6, <3>1
  <2>2. Len(q) = k + m /\ \A i \in 1..(k + m) : q[i] = IF i <= k THEN cache[i] ELSE a[i - k]
    BY <2>1 DEF Joins
  <2>3. ASSUME NEW i \in 1..(k + m)
        PROVE  q[i] = P[i]
    <3>1. CASE i <= k
      BY <1>2, <2>2, <3>1
    <3>2. CASE ~(i <= k)
      <4>1. i - k \in 1..m /\ k + (i - k) = i
        BY <3>2
      <4> QED
        BY <1>6, <2>2, <3>2, <4>1
    <3> QED
      BY <3>1, <3>2
  <2>4. PICK t : t = SubSeq(P, 1, k + m)
    OBVIOUS
  <2>5. \A i \in 1..(k + m) : P[i] \in Octet
    BY <1>1, <1>3, <1>5
  <2>6. /\ t \in Seq(Octet)
        /\ Len(t) = (IF 1 <= k + m THEN (k + m) - 1 + 1 ELSE 0)
        /\ \A i \in 1..((k + m) - 1 + 1) : t[i] = P[1 + i - 1]
    BY <2>4, <2>5, SubSeqProperties
  <2>7. (k + m) - 1 + 1 = k + m /\ (IF 1 <= k + m THEN (k + m) - 1 + 1 ELSE 0) = k + m
    OBVIOUS
  <2>8. \A i \in 1..(k + m) : 1 + i - 1 = i
    OBVIOUS
  <2>9. Len(t) = k + m /\ \A i \in 1..(k + m) : t[i] = P[i]
    BY <2>6, <2>7, <2>8
  <2>10. q = t
    BY <2>2, <2>3, <2>6, <2>9, SeqEqual
  <2> QED
    BY <2>1, <2>4, <2>10
<1>8. SubSeq(rest, m + 1, Len(rest)) = SubSeq(P, k + m + 1, Len(P))
  <2>1. PICK q : q = SubSeq(rest, m + 1, L - k)
    OBVIOUS
  <2>2. PICK t : t = SubSeq(P, k + m + 1, L)
    OBVIOUS
  <2>3. PICK z \in Nat : z = L - k - m
    BY <1>5
  <2>4. /\ z = L - k - (m + 1) + 1 /\ (m + 1 <= L - k <=> z # 0)
        /\ z = L - (k + m + 1) + 1 /\ (k + m + 1 <= L <=> z # 0)
    BY <2>3
  <2>5. q \in Seq(Octet) /\ Len(q) = z /\ \A i \in 1..z : q[i] = rest[m + 1 + i - 1]
    <3>1. \A i \in (m + 1)..(L - k) : rest[i] \in Octet
      BY <1>4
    <3>2. /\ q \in Seq(Octet)
          /\ Len(q) = (IF m + 1 <= L - k THEN L - k - (m + 1) + 1 ELSE 0)
          /\ \A i \in 1..(L - k - (m + 1) + 1) : q[i] = rest[m + 1 + i - 1]
      BY <2>1, <3>1, SubSeqProperties
    <3> QED
      BY <2>4, <3>2
  <2>6. t \in Seq(Octet) /\ Len(t) = z /\ \A i \in 1..z : t[i] = P[k + m + 1 + i - 1]
    <3>1. \A i \in (k + m + 1)..L : P[i] \in Octet
      BY <1>1
    <3>2. /\ t \in Seq(Octet)
          /\ Len(t) = (IF k + m + 1 <= L THEN L - (k + m + 1) + 1 ELSE 0)
          /\ \A i \in 1..(L - (k + m + 1) + 1) : t[i] = P[k + m + 1 + i - 1]
      BY <2>2, <3>1, SubSeqProperties
    <3> QED
      BY <2>4, <3>2
  <2>7. ASSUME NEW i \in 1..z
        PROVE  q[i] = t[i]
    <3>1. /\ m + 1 + i - 1 = m + i /\ k + m + 1 + i - 1 = k + (m + i)
          /\ m + i \in 1..(L - k)
      BY <2>3
    <3>2. rest[m + i] = P[k + (m + i)]
      BY <1>4, <3>1
    <3> QED
      BY <2>5, <2>6, <3>1, <3>2
  <2>8. q = t
    BY <2>5, <2>6, <2>7, SeqEqual
  <2> QED
    BY <1>1, <1>4, <2>1, <2>2, <2>8
<1> QED
  BY <1>1, <1>2, <1>4, <1>6, <1>7, <1>8 DEF Cat

LEMMA Limits ==
    /\ MaxPacket \in Nat /\ BufferSize \in Nat /\ 9 < MaxPacket /\ MaxPacket < BufferSize
    /\ MaxRequests \in Nat /\ MaxDamages \in Nat
  BY PacketAssumption DEF PacketAssumption, HeaderSize

LEMMA TravelFacts ==
    ASSUME NEW u \in [1..8 -> Octet], NEW s \in Jsons, NEW d, NEW P, Travels(P, u, s, d)
    PROVE  /\ Len(s) \in Nat /\ Header(P, 2, 16 + Len(s))
           /\ P \in Seq(Octet) /\ Len(P) = 25 + Len(s)
<1>1. Len(s) \in Nat
  BY RequestIsSound
<1>2. Header(Request(ClientId, u, s), 2, 16 + Len(s))
  BY RequestIsSound DEF Sound
<1>3. Header(P, 2, 16 + Len(s))
  BY <1>2 DEF Travels
<1>4. P \in Seq(Octet) /\ Len(P) = 9 + (16 + Len(s))
  BY <1>3 DEF Header
<1> QED
  BY <1>1, <1>3, <1>4

LEMMA ReturnFacts ==
    ASSUME NEW u \in [1..8 -> Octet], NEW d, NEW P, Returns(P, u, d)
    PROVE  Header(P, 2, 8) /\ P \in Seq(Octet) /\ Len(P) = 17
<1>1. Header(Answer(u), 2, 8)
  BY AnswerIsSound DEF Sound
<1>2. Header(P, 2, 8)
  BY <1>1 DEF Returns
<1> QED
  BY <1>2 DEF Header

(* Nothing of a packet has arrived yet. *)
LEMMA AllOnItsWay ==
    ASSUME NEW P \in Seq(Octet), Len(P) > 0
    PROVE  Parted(P, 0, <<>>, P)
<1>1. SubSeq(P, 1, 0) = <<>>
  BY SubSeqEmpty
<1>2. SubSeq(P, 1, Len(P)) = P
  BY SubSeqFull
<1>3. 0 + 1 = 1 /\ 0 < Len(P)
  OBVIOUS
<1> QED
  BY <1>1, <1>2, <1>3 DEF Parted

LEMMA ExchangeInit == Init => ExchangeInv
<1> SUFFICES ASSUME Init
             PROVE  ExchangeInv
  OBVIOUS
<1>1. event_id \in [1..8 -> Octet]
  BY PacketAssumption DEF Init, PacketAssumption
<1>2. <<>> \in Seq(Octet) /\ Len(<<>>) = 0
  BY EmptySeq
<1>3. PacketTypeOK
  BY <1>1, <1>2, Limits DEF Init, PacketTypeOK
<1> QED
  BY <1>3 DEF Init, ExchangeInv, ReplyConfirms, Busy, Idle, Arriving, Answered

LEMMA SendKeeps ==
    ASSUME ExchangeInv, NEW s \in Jsons, ClientSends(s)
    PROVE  ExchangeInv'
<1>1. PICK P : P = Request(ClientId, event_id, s)
  OBVIOUS
<1>2. event_id \in [1..8 -> Octet]
  BY DEF ExchangeInv, PacketTypeOK
<1>3. Travels(P, event_id, s, damages)
  BY <1>1 DEF Travels
<1>4. P \in Seq(Octet) /\ Len(P) > 0
  <2>1. Len(s) \in Nat /\ P \in Seq(Octet) /\ Len(P) = 25 + Len(s)
    BY <1>2, <1>3, TravelFacts
  <2> QED
    BY <2>1
<1>5. Parted(P, 0, <<>>, P)
  BY <1>4, AllOnItsWay
<1>6. r = <<>>
  BY DEF ExchangeInv, Idle, ClientSends
<1>7. PacketTypeOK'
  BY <1>1, <1>4 DEF ExchangeInv, PacketTypeOK, ClientSends
<1>8. Arriving'
  BY <1>1, <1>3, <1>5, <1>6 DEF ClientSends, Arriving
<1> QED
  BY <1>7, <1>8 DEF ExchangeInv, ClientSends, ReplyConfirms, Busy, Idle, Answered

LEMMA ResendKeeps ==
    ASSUME ExchangeInv, ClientResends
    PROVE  ExchangeInv'
<1>1. event_id \in [1..8 -> Octet] /\ json \in Jsons
  BY DEF ExchangeInv, PacketTypeOK, Busy, ClientResends
<1>2. Travels(Sent, event_id, json, damages)
  BY DEF Travels, Sent
<1>3. Sent \in Seq(Octet) /\ Len(Sent) > 0
  <2>1. Len(json) \in Nat /\ Sent \in Seq(Octet) /\ Len(Sent) = 25 + Len(json)
    BY <1>1, <1>2, TravelFacts
  <2> QED
    BY <2>1
<1>4. Parted(Sent, 0, <<>>, Sent)
  BY <1>3, AllOnItsWay
<1>5. <<>> \in Seq(Octet) /\ Len(<<>>) = 0
  BY EmptySeq
<1>6. PacketTypeOK'
  BY <1>3, <1>5, Limits DEF ExchangeInv, PacketTypeOK, ClientResends
<1>7. Arriving'
  BY <1>2, <1>4 DEF ClientResends, Arriving
<1> QED
  BY <1>6, <1>7 DEF ExchangeInv, ClientResends, ReplyConfirms, Busy, Idle, Answered

LEMMA ReadKeeps ==
    ASSUME ExchangeInv, ClientReads
    PROVE  ExchangeInv'
<1>1. event_id \in [1..8 -> Octet]
  BY DEF ExchangeInv, PacketTypeOK
<1>2. Returns(down, event_id, damages) /\ Header(down, 2, 8)
  BY <1>1, ReturnFacts DEF ExchangeInv, Answered, ClientReads
<1>3. Decode(down) = IF Fits(down) THEN 8 ELSE -1
  BY <1>2, FitsIsDecoded
<1>4. outcome' = "confirmed" \/ (outcome' = "rejected" /\ damages > 0)
  <2>1. CASE down = Answer(event_id)
    <3>1. Fits(down) /\ EventOf(down) = event_id
      BY <1>1, <2>1, AnswerIsSound DEF Sound
    <3> QED
      BY <1>3, <3>1 DEF ClientReads
  <2>2. CASE down # Answer(event_id)
    <3>1. damages > 0 /\ ~Fits(down)
      BY <1>2, <2>2 DEF Returns
    <3> QED
      BY <1>3, <3>1 DEF ClientReads
  <2> QED
    BY <2>1, <2>2
<1>5. Increment(event_id) \in [1..8 -> Octet]
  <2>1. \A i \in 1..8 : event_id[i] \in Octet /\ (event_id[i] + 1) % 256 \in Octet
    BY <1>1 DEF Octet
  <2> QED
    BY <2>1 DEF Increment
<1>6. requests + 1 \in 0..MaxRequests
  BY Limits DEF ExchangeInv, PacketTypeOK, Busy, ClientReads
<1>7. <<>> \in Seq(Octet)
  BY EmptySeq
<1>8. PacketTypeOK'
  BY <1>4, <1>5, <1>6, <1>7 DEF ExchangeInv, PacketTypeOK, ClientReads
<1>9. ReplyConfirms' /\ Idle'
  BY <1>4 DEF ExchangeInv, ReplyConfirms, Idle, Answered, ClientReads
<1> QED
  BY <1>8, <1>9 DEF ExchangeInv, ClientReads, Busy, Arriving, Answered

LEMMA DamageKeeps ==
    ASSUME ExchangeInv, NEW i \in Places, NEW d \in Deltas, Damage(i, d)
    PROVE  ExchangeInv'
<1>1. event_id \in [1..8 -> Octet] /\ damages \in Nat /\ damages + 1 > 0
  BY DEF ExchangeInv, PacketTypeOK
<1>2. i \in Nat /\ 9 < i /\ d \in 1..255
  BY PacketAssumption DEF PacketAssumption
<1>3. PICK j \in Nat : i = 9 + j /\ 1 <= j
  BY <1>2
<1>4. damages' \in 0..MaxDamages
  BY Limits DEF ExchangeInv, PacketTypeOK, Damage
<1>5. CASE Whole /\ i <= Len(up) /\ up' = Damaged(up, i, d) /\ UNCHANGED down
  <2>1. json \in Jsons
    BY <1>5 DEF ExchangeInv, Busy, Whole
  <2>2. PICK P : P = Damaged(Sent, i, d)
    OBVIOUS
  <2>3. PICK n \in Nat : n = 16 + Len(json) /\ Sound(Sent, n) /\ Len(Sent) = 9 + n
    <3>1. Len(json) \in Nat /\ Sound(Sent, 16 + Len(json))
      BY <1>1, <2>1, RequestIsSound DEF Sent
    <3>2. Len(Sent) = 9 + (16 + Len(json))
      BY <3>1 DEF Sound, Header
    <3> QED
      BY <3>1, <3>2
  <2>4. j \in 1..n
    BY <1>3, <1>5, <2>3 DEF Whole
  <2>5. Header(P, 2, n) /\ ~Fits(P)
    <3>1. Header(Sent, 2, n) /\ Fits(Sent)
      BY <2>3 DEF Sound
    <3>2. Header(Damaged(Sent, 9 + j, d), 2, n) /\ ~Fits(Damaged(Sent, 9 + j, d))
      BY <1>2, <2>4, <3>1, DamageShows
    <3> QED
      BY <1>3, <2>2, <3>2
  <2>6. Travels(P, event_id, json, damages + 1)
    BY <1>1, <2>3, <2>5 DEF Travels
  <2>7. P \in Seq(Octet) /\ Len(P) > 0
    BY <2>3, <2>5 DEF Header
  <2>8. Parted(P, 0, <<>>, P)
    BY <2>7, AllOnItsWay
  <2>9. r' = <<>> /\ up' = P
    BY <1>5, <2>2 DEF Whole, Damage
  <2>10. PacketTypeOK'
    BY <1>4, <1>5, <2>7, <2>9 DEF ExchangeInv, PacketTypeOK, Damage
  <2>11. Arriving'
    BY <2>6, <2>8, <2>9 DEF Arriving, Damage
  <2>12. stage = "sent"
    BY <1>5 DEF Whole
  <2>13. ReplyConfirms'
    BY <1>1 DEF ExchangeInv, ReplyConfirms, Damage
  <2> QED
    BY <2>10, <2>11, <2>12, <2>13 DEF ExchangeInv, Damage, Busy, Idle, Answered
<1>6. CASE /\ stage = "answered" /\ down = Answer(event_id) /\ i <= Len(down)
           /\ down' = Damaged(down, i, d) /\ UNCHANGED up
  <2>1. Sound(down, 8)
    BY <1>1, <1>6, AnswerIsSound
  <2>2. Header(down, 2, 8) /\ Fits(down) /\ Len(down) = 9 + 8
    BY <2>1 DEF Sound, Header
  <2>3. j \in 1..8
    BY <1>3, <1>6, <2>2
  <2>4. Header(down', 2, 8) /\ ~Fits(down')
    <3>1. Header(Damaged(down, 9 + j, d), 2, 8) /\ ~Fits(Damaged(down, 9 + j, d))
      BY <1>2, <2>2, <2>3, DamageShows
    <3> QED
      BY <1>3, <1>6, <3>1
  <2>5. Returns(down', event_id, damages + 1) /\ down' \in Seq(Octet)
    BY <1>1, <2>4 DEF Returns, Header
  <2>6. PacketTypeOK'
    BY <1>4, <1>6, <2>5 DEF ExchangeInv, PacketTypeOK, Damage
  <2>7. Answered'
    BY <1>6, <2>5 DEF ExchangeInv, Answered, Asked, Damage
  <2>8. ReplyConfirms'
    BY <1>1 DEF ExchangeInv, ReplyConfirms, Damage
  <2> QED
    BY <1>6, <2>6, <2>7, <2>8 DEF ExchangeInv, Damage, Busy, Idle, Arriving
<1> QED
  BY <1>5, <1>6 DEF Damage

LEMMA CloseKeeps ==
    ASSUME ExchangeInv, stage = "sent", Close,
           UNCHANGED <<event_id, json, requests, outcome, damages>>
    PROVE  ExchangeInv'
<1>1. <<>> \in Seq(Octet) /\ Len(<<>>) = 0
  BY EmptySeq
<1>2. PacketTypeOK'
  BY <1>1, Limits DEF ExchangeInv, PacketTypeOK, Close
<1> QED
  BY <1>2 DEF ExchangeInv, Close, ReplyConfirms, Busy, Idle, Arriving, Answered

(* A whole request within the limit: it is answered, or was damaged.       *)
LEMMA HandleKeeps ==
    ASSUME ExchangeInv, stage = "sent",
           NEW P, Travels(P, event_id, json, damages), Len(P) <= MaxPacket,
           Handle(P, Len(P)), up' = <<>>,
           UNCHANGED <<event_id, json, requests, outcome, damages>>
    PROVE  ExchangeInv'
<1>1. event_id \in [1..8 -> Octet] /\ json \in Jsons
  BY DEF ExchangeInv, PacketTypeOK, Busy
<1>2. /\ Len(json) \in Nat /\ Header(P, 2, 16 + Len(json))
      /\ P \in Seq(Octet) /\ Len(P) = 25 + Len(json)
  BY <1>1, TravelFacts
<1>3. SubSeq(P, 1, Len(P)) = P
  BY <1>2, SubSeqFull
<1>4. 25 + Len(json) < BufferSize
  BY <1>2, Limits
<1>5. PICK stack \in Stacks :
          IF \/ DecryptBuffer(Copy(stack, P)) = -1
             \/ GetCmdType(Decrypted(Copy(stack, P))) # CLIENT_CMD_DATA_REQ
            THEN Close
            ELSE /\ got' = Fields(Decrypted(Copy(stack, P)))
                 /\ down' = Answer(Fields(Decrypted(Copy(stack, P))).event_id)
                 /\ r' = SubSeq(P, Len(P) + 1, Len(P))
                 /\ stage' = "answered"
  BY <1>3 DEF Handle
<1>6. CASE P = Request(ClientId, event_id, json)
  <2>1. PICK p : p = Copy(stack, P)
    OBVIOUS
  <2>2. /\ DecryptBuffer(p) # -1 /\ GetCmdType(Decrypted(p)) = 2
        /\ Fields(Decrypted(p)) = Asked
    BY <1>1, <1>4, <1>6, <2>1, ServerReads, Limits DEF Asked
  <2>3. /\ got' = Asked /\ down' = Answer(Asked.event_id)
        /\ r' = SubSeq(P, Len(P) + 1, Len(P)) /\ stage' = "answered"
    BY <1>5, <2>1, <2>2 DEF CLIENT_CMD_DATA_REQ
  <2>4. Asked.event_id = event_id /\ Asked.data = json
    BY DEF Asked
  <2>5. r' = <<>>
    <3>1. SubSeq(P, Len(P) + 1, Len(P)) = <<>>
      BY <1>2, SubSeqEmpty
    <3> QED
      BY <2>3, <3>1
  <2>6. Returns(down', event_id, damages) /\ down' \in Seq(Octet)
    <3>1. Returns(down', event_id, damages)
      BY <2>3, <2>4 DEF Returns
    <3> QED
      BY <1>1, <3>1, ReturnFacts
  <2>7. <<>> \in Seq(Octet) /\ Len(<<>>) = 0
    BY EmptySeq
  <2>8. json \in Seq(Octet)
    BY <1>1, RequestIsSound
  <2>9. PacketTypeOK'
    BY <1>1, <2>3, <2>4, <2>5, <2>6, <2>7, <2>8, Limits DEF ExchangeInv, PacketTypeOK
  <2>10. Answered'
    BY <2>3, <2>5, <2>6 DEF Answered, Asked
  <2> QED
    BY <2>3, <2>9, <2>10 DEF ExchangeInv, ReplyConfirms, Busy, Idle, Arriving
<1>7. CASE P # Request(ClientId, event_id, json)
  <2>1. ~Fits(P)
    BY <1>7 DEF Travels
  <2>2. DecryptBuffer(Copy(stack, P)) = -1
    <3>1. PICK n \in Nat : n = 16 + Len(json) /\ 9 + n < BufferSize
      BY <1>2, <1>4
    <3> QED
      BY <1>2, <2>1, <3>1, ServerRefuses, Limits
  <2> QED
    BY <1>5, <2>2, CloseKeeps
<1> QED
  BY <1>6, <1>7

LEMMA InputKeeps ==
    ASSUME ExchangeInv, NEW m \in {n \in Pieces : n < Len(up)} \cup {Len(up)},
           ServerInput(m)
    PROVE  ExchangeInv'
<1>1. stage = "sent" /\ UNCHANGED <<event_id, json, requests, outcome, damages>>
  BY DEF ServerInput
<1>2. event_id \in [1..8 -> Octet] /\ json \in Jsons
  BY <1>1 DEF ExchangeInv, PacketTypeOK, Busy
<1>3. PICK P : \E k \in Nat : Travels(P, event_id, json, damages) /\ Parted(P, k, r, up)
  BY <1>1 DEF ExchangeInv, Arriving
<1>4. PICK k \in Nat : Travels(P, event_id, json, damages) /\ Parted(P, k, r, up)
  BY <1>3
<1>5. /\ Len(json) \in Nat /\ Header(P, 2, 16 + Len(json))
      /\ P \in Seq(Octet) /\ Len(P) = 25 + Len(json)
  BY <1>2, <1>4, TravelFacts
<1>6. k < Len(P) /\ (k < 9 \/ Len(P) <= MaxPacket)
  BY <1>4 DEF Parted
<1>7. m \in Nat /\ m <= Len(up) /\ up \in Seq(Octet)
  BY PacketAssumption DEF ExchangeInv, PacketTypeOK, PacketAssumption
<1>8. /\ Len(up) = Len(P) - k
      /\ r \o SubSeq(up, 1, m) = SubSeq(P, 1, k + m)
      /\ SubSeq(up, m + 1, Len(up)) = SubSeq(P, k + m + 1, Len(P))
  BY <1>4, <1>5, <1>7, MoreArrives
<1>9. PICK data : data = r \o SubSeq(up, 1, m) /\ data = SubSeq(P, 1, k + m)
  BY <1>8
<1>10. PICK c \in Nat : c = k + m /\ c <= Len(P)
  BY <1>5, <1>7, <1>8
<1>11. HandleInput(data) = IF c < 9 THEN 0
                           ELSE IF Len(P) > MaxPacket THEN -1
                           ELSE IF c < Len(P) THEN 0
                           ELSE Len(P)
  <2>1. PICK n \in Nat : n = 16 + Len(json) /\ Len(P) = 9 + n
    BY <1>5
  <2>2. Header(P, 2, n) /\ c <= 9 + n
    BY <1>5, <1>10, <2>1
  <2>3. HandleInput(SubSeq(P, 1, c)) = IF c < 9 THEN 0
                                       ELSE IF 9 + n > MaxPacket THEN -1
                                       ELSE IF c < 9 + n THEN 0
                                       ELSE 9 + n
    BY <2>2, Cut, Limits
  <2> QED
    BY <1>9, <1>10, <2>1, <2>3
<1>12. \/ Close
       \/ /\ HandleInput(data) = 0 /\ r' = data
          /\ up' = SubSeq(up, m + 1, Len(up)) /\ UNCHANGED <<stage, got, down>>
       \/ /\ HandleInput(data) > 0 /\ Handle(data, HandleInput(data))
          /\ up' = SubSeq(up, m + 1, Len(up))
  BY <1>9 DEF ServerInput
<1>13. CASE Close
  BY <1>1, <1>13, CloseKeeps
<1>14. CASE /\ HandleInput(data) = 0 /\ r' = data
            /\ up' = SubSeq(up, m + 1, Len(up)) /\ UNCHANGED <<stage, got, down>>
  <2>1. c < Len(P) /\ (c < 9 \/ Len(P) <= MaxPacket)
    BY <1>5, <1>10, <1>11, <1>14, Limits
  <2>2. Parted(P, c, r', up')
    BY <1>8, <1>9, <1>10, <1>14, <2>1 DEF Parted
  <2>3. 0 <= Len(up') /\ 0 \in Nat
    <3>1. SubSeq(P, c + 1, Len(P)) \in Seq(Octet)
      <4>1. \A i \in (c + 1)..Len(P) : P[i] \in Octet
        BY <1>5
      <4> QED
        BY <1>5, <4>1, SubSeqProperties
    <3> QED
      BY <2>2, <3>1 DEF Parted
  <2>4. /\ r' \in Seq(Octet) /\ Len(r') = c /\ up' \in Seq(Octet)
    BY <1>5, <2>2, <2>3, MoreArrives
  <2>5. c < MaxPacket
    BY <1>5, <2>1, Limits
  <2>6. PacketTypeOK'
    BY <1>1, <1>14, <2>4, <2>5 DEF ExchangeInv, PacketTypeOK
  <2>7. Arriving'
    BY <1>1, <1>4, <2>2 DEF Arriving
  <2> QED
    BY <1>1, <1>14, <2>6, <2>7 DEF ExchangeInv, ReplyConfirms, Busy, Idle, Answered
<1>15. CASE /\ HandleInput(data) > 0 /\ Handle(data, HandleInput(data))
            /\ up' = SubSeq(up, m + 1, Len(up))
  <2>1. HandleInput(data) = Len(P) /\ Len(P) <= MaxPacket /\ c = Len(P)
    BY <1>5, <1>10, <1>11, <1>15, Limits
  <2>2. data = P
    BY <1>5, <1>9, <1>10, <2>1, SubSeqFull
  <2>3. up' = <<>>
    <3>1. SubSeq(P, Len(P) + 1, Len(P)) = <<>>
      BY <1>5, SubSeqEmpty
    <3> QED
      BY <1>8, <1>10, <1>15, <2>1, <3>1
  <2> QED
    BY <1>1, <1>4, <1>15, <2>1, <2>2, <2>3, HandleKeeps
<1> QED
  BY <1>12, <1>13, <1>14, <1>15

LEMMA ExchangeStep == ExchangeInv /\ [Next]_vars => ExchangeInv'
<1> SUFFICES ASSUME ExchangeInv, [Next]_vars
             PROVE  ExchangeInv'
  OBVIOUS
<1>1. CASE UNCHANGED vars
  BY <1>1 DEF vars, ExchangeInv, PacketTypeOK, ReplyConfirms, Busy, Idle, Arriving,
              Answered, Asked
<1>2. CASE \E s \in Jsons : ClientSends(s)
  BY <1>2, SendKeeps
<1>3. CASE ClientResends
  BY <1>3, ResendKeeps
<1>4. CASE \E k \in {n \in Pieces : n < Len(up)} \cup {Len(up)} : ServerInput(k)
  BY <1>4, InputKeeps
<1>5. CASE ClientReads
  BY <1>5, ReadKeeps
<1>6. CASE \E i \in Places, d \in Deltas : Damage(i, d)
  BY <1>6, DamageKeeps
<1> QED
  BY <1>1, <1>2, <1>3, <1>4, <1>5, <1>6 DEF Next

LEMMA ExchangeHolds == PacketSpec => []ExchangeInv
  BY ExchangeInit, ExchangeStep, PTL DEF PacketSpec

-----------------------------------------------------------------------------
(* Octets stay octets, and no cache grows past the largest packet.         *)
THEOREM PacketTypeCorrect == PacketSpec => []PacketTypeOK
<1>1. ExchangeInv => PacketTypeOK
  BY DEF ExchangeInv
<1> QED
  BY <1>1, ExchangeHolds, PTL

(* However a request within the limit is cut up, HandleInput waits for all *)
(* of it and takes no octet more or less (client_unit.cpp, HandleInput).   *)
THEOREM FramesAreCutRight == PacketSpec => []FramesAreCut
<1>1. ExchangeInv => FramesAreCut
  <2> SUFFICES ASSUME ExchangeInv, Whole, ~TooLong, NEW k \in 0..Len(up)
               PROVE  HandleInput(SubSeq(up, 1, k)) = IF k = Len(up) THEN k ELSE 0
    BY DEF FramesAreCut
  <2>1. event_id \in [1..8 -> Octet] /\ json \in Jsons /\ up = Sent
    BY DEF ExchangeInv, PacketTypeOK, Busy, Whole
  <2>2. Travels(Sent, event_id, json, damages)
    BY DEF Travels, Sent
  <2>3. /\ Len(json) \in Nat /\ Header(Sent, 2, 16 + Len(json))
        /\ Sent \in Seq(Octet) /\ Len(Sent) = 25 + Len(json)
    BY <2>1, <2>2, TravelFacts
  <2>4. PICK n \in Nat : n = 16 + Len(json) /\ Len(Sent) = 9 + n
    BY <2>3
  <2>5. Header(Sent, 2, n) /\ k \in Nat /\ k <= 9 + n
    BY <2>1, <2>3, <2>4
  <2>6. HandleInput(SubSeq(Sent, 1, k)) = IF k < 9 THEN 0
                                          ELSE IF 9 + n > MaxPacket THEN -1
                                          ELSE IF k < 9 + n THEN 0
                                          ELSE 9 + n
    BY <2>5, Cut, Limits
  <2>7. ~(9 + n > MaxPacket)
    BY <2>4, Limits DEF TooLong
  <2> QED
    BY <2>1, <2>4, <2>5, <2>6, <2>7
<1> QED
  BY <1>1, ExchangeHolds, PTL

(* What the server reads is what the client wrote, field by field, however *)
(* the request came in (cmd_data_handler, InputPacket).                    *)
THEOREM RequestIsReadRight == PacketSpec => []RequestIsRead
<1>1. ExchangeInv => RequestIsRead
  BY DEF ExchangeInv, Answered, RequestIsRead
<1> QED
  BY <1>1, ExchangeHolds, PTL

(* A reply carries the event id of its request back, and one that the      *)
(* client rejects was damaged (parse_packet).                              *)
THEOREM ReplyConfirmsRight == PacketSpec => []ReplyConfirms
<1>1. ExchangeInv => ReplyConfirms
  BY DEF ExchangeInv
<1> QED
  BY <1>1, ExchangeHolds, PTL

(* No change of one octet of a body goes unnoticed, by either side         *)
(* (DecryptBuffer, decode).                                                *)
THEOREM DamageIsAlwaysNoticed == PacketSpec => []DamageIsNoticed
<1>1. ExchangeInv => DamageIsNoticed
  <2> SUFFICES ASSUME ExchangeInv, NEW d \in Deltas
               PROVE  /\ (Whole /\ ~TooLong) =>
                           \A i \in 10..Len(up) :
                               DecryptBuffer(Copy(Blank, Damaged(up, i, d))) = -1
                      /\ (stage = "answered" /\ down = Answer(event_id)) =>
                           \A i \in 10..Len(down) : Decode(Damaged(down, i, d)) = -1
    BY DEF DamageIsNoticed
  <2>1. event_id \in [1..8 -> Octet] /\ d \in 1..255
    BY PacketAssumption DEF ExchangeInv, PacketTypeOK, PacketAssumption
  <2>2. ASSUME Whole, ~TooLong, NEW i \in 10..Len(up)
        PROVE  DecryptBuffer(Copy(Blank, Damaged(up, i, d))) = -1
    <3>1. json \in Jsons /\ up = Sent
      BY <2>2 DEF ExchangeInv, Busy, Whole
    <3>2. PICK n \in Nat : n = 16 + Len(json) /\ Sound(Sent, n) /\ Len(Sent) = 9 + n
      <4>1. Len(json) \in Nat /\ Sound(Sent, 16 + Len(json))
        BY <2>1, <3>1, RequestIsSound DEF Sent
      <4>2. Len(Sent) = 9 + (16 + Len(json))
        BY <4>1 DEF Sound, Header
      <4> QED
        BY <4>1, <4>2
    <3>3. PICK j \in 1..n : i = 9 + j
      BY <2>2, <3>1, <3>2
    <3>4. Header(Sent, 2, n) /\ Fits(Sent)
      BY <3>2 DEF Sound
    <3>5. Header(Damaged(Sent, 9 + j, d), 2, n) /\ ~Fits(Damaged(Sent, 9 + j, d))
      BY <2>1, <3>4, DamageShows
    <3>6. 9 + n < BufferSize
      BY <2>2, <3>2, Limits DEF TooLong
    <3> QED
      BY <3>1, <3>3, <3>5, <3>6, ServerRefuses, Limits
  <2>3. ASSUME stage = "answered", down = Answer(event_id), NEW i \in 10..Len(down)
        PROVE  Decode(Damaged(down, i, d)) = -1
    <3>1. Header(down, 2, 8) /\ Fits(down)
      BY <2>1, <2>3, AnswerIsSound DEF Sound
    <3>2. Len(down) = 9 + 8
      BY <3>1 DEF Header
    <3>3. PICK j \in 1..8 : i = 9 + j
      BY <2>3, <3>2
    <3>4. Header(Damaged(down, 9 + j, d), 2, 8) /\ ~Fits(Damaged(down, 9 + j, d))
      BY <2>1, <3>1, <3>3, DamageShows
    <3> QED
      BY <3>3, <3>4, FitsIsDecoded
  <2> QED
    BY <2>2, <2>3
<1> QED
  BY <1>1, ExchangeHolds, PTL

=============================================================================
