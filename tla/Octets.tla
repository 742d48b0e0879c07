------------------------------ MODULE Octets --------------------------------
(***************************************************************************)
(* Integers as octets, the way both programs lay them out in a packet.     *)
(*                                                                         *)
(* A 64-bit integer is its eight octets in the order of the memory of the  *)
(* machine: TLC's integers are 32 bits wide, and an event id is only ever  *)
(* copied, compared and counted up.  Both programs run on machines that    *)
(* put the low octet first (x86).                                          *)
(***************************************************************************)
EXTENDS Integers, SequencesExt

Octet == 0..255

(* htons of the low 16 bits, and htonl of an int that is not negative. *)
htons(n) == <<(n \div 256) % 256, n % 256>>
htonl(n) == htons(n \div 65536) \o htons(n)

ntohs(s) == 256 * s[1] + s[2]
ntohl(s) == 65536 * ntohs(SubSeq(s, 1, 2)) + ntohs(SubSeq(s, 3, 4))

(* _htonll and _ntohll swap the octets of a 64-bit integer. *)
htonll(u) == Reverse(u)

(* u + 1 in 64 bits: every octet below the first that is not 255 wraps. *)
Increment(u) ==
    [i \in 1..8 |-> IF \A k \in 1..(i - 1) : u[k] = 255
                      THEN (u[i] + 1) % 256
                      ELSE u[i]]

(* The octets of s added up in an unsigned char: sum[n][i] is the sum of   *)
(* the n octets after the i-th (by halves, which bounds the depth of the   *)
(* recursion).  The code makes the sum zero: ~sum + 1.                     *)
HalfSums(s, sum, n) ==
    LET half == n \div 2
    IN  [i \in Nat |-> IF n = 0 THEN 0
                       ELSE IF n = 1 THEN s[i + 1]
                       ELSE (sum[half][i] + sum[n - half][i + half]) % 256]
Sum8(s) ==
    LET sum[n \in 0..Len(s)] == HalfSums(s, sum, n)
    IN  sum[Len(s)][0]

CheckCode(s) == (255 - Sum8(s) + 1) % 256
=============================================================================
