------------------------- MODULE MCPacketExchange ---------------------------
(***************************************************************************)
(* Five orders: a short one; one with every octet but NUL; one of eighteen *)
(* octets, whose request ends in 23 that begin with "<p" when the event id *)
(* ends in the octet that is sent as "<"; and two at the limit of the      *)
(* size, the second one octet too long.                                    *)
(***************************************************************************)
EXTENDS PacketExchange

U64(low) == [i \in 1..8 |-> IF i = 1 THEN low ELSE 0]

MCFirstEvents == {U64(132), U64(254), [i \in 1..8 |-> 255]}
Letters(n) == [i \in 1..n |-> 65 + (i % 2)]
MCJsons == {Letters(1), [i \in 1..255 |-> i], Letters(18),
            Letters(MaxPacket - 25), Letters(MaxPacket - 24)}

(* A clean stack, and one full of letters with a NUL at its very end. *)
MCStacks == {[i \in 1..BufferSize |-> 0],
             [i \in 1..BufferSize |-> IF i = BufferSize THEN 0 ELSE 66]}
=============================================================================
