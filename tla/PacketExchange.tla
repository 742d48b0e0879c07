-------------------------- MODULE PacketExchange ----------------------------
(***************************************************************************)
(* A client and the server exchange requests and replies octet by octet.   *)
(*                                                                         *)
(* A request arrives in pieces; when it is whole the server reads its      *)
(* fields and answers with the event id, and the client compares.  What is *)
(* lost, late or doubled is left to OrderSync, and how the server's reads  *)
(* and sends are driven to ClientUnit; here the octets are what matters.   *)
(* An octet of a body may be damaged on its way, which is what the check   *)
(* code is for.  Replies arrive whole.                                     *)
(***************************************************************************)
EXTENDS ClientPacket, ServerPacket

CONSTANTS ClientId,      \* g_conf.client_id
          FirstEvents,   \* the event ids from which requests are looked at
          Jsons,         \* what the client sends: octets, none of them NUL
          MaxRequests,   \* bound: how many requests
          Pieces,        \* bound: the sizes of a piece that is not the rest
          Stacks,        \* what the stack may hold below HandleInputBuf
          Places,        \* bound: where an octet is damaged
          Deltas,        \* bound: by how much it differs then
          MaxDamages     \* bound: how often that happens

ASSUME PacketAssumption ==
    /\ MaxPacket \in Nat /\ BufferSize \in Nat
    /\ HeaderSize < MaxPacket /\ MaxPacket < BufferSize /\ BufferSize < 2^15
    /\ ClientId \in Nat /\ ClientId \div 65536 < 32768
    /\ FirstEvents \subseteq [1..8 -> Octet]
    /\ Jsons \subseteq Seq(Octet \ {0})
    /\ \A s \in Jsons : 9 + 4 + 8 + 4 + Len(s) + 1 <= ClientBuffer
    /\ Stacks \subseteq [1..BufferSize -> Octet]
    /\ Pieces \subseteq Nat \ {0} /\ MaxRequests \in Nat
    /\ Places \subseteq Nat \ 0..9 /\ Deltas \subseteq 1..255 /\ MaxDamages \in Nat

VARIABLES stage,      \* "ready", "sent", "closed" or "answered"
          event_id,   \* the client's
          json,       \* what the client sends
          requests,   \* how many requests were answered
          up,         \* octets on their way to the server
          r,          \* the cache _r of the connection
          got,        \* history: the fields the server has read last
          down,       \* octets on their way to the client
          outcome,    \* history: what the client made of the last reply
          damages     \* history: how many octets were damaged

vars == <<stage, event_id, json, requests, up, r, got, down, outcome, damages>>

Sent == Request(ClientId, event_id, json)
Asked == [client_id |-> ClientId, event_id |-> event_id, data |-> json]

Init ==
    /\ stage = "ready" /\ event_id \in FirstEvents /\ json = <<>> /\ requests = 0
    /\ up = <<>> /\ r = <<>> /\ down = <<>>
    /\ got = [client_id |-> 0, event_id |-> event_id, data |-> <<>>]
    /\ outcome = "none" /\ damages = 0

ClientSends(s) ==
    /\ stage = "ready" /\ requests < MaxRequests
    /\ stage' = "sent" /\ json' = s
    /\ up' = Request(ClientId, event_id, s)
    /\ UNCHANGED <<event_id, requests, r, got, down, outcome, damages>>

(* The connection was closed: the same packet goes out on a new one. *)
ClientResends ==
    /\ stage = "closed"
    /\ stage' = "sent" /\ up' = Sent /\ r' = <<>>
    /\ UNCHANGED <<event_id, json, requests, got, down, outcome, damages>>

(* Twenty-three octets that begin with "<p" are taken for a policy file    *)
(* request, whatever came before them; the connection is closed after it.  *)
Policy(piece) == Len(piece) = 23 /\ piece[1] = 60 /\ piece[2] = 112

Close == /\ stage' = "closed" /\ up' = <<>> /\ r' = <<>>
         /\ UNCHANGED <<got, down>>

(* HandleInputBuf and cmd_data_handler, for the first n octets of the cache. *)
Handle(data, n) ==
    \E stack \in Stacks :
        LET packet == Copy(stack, SubSeq(data, 1, n))
            clear == Decrypted(packet)
        IN  IF DecryptBuffer(packet) = -1 \/ GetCmdType(clear) # CLIENT_CMD_DATA_REQ
              THEN Close
              ELSE /\ got' = Fields(clear)
                   /\ down' = Answer(Fields(clear).event_id)
                   /\ r' = SubSeq(data, n + 1, Len(data))
                   /\ stage' = "answered"

(* proc_pkg, when k octets can be received. *)
ServerInput(k) ==
    /\ stage = "sent"
    /\ LET piece == SubSeq(up, 1, k)
           data == r \o piece
           n == HandleInput(data)
       IN  \/ /\ Policy(piece) \/ n = -1
              /\ Close
           \/ /\ ~Policy(piece) /\ n = 0
              /\ r' = data
              /\ up' = SubSeq(up, k + 1, Len(up))
              /\ UNCHANGED <<stage, got, down>>
           \/ /\ ~Policy(piece) /\ n > 0
              /\ Handle(data, n)
              /\ up' = SubSeq(up, k + 1, Len(up))
    /\ UNCHANGED <<event_id, json, requests, outcome, damages>>

(* parse_packet, the comparison, which is only logged, and event_id++. *)
ClientReads ==
    /\ stage = "answered"
    /\ outcome' = IF Decode(down) = -1 THEN "rejected"
                  ELSE IF EventOf(down) = event_id THEN "confirmed"
                  ELSE "foreign"
    /\ stage' = "ready" /\ down' = <<>>
    /\ event_id' = Increment(event_id)
    /\ requests' = requests + 1
    /\ UNCHANGED <<json, up, r, got, damages>>

(* One octet of a body changes on its way, at most one of a packet. *)
Damaged(packet, i, d) == [packet EXCEPT ![i] = (@ + d) % 256]

Whole == stage = "sent" /\ r = <<>> /\ up = Sent

Damage(i, d) ==
    /\ damages < MaxDamages
    /\ \/ /\ Whole /\ i <= Len(up)
          /\ up' = Damaged(up, i, d) /\ UNCHANGED down
       \/ /\ stage = "answered" /\ down = Answer(event_id) /\ i <= Len(down)
          /\ down' = Damaged(down, i, d) /\ UNCHANGED up
    /\ damages' = damages + 1
    /\ UNCHANGED <<stage, event_id, json, requests, r, got, outcome>>

Next ==
    \/ \E s \in Jsons : ClientSends(s)
    \/ ClientResends
    \/ \E k \in {n \in Pieces : n < Len(up)} \cup {Len(up)} : ServerInput(k)
    \/ ClientReads
    \/ \E i \in Places, d \in Deltas : Damage(i, d)

PacketSpec == Init /\ [][Next]_vars
-----------------------------------------------------------------------------
(* Octets are octets, and what waits in a cache is less than a packet of   *)
(* the largest size.                                                       *)
PacketTypeOK ==
    /\ stage \in {"ready", "sent", "closed", "answered"}
    /\ event_id \in [1..8 -> Octet]
    /\ json \in Jsons \cup {<<>>}
    /\ requests \in 0..MaxRequests
    /\ up \in Seq(Octet) /\ down \in Seq(Octet)
    /\ r \in Seq(Octet) /\ Len(r) < MaxPacket
    /\ got.event_id \in [1..8 -> Octet] /\ got.data \in Seq(Octet)
    /\ outcome \in {"none", "confirmed", "rejected", "foreign"}
    /\ damages \in 0..MaxDamages

TooLong == Len(Sent) > MaxPacket

(* However a request is cut up on its way, HandleInput waits for all of it *)
(* and takes no octet more or less; only one above the limit is refused.   *)
FramesAreCut ==
    (Whole /\ ~TooLong) =>
        \A k \in 0..Len(up) :
            HandleInput(SubSeq(up, 1, k)) = IF k = Len(up) THEN k ELSE 0

(* The server reads the fields the client wrote, whatever octets the order *)
(* has and whatever an earlier packet left in the buffer, although the     *)
(* string travels without the NUL at which the server ends it; a damaged   *)
(* request is sent again.                                                  *)
RequestIsRead == stage = "answered" => got = Asked /\ r = <<>> /\ up = <<>>

(* The client finds in every reply that was not damaged its own event id,  *)
(* also when the id carries from one octet to the next or wraps, and never *)
(* takes a reply for that of another event.                                *)
ReplyConfirms == outcome # "foreign" /\ (outcome = "rejected" => damages > 0)

Blank == CHOOSE stack \in Stacks : TRUE

(* The check code and the tables together notice every change of a single  *)
(* octet of a body, in both directions: the tables are one-to-one, so the  *)
(* clear octet differs, and so does the sum.                               *)
DamageIsNoticed ==
    \A d \in Deltas :
        /\ (Whole /\ ~TooLong) =>
             \A i \in 10..Len(up) :
                 DecryptBuffer(Copy(Blank, Damaged(up, i, d))) = -1
        /\ (stage = "answered" /\ down = Answer(event_id)) =>
             \A i \in 10..Len(down) : Decode(Damaged(down, i, d)) = -1
=============================================================================
