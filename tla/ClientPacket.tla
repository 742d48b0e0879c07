--------------------------- MODULE ClientPacket -----------------------------
(***************************************************************************)
(* packet_t of the client (src/packet.cc, inc/packet.h): how a request is  *)
(* written, and how a reply is checked and read.                           *)
(*                                                                         *)
(* A packet is a sequence of octets: its length without the two octets of  *)
(* the length, "BY", two version octets, the command, the check code, and  *)
(* the body, each octet mapped through a table.                            *)
(***************************************************************************)
EXTENDS Octets

CMD_DATA_SYNC == 2

(* __MAX_PACKET_SIZE__.  The writes copy whatever they get. *)
ClientBuffer == 16 * 1024

encode_map ==
    <<112, 47, 64, 95, 68, 142, 110, 69, 126, 171, 44, 31, 180, 172, 157, 145, 13, 54,
      155, 11, 212, 196, 57, 116, 191, 35, 22, 20, 6, 235, 4, 62, 18, 92, 139, 188,
      97, 99, 246, 165, 225, 101, 216, 245, 90, 7, 240, 19, 242, 32, 107, 74, 36, 89,
      137, 100, 215, 66, 106, 94, 61, 10, 119, 224, 128, 39, 184, 197, 140, 14, 250, 138,
      213, 41, 86, 87, 108, 83, 103, 65, 232, 0, 26, 206, 134, 131, 176, 34, 40, 77,
      63, 38, 70, 79, 111, 43, 114, 58, 241, 141, 151, 149, 73, 132, 229, 227, 121, 143,
      81, 16, 168, 130, 198, 221, 255, 252, 228, 207, 179, 9, 93, 234, 156, 52, 249, 23,
      159, 218, 135, 248, 21, 5, 60, 211, 164, 133, 46, 251, 238, 71, 59, 239, 55, 127,
      147, 175, 105, 12, 113, 49, 222, 33, 117, 160, 170, 186, 124, 56, 2, 183, 129, 1,
      253, 231, 29, 204, 205, 189, 27, 122, 42, 173, 102, 190, 85, 51, 3, 219, 136, 178,
      30, 78, 185, 230, 194, 247, 203, 125, 201, 98, 195, 166, 220, 167, 80, 181, 75, 148,
      192, 146, 76, 17, 91, 120, 217, 177, 237, 25, 233, 161, 28, 182, 50, 153, 163, 118,
      158, 123, 109, 154, 48, 214, 169, 37, 199, 174, 150, 53, 208, 187, 210, 200, 162, 8,
      243, 209, 115, 244, 72, 45, 144, 202, 226, 88, 193, 24, 82, 254, 223, 104, 152, 84,
      236, 96, 67, 15>>

decode_map ==
    <<81, 161, 158, 176, 30, 131, 28, 45, 233, 119, 61, 19, 147, 16, 69, 255, 109, 201,
      32, 47, 27, 130, 26, 125, 245, 207, 82, 168, 210, 164, 180, 11, 49, 151, 87, 25,
      52, 223, 91, 65, 88, 73, 170, 95, 10, 239, 136, 1, 220, 149, 212, 175, 123, 227,
      17, 142, 157, 22, 97, 140, 132, 60, 31, 90, 2, 79, 57, 254, 4, 7, 92, 139,
      238, 102, 51, 196, 200, 89, 181, 93, 194, 108, 246, 77, 251, 174, 74, 75, 243, 53,
      44, 202, 33, 120, 59, 3, 253, 36, 189, 37, 55, 41, 172, 78, 249, 146, 58, 50,
      76, 218, 6, 94, 0, 148, 96, 236, 23, 152, 215, 62, 203, 106, 169, 217, 156, 187,
      8, 143, 64, 160, 111, 85, 103, 135, 84, 128, 178, 54, 71, 34, 68, 99, 5, 107,
      240, 15, 199, 144, 197, 101, 226, 100, 250, 213, 219, 18, 122, 14, 216, 126, 153, 209,
      232, 214, 134, 39, 191, 193, 110, 222, 154, 9, 13, 171, 225, 145, 86, 205, 179, 118,
      12, 195, 211, 159, 66, 182, 155, 229, 35, 167, 173, 24, 198, 244, 184, 190, 21, 67,
      112, 224, 231, 188, 241, 186, 165, 166, 83, 117, 228, 235, 230, 133, 20, 72, 221, 56,
      42, 204, 127, 177, 192, 113, 150, 248, 63, 40, 242, 105, 116, 104, 183, 163, 80, 208,
      121, 29, 252, 206, 138, 141, 46, 98, 48, 234, 237, 43, 38, 185, 129, 124, 70, 137,
      115, 162, 247, 114>>

(* What begin, the writes, and end with encode() leave in the buffer: the  *)
(* code is taken of the clear octets.                                      *)
Encoded(cmd, body) ==
    htons(9 + Len(body) - 2) \o <<66, 89, 1, 1>> \o htons(cmd)
        \o <<CheckCode(body)>> \o [i \in DOMAIN body |-> encode_map[body[i] + 1]]

(* write_string writes the length without the final NUL, and len leaves    *)
(* the NUL that strcpy copies out of the packet.                           *)
WriteString(s) == htonl(Len(s)) \o s

Request(client_id, event_id, json) ==
    Encoded(CMD_DATA_SYNC, htonl(client_id) \o htonll(event_id) \o WriteString(json))

(* The clear body of a packet, as decode() leaves it behind the header, and *)
(* decode's result.                                                         *)
Body(packet) == [i \in 1..(Len(packet) - 9) |-> decode_map[packet[9 + i] + 1]]

Decode(packet) ==
    IF (packet[9] + Sum8(Body(packet))) % 256 # 0 THEN -1 ELSE Len(packet) - 9

(* read_uint64 after parse_packet, which puts idx behind the header. *)
EventOf(packet) == htonll(SubSeq(Body(packet), 1, 8))
=============================================================================
