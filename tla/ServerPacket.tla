--------------------------- MODULE ServerPacket -----------------------------
(***************************************************************************)
(* The server's packets: where HandleInput cuts the stream of a            *)
(* connection, InputPacket and OutputPacket with their buffers, and        *)
(* CEncryptDecrypt (proxy/client_unit.cpp, proxy/ICHAT_PacketBase.h,       *)
(* proxy/EncryptDecrypt.cpp).                                              *)
(*                                                                         *)
(* An input packet is a record: strBuf, the whole buffer; size, what of it *)
(* is the packet; pos, where the next read starts.  Positions count from   *)
(* 0, as in the code.                                                      *)
(***************************************************************************)
EXTENDS Octets

CONSTANTS BufferSize,   \* ICHAT_TCP_DEFAULT_BUFFER
          MaxPacket     \* 8 * 1000

CLIENT_CMD_DATA_REQ == 2
SERVER_CMD_DATA_REP == 2
HeaderSize == 9

SendByteMap ==
    <<112, 47, 64, 95, 68, 142, 110, 69, 126, 171, 44, 31, 180, 172, 157, 145, 13, 54,
      155, 11, 212, 196, 57, 116, 191, 35, 22, 20, 6, 235, 4, 62, 18, 92, 139, 188,
      97, 99, 246, 165, 225, 101, 216, 245, 90, 7, 240, 19, 242, 32, 107, 74, 36, 89,
      137, 100, 215, 66, 106, 94, 61, 10, 119, 224, 128, 39, 184, 197, 140, 14, 250, 138,
      213, 41, 86, 87, 108, 83, 103, 65, 232, 0, 26, 206, 134, 131, 176, 34, 40, 77,
      63, 38, 70, 79, 111, 43, 114, 58, 241, 141, 151, 149, 73, 132, 229, 227, 121, 143,
      81, 16, 168, 130, 198, 221, 255, 252, 228, 207, 179, 9, 93, 234, 156, 52, 249, 23,
      159, 218, 135, 248, 21, 5, 60, 211, 164, 133, 46, 251, 238, 71, 59, 239, 55, 127,
      147, 175, 105, 12, 113, 49, 222, 33, 117, 160, 170, 186, 124, 56, 2, 183, 129, 1,
      253, 231, 29, 204, 205, 189, 27, 122, 42, 173, 102, 190, 85, 51, 3, 219, 136, 178,
      30, 78, 185, 230, 194, 247, 203, 125, 201, 98, 195, 166, 220, 167, 80, 181, 75, 148,
      192, 146, 76, 17, 91, 120, 217, 177, 237, 25, 233, 161, 28, 182, 50, 153, 163, 118,
      158, 123, 109, 154, 48, 214, 169, 37, 199, 174, 150, 53, 208, 187, 210, 200, 162, 8,
      243, 209, 115, 244, 72, 45, 144, 202, 226, 88, 193, 24, 82, 254, 223, 104, 152, 84,
      236, 96, 67, 15>>

RecvByteMap ==
    <<81, 161, 158, 176, 30, 131, 28, 45, 233, 119, 61, 19, 147, 16, 69, 255, 109, 201,
      32, 47, 27, 130, 26, 125, 245, 207, 82, 168, 210, 164, 180, 11, 49, 151, 87, 25,
      52, 223, 91, 65, 88, 73, 170, 95, 10, 239, 136, 1, 220, 149, 212, 175, 123, 227,
      17, 142, 157, 22, 97, 140, 132, 60, 31, 90, 2, 79, 57, 254, 4, 7, 92, 139,
      238, 102, 51, 196, 200, 89, 181, 93, 194, 108, 246, 77, 251, 174, 74, 75, 243, 53,
      44, 202, 33, 120, 59, 3, 253, 36, 189, 37, 55, 41, 172, 78, 249, 146, 58, 50,
      76, 218, 6, 94, 0, 148, 96, 236, 23, 152, 215, 62, 203, 106, 169, 217, 156, 187,
      8, 143, 64, 160, 111, 85, 103, 135, 84, 128, 178, 54, 71, 34, 68, 99, 5, 107,
      240, 15, 199, 144, 197, 101, 226, 100, 250, 213, 219, 18, 122, 14, 216, 126, 153, 209,
      232, 214, 134, 39, 191, 193, 110, 222, 154, 9, 13, 171, 225, 145, 86, 205, 179, 118,
      12, 195, 211, 159, 66, 182, 155, 229, 35, 167, 173, 24, 198, 244, 184, 190, 21, 67,
      112, 224, 231, 188, 241, 186, 165, 166, 83, 117, 228, 235, 230, 133, 20, 72, 221, 56,
      42, 204, 127, 177, 192, 113, 150, 248, 63, 40, 242, 105, 116, 104, 183, 163, 80, 208,
      121, 29, 252, 206, 138, 141, 46, 98, 48, 234, 237, 43, 38, 185, 129, 124, 70, 137,
      115, 162, 247, 114>>

(* Mutants of HandleInput: the octets of the length do not count, and the  *)
(* size is not limited.                                                    *)
HandleInputShort(data) ==
    LET pkglen == ntohs(data)
    IN  IF Len(data) < HeaderSize THEN 0
        ELSE IF SubSeq(data, 3, 4) # <<66, 89>> \/ pkglen > MaxPacket THEN -1
        ELSE IF Len(data) < pkglen THEN 0
        ELSE pkglen
HandleInputAnySize(data) ==
    LET pkglen == 2 + ntohs(data)
    IN  IF Len(data) < HeaderSize THEN 0
        ELSE IF SubSeq(data, 3, 4) # <<66, 89>> THEN -1
        ELSE IF Len(data) < pkglen THEN 0
        ELSE pkglen

(* 0: more octets are needed; -1: no packet; else the size of the first    *)
(* packet in the cache.                                                    *)
HandleInput(data) ==
    LET pkglen == 2 + ntohs(data)
    IN  IF Len(data) < HeaderSize THEN 0
        ELSE IF SubSeq(data, 3, 4) # <<66, 89>> \/ pkglen > MaxPacket THEN -1
        ELSE IF Len(data) < pkglen THEN 0
        ELSE pkglen

(* Mutant of Reset: the buffer is used as it is found. *)
ResetNothing(stack) == stack

(* The buffer is on the stack: stack is what an earlier call left there. *)
Reset(stack) == [i \in 1..BufferSize |-> 0]

Copy(stack, data) ==
    LET reset == Reset(stack)
    IN  [strBuf |-> [i \in 1..BufferSize |-> IF i <= Len(data) THEN data[i] ELSE reset[i]],
         size |-> Len(data), pos |-> HeaderSize]

GetCmdType(p) == ntohs(SubSeq(p.strBuf, 7, 8))
GetBodyLength(p) == ntohs(SubSeq(p.strBuf, 1, 2))

(* wDataSize is a WORD: a length below 7 would make it wrap, and be larger *)
(* than the buffer. No packet of the client has one.                       *)
DataSize(p) == (GetBodyLength(p) - 7) % 65536

(* What DecryptBuffer leaves in the packet, and what it returns. *)
Decrypted(p) ==
    LET data == (HeaderSize + 1)..(HeaderSize + DataSize(p))
    IN  [p EXCEPT !.strBuf = [i \in 1..BufferSize |->
                                IF i \in data THEN RecvByteMap[@[i] + 1] ELSE @[i]]]
(* Mutant of DecryptBuffer: the code is not looked at. *)
DecryptUnchecked(p) == DataSize(p)

DecryptBuffer(p) ==
    LET data == SubSeq(Decrypted(p).strBuf, HeaderSize + 1, HeaderSize + DataSize(p))
    IN  IF (p.strBuf[HeaderSize] + Sum8(data)) % 256 # 0 THEN -1 ELSE DataSize(p)

(* _Read and _readpoint: n octets at pos, if the packet has them. *)
Has(p, n) == p.pos + n <= p.size
At(p, n) == SubSeq(p.strBuf, p.pos + 1, p.pos + n)
Skip(p, n) == IF Has(p, n) THEN [p EXCEPT !.pos = @ + n] ELSE p

ReadInt(p) == IF Has(p, 4) THEN ntohl(At(p, 4)) ELSE -1
ReadULong(p) == IF Has(p, 8) THEN htonll(At(p, 8)) ELSE [i \in 1..8 |-> 255]

(* A C string goes on to the next NUL, wherever the packet ends. *)
CString(p) ==
    LET isEnd(i) == i = BufferSize \/ p.strBuf[i + 1] = 0
        end == CHOOSE i \in p.pos..BufferSize :
                   isEnd(i) /\ \A k \in p.pos..(i - 1) : ~isEnd(k)
    IN  SubSeq(p.strBuf, p.pos + 1, end)
ReadString(p) ==
    LET n == ReadInt(p)
    IN  IF n = -1 \/ ~Has(Skip(p, 4), n) THEN <<>> ELSE CString(Skip(p, 4))

(* The fields of a request, in the order cmd_data_handler reads them. *)
Fields(p) ==
    [client_id |-> ReadInt(p),
     event_id |-> ReadULong(Skip(p, 4)),
     data |-> ReadString(Skip(Skip(p, 4), 8))]

(* The reply: Begin, WriteULong, End and EncryptBuffer. *)
EncryptBuffer(cmd, body) ==
    htons(HeaderSize + Len(body) - 2) \o <<66, 89, 1, 1>> \o htons(cmd)
        \o <<CheckCode(body)>> \o [i \in DOMAIN body |-> SendByteMap[body[i] + 1]]

(* Mutant of Answer: the id goes out in host order. *)
AnswerInHostOrder(event_id) == EncryptBuffer(SERVER_CMD_DATA_REP, event_id)

Answer(event_id) == EncryptBuffer(SERVER_CMD_DATA_REP, htonll(event_id))
=============================================================================
