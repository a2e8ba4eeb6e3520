---------------------------- MODULE TrftpMessage ----------------------------
(***************************************************************************)
(* The datagrams of trftp/common.h and the arithmetic by which the two     *)
(* ends cut a file into packets.                                           *)
(*                                                                         *)
(* A file is a record [id, version]: id stands for its bytes and doubles   *)
(* as their CRC-32, which is thereby taken to be free of collisions;       *)
(* Length[id] is how many they are.  A chunk of a file is a record         *)
(* [of, psn, len]: the first len bytes of its psn-th packet.               *)
(***************************************************************************)
EXTENDS Integers, Sequences

CONSTANTS
  PayloadSize,  \* sizeof(TrftpMessage::payload), 1408 in common.h
  WordSize,     \* number of values of std::uint32_t, 2^32
  FileId,       \* file contents
  Length,       \* Length[id]: the size of a file on disk
  Version       \* file versions, 0 among them

ASSUME WireAssumption ==
  /\ PayloadSize \in Nat \ {0}
  /\ WordSize \in Nat /\ PayloadSize < WordSize
  /\ Length \in [FileId -> Nat]
  /\ Version \subseteq Nat /\ 0 \in Version

FileRecord == [id : FileId, version : Version]

ServerId == {"NTF", "INFO", "DATA", "FIN", "CXL"}
ClientId == {"CHK", "RDY", "RTX", "DONE", "CXL"}
FtpStatus == ServerId \cup ClientId

-----------------------------------------------------------------------------
(***************************************************************************)
(* Packet arithmetic.  The server's constructor and the offset in          *)
(* SendFileAsync are computed in 32 bits and wrap; CompleteHeader and the  *)
(* client promote to 64 bits.                                              *)
(***************************************************************************)

\* new_file_size_: the file's length truncated to 32 bits.
NewFileSize(f) == Length[f.id] % WordSize

\* total_packet_number_ as the server computes it.
ServerPackets(size) == ((size + PayloadSize - 1) % WordSize) \div PayloadSize

\* Fault: the [+1] of the comment on total_packet_number_ taken literally.
ClientPacketsPlusOne(size) == size \div PayloadSize + 1

\* total_packet_number_ as the client computes it from INFO.file_length.
ClientPackets(size) == (size + PayloadSize - 1) \div PayloadSize

\* header.tpn and header.pl as CompleteHeader fills them in.
HeaderTpn(tpl) == IF tpl = 0 THEN 1 ELSE (tpl + PayloadSize - 1) \div PayloadSize

\* Fault: the length of the last packet is left at the full payload.
HeaderPlAlwaysFull(tpl, psn) == PayloadSize

HeaderPl(tpl, psn) ==
  IF psn = HeaderTpn(tpl) - 1 THEN tpl % PayloadSize ELSE PayloadSize

\* file_offset and payload_len of packet psn in SendFileAsync.
FileOffset(psn) == (psn * PayloadSize) % WordSize

\* Fault: the last packet is read at full length.
ReadLengthAlwaysFull(size, psn) == PayloadSize

ReadLength(size, psn) ==
  IF psn = ServerPackets(size) - 1
  THEN (size - FileOffset(psn)) % WordSize
  ELSE PayloadSize

\* The whole file, cut into packets.
Content(id) ==
  [i \in 1..ClientPackets(Length[id]) |->
     [of |-> id, psn |-> i - 1,
      len |-> IF i < ClientPackets(Length[id]) THEN PayloadSize
              ELSE Length[id] - (i - 1) * PayloadSize]]

-----------------------------------------------------------------------------
(***************************************************************************)
(* Datagrams.  dst is the socket a datagram is addressed to: the server's, *)
(* the client's well-known one ("main") or the one of the client's         *)
(* transaction ("tran").                                                   *)
(***************************************************************************)

ClientSocket == {"main", "tran"}

Simple(xid, dst) == [xid |-> xid, dst |-> dst]

\* A notification may reach a client damaged, or, from another program, well
\* formed but with a payload of another length.
NtfForm == {"good", "damaged", "length"}

Ntf(f, dst) ==
  [xid |-> "NTF", dst |-> dst, version |-> f.version, form |-> "good"]

Info(f, dst) ==
  [xid |-> "INFO", dst |-> dst, version |-> f.version,
   size |-> NewFileSize(f), crc |-> f.id]

\* len is the number of payload bytes handed to sendto; pl is what the
\* header says, and how many payload bytes the header's CRC covers.  The
\* bytes are those that the path of f leads to when they are read.
Data(f, psn, bytes, dst) ==
  [xid |-> "DATA", dst |-> dst, psn |-> psn,
   tpn |-> HeaderTpn(NewFileSize(f)),
   pl  |-> HeaderPl(NewFileSize(f), psn),
   len |-> ReadLength(NewFileSize(f), psn),
   of  |-> bytes]

Rtx(psn) == [xid |-> "RTX", dst |-> "server", psn |-> psn]

Done(version, size, crc) ==
  [xid |-> "DONE", dst |-> "server",
   version |-> version, size |-> size, crc |-> crc]

\* Every datagram a client can send, and any other datagram from its address
\* ("BAD": one that fails the integrity check or has an unknown id).
ClientDatagram ==
  [xid : {"CHK", "RDY", "CXL", "BAD"}, dst : {"server"}]
    \cup [xid : {"RTX"}, dst : {"server"}, psn : Nat]
    \cup [xid : {"DONE"}, dst : {"server"},
          version : Version, size : Nat, crc : FileId]

\* Every datagram a server can send, and any other well-formed one from its
\* address.
ServerDatagram ==
  [xid : {"NTF"}, dst : ClientSocket, version : Version, form : NtfForm]
    \cup [xid : {"INFO"}, dst : ClientSocket,
          version : Version, size : Nat, crc : FileId]
    \cup [xid : {"DATA"}, dst : ClientSocket,
          psn : Nat, tpn : Nat, pl : Nat, len : Nat, of : FileId]
    \cup [xid : {"FIN", "CXL"}, dst : ClientSocket]

\* The integrity check of a DATA datagram: the CRC taken over pl payload
\* bytes is compared with one over len bytes, pl with len, and psn with tpn.
ValidateMessageIntegrity(m) == m.pl = m.len /\ m.psn < m.tpn

\* The payload length the client asks of a first, a middle and a last DATA
\* datagram of a file of the given size.
LengthFits(m, size) ==
  m.len = IF m.psn = 0 \/ m.psn < m.tpn - 1 THEN PayloadSize
          ELSE size % PayloadSize

=============================================================================
