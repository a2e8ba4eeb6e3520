----------------------------- MODULE Packetizer -----------------------------
(***************************************************************************)
(* The cutting of one file into packets, from T's loop to the client's     *)
(* checks, without the protocol: T walks over the packets of a file of     *)
(* some size.                                                              *)
(***************************************************************************)
EXTENDS TrftpMessage

VARIABLES size, psn

Init == size \in 0..(WordSize - 1) /\ psn = 0

Next ==
  /\ psn + 1 < ServerPackets(size)
  /\ psn' = psn + 1
  /\ UNCHANGED size

Spec == Init /\ [][Next]_<<size, psn>>

-----------------------------------------------------------------------------
\* The packet T sends.
IsPacket == psn < ServerPackets(size)

Packet ==
  [psn |-> psn, tpn |-> HeaderTpn(size), pl |-> HeaderPl(size, psn),
   len |-> ReadLength(size, psn)]

\* The sizes for which the server's 32-bit sum does not wrap.
Representable == size <= WordSize - PayloadSize

\* The packets cover the file without gaps, overlaps or bytes beyond its
\* end.  (server_transaction.cpp, file_offset and payload_len)
Tiling ==
  Representable /\ IsPacket =>
    /\ FileOffset(psn) = psn * PayloadSize
    /\ ReadLength(size, psn) \in 1..PayloadSize
    /\ FileOffset(psn) + ReadLength(size, psn)
         = IF psn + 1 < ServerPackets(size) THEN FileOffset(psn + 1) ELSE size

\* The three computations of the number of packets agree, in the server's
\* constructor, in the header and in the client.
EndsAgree ==
  Representable /\ size > 0 =>
    /\ ServerPackets(size) = HeaderTpn(size)
    /\ ServerPackets(size) = ClientPackets(size)

ClientAccepts == ValidateMessageIntegrity(Packet) /\ LengthFits(Packet, size)

\* The client accepts every packet of a file of two packets or more whose
\* last one is not full.  (CompleteHeader against ValidateMessageIntegrity
\* and case DATA of the client)
AcceptsPartialLast ==
  Representable /\ IsPacket /\ size > PayloadSize /\ size % PayloadSize # 0
    => ClientAccepts

\* The client accepts every packet of every file of the commented number of
\* packets.  (client_transaction.h, the comment on total_packet_number_)
AcceptsEveryPacket == Representable /\ IsPacket => ClientAccepts

=============================================================================
