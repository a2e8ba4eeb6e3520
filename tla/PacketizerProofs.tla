-------------------------- MODULE PacketizerProofs --------------------------
(***************************************************************************)
(* For every payload size and every word size larger than it, the packets  *)
(* tile the file and the two ends agree on their number.                   *)
(***************************************************************************)
EXTENDS Packetizer, TLAPS

\* Division with remainder.
LEMMA DivBounds ==
  ASSUME NEW a \in Nat, NEW b \in Nat \ {0}
  PROVE  a \div b \in Nat /\ (a \div b) * b <= a /\ a < (a \div b) * b + b
  OBVIOUS

\* A value below the modulus is its own remainder.
LEMMA ModSmall ==
  ASSUME NEW a \in Nat, NEW b \in Nat, a < b
  PROVE  a % b = a
  OBVIOUS

\* The remainder is determined by any quotient that leaves one.
LEMMA ModUnique ==
  ASSUME NEW b \in Nat \ {0}, NEW q \in Nat, NEW r \in 0..(b - 1)
  PROVE  (q * b + r) % b = r
  OBVIOUS

\* Multiplication is monotone.
LEMMA TimesMonotone ==
  ASSUME NEW a \in Nat, NEW b \in Nat, NEW c \in Nat, a <= b
  PROVE  a * c <= b * c
<1>1. PICK d \in Nat : b = a + d
  <2>1. b - a \in Nat /\ b = a + (b - a)
    OBVIOUS
  <2> QED
    BY <2>1
<1>2. b * c = a * c + d * c
  BY <1>1
<1>3. d * c \in Nat /\ a * c \in Nat
  OBVIOUS
<1> QED
  BY <1>2, <1>3

\* T's counter stays within the file.
WalkInv ==
  /\ size \in 0..(WordSize - 1)
  /\ psn \in Nat
  /\ psn # 0 => IsPacket

\* The walk never leaves WalkInv.
LEMMA Walk == Spec => []WalkInv
<1>1. Init => WalkInv
  BY DEF Init, WalkInv
<1>2. WalkInv /\ [Next]_<<size, psn>> => WalkInv'
  BY DEF WalkInv, Next, IsPacket
<1> QED
  BY <1>1, <1>2, PTL DEF Spec

\* While the 32-bit sum does not wrap, the number of packets is the size
\* divided by the payload size, rounded up.
LEMMA RoundedUp ==
  ASSUME NEW s \in Nat, s <= WordSize - PayloadSize
  PROVE  /\ ServerPackets(s) = ClientPackets(s)
         /\ ServerPackets(s) \in Nat
         /\ ServerPackets(s) * PayloadSize <= s + PayloadSize - 1
         /\ s <= ServerPackets(s) * PayloadSize
<1>1. PayloadSize \in Nat \ {0} /\ WordSize \in Nat
  BY WireAssumption
<1>2. s + PayloadSize - 1 \in Nat /\ s + PayloadSize - 1 < WordSize
  BY <1>1
<1>3. (s + PayloadSize - 1) % WordSize = s + PayloadSize - 1
  BY <1>1, <1>2, ModSmall
<1>4. ServerPackets(s) = ClientPackets(s)
  BY <1>3 DEF ServerPackets, ClientPackets
<1>5. /\ ClientPackets(s) \in Nat
      /\ ClientPackets(s) * PayloadSize <= s + PayloadSize - 1
      /\ s + PayloadSize - 1 < ClientPackets(s) * PayloadSize + PayloadSize
  BY <1>1, <1>2, DivBounds DEF ClientPackets
<1>6. ClientPackets(s) * PayloadSize \in Nat
  BY <1>1, <1>5
<1> QED
  BY <1>1, <1>4, <1>5, <1>6

\* T's counter being where it is, its packet continues the one before and
\* ends where the next begins.
LEMMA PacketTiles ==
  ASSUME WalkInv
  PROVE  Tiling
<1> SUFFICES ASSUME Representable, IsPacket PROVE Tiling
  BY DEF Tiling
<1> DEFINE P == PayloadSize
           n == ServerPackets(size)
<1>1. P \in Nat \ {0} /\ WordSize \in Nat /\ size \in Nat /\ psn \in Nat
  BY WireAssumption DEF WalkInv
<1>2. n \in Nat /\ n * P <= size + P - 1 /\ size <= n * P
  BY <1>1, RoundedUp DEF Representable
<1>3. psn + 1 <= n
  BY <1>1, <1>2 DEF IsPacket
<1>4. (psn + 1) * P <= n * P /\ (psn + 1) * P = psn * P + P
  BY <1>1, <1>2, <1>3, TimesMonotone
<1>5. psn * P \in Nat /\ n * P \in Nat
  BY <1>1, <1>2
<1>6. psn * P < size /\ size < WordSize
  BY <1>1, <1>2, <1>4, <1>5 DEF Representable
<1>7. FileOffset(psn) = psn * P
  BY <1>1, <1>5, <1>6, ModSmall DEF FileOffset
<1>8. CASE psn + 1 = n
  <2>1. ReadLength(size, psn) = size - psn * P
    <3>1. size - psn * P \in Nat /\ size - psn * P < WordSize
      BY <1>1, <1>5, <1>6
    <3>2. (size - psn * P) % WordSize = size - psn * P
      BY <1>1, <3>1, ModSmall
    <3> QED
      BY <1>1, <1>7, <1>8, <3>2 DEF ReadLength
  <2>2. n * P = psn * P + P
    BY <1>4, <1>8
  <2>3. size - psn * P \in 1..P
    BY <1>1, <1>2, <1>5, <1>6, <2>2
  <2>4. psn * P + (size - psn * P) = size
    BY <1>1, <1>5
  <2> QED
    BY <1>1, <1>7, <1>8, <2>1, <2>3, <2>4 DEF Tiling
<1>9. CASE psn + 1 < n
  <2>1. ReadLength(size, psn) = P
    BY <1>1, <1>2, <1>9 DEF ReadLength
  <2>2. psn + 2 <= n
    BY <1>1, <1>2, <1>9
  <2>3. (psn + 2) * P <= n * P /\ (psn + 2) * P = (psn + 1) * P + P
    BY <1>1, <1>2, <2>2, TimesMonotone
  <2>4. (psn + 1) * P \in Nat /\ (psn + 1) * P < WordSize
    BY <1>1, <1>2, <1>4, <1>5, <1>6, <2>3
  <2>5. FileOffset(psn + 1) = (psn + 1) * P
    BY <1>1, <2>4, ModSmall DEF FileOffset
  <2>6. P \in 1..P
    BY <1>1
  <2> QED
    BY <1>1, <1>4, <1>7, <1>9, <2>1, <2>5, <2>6 DEF Tiling
<1> QED
  BY <1>1, <1>2, <1>3, <1>8, <1>9

\* The packets cover a file of any size without gaps, overlaps or bytes
\* beyond its end.
THEOREM TilingCorrect == Spec => []Tiling
  BY PacketTiles, Walk, PTL

\* The server, its headers and the client agree on the number of packets.
THEOREM CountsAgree == Spec => []EndsAgree
<1>1. ASSUME WalkInv PROVE EndsAgree
  <2>1. size \in Nat
    BY <1>1, WireAssumption DEF WalkInv
  <2> QED
    BY <2>1, RoundedUp
    DEF EndsAgree, Representable, HeaderTpn, ClientPackets
<1> QED
  BY <1>1, Walk, PTL

\* The client accepts each packet of a file of any size that is more than one
\* payload and not a multiple of it: the remainder in the header of the last
\* packet is what T reads for it, and what the client expects.
THEOREM PartialLastAccepted == Spec => []AcceptsPartialLast
<1>1. ASSUME WalkInv PROVE AcceptsPartialLast
  <2> SUFFICES ASSUME Representable, IsPacket, size > PayloadSize,
                      size % PayloadSize # 0
               PROVE  ClientAccepts
    BY DEF AcceptsPartialLast
  <2> DEFINE P == PayloadSize
             n == ServerPackets(size)
  <2>1. P \in Nat \ {0} /\ size \in Nat /\ psn \in Nat
    BY <1>1, WireAssumption DEF WalkInv
  <2>2. n \in Nat /\ n = ClientPackets(size) /\ size <= n * P
    BY <2>1, RoundedUp DEF Representable
  <2>3. HeaderTpn(size) = n
    BY <2>1, <2>2 DEF HeaderTpn, ClientPackets
  <2>4. psn < n
    BY DEF IsPacket
  <2>5. /\ FileOffset(psn) = psn * P
        /\ ReadLength(size, psn) \in 1..P
        /\ psn + 1 = n => FileOffset(psn) + ReadLength(size, psn) = size
    BY <1>1, <2>1, <2>2, PacketTiles DEF Tiling
  <2>6. CASE psn + 1 = n
    <3> DEFINE r == ReadLength(size, psn)
    <3>1. size = psn * P + r /\ psn * P \in Nat
      BY <2>1, <2>5, <2>6
    <3>2. r # P
      <4> SUFFICES ASSUME r = P PROVE FALSE
        OBVIOUS
      <4>1. size = (psn + 1) * P + 0
        BY <2>1, <3>1
      <4>2. psn + 1 \in Nat /\ 0 \in 0..(P - 1)
        BY <2>1
      <4>3. ((psn + 1) * P + 0) % P = 0
        BY <2>1, <4>2, ModUnique, Zenon
      <4> QED
        BY <4>1, <4>3
    <3>3. r \in 0..(P - 1)
      BY <2>1, <2>5, <3>2
    <3>4. size % P = r
      BY <2>1, <3>1, <3>3, ModUnique
    <3>5. psn # 0
      BY <2>1, <2>5, <3>1
    <3> QED
      BY <2>1, <2>2, <2>3, <2>4, <2>6, <3>4, <3>5
      DEF ClientAccepts, ValidateMessageIntegrity, LengthFits, Packet, HeaderPl
  <2>7. CASE psn + 1 < n
    BY <2>1, <2>2, <2>3, <2>4, <2>7
    DEF ClientAccepts, ValidateMessageIntegrity, LengthFits, Packet, HeaderPl,
        ReadLength
  <2> QED
    BY <2>1, <2>2, <2>4, <2>6, <2>7
<1> QED
  BY <1>1, Walk, PTL

=============================================================================
