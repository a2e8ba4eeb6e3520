--------------------------- MODULE DamagedMessage ---------------------------
(***************************************************************************)
(* The CRC-32 of a message: CompleteHeader computes it over header and     *)
(* payload with the field crc32 set to 0 and stores it in that field, in   *)
(* the middle of the message; ValidateMessageIntegrity repeats this on     *)
(* what arrives. On its way a message may have some bits flipped.          *)
(***************************************************************************)
EXTENDS Crc32

CONSTANTS
  Messages,   \* records before, crc, after: the fields in front of crc32,
              \* what crc32 holds before it is computed, the fields behind it
  MaxFlips    \* bound on the bits flipped in one message

VARIABLES
  sent,       \* the message as sent
  wire,       \* the message as it arrives
  flips       \* how many bits were flipped

messageVars == <<sent, wire, flips>>

\* The four bytes of a word in memory, the lowest first.
WordBytes(w) == [k \in 1..4 |-> LowByte(Down(w, 8 * (k - 1)))]
MessageBytes(m) == m.before \o WordBytes(m.crc) \o m.after

\* Fault: crc32 is not set to 0 first.
MessageCrcOfStale(m) == CalculateCrc32(MessageBytes(m), Zero)

\* The CRC-32 both ends compute, over the message with crc32 set to 0.
MessageCrc(m) == CalculateCrc32(MessageBytes([m EXCEPT !.crc = Zero]), Zero)

CompleteHeader(m) == [m EXCEPT !.crc = MessageCrc(m)]

CrcMatches(m) == m.crc = MessageCrc(m)

MessageInit ==
  /\ sent \in {CompleteHeader(m) : m \in Messages}
  /\ wire = sent
  /\ flips = 0

Flip ==
  /\ flips < MaxFlips
  /\ flips' = flips + 1
  /\ \/ \E k \in DOMAIN wire.before, i \in 0..7 :
          wire' = [wire EXCEPT !.before[k] = SymDiff(@, {i})]
     \/ \E i \in 0..31 : wire' = [wire EXCEPT !.crc = SymDiff(@, {i})]
     \/ \E k \in DOMAIN wire.after, i \in 0..7 :
          wire' = [wire EXCEPT !.after[k] = SymDiff(@, {i})]
  /\ UNCHANGED sent

----------------------------------------------------------------------------

\* A message passes the CRC check of ValidateMessageIntegrity if it arrives
\* as it was sent, and does not if up to MaxFlips of its bits were flipped,
\* wherever they are, in crc32 itself too (server_transaction.cpp:288-299,
\* client_transaction.cpp:358-369).
FewFlipsAreNoticed == CrcMatches(wire) <=> wire = sent
============================================================================
