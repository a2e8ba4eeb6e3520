----------------------------- MODULE MCPackets -----------------------------
EXTENDS Packetizer

MCLength == [f |-> 0]
=============================================================================
