------------------------------ MODULE MCSystem ------------------------------
EXTENDS TrftpSystem

\* Packets of two bytes in a four-bit word: files of two packets.
MCLength == [f |-> 3, g |-> 3]

MCFile(i) == [id |-> i, version |-> 1]
MCFiles == <<MCFile("f")>>

\* What a transfer of g, of the same version and size, leaves behind: its
\* last packet and its DONE.
MCLeftover ==
  {Data(MCFile("g"), 1, "g", "tran"), Done(1, 3, "g")}
=============================================================================
