------------------------------ MODULE MCServer ------------------------------
EXTENDS ServerOpen

\* Packets of two bytes in a four-bit word: a file of three packets, another
\* of the same size, and a file of one full packet.
MCLength == [f |-> 5, g |-> 5, h |-> 2]

MCFile(i) == [id |-> i, version |-> 1]
MCOneFile == <<MCFile("f")>>
MCTwoFiles == <<MCFile("f"), MCFile("h")>>

\* DONE for the file that is sent, and for another one.
MCIncoming ==
  {Simple(x, "server") : x \in {"CHK", "RDY", "CXL", "BAD"}}
    \cup {Rtx(k) : k \in 0..4}
    \cup {Done(1, n, i) : n \in {2, 5}, i \in FileId}
=============================================================================
