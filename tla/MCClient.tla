------------------------------ MODULE MCClient ------------------------------
EXTENDS ClientOpen

\* Packets of two bytes in a four-bit word.
MCLength == [f |-> 5, g |-> 5, h |-> 4]

MCFile(i) == [id |-> i, version |-> 1]

\* All that a server sends for a file f, the INFO of a version 0 of it (which
\* fits a transaction that C has just reset), the last packet of another file
\* of the same size and that of a file h (which fails the integrity check),
\* damaged notifications, and notifications on the wrong socket.
MCIncoming ==
  {Ntf(MCFile("f"), d) : d \in ClientSocket}
    \cup {[Ntf(MCFile("f"), d) EXCEPT !.form = x] :
             d \in ClientSocket, x \in {"damaged", "length"}}
    \cup {Info([id |-> "f", version |-> v], "tran") : v \in Version}
    \cup {Data(MCFile("f"), k, "f", "tran") : k \in 0..2}
    \cup {Data(MCFile("g"), 2, "g", "tran"), Data(MCFile("h"), 1, "h", "tran")}
    \cup {Simple(x, "tran") : x \in {"FIN", "CXL"}}
=============================================================================
