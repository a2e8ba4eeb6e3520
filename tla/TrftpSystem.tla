---------------------------- MODULE TrftpSystem ----------------------------
(***************************************************************************)
(* A server and one client over UDP, which may lose, duplicate, delay and  *)
(* reorder datagrams, while the file may be overwritten on the server.     *)
(* Nothing is assumed to happen, so a process that ends because R, C or X  *)
(* cannot read its socket is one that takes no more steps.                 *)
(***************************************************************************)
EXTENDS TrftpEnds

CONSTANT Leftover  \* datagrams of an earlier transfer, still under way

\* They are of other files, whose INFO and FIN have been received or lost:
\* nothing in these two ties them to a transfer.
ASSUME LeftoverAssumption ==
  /\ Leftover \subseteq ClientDatagram \cup ServerDatagram
  /\ \A m \in Leftover :
       /\ m.xid \notin {"INFO", "FIN"}
       /\ m.xid = "DONE" => \A i \in 1..MaxCalls : m.crc # Files[i].id

Init == EndsInit /\ net = Leftover

ServerDelivery ==
  \E m \in net : Receivable(m, "server") /\ ServerReceive(m)

ClientDelivery ==
  \E m \in net : m.dst \in ClientSocket /\ ClientReceive(m)

\* Another program overwrites the file, after its size and CRC were taken.
\* Only T reads it then.
Overwrite ==
  /\ TRunning /\ disk = file.id
  /\ disk' \in FileId \ {disk}
  /\ UNCHANGED <<net, serverUp, file, status, packetVars, clientAddr, tPc,
                 sVars, rVars>>

Next ==
  \/ ServerMoves(ServerNext \/ ServerDelivery \/ Overwrite)
  \/ ClientMoves(ClientNext \/ ClientDelivery)

Spec == Init /\ [][Next]_endsVars

=============================================================================
