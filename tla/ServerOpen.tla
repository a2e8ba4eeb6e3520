----------------------------- MODULE ServerOpen -----------------------------
(***************************************************************************)
(* The server with an unconstrained client: R may be handed any datagram   *)
(* of Incoming at any moment, in any order and number.                     *)
(***************************************************************************)
EXTENDS Server

CONSTANT Incoming

ASSUME IncomingAssumption == Incoming \subseteq ClientDatagram

Init == ServerInit /\ net = {}

Next ==
  \/ ServerNext \/ StopServer \/ RReceiveThrows
  \/ \E m \in Incoming : ServerReceive(m)

Spec == Init /\ [][Next]_serverVars

\* The operating system schedules every thread, and wait_for times out.
\* Nothing is assumed of the client, of the application or of failures.
\* The loop of R and its read timeout make it leave once it is told to.
Fairness ==
  /\ WF_serverVars(SStep)
  /\ WF_serverVars(RStep)
  /\ WF_serverVars(TStep)

FairSpec == Spec /\ Fairness
=============================================================================
