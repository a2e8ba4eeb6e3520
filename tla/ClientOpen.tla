----------------------------- MODULE ClientOpen -----------------------------
(***************************************************************************)
(* The client with an unconstrained server: its sockets may be handed any  *)
(* datagram of Incoming at any moment, in any order and number.            *)
(***************************************************************************)
EXTENDS Client

CONSTANT Incoming

ASSUME IncomingAssumption == Incoming \subseteq ServerDatagram

Init == ClientInit /\ net = {}

Next ==
  \/ ClientNext \/ ClientCalls \/ SocketThrows
  \/ \E m \in Incoming : ClientReceive(m)

Spec == Init /\ [][Next]_clientVars

\* The operating system schedules both threads, and the datagrams that reach
\* the transaction's socket stop at some point, so that its read times out:
\* a call of StartFileTransfer ends within minutes.
Fairness == WF_clientVars(CStep) /\ WF_clientVars(XStep)

FairSpec == Spec /\ Fairness
=============================================================================
