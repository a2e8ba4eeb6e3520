---------------------------- MODULE ClientProofs ----------------------------
(***************************************************************************)
(* The client's safety properties hold for every payload size, set of      *)
(* files and versions, and set of datagrams that may arrive.               *)
(***************************************************************************)
EXTENDS ClientOpen, EndsSteps

-----------------------------------------------------------------------------
\* The invariant holds in every reachable state, whatever arrives on the two
\* sockets and in whatever order, failing system calls or not.
\* (client.cpp and client_transaction.cpp as a whole)
THEOREM Invariance == Spec => []ClientInv
<1>1. Init => ClientInv
  BY ClientInvInit DEF Init
<1>2. ClientInv /\ [Next]_clientVars => ClientInv'
  <2>1. [Next]_clientVars => [ClientAct]_clientVars
    BY IncomingAssumption DEF Next, ClientAct
  <2> QED
    BY <2>1, ClientInvNext
<1> QED
  BY <1>1, <1>2, PTL DEF Spec

\* Every variable of the client keeps its type: no datagram puts the
\* transaction into a status the code does not know.
THEOREM TypeCorrect == Spec => []ClientTypeOK
<1>1. ClientInv => ClientTypeOK
  BY DEF ClientInv
<1> QED
  BY Invariance, <1>1, PTL

\* The open file holds consecutive packets from the first on, each once,
\* although C resets the counter under a running X.
THEOREM InOrder == Spec => []WrittenInOrder
<1>1. ClientInv => WrittenInOrder
  BY DEF ClientInv, StreamInv, WrittenInOrder
<1> QED
  BY Invariance, <1>1, PTL

\* The handler is only given whole files that have been checked.
THEOREM Intactness == Spec => []DeliveredIntact
<1>1. ClientInv => DeliveredIntact
  BY DEF ClientInv, FileInv, DeliveredIntact
<1> QED
  BY Invariance, <1>1, PTL

\* Whenever is_active_ is set, some thread will clear it, but for the damaged
\* notification.
THEOREM ActiveOwned == Spec => []ActiveHasOwner
<1>1. ClientInv => ActiveHasOwner
  BY DEF ClientInv, OwnerInv
<1> QED
  BY Invariance, <1>1, PTL

\* Begin starts no thread while there is one to join, and the transaction is
\* not destroyed before its thread has ended.
\* (client_transaction.cpp, Begin and the destructor)
THEOREM ThreadJoined == Spec => [](cPc \in {"ntf", "gone"} => xPc = "none")
<1>1. ClientInv => (cPc \in {"ntf", "gone"} => xPc = "none")
  BY DEF ClientInv, OwnerInv
<1> QED
  BY Invariance, <1>1, PTL

=============================================================================
