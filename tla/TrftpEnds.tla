----------------------------- MODULE TrftpEnds -----------------------------
(***************************************************************************)
(* A server and one client, and what the two promise together.  Modules    *)
(* TrftpSystem and TrftpPrompt add the network between them.               *)
(***************************************************************************)
EXTENDS Server, Client

VARIABLE finished  \* history: the calls that have sent FIN

endsVars == <<net, serverLocal, clientLocal, finished>>

EndsInit == ServerInit /\ ClientInit /\ finished = {}

\* A step of one end, and of the other.
ServerMoves(A) ==
  /\ A
  /\ finished' = finished \cup {i \in {call'} : result' = "FIN"}
  /\ UNCHANGED clientLocal

ClientMoves(A) ==
  /\ A
  /\ UNCHANGED <<serverLocal, finished>>

-----------------------------------------------------------------------------
\* The two ends as a file transfer.
Transfer ==
  INSTANCE FileTransfer WITH
    Calls     <- MaxCalls,
    Wanted    <- [i \in 1..MaxCalls |-> Content(Files[i].id)],
    begun     <- call,
    running   <- sPc \in Calling,
    checked   <- verified,
    delivered <- {r.chunks : r \in received}

\* Whatever the network, the threads and failing system calls do, every step
\* is one the abstract file transfer allows: a call succeeds only when the
\* client has checked the whole of this file, and the handler is only given
\* whole files whose calls succeeded.  (server.cpp, StartFileTransfer;
\* client_transaction.cpp, OnReceive)
ImplementsTransfer == Transfer!Spec

\* When StartFileTransfer returns FIN, the client has had this very file and
\* has checked it, whatever datagrams of earlier transfers are about.
\* (server_transaction.cpp, case DONE; client_transaction.cpp, case DATA)
FinMeansVerified ==
  result = "FIN" /\ ~uaf => Content(Files[call].id) \in verified

\* A file that reaches the handler has been sent by a call that returned
\* FIN: the application at the server is not told otherwise.
\* (server.cpp, StartFileTransfer; client_transaction.cpp, case FIN)
DeliveredMeansFin ==
  \A r \in received : \E i \in finished : r.chunks = Content(Files[i].id)

=============================================================================
