---------------------------- MODULE TrftpPrompt ----------------------------
(***************************************************************************)
(* The same server and client on a network that is faster than every timer *)
(* of the protocol, and loses at most one packet.  Here net is what is on  *)
(* the wire, buffer what the sockets hold, and a sleep or a timeout ends   *)
(* only when nothing else can happen, the shorter ones first: T's pauses   *)
(* (1 s at most), S's first two waits (1 s each), X's read timeout (3 s)   *)
(* and S's last wait (5 minutes).  System calls succeed (IoFails = FALSE). *)
(***************************************************************************)
EXTENDS TrftpEnds

CONSTANT Scenarios  \* the circumstances to consider

ASSUME PromptAssumption == ~IoFails

\* A scenario says whether
\*   fastAnswer  an answer may arrive before S has gone from SendMessage to
\*               the load of status_ in WaitForStatus,
\*   slowCheck   the client takes more than a second to check the file: DONE
\*               arrives when T has slept its second after the last packet,
\*   paced       the application lets the client rest between calls,
\*   mayAbort    it aborts a call, once, at any moment,
\* and which DATA packets may be lost, one of them once.
Scenario ==
  [fastAnswer : BOOLEAN, slowCheck : BOOLEAN, paced : BOOLEAN,
   mayAbort : BOOLEAN, mayLose : SUBSET Nat]

VARIABLES
  sc,      \* the scenario
  buffer,  \* buffer[s]: the datagrams waiting in socket s
  lost,    \* a packet has been lost
  aborted  \* history: the aborted call, and whether it was aborted in time

promptVars == <<endsVars, sc, buffer, lost, aborted>>

Sockets == {"server"} \cup ClientSocket

Init ==
  /\ EndsInit
  /\ net = {}
  /\ sc \in Scenarios
  /\ buffer = [s \in Sockets |-> <<>>]
  /\ lost = FALSE
  /\ aborted = {}

-----------------------------------------------------------------------------
Deliverable(m) ==
  /\ m.dst = "server" /\ ~sc.fastAnswer => sPc # "load"
  /\ m.xid = "DONE" /\ sc.slowCheck => ~TRunning

Deliver ==
  \E m \in net :
    /\ Deliverable(m)
    /\ net' = net \ {m}
    /\ buffer' = [buffer EXCEPT ![m.dst] = Append(@, m)]
    /\ UNCHANGED <<serverLocal, clientLocal, finished, lost>>

Losable(m) == m.xid = "DATA" /\ m.psn \in sc.mayLose /\ ~lost

Lose ==
  \E m \in net :
    /\ Losable(m)
    /\ net' = net \ {m}
    /\ lost' = TRUE
    /\ UNCHANGED <<serverLocal, clientLocal, finished, buffer>>

\* The owner of socket s takes its next datagram and does A with it.
Takes(s, A) ==
  /\ buffer[s] # <<>>
  /\ A
  /\ buffer' = [buffer EXCEPT ![s] = Tail(@)]
  /\ UNCHANGED lost

ServerTakes ==
  /\ serverUp /\ rPc = "recv"
  /\ Takes("server", ServerMoves(
       IF active THEN ServerReceive(Head(buffer["server"])) ELSE UNCHANGED serverVars))

\* Fault: an idle client waits for a notification and leaves anything else
\* in the socket.
ClientTakesNtfOnly ==
  /\ clientUp /\ cPc = "recv"
  /\ Takes("main", ClientMoves(
       IF isActive THEN UNCHANGED clientVars ELSE Begin(Head(buffer["main"]))))

ClientTakes ==
  /\ clientUp /\ cPc = "recv"
  /\ Takes("main", ClientMoves(
       IF isActive \/ Head(buffer["main"]).xid # "NTF"
       THEN UNCHANGED clientVars
       ELSE Begin(Head(buffer["main"]))))

TransactionTakes == Takes("tran", ClientMoves(XReceive(Head(buffer["tran"]))))

\* What happens at once.
EndsWork ==
  /\ \/ ServerMoves(SWorks \/ RStep \/ TWorks)
     \/ ClientMoves(CStep \/ XWorks)
  /\ UNCHANGED <<buffer, lost>>

Works ==
  /\ \/ Deliver \/ Lose
     \/ ServerTakes \/ ClientTakes \/ TransactionTakes
     \/ EndsWork
  /\ UNCHANGED <<sc, aborted>>

-----------------------------------------------------------------------------
\* What each thread does when it has nothing to do: sleep, or wait for a
\* datagram, for an answer or for another thread.
SRests ==
  \/ sPc = "idle"
  \/ sPc = "wait" /\ status = oldStatus
  \/ sPc = "destroy" /\ ~ThrJoined

TRests == tPc \in {"none", "tail", "incr", "done"}

RRests == rPc = "recv" /\ buffer["server"] = <<>>

CRests ==
  \/ cPc = "recv" /\ buffer["main"] = <<>>
  \/ cPc = "join" /\ xPc # "none"

XRests ==
  \/ xPc = "none"
  \/ xPc = "recv" /\ buffer["tran"] = <<>>

Quiet ==
  /\ \A m \in net : ~Deliverable(m) /\ ~Losable(m)
  /\ SRests /\ TRests /\ RRests
  /\ clientUp => CRests /\ XRests

TPauses == tPc \in {"tail", "incr"}
SFirstWaits == sPc = "wait" /\ sPhase \in {"NTF", "INFO"}

TTimer == ServerMoves(TWakes)

\* The five minutes also pass while T goes round the last packets.
STimer ==
  /\ \/ SFirstWaits
     \/ ~TPauses /\ xPc # "recv"
     \/ TPauses /\ owed
  /\ ServerMoves(STimeout)

XTimer ==
  /\ ~TPauses /\ ~SFirstWaits
  /\ ClientMoves(XTimesOut)

NextCall ==
  /\ sc.paced => Quiet
  /\ ServerMoves(StartFileTransfer)

\* An abort is in time if S has not been told of DONE, and if the client's
\* transaction can be: it has answered, and R is not working on the answer.
InTime ==
  /\ clientAddr = "tran" /\ rPc = "recv"
  /\ status # "DONE" /\ sPhase # "FIN"

Abort ==
  /\ sc.mayAbort /\ aborted = {}
  /\ sPc \in Calling
  /\ ServerMoves(AbortFileTransfer)
  /\ aborted' = {<<call, InTime>>}
  /\ UNCHANGED <<sc, buffer, lost>>

Waits(A) == A /\ UNCHANGED <<sc, buffer, lost, aborted>>

Timers == Quiet /\ Waits(TTimer \/ STimer \/ XTimer)

Next == Works \/ Timers \/ Waits(NextCall) \/ Abort

\* Every thread is scheduled, every sleep and every wait ends, and the
\* application makes its calls.
Spec ==
  /\ Init /\ [][Next]_promptVars
  /\ WF_promptVars(Works) /\ WF_promptVars(Timers) /\ WF_promptVars(Waits(NextCall))
  /\ SF_promptVars(Quiet /\ Waits(STimer))

-----------------------------------------------------------------------------
\* The handler has been given the file of the i-th call, with its version.
FileReceived(i) ==
  [version |-> Files[i].version, chunks |-> Content(Files[i].id)] \in received

\* Every call returns FIN and gets its file, with its version, to the
\* client's file handler.  (server.cpp, StartFileTransfer; client.cpp,
\* OnFileReceived)
AllTransferred ==
  \A i \in 1..MaxCalls :
    <>(call = i /\ result = "FIN") /\ <>FileReceived(i)

\* The circumstances in which they do: nobody aborts, S waits before the
\* answer comes, the client checks the file slowly, and what is lost is
\* neither the first packet nor one of the last two.
Favourable ==
  /\ ~sc.fastAnswer /\ sc.slowCheck /\ sc.paced /\ ~sc.mayAbort
  /\ \A i \in 1..MaxCalls :
       sc.mayLose \subseteq 1..(ServerPackets(NewFileSize(Files[i])) - 3)

\* In favourable circumstances the protocol does its work.
\* (server_transaction.cpp, SendFileAsync; client_transaction.cpp, OnReceive)
TransferredIfFavourable == Favourable => AllTransferred

\* A call that is aborted in time does not succeed, nor does its file reach
\* the handler, although the stored cancellation may be overwritten by S's
\* next message or by an answer: the client cancels too.
\* (server.cpp, AbortFileTransfer; server_transaction.cpp, SendMessage)
AbortHeeded ==
  \A i \in 1..MaxCalls :
    <<i, TRUE>> \in aborted => i \notin finished /\ ~FileReceived(i)

\* If the application lets the client rest between calls, the handler is
\* told the version of the notification.
\* (client_transaction.h, the comment on new_file_version_)
VersionIfPaced == sc.paced => VersionFromNtf

\* All rest only if nothing can happen at once, and nothing can only if all
\* rest: no datagram, whatever it is and whenever it comes, is left lying by
\* the thread that reads its socket.
\* (the receive loops of server.cpp, client.cpp and client_transaction.cpp)
QuietMeansIdle == Quiet <=> ~ENABLED Works

=============================================================================
