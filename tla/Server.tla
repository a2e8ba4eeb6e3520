------------------------------- MODULE Server -------------------------------
(***************************************************************************)
(* server.cpp: StartFileTransfer (thread S), AbortFileTransfer (any other  *)
(* application thread) and HandleIncomingMessages (thread R), for the      *)
(* transfers to one client address, which is one key of                    *)
(* active_transactions_.                                                   *)
(*                                                                         *)
(* Spec leaves the client open: R may receive any datagram at any time.    *)
(* Module TrftpSystem closes it with the modelled client.                  *)
(***************************************************************************)
EXTENDS ServerTransaction

CONSTANTS
  MaxCalls,  \* bound: calls of StartFileTransfer
  Files      \* Files[i] is the file of the i-th call

ASSUME ServerAssumption ==
  /\ MaxCalls \in Nat \ {0}
  /\ Files \in [1..MaxCalls -> FileRecord]

VARIABLES
  call,       \* calls so far; also the identity of the transaction object
  active,     \* active_transactions_ holds the client's entry
  alive,      \* the object of this call has not been destroyed
  sPc,        \* control state of S; the last three are ~Server's
  sPhase,     \* the message S sends, or whose answer it waits for
  oldStatus,  \* old_status in WaitForStatus
  result,     \* what StartFileTransfer returns, "throw" for an exception
  rPc,        \* control state of R
  rMsg,       \* the datagram R has accepted and is about to apply
  rTran,      \* the object R applies it to
  uaf         \* history: R has written to a destroyed object

objVars == <<call, active, alive>>
sVars == <<objVars, sPc, sPhase, oldStatus, result>>
rVars == <<rPc, rMsg, rTran, uaf>>
serverLocal == <<serverUp, tranVars, sVars, rVars>>
serverVars == <<net, serverLocal>>

\* What rMsg holds when R has accepted nothing.
NoMsg == Simple("BAD", "server")

Results == {"none", "NTF", "CXL", "FIN", "throw"}

\* S is in StartFileTransfer.
Calling == {"send", "load", "wait", "cancel", "erase", "destroy"}

ServerInit ==
  /\ serverUp = TRUE
  /\ file = Files[1] /\ disk = Files[1].id
  /\ status = "NTF"
  /\ psn = 0 /\ retransmitPsn = NoPsn
  /\ clientAddr = "main"
  /\ tPc = "none"
  /\ sent = {} /\ owed = FALSE
  /\ call = 0 /\ active = FALSE /\ alive = FALSE
  /\ sPc = "idle" /\ sPhase = "NTF" /\ oldStatus = "NTF" /\ result = "none"
  /\ rPc = "recv" /\ rMsg = NoMsg /\ rTran = 0 /\ uaf = FALSE

-----------------------------------------------------------------------------
(***************************************************************************)
(* StartFileTransfer.  A call that finds an entry in active_transactions_, *)
(* or whose arguments are not an address and an existing file, throws and  *)
(* changes nothing.                                                        *)
(***************************************************************************)

SAt(pc) == serverUp /\ sPc = pc

StartFileTransfer ==
  /\ SAt("idle")
  /\ call < MaxCalls
  /\ ~active
  /\ call' = call + 1
  /\ Construct(Files[call + 1])
  /\ active' = TRUE
  /\ alive' = TRUE
  /\ sPc' = "send"
  /\ sPhase' = "NTF"
  /\ result' = "none"
  /\ UNCHANGED <<net, serverUp, oldStatus, rVars>>

\* tran->SendMessage(NTF), (INFO), (FIN).
SSend ==
  /\ SAt("send") /\ sPhase # "DATA"
  /\ SendMessage(sPhase)
  /\ IF sPhase = "FIN"
     THEN sPc' = "erase" /\ result' = "FIN"
     ELSE sPc' = "load" /\ UNCHANGED result
  /\ UNCHANGED <<serverUp, fixedVars, packetVars, clientAddr, tPc, objVars,
                 sPhase, oldStatus, rVars>>

\* tran->SendMessage(DATA).
SSendData ==
  /\ SAt("send") /\ sPhase = "DATA"
  /\ SendMessageData
  /\ sPc' = "load"
  /\ UNCHANGED <<serverUp, fixedVars, packetVars, clientAddr, objVars, sPhase,
                 oldStatus, result, rVars>>

\* WaitForStatus first loads status_, ...
SLoad ==
  /\ SAt("load")
  /\ oldStatus' = status
  /\ sPc' = "wait"
  /\ UNCHANGED <<net, serverUp, tranVars, objVars, sPhase, result, rVars>>

\* ... then blocks until it finds another value in it.  The call goes on
\* with the next message if this is the answer it waits for, ...
Answer == [NTF |-> "CHK", INFO |-> "RDY", DATA |-> "DONE"]

Following == [NTF |-> "INFO", INFO |-> "DATA", DATA |-> "FIN"]

SSees == SAt("wait") /\ status # oldStatus

SAnswered ==
  /\ SSees /\ status = Answer[sPhase]
  /\ sPhase' = Following[sPhase]
  /\ sPc' = "send"
  /\ UNCHANGED <<net, serverUp, tranVars, objVars, oldStatus, result, rVars>>

\* Fault: this path forgets to erase the entry.
AfterCancelKeepsEntry == "destroy"

AfterCancel == "erase"

\* ... returns CXL on a cancellation, ...
SCancelled ==
  /\ SSees /\ status = "CXL"
  /\ sPc' = AfterCancel
  /\ result' = "CXL"
  /\ UNCHANGED <<net, serverUp, tranVars, objVars, sPhase, oldStatus, rVars>>

\* ... cancels on any other status, ...
SUnexpected ==
  /\ SSees /\ status \notin {Answer[sPhase], "CXL"}
  /\ sPc' = "cancel"
  /\ UNCHANGED <<net, serverUp, tranVars, objVars, sPhase, oldStatus, result,
                 rVars>>

\* Fault: the wait for DONE has no timeout.
TimedPhasesNotData == {"NTF", "INFO"}

TimedPhases == {"NTF", "INFO", "DATA"}

\* ... and on a timeout: returns NTF, or cancels in the later phases.
STimeout ==
  /\ SAt("wait") /\ status = oldStatus
  /\ sPhase \in TimedPhases
  /\ IF sPhase = "NTF"
     THEN sPc' = "erase" /\ result' = "NTF"
     ELSE sPc' = "cancel" /\ UNCHANGED result
  /\ UNCHANGED <<net, serverUp, tranVars, objVars, sPhase, oldStatus, rVars>>

SCancel ==
  /\ SAt("cancel")
  /\ SendMessage("CXL")
  /\ sPc' = "erase"
  /\ result' = "CXL"
  /\ UNCHANGED <<serverUp, fixedVars, packetVars, clientAddr, tPc, objVars,
                 sPhase, oldStatus, rVars>>

\* Send throws: the exception leaves StartFileTransfer with the entry still
\* in the map, and so with the object alive.
SSendThrows ==
  /\ IoFails
  /\ \/ SAt("send") /\ sPhase # "DATA" /\ SendMessageThrows(sPhase)
     \/ SAt("cancel") /\ SendMessageThrows("CXL")
  /\ sPc' = "idle"
  /\ result' = "throw"
  /\ UNCHANGED <<serverUp, fixedVars, packetVars, clientAddr, tPc, objVars,
                 sPhase, oldStatus, rVars>>

SErase ==
  /\ SAt("erase")
  /\ active' = FALSE
  /\ sPc' = "destroy"
  /\ UNCHANGED <<net, serverUp, tranVars, call, alive, sPhase, oldStatus,
                 result, rVars>>

\* The return destroys the object, whose destructor joins T.
SDestroy ==
  /\ SAt("destroy") /\ ThrJoined
  /\ alive' = FALSE
  /\ sPc' = "idle"
  /\ UNCHANGED <<net, serverUp, tranVars, call, active, sPhase, oldStatus,
                 result, rVars>>

-----------------------------------------------------------------------------
(***************************************************************************)
(* AbortFileTransfer.  Without an entry it throws and changes nothing.     *)
(* The application calls it only on a server it is not destroying.         *)
(***************************************************************************)

\* Fault: the transaction is marked, but the client is not told.
AbortSilently == SendMessageThrows("CXL")

AbortSends == SendMessage("CXL")

AbortFileTransfer ==
  /\ serverUp /\ active
  /\ sPc \in Calling \cup {"idle"}
  /\ AbortSends \/ (IoFails /\ SendMessageThrows("CXL"))
  /\ UNCHANGED <<serverUp, fixedVars, packetVars, clientAddr, tPc, sVars,
                 rVars>>

-----------------------------------------------------------------------------
(***************************************************************************)
(* HandleIncomingMessages and OnReceive.  Without an entry the datagram is *)
(* dropped.  R reaches the object through the map's iterator and holds no  *)
(* reference of its own.                                                   *)
(***************************************************************************)

\* Fault: the loop looks at is_running_ only when nothing was received.
RLoopsForever == "recv"

\* The loop condition, is_running_.
RLoops == IF sPc = "stopping" THEN "gone" ELSE "recv"

ServerReceive(m) ==
  /\ serverUp /\ rPc = "recv" /\ active
  /\ clientAddr' = "tran"
  /\ IF Accepts(m)
     THEN rPc' = "apply" /\ rMsg' = m /\ rTran' = call
     ELSE rPc' = RLoops /\ UNCHANGED <<rMsg, rTran>>
  /\ UNCHANGED <<net, serverUp, fixedVars, status, packetVars, tPc, sVars, uaf>>

OnReceiveApply ==
  /\ serverUp /\ rPc = "apply"
  /\ alive /\ rTran = call
  /\ Apply(rMsg)
  /\ rPc' = RLoops
  /\ rMsg' = NoMsg
  /\ UNCHANGED <<net, serverUp, fixedVars, psn, clientAddr, tPc, sent, owed,
                 sVars, rTran, uaf>>

\* The object is gone: the write is lost, or it hits the object of a later
\* call that was allocated in the same place.
OnReceiveDangling ==
  /\ serverUp /\ rPc = "apply"
  /\ ~(alive /\ rTran = call)
  /\ \/ alive /\ Apply(rMsg)
     \/ UNCHANGED <<status, retransmitPsn>>
  /\ uaf' = TRUE
  /\ rPc' = RLoops
  /\ rMsg' = NoMsg
  /\ UNCHANGED <<net, serverUp, fixedVars, psn, clientAddr, tPc, sent, owed,
                 sVars, rTran>>

\* Receive returns without a datagram, every 100 ms, after ~Server has
\* cleared is_running_.
RLeaves ==
  /\ serverUp /\ rPc = "recv" /\ sPc = "stopping"
  /\ rPc' = "gone"
  /\ UNCHANGED <<net, serverUp, tranVars, sVars, rMsg, rTran, uaf>>

\* Receive throws, and nothing in R catches it.
RReceiveThrows ==
  /\ IoFails
  /\ serverUp /\ rPc = "recv"
  /\ serverUp' = FALSE
  /\ UNCHANGED <<net, tranVars, sVars, rVars>>

-----------------------------------------------------------------------------
(***************************************************************************)
(* ~Server, which the application runs when it is in no other operation.   *)
(***************************************************************************)

StopServer ==
  /\ SAt("idle")
  /\ sPc' = "stopping"
  /\ UNCHANGED <<net, serverUp, tranVars, objVars, sPhase, oldStatus, result,
                 rVars>>

\* thread_.join().
SJoinReceiver ==
  /\ SAt("stopping") /\ rPc = "gone"
  /\ sPc' = "clearing"
  /\ UNCHANGED <<net, serverUp, tranVars, objVars, sPhase, oldStatus, result,
                 rVars>>

\* The members are destroyed, the last one first: active_transactions_, in
\* which an exception has left an entry, and whose destructor joins T, and
\* at the end udp_socket_.
SDestroyMembers ==
  /\ SAt("clearing") /\ ThrJoined
  /\ active' = FALSE
  /\ alive' = FALSE
  /\ sPc' = "gone"
  /\ UNCHANGED <<net, serverUp, tranVars, call, sPhase, oldStatus, result,
                 rVars>>

-----------------------------------------------------------------------------
\* S, but for the timeouts of WaitForStatus.
SWorks ==
  \/ SSend \/ SSendData \/ SLoad \/ SAnswered \/ SCancelled \/ SUnexpected
  \/ SCancel \/ SSendThrows \/ SErase \/ SDestroy
  \/ SJoinReceiver \/ SDestroyMembers

SStep == SWorks \/ STimeout

RStep == OnReceiveApply \/ OnReceiveDangling \/ RLeaves

TWorks == SendFileAsyncWorks /\ UNCHANGED <<sVars, rVars>>
TWakes == SendFileAsyncWakes /\ UNCHANGED <<sVars, rVars>>
TStep == TWorks \/ TWakes

\* What the application does.
ServerCalls == StartFileTransfer \/ AbortFileTransfer

ServerNext == ServerCalls \/ SStep \/ RStep \/ TStep

-----------------------------------------------------------------------------
(***************************************************************************)
(* Properties of the server, whatever the client does.                     *)
(***************************************************************************)

\* Type invariant of the server's variables (net is typed by the modules
\* that say what is in it).
ServerTypeOK ==
  /\ serverUp \in BOOLEAN
  /\ file \in FileRecord
  /\ status \in FtpStatus
  /\ psn \in Nat
  /\ retransmitPsn \in Nat \cup {NoPsn}
  /\ disk \in FileId
  /\ clientAddr \in ClientSocket
  /\ tPc \in {"none", "open", "loop", "tail", "incr", "done"}
  /\ sent \subseteq Nat
  /\ owed \in BOOLEAN
  /\ call \in 0..MaxCalls
  /\ active \in BOOLEAN
  /\ alive \in BOOLEAN
  /\ sPc \in Calling \cup {"idle", "stopping", "clearing", "gone"}
  /\ sPhase \in {"NTF", "INFO", "DATA", "FIN"}
  /\ oldStatus \in FtpStatus
  /\ result \in Results
  /\ rPc \in {"recv", "apply", "gone"}
  /\ rMsg \in ClientDatagram
  /\ rPc = "apply" => rMsg.xid \in ClientId
  /\ rTran \in 0..MaxCalls
  /\ uaf \in BOOLEAN

\* StartFileTransfer returns FIN only when every packet of the file has been
\* sent at least once, although retransmission requests move the sender back
\* and forth while R judges DONE by a counter the sender is changing.
\* (server_transaction.cpp, case DONE and the loop of SendFileAsync)
FinMeansAllSent == result = "FIN" /\ ~uaf => 0..(TPN - 1) \subseteq sent

\* The packet T reads and sends next is always one of the file, although R
\* stores requests that were validated against an earlier value of the
\* counter.  (server_transaction.cpp, ValidateMessage for RTX and
\* retransmit_psn_)
OnlyFilePackets ==
  ~uaf =>
    /\ sent \subseteq 0..(TPN - 1)
    /\ tPc = "loop" => NextPsn < TPN

\* T never runs on a destroyed transaction: every path of StartFileTransfer
\* that gives the object up either leaves it in the map or joins T first.
\* Nor does T, when an exception has left its transaction in the map, or R
\* outlive the server and its socket.
\* (server_transaction.cpp, ~ServerTransaction; server.cpp, ~Server)
ThreadWithinObject ==
  /\ TRunning => alive
  /\ sPc = "gone" => rPc = "gone" /\ ~TRunning

\* Outside a call the map has no entry for the client, so that the next call
\* is not refused, unless the last call ended with an exception.
\* (server.cpp, the erase on each path of StartFileTransfer)
EntryOutlivesCall == active /\ sPc \notin Calling => result = "throw"

\* A cancellation is stored that S, which is waiting, has not seen yet, and R
\* has no accepted datagram still to apply.
CancelWhileWaiting ==
  /\ sPc = "wait" /\ rPc = "recv"
  /\ status = "CXL" /\ oldStatus # "CXL"

\* A cancellation that is stored while S is waiting, and no accepted datagram
\* is still to be applied, makes the call return CXL: no later datagram can
\* overwrite it.  (server_transaction.cpp, the status tests of OnReceive)
CancelSticks ==
  CancelWhileWaiting ~> (sPc = "idle" /\ result = "CXL") \/ ~serverUp

\* Every call of StartFileTransfer returns, the join of T included.
\* (server.cpp, StartFileTransfer)
CallReturns == sPc \in Calling ~> sPc = "idle" \/ ~serverUp

\* The destructor returns, although R may be in the middle of a datagram and
\* the T of a call that ended with an exception may still be sending.
\* (server.cpp, ~Server)
ServerStops == sPc = "stopping" ~> sPc = "gone" \/ ~serverUp

\* T does not end, but for a cancellation, with a retransmission request
\* taken and nothing sent.  (server_transaction.cpp, the comment on the wait
\* after the last packet)
RequestsServed == ~uaf /\ tPc = "done" /\ status # "CXL" => ~owed

\* StartFileTransfer gives NTF back only if no answer has come.
\* (server.cpp, the comment on the first timeout)
NtfMeansSilence ==
  [][result' = "NTF" /\ result # "NTF" => status # "CHK"]_serverVars

-----------------------------------------------------------------------------
(***************************************************************************)
(* The inductive invariant behind the safety properties above.             *)
(***************************************************************************)

\* How a call, its transaction object and its map entry hold together: the
\* object lives as long as S works on it or T runs, and the entry goes
\* before the object does.  T is started once: assigning thr_ while a thread
\* is joinable would end the process.  (server.cpp, StartFileTransfer)
CallInv ==
  /\ sPhase \in {"NTF", "INFO"} => tPc = "none"
  /\ sPhase = "DATA" /\ sPc = "send" => tPc = "none"
  /\ sPc \in {"load", "wait"} => sPhase # "FIN"
  /\ sPc \in Calling => alive
  /\ TRunning => alive
  /\ sPc = "destroy" => ~active
  /\ active /\ sPc \notin Calling => result = "throw"
  /\ sPc = "gone" => ~alive
  /\ sPc \in {"clearing", "gone"} => rPc = "gone"
  /\ rTran <= call

\* Every packet before packet k has been sent.
SentBelow(k) == 0..(k - 1) \subseteq sent

\* What is known of a request for packet k that passed the test of RTX,
\* however far T has moved since.
Requestable(k) ==
  /\ SentBelow(k)
  /\ k <= TPN
  /\ tPc \in {"none", "open"} => k = 0
  /\ tPc \in {"loop", "tail", "incr"} => k < TPN

\* R is about to apply rMsg to the object of the current call.
Applies(xid) == rPc = "apply" /\ alive /\ rTran = call /\ rMsg.xid = xid

\* T has sent all packets before its counter, wherever requests have moved
\* it, and DONE is accepted, applied and acted upon only after all packets
\* have been sent.  (server_transaction.cpp, OnReceive and SendFileAsync)
PacketInv ==
  ~uaf =>
    /\ sent \subseteq 0..(TPN - 1)
    /\ SentBelow(psn)
    /\ psn <= TPN
    /\ tPc \in {"none", "open"} => psn = 0
    /\ tPc = "loop" => psn < TPN
    /\ tPc = "tail" => psn = TPN - 1 /\ psn \in sent
    /\ tPc = "incr" => psn < TPN /\ psn \in sent
    /\ retransmitPsn # NoPsn => Requestable(retransmitPsn)
    /\ Applies("RTX") => Requestable(rMsg.psn)
    /\ Applies("DONE") \/ status = "DONE" \/ sPhase = "FIN" \/ result = "FIN"
         => SentBelow(TPN)

=============================================================================
