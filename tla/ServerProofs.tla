---------------------------- MODULE ServerProofs ----------------------------
(***************************************************************************)
(* The server's safety properties hold for every payload size, word size,  *)
(* set of files, number of calls and set of datagrams that may arrive.     *)
(***************************************************************************)
EXTENDS ServerOpen, EndsSteps

-----------------------------------------------------------------------------
\* The invariant holds in every reachable state, for every set of files,
\* number of calls and arriving datagrams, failing system calls or not.
\* (server.cpp and server_transaction.cpp as a whole)
THEOREM Invariance == Spec => []ServerInv
<1>1. Init => ServerInv
  BY ServerInvInit DEF Init
<1>2. ServerInv /\ [Next]_serverVars => ServerInv'
  <2>1. [Next]_serverVars => [ServerAct]_serverVars
    BY IncomingAssumption DEF Next, ServerAct
  <2> QED
    BY <2>1, ServerInvNext
<1> QED
  BY <1>1, <1>2, PTL DEF Spec

\* Whatever arrives, and however the threads interleave, every variable of
\* the server keeps its type: R never stores a request that is not a packet
\* number, and S never leaves the sequence of phases.
THEOREM TypeCorrect == Spec => []ServerTypeOK
<1>1. ServerInv => ServerTypeOK
  BY DEF ServerInv
<1> QED
  BY Invariance, <1>1, PTL

\* A call, its object, its map entry and its thread hold together as
\* CallInv says.
THEOREM CallCorrect == Spec => []CallInv
<1>1. ServerInv => CallInv
  BY DEF ServerInv
<1> QED
  BY Invariance, <1>1, PTL

\* T sends what precedes its counter, and DONE is judged by it, as PacketInv
\* says.
THEOREM PacketsTracked == Spec => []PacketInv
<1>1. ServerInv => PacketInv
  BY DEF ServerInv
<1> QED
  BY Invariance, <1>1, PTL

\* T never runs on a destroyed transaction.
THEOREM ThreadSafe == Spec => []ThreadWithinObject
<1>1. ServerInv => ThreadWithinObject
  BY DEF ServerInv, CallInv, ThreadWithinObject, TRunning
<1> QED
  BY Invariance, <1>1, PTL

\* No entry is left in the map by a call that returned.
THEOREM EntryErased == Spec => []EntryOutlivesCall
<1>1. ServerInv => EntryOutlivesCall
  BY DEF ServerInv, CallInv, EntryOutlivesCall
<1> QED
  BY Invariance, <1>1, PTL

\* StartFileTransfer returns FIN only after every packet of the file has
\* been sent, for files of any size and any sequence of requests.
THEOREM FinSafe == Spec => []FinMeansAllSent
<1>1. ServerInv => FinMeansAllSent
  BY DEF ServerInv, PacketInv, SentBelow, FinMeansAllSent
<1> QED
  BY Invariance, <1>1, PTL

\* T never reads or sends a packet that the file does not have.
THEOREM PacketsSafe == Spec => []OnlyFilePackets
<1>1. ServerInv => OnlyFilePackets
  BY DEF ServerInv, PacketInv, OnlyFilePackets, Requestable, NextPsn
<1> QED
  BY Invariance, <1>1, PTL

-----------------------------------------------------------------------------
\* A cancellation S has to see: it is stored, S waits for a change of another
\* status, and R is about to store nothing else; or S is returning it.
\* (server_transaction.cpp, the status tests of OnReceive; server.cpp,
\* StartFileTransfer)
CancelSettled ==
  \/ /\ sPc = "wait" /\ status = "CXL" /\ oldStatus # "CXL"
     /\ rPc = "apply" => rMsg.xid = "CXL"
  \/ sPc \in {"erase", "destroy", "idle"} /\ result = "CXL"

\* Only the return of the call ends it.
LEMMA CancelSettledNext ==
  ASSUME ServerInv, [ServerAct]_serverVars, CancelSettled, sPc # "idle"
  PROVE  CancelSettled'
<1> USE DEF CancelSettled, objVars, SAt, SSees
<1>1. CASE UNCHANGED serverVars
  BY <1>1 DEF serverVars, serverLocal, tranVars, sVars, rVars
<1>2. CASE SStep
  <2>1. sPc = "wait" => Answer[sPhase] # "CXL"
    BY DEF ServerInv, CallInv, ServerTypeOK, Answer
  <2> QED
    BY <1>2, <2>1
    DEF SStep, SWorks, SSend, SSendData, SLoad, SAnswered, SCancelled,
        AfterCancel, SUnexpected, STimeout, SCancel, SSendThrows, SErase,
        SDestroy, SJoinReceiver, SDestroyMembers, tranVars, rVars
<1>3. CASE RStep
  <2>1. /\ UNCHANGED sVars /\ rPc' # "apply"
        /\ \/ UNCHANGED status
           \/ rPc = "apply" /\ rMsg.xid # "RTX" /\ status' = rMsg.xid
    BY <1>3
    DEF RStep, OnReceiveApply, OnReceiveDangling, RLeaves, RLoops, Apply,
        tranVars
  <2> QED
    BY <2>1 DEF sVars
<1>4. CASE \E m \in ClientDatagram : ServerReceive(m)
  BY <1>4 DEF ServerReceive, Accepts, ChkFits, RLoops, sVars
<1>5. CASE TStep
  <2>1. UNCHANGED <<sVars, rVars>> /\ status' \in {status, "CXL"}
    BY <1>5
    DEF TStep, TWorks, TWakes, SendFileAsyncWorks, SendFileAsyncWakes, TOpen,
        TOpenFails, TSeesCancel, TSendData, TReadFails, TSendThrows, TTail,
        TIncrement, TCancel, SendMessage, tranVars
  <2> QED
    BY <2>1 DEF sVars, rVars
<1>6. CASE AbortFileTransfer
  BY <1>6
  DEF AbortFileTransfer, AbortSends, SendMessage, SendMessageThrows, sVars,
      rVars
<1>7. CASE StartFileTransfer \/ StopServer
  BY <1>7 DEF StartFileTransfer, StopServer
<1>8. CASE RReceiveThrows
  BY <1>8 DEF RReceiveThrows, tranVars, sVars, rVars
<1> QED
  BY <1>1, <1>2, <1>3, <1>4, <1>5, <1>6, <1>7, <1>8
  DEF ServerAct, ServerNext, ServerCalls

\* The safety half of CancelSticks: a cancellation stored while S waits, with
\* no datagram half applied, is not overwritten by any thread or datagram, and
\* is what the call returns, if it returns.
THEOREM CancelKept ==
  Spec => /\ [](CancelWhileWaiting => CancelSettled)
          /\ [][CancelSettled /\ sPc # "idle" => CancelSettled']_serverVars
<1>1. CancelWhileWaiting => CancelSettled
  BY DEF CancelWhileWaiting, CancelSettled
<1>2. ServerInv /\ [Next]_serverVars =>
        [CancelSettled /\ sPc # "idle" => CancelSettled']_serverVars
  <2>1. [Next]_serverVars => [ServerAct]_serverVars
    BY IncomingAssumption DEF Next, ServerAct
  <2> QED
    BY <2>1, CancelSettledNext
<1> QED
  BY <1>1, <1>2, Invariance, PTL DEF Spec

=============================================================================
