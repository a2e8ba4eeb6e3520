---------------------------- MODULE SystemProofs ----------------------------
(***************************************************************************)
(* What server and client promise together, for every payload size, set of *)
(* files and versions, and every set of leftover datagrams that            *)
(* LeftoverAssumption allows.                                              *)
(***************************************************************************)
EXTENDS TrftpSystem, EndsSteps

\* The groups of variables, and the guards that name a place in a thread.
USE DEF fixedVars, packetVars, objVars, fileVars, histVars, envVars, xVars,
        SAt, TAt, SSees

-----------------------------------------------------------------------------
(***************************************************************************)
(* The inductive invariant: those of the two ends, and what the datagrams  *)
(* under way say about both.                                               *)
(***************************************************************************)

\* A call works on its own file, and nothing exists before the first.
CallFile ==
  /\ call > 0 => file = Files[call]
  /\ active \/ alive => call > 0
  /\ rPc = "apply" => rTran > 0

\* The contents the application has offered so far.
Offered == {Files[i].id : i \in 1..call}

\* The client is only told of offered contents, and checks no other.
OfferedInv ==
  /\ \A m \in net : m.xid = "INFO" => m.crc \in Offered
  /\ cCrc \in FileId => cCrc \in Offered
  /\ \A c \in verified : \E id \in Offered : c = Content(id)

\* R has accepted DONE, and whatever follows from it.
DoneTaken ==
  Applies("DONE") \/ status = "DONE" \/ sPhase = "FIN" \/ result = "FIN"

\* R has not written to a destroyed object, or could not have hit another.
Sound == ~uaf \/ MaxCalls = 1

\* DONE, under way or accepted, tells of a file the client has checked.
DoneInv ==
  /\ \A m \in net :
       m.xid = "DONE" /\ (\E i \in 1..MaxCalls : m.crc = Files[i].id)
         => Content(m.crc) \in verified
  /\ Sound /\ DoneTaken => call > 0 /\ Content(file.id) \in verified

\* FIN, under way or taken by the client, tells of a call that has sent it.
FinInv ==
  /\ \A m \in net : m.xid = "FIN" => finished # {}
  /\ xPc = "callback" \/ received # {} => finished # {}
  /\ finished \subseteq 1..call
  /\ result = "FIN" => call \in finished

SystemInv ==
  /\ ServerInv /\ ClientInv
  /\ NetTyped /\ CallFile /\ OfferedInv /\ DoneInv /\ FinInv

-----------------------------------------------------------------------------
(***************************************************************************)
(* The server's steps.                                                     *)
(***************************************************************************)

\* Every step of the server keeps CallFile.
LEMMA CallFileNext ==
  ASSUME ServerInv, CallFile,
         ServerNext \/ \E m \in ClientDatagram : ServerReceive(m)
  PROVE  CallFile'
<1> USE DEF CallFile
<1>0. call \in Nat /\ ServerTypeOK
  BY ServerAssumption DEF ServerInv, ServerTypeOK
<1>1. CASE StartFileTransfer
  BY <1>0, <1>1 DEF StartFileTransfer, Construct, rVars
<1>2. CASE ~StartFileTransfer
  <2>1. UNCHANGED <<call, file>>
    BY <1>2, SameCall
  <2>2. active' \/ alive' => active \/ alive
    BY <1>2
    DEF ServerNext, ServerCalls, SStep, SWorks, RStep, TStep, TWorks, TWakes,
        SSend, SSendData, SLoad, SAnswered, SCancelled, SUnexpected, STimeout,
        SCancel, SSendThrows, SErase, SDestroy, SJoinReceiver,
        SDestroyMembers, AbortFileTransfer, OnReceiveApply, OnReceiveDangling,
        RLeaves, ServerReceive, sVars
  <2>3. rPc' = "apply" => (rPc = "apply" /\ rTran' = rTran)
                          \/ (active /\ rTran' = call)
    BY <1>2
    DEF ServerNext, ServerCalls, SStep, SWorks, RStep, TStep, TWorks, TWakes,
        SSend, SSendData, SLoad, SAnswered, SCancelled, SUnexpected, STimeout,
        SCancel, SSendThrows, SErase, SDestroy, SJoinReceiver,
        SDestroyMembers, AbortFileTransfer, OnReceiveApply, OnReceiveDangling,
        RLeaves, ServerReceive, RLoops, rVars
  <2> QED
    BY <2>1, <2>2, <2>3
<1> QED
  BY <1>1, <1>2

\* What follows from DONE is not made up: a step of the server keeps DoneTaken
\* for the same call and file, or brings it about by receiving DONE.
LEMMA DoneKept ==
  ASSUME ServerInv, CallFile, ServerNext, Sound', DoneTaken'
  PROVE  Sound /\ DoneTaken /\ UNCHANGED <<call, file>>
<1>0. /\ ServerTypeOK /\ CallInv
      /\ call \in Nat /\ rTran \in Nat /\ MaxCalls \in Nat
  BY ServerAssumption DEF ServerInv, ServerTypeOK
<1>1. ~StartFileTransfer
  <2> SUFFICES ASSUME StartFileTransfer PROVE FALSE
    OBVIOUS
  <2>1. rTran' # call'
    BY <1>0 DEF StartFileTransfer, CallInv, rVars
  <2>2. status' = "NTF" /\ sPhase' = "NTF" /\ result' = "none"
    BY DEF StartFileTransfer, Construct
  <2> QED
    BY <2>1, <2>2 DEF DoneTaken, Applies
<1>2. UNCHANGED <<call, file>>
  BY <1>1, SameCall
<1>3. CASE TStep
  <2>1. UNCHANGED <<sVars, rVars>> /\ status' \in {status, "CXL"}
    BY <1>3 DEF TStep, TWorks, TWakes, SendFileAsyncWorks, SendFileAsyncWakes,
       TOpen, TOpenFails, TSeesCancel, TSendData, TReadFails, TSendThrows,
       TTail, TIncrement, TCancel, SendMessage, tranVars
  <2> QED
    BY <1>2, <2>1 DEF DoneTaken, Applies, Sound, sVars, rVars
<1>4. CASE SStep \/ AbortFileTransfer
  <2> USE DEF SendMessage, SendMessageThrows, SendMessageData
  <2>1. UNCHANGED rVars /\ (alive' => alive)
    <3>1. CASE SDestroy \/ SDestroyMembers
      BY <3>1 DEF SDestroy, SDestroyMembers
    <3>2. CASE ~SDestroy /\ ~SDestroyMembers
      BY <1>4, <3>2 DEF SStep, SWorks, SSend, SSendData, SLoad, SAnswered,
         SCancelled, SUnexpected, STimeout, SCancel, SSendThrows, SErase,
         SJoinReceiver, AbortFileTransfer, sVars
    <3> QED
      BY <3>1, <3>2
  <2>2. status' = "DONE" \/ sPhase' = "FIN" \/ result' = "FIN"
          => status = "DONE" \/ sPhase = "FIN" \/ result = "FIN"
    <3>1. CASE SSend
      BY <1>0, <3>1 DEF SSend, ServerTypeOK
    <3>2. CASE SAnswered
      BY <1>0, <3>2
      DEF SAnswered, Answer, Following, ServerTypeOK, CallInv, tranVars
    <3>3. CASE SSendData \/ SLoad \/ SCancelled \/ SUnexpected \/ STimeout
               \/ SCancel \/ SSendThrows \/ SErase \/ SDestroy
               \/ SJoinReceiver \/ SDestroyMembers
      BY <1>0, <3>3 DEF SSendData, SLoad, SCancelled, SUnexpected, STimeout,
         SCancel, SSendThrows, SErase, SDestroy, SJoinReceiver,
         SDestroyMembers, tranVars, ServerTypeOK
    <3>4. CASE AbortFileTransfer
      BY <3>4 DEF AbortFileTransfer, AbortSends, sVars
    <3> QED
      BY <1>4, <3>1, <3>2, <3>3, <3>4 DEF SStep, SWorks
  <2> QED
    BY <1>2, <2>1, <2>2 DEF DoneTaken, Applies, Sound, rVars
<1>5. CASE OnReceiveApply \/ RLeaves
  <2>1. rPc' # "apply" /\ UNCHANGED <<sPhase, result, uaf>>
    BY <1>5 DEF OnReceiveApply, RLeaves, RLoops, sVars
  <2>2. status' = "DONE" => status = "DONE" \/ Applies("DONE")
    BY <1>5 DEF OnReceiveApply, RLeaves, Apply, Applies, tranVars
  <2> QED
    BY <1>2, <2>1, <2>2 DEF DoneTaken, Applies, Sound
<1>6. CASE OnReceiveDangling
  <2>1. MaxCalls = 1
    BY <1>6 DEF OnReceiveDangling, Sound
  <2>2. ~alive
    <3>1. alive => call = 1
      BY <1>0, <2>1 DEF CallFile, ServerTypeOK
    <3>2. rTran = 1
      BY <1>0, <1>6, <2>1 DEF OnReceiveDangling, CallFile, ServerTypeOK
    <3> QED
      BY <1>6, <3>1, <3>2 DEF OnReceiveDangling
  <2>3. rPc' # "apply" /\ UNCHANGED <<status, sPhase, result>>
    BY <1>6, <2>2 DEF OnReceiveDangling, RLoops, sVars
  <2> QED
    BY <1>2, <2>1, <2>3 DEF DoneTaken, Applies, Sound
<1> QED
  BY <1>1, <1>3, <1>4, <1>5, <1>6 DEF ServerNext, ServerCalls, RStep

\* R has just accepted a DONE, or it had one before.
LEMMA DoneReceived ==
  ASSUME NEW m \in ClientDatagram, ServerReceive(m), DoneTaken'
  PROVE  /\ UNCHANGED <<call, file, uaf>>
         /\ DoneTaken \/ (m.xid = "DONE" /\ active /\ m.crc = file.id)
<1>1. UNCHANGED <<call, file, uaf, alive, status, sPhase, result>> /\ active
  BY DEF ServerReceive, sVars
<1>2. CASE Accepts(m)
  <2>1. rMsg' = m
    BY <1>2 DEF ServerReceive
  <2>2. m.xid = "DONE" => m.crc = file.id
    BY <1>2 DEF Accepts, DoneFits
  <2> QED
    BY <1>1, <2>1, <2>2 DEF DoneTaken, Applies
<1>3. CASE ~Accepts(m)
  <2>1. rPc' # "apply"
    BY <1>3 DEF ServerReceive, RLoops
  <2> QED
    BY <1>1, <2>1 DEF DoneTaken, Applies
<1> QED
  BY <1>2, <1>3

-----------------------------------------------------------------------------
(***************************************************************************)
(* The invariant of the two ends and the network.                          *)
(***************************************************************************)

\* The file on disk concerns none of the server's invariants but the types.
LEMMA OverwriteStands ==
  ASSUME ServerInv, Overwrite
  PROVE  ServerInv' /\ UNCHANGED <<net, call, file, active, alive, rVars, status,
                                  sPhase, result>>
<1> USE DEF Overwrite, sVars, rVars
<1>1. ServerTypeOK'
  BY DEF ServerInv, ServerTypeOK
<1>2. CallInv'
  BY DEF ServerInv, CallInv, TRunning
<1>3. PacketInv'
  BY DEF ServerInv, PacketInv, SentBelow, Requestable, Applies, TPN
<1> QED
  BY <1>1, <1>2, <1>3 DEF ServerInv

\* What is offered stays offered.
LEMMA OfferedGrows ==
  ASSUME call \in Nat, call' = call \/ call' = call + 1
  PROVE  Offered \subseteq Offered'
  BY DEF Offered

\* The invariant holds initially.
LEMMA SystemInit == Init => SystemInv
<1> SUFFICES ASSUME Init PROVE SystemInv
  OBVIOUS
<1>1. ServerInit /\ ClientInit /\ net = Leftover /\ finished = {}
  BY DEF Init, EndsInit
<1>2. ServerInv /\ ClientInv
  BY <1>1, ServerInvInit, ClientInvInit
<1>3. NetTyped
  BY <1>1, LeftoverAssumption DEF NetTyped
<1>4. CallFile
  BY <1>1 DEF ServerInit, CallFile
<1>5. OfferedInv
  BY <1>1, LeftoverAssumption, NoCrcAssumption DEF ClientInit, OfferedInv
<1>6. DoneInv
  <2>1. ~DoneTaken
    BY <1>1 DEF ServerInit, DoneTaken, Applies
  <2> QED
    BY <1>1, <2>1, LeftoverAssumption DEF DoneInv
<1>7. FinInv
  BY <1>1, LeftoverAssumption DEF ServerInit, ClientInit, FinInv
<1> QED
  BY <1>2, <1>3, <1>4, <1>5, <1>6, <1>7 DEF SystemInv

\* A step of the server, or of the program that overwrites the file, keeps it.
LEMMA SystemServer ==
  ASSUME SystemInv, ServerMoves(ServerNext \/ ServerDelivery \/ Overwrite)
  PROVE  SystemInv'
<1>0. /\ ServerInv /\ ClientInv /\ NetTyped /\ CallFile
      /\ OfferedInv /\ DoneInv /\ FinInv
      /\ ServerTypeOK /\ call \in Nat
  BY ServerAssumption DEF SystemInv, ServerInv, ServerTypeOK
<1>1. /\ UNCHANGED clientLocal
      /\ UNCHANGED <<cCrc, verified, received, xPc>>
      /\ finished' = finished \cup {i \in {call'} : result' = "FIN"}
  BY DEF ServerMoves, clientLocal
<1>2. ClientInv'
  BY <1>0, <1>1, ClientStands
<1>3. CASE ServerNext
  <2>1. ServerInv' /\ CallFile'
    BY <1>0, <1>3, ServerInvNext, CallFileNext DEF ServerAct
  <2>2. call' = call \/ call' = call + 1
    BY <1>3, SameCall DEF StartFileTransfer
  <2>3. NetTyped'
    BY <1>0, <1>3, ServerSends DEF NetTyped
  <2>4. OfferedInv'
    <3>1. Offered \subseteq Offered'
      BY <1>0, <2>2, OfferedGrows
    <3>2. ASSUME NEW m \in net', m \notin net, m.xid = "INFO"
          PROVE  m.crc \in Offered
      <4>1. alive /\ m.crc = file.id
        BY <1>0, <1>3, <3>2, ServerSends
      <4>2. call \in 1..call /\ file = Files[call]
        BY <1>0, <4>1 DEF CallFile
      <4> QED
        BY <4>1, <4>2 DEF Offered
    <3>3. \A m \in net' : m.xid = "INFO" => m.crc \in Offered'
      BY <1>0, <3>1, <3>2 DEF OfferedInv
    <3>4. cCrc' \in FileId => cCrc' \in Offered'
      BY <1>0, <1>1, <3>1 DEF OfferedInv
    <3>5. ASSUME NEW c \in verified'
          PROVE  \E id \in Offered' : c = Content(id)
      <4>1. PICK id \in Offered : c = Content(id)
        BY <1>0, <1>1 DEF OfferedInv
      <4> QED
        BY <3>1, <4>1
    <3> QED
      BY <3>3, <3>4, <3>5 DEF OfferedInv
  <2>5. DoneInv'
    <3>1. ASSUME NEW m \in net', m.xid = "DONE" PROVE m \in net
      BY <1>0, <1>3, <3>1, ServerSends
    <3>2. ASSUME Sound', DoneTaken'
          PROVE  call' > 0 /\ Content(file'.id) \in verified'
      BY <1>0, <1>1, <1>3, <3>2, DoneKept DEF DoneInv
    <3> QED
      BY <1>0, <1>1, <3>1, <3>2 DEF DoneInv
  <2>6. FinInv'
    <3>1. finished \subseteq finished'
          /\ (result' = "FIN" => call' \in finished')
      BY <1>1
    <3>2. ASSUME NEW m \in net', m.xid = "FIN" PROVE finished' # {}
      <4>1. CASE m \in net
        BY <1>0, <3>1, <3>2, <4>1 DEF FinInv
      <4>2. CASE m \notin net
        BY <1>0, <1>3, <3>1, <3>2, <4>2, ServerSends
      <4> QED
        BY <4>1, <4>2
    <3>3. result' = "FIN" => call' \in 1..call'
      <4>1. CASE result' = "FIN"
        <5>1. call' = call /\ (result = "FIN" \/ (SSend /\ sPhase = "FIN"))
          BY <1>3, <4>1, ResultFin
        <5>2. CASE result = "FIN"
          BY <1>0, <5>1, <5>2 DEF FinInv
        <5>3. CASE SSend
          <6>1. alive
            BY <1>0, <5>3 DEF SSend, ServerInv, CallInv, Calling
          <6> QED
            BY <1>0, <5>1, <6>1 DEF CallFile
        <5> QED
          BY <5>1, <5>2, <5>3
      <4> QED
        BY <4>1
    <3>4. finished' \subseteq 1..call'
      <4>1. finished \subseteq 1..call /\ 1..call \subseteq 1..call'
        BY <1>0, <2>2 DEF FinInv
      <4> QED
        BY <1>1, <3>3, <4>1
    <3>5. xPc' = "callback" \/ received' # {} => finished' # {}
      BY <1>0, <1>1, <3>1 DEF FinInv
    <3> QED
      BY <3>1, <3>2, <3>4, <3>5 DEF FinInv
  <2> QED
    BY <1>2, <2>1, <2>3, <2>4, <2>5, <2>6 DEF SystemInv
<1>4. CASE ServerDelivery
  <2>1. PICK m \in net : m.dst = "server" /\ ServerReceive(m)
    BY <1>4 DEF ServerDelivery, Receivable
  <2>2. m \in ClientDatagram
    BY <1>0, <2>1, FromWhom
  <2>3. ServerInv' /\ CallFile'
    BY <1>0, <2>1, <2>2, ServerInvNext, CallFileNext DEF ServerAct
  <2>4. UNCHANGED <<net, call, file, result>>
    BY <2>1 DEF ServerReceive, sVars
  <2>5. finished' = finished
    BY <1>0, <1>1, <2>4 DEF FinInv
  <2>6. NetTyped' /\ OfferedInv' /\ FinInv'
    BY <1>0, <1>1, <2>4, <2>5 DEF NetTyped, OfferedInv, FinInv, Offered
  <2>7. DoneInv'
    <3>1. ASSUME Sound', DoneTaken'
          PROVE  call' > 0 /\ Content(file'.id) \in verified'
      <4>1. Sound /\ (DoneTaken
                       \/ (m.xid = "DONE" /\ active /\ m.crc = file.id))
        BY <2>1, <2>2, <3>1, DoneReceived DEF Sound
      <4>2. CASE DoneTaken
        BY <1>0, <1>1, <2>4, <4>1, <4>2 DEF DoneInv
      <4>3. CASE m.xid = "DONE" /\ active /\ m.crc = file.id
        <5>1. call > 0 /\ file = Files[call] /\ call \in 1..MaxCalls
          BY <1>0, <4>3, ServerAssumption DEF CallFile, ServerTypeOK
        <5>2. Content(m.crc) \in verified
          BY <1>0, <4>3, <5>1 DEF DoneInv
        <5> QED
          BY <1>1, <2>4, <4>3, <5>1, <5>2
      <4> QED
        BY <4>1, <4>2, <4>3
    <3> QED
      BY <1>0, <1>1, <2>4, <3>1 DEF DoneInv
  <2> QED
    BY <1>2, <2>3, <2>6, <2>7 DEF SystemInv
<1>5. CASE Overwrite
  <2>1. ServerInv' /\ UNCHANGED <<net, call, file, active, alive, rVars, status,
                                 sPhase, result>>
    BY <1>0, <1>5, OverwriteStands
  <2>2. finished' = finished
    BY <1>0, <1>1, <2>1 DEF FinInv
  <2> QED
    BY <1>0, <1>1, <1>2, <2>1, <2>2
    DEF SystemInv, NetTyped, CallFile, OfferedInv, Offered, DoneInv, Sound,
        DoneTaken, Applies, FinInv, rVars
<1> QED
  BY <1>3, <1>4, <1>5 DEF ServerMoves

\* So does a step of the client.
LEMMA SystemClient ==
  ASSUME SystemInv, ClientMoves(ClientNext \/ ClientDelivery)
  PROVE  SystemInv'
<1>0. /\ ServerInv /\ ClientInv /\ NetTyped /\ CallFile
      /\ OfferedInv /\ DoneInv /\ FinInv
  BY DEF SystemInv
<1>1. UNCHANGED serverLocal /\ UNCHANGED finished
  BY DEF ClientMoves
<1>2. ServerInv'
  BY <1>0, <1>1, ServerStands
<1>3. /\ UNCHANGED <<call, file, active, alive, rPc, rTran, result>>
      /\ Offered' = Offered
      /\ (Sound' /\ DoneTaken' => Sound /\ DoneTaken)
  BY <1>1 DEF serverLocal, tranVars, sVars, rVars, Offered, Sound, DoneTaken,
     Applies
<1>4. CallFile'
  BY <1>0, <1>3 DEF CallFile
<1>5. ClientNext \/ \E d \in net : d \in ServerDatagram /\ ClientReceive(d)
  BY <1>0, FromWhom DEF ClientMoves, ClientDelivery
<1>6. ClientInv'
  BY <1>0, <1>5, ClientInvNext DEF ClientAct
<1> DEFINE
      Moved ==
        /\ \A m \in net' \ net :
             /\ m \in ClientDatagram
             /\ m.xid = "DONE" => Content(m.crc) \in verified'
        /\ verified' = verified
             \/ /\ cCrc \in FileId
                /\ verified' = verified \cup {Content(cCrc)}
        /\ \/ cCrc' = cCrc \/ cCrc' = NoCrc
           \/ \E d \in net : d.xid = "INFO" /\ cCrc' = d.crc
        /\ xPc' = "callback"
             => xPc = "callback" \/ \E d \in net : d.xid = "FIN"
        /\ received' = received \/ xPc = "callback"
<1>7. Moved
  <2>1. CASE ClientNext
    BY <2>1, ClientMovesOn
  <2>2. ASSUME NEW d \in net, d \in ServerDatagram, ClientReceive(d)
        PROVE  Moved
    BY <1>0, <2>2, ClientReceives
  <2> QED
    BY <1>5, <2>1, <2>2
<1>8. \A m \in net' \ net : m.xid \notin {"INFO", "FIN"}
  BY <1>7 DEF ClientDatagram
<1>9. NetTyped'
  BY <1>0, <1>7 DEF NetTyped
<1>10. OfferedInv'
  <2>1. \A m \in net' : m.xid = "INFO" => m.crc \in Offered'
    BY <1>0, <1>3, <1>8 DEF OfferedInv
  <2>2. cCrc' \in FileId => cCrc' \in Offered'
    BY <1>0, <1>3, <1>7, NoCrcAssumption DEF OfferedInv
  <2>3. \A c \in verified' : \E id \in Offered' : c = Content(id)
    BY <1>0, <1>3, <1>7 DEF OfferedInv
  <2> QED
    BY <2>1, <2>2, <2>3 DEF OfferedInv
<1>11. DoneInv'
  BY <1>0, <1>3, <1>7 DEF DoneInv
<1>12. FinInv'
  BY <1>0, <1>1, <1>3, <1>7, <1>8 DEF FinInv
<1> QED
  BY <1>2, <1>4, <1>6, <1>9, <1>10, <1>11, <1>12 DEF SystemInv

\* The invariant holds in every reachable state, whatever the network loses,
\* repeats, delays and reorders.
THEOREM SystemInvariance == Spec => []SystemInv
<1>1. SystemInv /\ [Next]_endsVars => SystemInv'
  <2> SUFFICES ASSUME SystemInv, [Next]_endsVars PROVE SystemInv'
    OBVIOUS
  <2>1. CASE UNCHANGED endsVars
    <3>1. ServerInv' /\ ClientInv'
      BY <2>1, ServerStands, ClientStands DEF SystemInv, endsVars
    <3> QED
      BY <2>1, <3>1
      DEF endsVars, serverLocal, clientLocal, tranVars, sVars, rVars,
          SystemInv, NetTyped, CallFile, OfferedInv, Offered, DoneInv, Sound,
          DoneTaken, Applies, FinInv
  <2> QED
    BY <2>1, SystemServer, SystemClient DEF Next
<1> QED
  BY <1>1, SystemInit, PTL DEF Spec

-----------------------------------------------------------------------------
(***************************************************************************)
(* Properties of the system.                                               *)
(***************************************************************************)

\* When StartFileTransfer returns FIN, the client has checked the whole of
\* this very file, for any number of calls, although packets and DONE of
\* earlier ones are about.
THEOREM FinTrue == Spec => []FinMeansVerified
<1>1. SystemInv => FinMeansVerified
  <2> SUFFICES ASSUME SystemInv, result = "FIN", ~uaf
               PROVE  Content(Files[call].id) \in verified
    BY DEF FinMeansVerified
  <2>1. call > 0 /\ Content(file.id) \in verified
    BY DEF SystemInv, DoneInv, Sound, DoneTaken
  <2> QED
    BY <2>1 DEF SystemInv, CallFile
<1> QED
  BY <1>1, SystemInvariance, PTL

\* The handler is only given whole files that have been checked, whatever
\* the server sends and the network does to it.
THEOREM SystemIntact == Spec => []DeliveredIntact
<1>1. SystemInv => DeliveredIntact
  BY DEF SystemInv, ClientInv, FileInv, DeliveredIntact
<1> QED
  BY <1>1, SystemInvariance, PTL

\* Nothing but files the application has offered reaches the handler, and
\* nothing before some call has succeeded, for any number of calls.
THEOREM DeliveredOffered ==
  Spec => [](\A r \in received :
               /\ \E i \in 1..call : r.chunks = Content(Files[i].id)
               /\ finished # {})
<1>1. SystemInv => \A r \in received :
                     /\ \E i \in 1..call : r.chunks = Content(Files[i].id)
                     /\ finished # {}
  BY DEF SystemInv, ClientInv, FileInv, OfferedInv, Offered, FinInv
<1> QED
  BY <1>1, SystemInvariance, PTL

\* With one call, the file that reaches the handler is one whose call has
\* returned FIN.  FIN has nothing that ties it to a call, so that with more
\* calls a late FIN of the first may end the transfer of the second.
THEOREM DeliveredTrue == MaxCalls = 1 => (Spec => []DeliveredMeansFin)
<1> SUFFICES ASSUME MaxCalls = 1 PROVE Spec => []DeliveredMeansFin
  OBVIOUS
<1>1. SystemInv => DeliveredMeansFin
  <2> SUFFICES ASSUME SystemInv, NEW r \in received
               PROVE  \E i \in finished : r.chunks = Content(Files[i].id)
    BY DEF DeliveredMeansFin
  <2>1. call \in 0..1
    BY DEF SystemInv, ServerInv, ServerTypeOK
  <2>2. r.chunks = Content(Files[1].id)
    BY <2>1 DEF SystemInv, ClientInv, FileInv, OfferedInv, Offered
  <2>3. finished # {} /\ finished \subseteq {1}
    BY <2>1 DEF SystemInv, FinInv
  <2> QED
    BY <2>2, <2>3
<1> QED
  BY <1>1, SystemInvariance, PTL

-----------------------------------------------------------------------------
(***************************************************************************)
(* With one call, the two ends and the network implement FileTransfer:     *)
(* StartFileTransfer is its Begin, sending FIN its Finish, leaving         *)
(* StartFileTransfer its Return, sending DONE its Check and calling the    *)
(* handler its Deliver.  All other steps change nothing of it.             *)
(***************************************************************************)

\* The step of FileTransfer, if any, that a step of the server is.
LEMMA ServerRefines ==
  ASSUME MaxCalls = 1, SystemInv,
         ServerMoves(ServerNext \/ ServerDelivery \/ Overwrite)
  PROVE  Transfer!Next \/ UNCHANGED Transfer!vars
<1> USE DEF Transfer!Next, Transfer!vars
<1>0. /\ ServerInv /\ ServerTypeOK /\ CallInv /\ CallFile /\ DoneInv /\ FinInv
      /\ call \in Nat
  BY ServerAssumption DEF SystemInv, ServerInv, ServerTypeOK
<1>1. /\ UNCHANGED <<verified, received>>
      /\ finished' = finished \cup {i \in {call'} : result' = "FIN"}
  BY DEF ServerMoves, clientLocal
<1> DEFINE Delivered == {r.chunks : r \in received}
<1>2. Delivered' = Delivered
  BY <1>1
<1>3. ASSUME call' = call, result' = "FIN" => result = "FIN"
      PROVE  finished' = finished
  BY <1>0, <1>1, <1>3 DEF FinInv
<1>4. ASSUME call' = call, result' = "FIN" => result = "FIN",
             sPc' \in Calling <=> sPc \in Calling
      PROVE  UNCHANGED Transfer!vars
  <2>1. (sPc \in Calling)' = (sPc \in Calling)
    BY <1>4
  <2> QED
    BY <1>1, <1>2, <1>3, <1>4, <2>1
<1>5. CASE StartFileTransfer
  <2>1. /\ sPc \notin Calling /\ sPc' \in Calling
        /\ call < MaxCalls /\ call' = call + 1 /\ result' = "none"
    BY <1>5 DEF StartFileTransfer, Calling
  <2>2. finished' = finished
    BY <1>1, <2>1
  <2>3. Transfer!Begin
    BY <1>1, <1>2, <2>1, <2>2 DEF Transfer!Begin
  <2> QED
    BY <2>3
<1>6. CASE SSend
  <2>1. sPc \in Calling /\ sPc' \in Calling /\ call' = call
    BY <1>6 DEF SSend, Calling
  <2>2. CASE sPhase = "FIN"
    <3>1. call \in 1..MaxCalls /\ file = Files[call]
      BY <1>0, <2>1, ServerAssumption DEF CallInv, CallFile, ServerTypeOK
    <3>2. Content(Files[call].id) \in verified
      BY <1>0, <2>2, <3>1 DEF DoneInv, Sound, DoneTaken
    <3>3. finished' = finished \cup {call}
      BY <1>1, <1>6, <2>1, <2>2 DEF SSend
    <3>4. Transfer!Finish
      BY <1>1, <1>2, <2>1, <3>1, <3>2, <3>3 DEF Transfer!Finish
    <3> QED
      BY <3>4
  <2>3. CASE sPhase # "FIN"
    BY <1>4, <1>6, <2>1, <2>3 DEF SSend
  <2> QED
    BY <2>2, <2>3
<1>7. CASE SSendThrows \/ SDestroy
  <2>1. /\ sPc \in Calling /\ sPc' \notin Calling
        /\ call' = call /\ (result' = "FIN" => result = "FIN")
    BY <1>7 DEF SSendThrows, SDestroy, Calling
  <2>2. Transfer!Return
    BY <1>1, <1>2, <1>3, <2>1 DEF Transfer!Return
  <2> QED
    BY <2>2
<1>8. CASE SSendData \/ SLoad \/ SAnswered \/ SCancelled \/ SUnexpected
           \/ STimeout \/ SCancel \/ SErase \/ SJoinReceiver
           \/ SDestroyMembers
  <2>1. /\ call' = call /\ (result' = "FIN" => result = "FIN")
        /\ sPc' \in Calling <=> sPc \in Calling
    BY <1>0, <1>8
    DEF SSendData, SLoad, SAnswered, SCancelled, AfterCancel, SUnexpected,
        STimeout, SCancel, SErase, SJoinReceiver, SDestroyMembers, Calling
  <2> QED
    BY <1>4, <2>1
<1>9. CASE AbortFileTransfer \/ RStep \/ TStep \/ ServerDelivery \/ Overwrite
  <2>1. UNCHANGED <<call, result, sPc>>
    BY <1>9
    DEF AbortFileTransfer, RStep, OnReceiveApply, OnReceiveDangling, RLeaves,
        TStep, TWorks, TWakes, ServerDelivery, ServerReceive, Overwrite, sVars
  <2> QED
    BY <1>4, <2>1
<1> QED
  BY <1>5, <1>6, <1>7, <1>8, <1>9
  DEF ServerMoves, ServerNext, ServerCalls, SStep, SWorks

\* The step of FileTransfer, if any, that a step of the client is.
LEMMA ClientRefines ==
  ASSUME MaxCalls = 1, SystemInv, ClientMoves(ClientNext \/ ClientDelivery)
  PROVE  Transfer!Next \/ UNCHANGED Transfer!vars
<1> USE DEF Transfer!Next, Transfer!vars
<1>0. /\ ClientInv /\ NetTyped /\ OfferedInv /\ FinInv
      /\ call \in Nat /\ call <= MaxCalls
  BY ServerAssumption DEF SystemInv, ServerInv, ServerTypeOK
<1>1. /\ UNCHANGED <<call, finished>>
      /\ (sPc \in Calling)' = (sPc \in Calling)
  BY DEF ClientMoves, serverLocal, sVars
<1> DEFINE Delivered == {r.chunks : r \in received}
           Wanted == [i \in 1..MaxCalls |-> Content(Files[i].id)]
<1>2. ASSUME NEW id \in Offered
      PROVE  \E i \in 1..call : Content(id) = Wanted[i]
  BY <1>0, <1>2 DEF Offered
<1>3. CASE ClientNext
  <2>1. verified' = verified
    BY <1>3, ClientMovesOn
  <2>2. CASE received' = received
    <3>1. Delivered' = Delivered
      BY <2>2
    <3> QED
      BY <1>1, <2>1, <3>1
  <2>3. CASE /\ xPc = "callback"
             /\ received' = received \cup {[version |-> cVersion,
                                            chunks |-> tempFile.chunks]}
    <3>1. Delivered' = Delivered \cup {tempFile.chunks}
      <4> DEFINE new == [version |-> cVersion, chunks |-> tempFile.chunks]
      <4>1. received' = received \cup {new} /\ new.chunks = tempFile.chunks
        BY <2>3
      <4> HIDE DEF new
      <4> QED
        BY <4>1
    <3>2. tempFile.chunks \in verified
      BY <1>0, <2>3 DEF ClientInv, FileInv
    <3>3. PICK i \in 1..call : tempFile.chunks = Wanted[i]
      BY <1>0, <1>2, <3>2 DEF OfferedInv
    <3>4. i = 1 /\ 1..call = {1}
      BY <1>0, <3>3
    <3>5. i \in finished
      BY <1>0, <2>3, <3>4 DEF FinInv
    <3>6. Transfer!Deliver
      BY <1>1, <2>1, <3>1, <3>3, <3>5 DEF Transfer!Deliver
    <3> QED
      BY <3>6
  <2> QED
    BY <1>3, <2>2, <2>3, ClientMovesOn
<1>4. CASE ClientDelivery
  <2>1. PICK d \in net : d \in ServerDatagram /\ ClientReceive(d)
    BY <1>0, <1>4, FromWhom DEF ClientDelivery
  <2>2. Delivered' = Delivered
    <3>1. received' = received
      BY <1>0, <2>1, ClientReceives
    <3> QED
      BY <3>1
  <2>3. CASE verified' = verified
    BY <1>1, <2>2, <2>3
  <2>4. CASE cCrc \in FileId /\ verified' = verified \cup {Content(cCrc)}
    <3>1. PICK i \in 1..call : Content(cCrc) = Wanted[i]
      BY <1>0, <1>2, <2>4 DEF OfferedInv
    <3>2. Transfer!Check
      BY <1>1, <2>2, <2>4, <3>1 DEF Transfer!Check
    <3> QED
      BY <3>2
  <2> QED
    BY <1>0, <2>1, <2>3, <2>4, ClientReceives
<1> QED
  BY <1>3, <1>4 DEF ClientMoves

\* The whole of a transfer's steps, with whatever the network and failing
\* system calls do, are steps of the abstract file transfer.
THEOREM Refinement == MaxCalls = 1 => (Spec => ImplementsTransfer)
<1> SUFFICES ASSUME MaxCalls = 1 PROVE Spec => ImplementsTransfer
  OBVIOUS
<1>1. Init => Transfer!Init
  BY DEF Init, EndsInit, ServerInit, ClientInit, Transfer!Init, Calling
<1>2. SystemInv /\ [Next]_endsVars => [Transfer!Next]_(Transfer!vars)
  <2> SUFFICES ASSUME SystemInv, [Next]_endsVars
               PROVE  Transfer!Next \/ UNCHANGED Transfer!vars
    OBVIOUS
  <2>1. CASE UNCHANGED endsVars
    BY <2>1 DEF endsVars, serverLocal, clientLocal, sVars, Transfer!vars
  <2> QED
    BY <2>1, ServerRefines, ClientRefines DEF Next
<1> QED
  BY <1>1, <1>2, SystemInvariance, PTL DEF Spec, ImplementsTransfer, Transfer!Spec

=============================================================================
