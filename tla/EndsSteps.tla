----------------------------- MODULE EndsSteps -----------------------------
(***************************************************************************)
(* Every step of the server, and every step of the client, preserves the   *)
(* invariants of that end whatever datagrams arrive, for every payload     *)
(* size, word size, set of files and versions, and number of calls.        *)
(* ServerProofs and ClientProofs apply this to each end alone,             *)
(* SystemProofs and PromptProofs to the two of them on a network.          *)
(***************************************************************************)
EXTENDS Server, Client, TLAPS

-----------------------------------------------------------------------------
(*                               The server.                               *)

\* The groups of variables, and the guards that name a place in a thread.
USE DEF fixedVars, packetVars, objVars, SAt, TAt, SSees

\* A step of the server, when any datagram a client can send may arrive.
ServerAct ==
  \/ ServerNext \/ StopServer \/ RReceiveThrows
  \/ \E m \in ClientDatagram : ServerReceive(m)

-----------------------------------------------------------------------------
\* The packet count of any file is a natural number.
LEMMA PacketCount ==
  ASSUME NEW f \in FileRecord
  PROVE  ServerPackets(NewFileSize(f)) \in Nat
<1>1. f.id \in FileId
  BY DEF FileRecord
<1>2. Length[f.id] \in Nat
  BY <1>1, WireAssumption
<1>3. WordSize \in Nat \ {0} /\ PayloadSize \in Nat \ {0}
  BY WireAssumption
<1>4. NewFileSize(f) \in Nat
  BY <1>2, <1>3 DEF NewFileSize
<1>5. (NewFileSize(f) + PayloadSize - 1) % WordSize \in Nat
  BY <1>3, <1>4
<1> QED
  BY <1>3, <1>5 DEF ServerPackets

\* Every file of a call is a file record.
LEMMA FilesTyped ==
  ASSUME NEW i \in 1..MaxCalls
  PROVE  Files[i] \in FileRecord
  BY ServerAssumption

\* What an accepted datagram is.
LEMMA Accepted ==
  ASSUME NEW m \in ClientDatagram, Accepts(m)
  PROVE  /\ m.xid \in ClientId
         /\ m.xid = "RTX" => m.psn \in Nat /\ m.psn <= psn
         /\ m.xid = "DONE" => psn = TPN
  BY DEF Accepts, DoneFits, RtxFits, ClientDatagram, ClientId

-----------------------------------------------------------------------------
(***************************************************************************)
(* Types.  CallInv is needed only for the phases in which S waits.         *)
(***************************************************************************)

\* The initial state has the types.
LEMMA TypeInit == ServerInit => ServerTypeOK
<1> SUFFICES ASSUME ServerInit PROVE ServerTypeOK
  OBVIOUS
<1>1. file \in FileRecord
  BY FilesTyped, ServerAssumption DEF ServerInit
<1>2. rMsg \in ClientDatagram
  BY DEF ServerInit, NoMsg, Simple, ClientDatagram
<1>3. /\ serverUp \in BOOLEAN /\ active \in BOOLEAN
      /\ alive \in BOOLEAN /\ uaf \in BOOLEAN /\ owed \in BOOLEAN
  BY Zenon DEF ServerInit
<1>4. disk \in FileId
  BY <1>1, ServerAssumption DEF ServerInit, FileRecord
<1> QED
  BY <1>1, <1>2, <1>3, <1>4, ServerAssumption
  DEF ServerInit, ServerTypeOK, FtpStatus, ServerId, ClientId, NoPsn,
      ClientSocket, Results, Calling

\* T keeps the types.
LEMMA TypeT ==
  ASSUME ServerTypeOK, TStep
  PROVE  ServerTypeOK'
<1> USE DEF ServerTypeOK, sVars, rVars, FtpStatus, ServerId, ClientId
<1>1. NextPsn \in Nat
  BY DEF NextPsn, NoPsn
<1>2. CASE TOpen /\ UNCHANGED <<sVars, rVars>>
  BY <1>2 DEF TOpen
<1>3. CASE TOpenFails /\ UNCHANGED <<sVars, rVars>>
  BY <1>3 DEF TOpenFails, TCancel, SendMessage
<1>4. CASE TSeesCancel /\ UNCHANGED <<sVars, rVars>>
  BY <1>4 DEF TSeesCancel
<1>5. CASE TSendData /\ UNCHANGED <<sVars, rVars>>
  <2>1. owed' \in BOOLEAN
    BY <1>5, Zenon DEF TSendData
  <2> QED
    BY <1>1, <1>5, <2>1 DEF TSendData, TTakesRequest
<1>6. CASE TReadFails /\ UNCHANGED <<sVars, rVars>>
  BY <1>1, <1>6 DEF TReadFails, TTakesRequest, TCancel, SendMessage
<1>7. CASE TSendThrows /\ UNCHANGED <<sVars, rVars>>
  <2>1. serverUp' \in BOOLEAN
    BY <1>7, Zenon DEF TSendThrows
  <2> QED
    BY <1>7, <2>1 DEF TSendThrows, tranVars
<1>8. CASE TTail /\ UNCHANGED <<sVars, rVars>>
  <2>1. owed' \in BOOLEAN
    BY <1>8, Zenon DEF TTail
  <2> QED
    BY <1>1, <1>8, <2>1 DEF TTail, TTailPsn, NoPsn
<1>9. CASE TIncrement /\ UNCHANGED <<sVars, rVars>>
  BY <1>9 DEF TIncrement
<1> QED
  BY <1>2, <1>3, <1>4, <1>5, <1>6, <1>7, <1>8, <1>9
  DEF TStep, TWorks, TWakes, SendFileAsyncWorks, SendFileAsyncWakes

\* S keeps the types.
LEMMA TypeS ==
  ASSUME ServerTypeOK, CallInv, SStep
  PROVE  ServerTypeOK'
<1> USE DEF ServerTypeOK, tranVars, rVars, FtpStatus, ServerId, ClientId,
            Results, Calling
<1>1. CASE SSend
  BY <1>1 DEF SSend, SendMessage
<1>2. CASE SSendData
  BY <1>2 DEF SSendData, SendMessageData
<1>3. CASE SLoad
  BY <1>3 DEF SLoad
<1>4. CASE SAnswered
  BY <1>4 DEF SAnswered, CallInv, Following
<1>5. CASE SCancelled
  BY <1>5 DEF SCancelled, AfterCancel
<1>6. CASE SUnexpected
  BY <1>6 DEF SUnexpected
<1>7. CASE SCancel
  BY <1>7 DEF SCancel, SendMessage
<1>8. CASE SSendThrows
  BY <1>8 DEF SSendThrows, SendMessageThrows
<1>9. CASE SErase
  <2>1. active' \in BOOLEAN
    BY <1>9, Zenon DEF SErase
  <2> QED
    BY <1>9, <2>1 DEF SErase
<1>10. CASE SDestroy
  <2>1. alive' \in BOOLEAN
    BY <1>10, Zenon DEF SDestroy
  <2> QED
    BY <1>10, <2>1 DEF SDestroy
<1>11. CASE STimeout
  BY <1>11 DEF STimeout
<1>12. CASE SJoinReceiver
  BY <1>12 DEF SJoinReceiver
<1>13. CASE SDestroyMembers
  <2>1. active' \in BOOLEAN /\ alive' \in BOOLEAN
    BY <1>13, Zenon DEF SDestroyMembers
  <2> QED
    BY <1>13, <2>1 DEF SDestroyMembers
<1> QED
  BY <1>1, <1>2, <1>3, <1>4, <1>5, <1>6, <1>7, <1>8, <1>9, <1>10, <1>11,
     <1>12, <1>13
  DEF SStep, SWorks

\* R, the callers of the two public operations and thereby all of ServerAct keep
\* the types.
LEMMA TypeNext ==
  ASSUME ServerTypeOK, CallInv, [ServerAct]_serverVars
  PROVE  ServerTypeOK'
<1>1. CASE StartFileTransfer
  <2>1. call + 1 \in 1..MaxCalls
    BY <1>1, ServerAssumption DEF StartFileTransfer, ServerTypeOK
  <2>2. Files[call + 1] \in FileRecord /\ Files[call + 1].id \in FileId
    BY <2>1, FilesTyped DEF FileRecord
  <2>3. owed' \in BOOLEAN
    BY <1>1, Zenon DEF StartFileTransfer, Construct
  <2> QED
    BY <1>1, <2>1, <2>2, <2>3
    DEF StartFileTransfer, Construct, ServerTypeOK, rVars, FtpStatus,
        ServerId, ClientId, Results, ClientSocket, NoPsn, Calling
<1>2. CASE SStep
  BY <1>2, TypeS
<1>3. CASE AbortFileTransfer
  BY <1>3
  DEF AbortFileTransfer, AbortSends, SendMessage, SendMessageThrows,
      ServerTypeOK, sVars, rVars, FtpStatus, ServerId, ClientId
<1>4. CASE RStep
  <2>1. ASSUME rPc = "apply"
        PROVE  rMsg.xid \in ClientId /\ (rMsg.xid = "RTX" => rMsg.psn \in Nat)
    BY <2>1 DEF ServerTypeOK, ClientDatagram
  <2>2. NoMsg \in ClientDatagram
    BY DEF NoMsg, Simple, ClientDatagram
  <2>3. CASE OnReceiveApply
    BY <2>1, <2>2, <2>3
    DEF OnReceiveApply, Apply, RLoops, ServerTypeOK, sVars, FtpStatus
  <2>4. CASE OnReceiveDangling
    <3>1. uaf' \in BOOLEAN
      BY <2>4, Zenon DEF OnReceiveDangling
    <3> QED
      BY <2>1, <2>2, <2>4, <3>1
      DEF OnReceiveDangling, Apply, RLoops, ServerTypeOK, sVars, FtpStatus
  <2>5. CASE RLeaves
    BY <2>5 DEF RLeaves, ServerTypeOK, tranVars, sVars
  <2> QED
    BY <1>4, <2>3, <2>4, <2>5 DEF RStep
<1>5. CASE TStep
  BY <1>5, TypeT
<1>6. ASSUME NEW m \in ClientDatagram, ServerReceive(m)
      PROVE  ServerTypeOK'
  <2>1. m \in ClientDatagram
    OBVIOUS
  <2>2. CASE Accepts(m)
    BY <1>6, <2>1, <2>2, Accepted
    DEF ServerReceive, ServerTypeOK, sVars, ClientSocket
  <2>3. CASE ~Accepts(m)
    BY <1>6, <2>3
    DEF ServerReceive, RLoops, ServerTypeOK, sVars, ClientSocket
  <2> QED
    BY <2>2, <2>3
<1>7. CASE UNCHANGED serverVars
  BY <1>7
  DEF serverVars, serverLocal, tranVars, sVars, rVars, ServerTypeOK
<1>8. CASE StopServer
  BY <1>8 DEF StopServer, ServerTypeOK, tranVars, rVars
<1>9. CASE RReceiveThrows
  <2>1. serverUp' \in BOOLEAN
    BY <1>9, Zenon DEF RReceiveThrows
  <2> QED
    BY <1>9, <2>1 DEF RReceiveThrows, ServerTypeOK, tranVars, sVars, rVars
<1> QED
  BY <1>1, <1>2, <1>3, <1>4, <1>5, <1>6, <1>7, <1>8, <1>9
  DEF ServerAct, ServerNext, ServerCalls

-----------------------------------------------------------------------------
(***************************************************************************)
(* The call, its object and its entry.                                     *)
(***************************************************************************)

\* Every step keeps CallInv.
LEMMA CallNext ==
  ASSUME ServerTypeOK, CallInv, [ServerAct]_serverVars
  PROVE  CallInv'
<1> USE DEF CallInv, TRunning, ThrJoined, Calling
<1>1. CASE StartFileTransfer
  BY <1>1 DEF StartFileTransfer, Construct, ServerTypeOK, rVars
<1>2. CASE SSend
  BY <1>2 DEF SSend, rVars
<1>3. CASE SSendData
  BY <1>3 DEF SSendData, SendMessageData, rVars
<1>4. CASE SLoad
  <2>1. sPhase # "FIN"
    BY <1>4 DEF SLoad
  <2> QED
    BY <1>4, <2>1 DEF SLoad, tranVars, rVars
<1>5. CASE SAnswered
  <2>1. sPhase \in {"NTF", "INFO", "DATA"}
    BY <1>5 DEF SAnswered, ServerTypeOK
  <2> QED
    BY <1>5, <2>1 DEF SAnswered, Following, tranVars, rVars
<1>6. CASE SCancelled \/ SUnexpected \/ STimeout
  BY <1>6 DEF SCancelled, AfterCancel, SUnexpected, STimeout, tranVars, rVars
<1>7. CASE SCancel \/ SSendThrows
  BY <1>7 DEF SCancel, SSendThrows, rVars
<1>8. CASE SErase
  BY <1>8 DEF SErase, tranVars, rVars
<1>9. CASE SDestroy
  BY <1>9 DEF SDestroy, tranVars, rVars
<1>10. CASE AbortFileTransfer
  BY <1>10 DEF AbortFileTransfer, sVars, rVars
<1>11. CASE RStep
  BY <1>11 DEF RStep, OnReceiveApply, OnReceiveDangling, RLeaves, tranVars,
     sVars
<1>12. CASE TStep
  <2>1. TRunning
    BY <1>12
    DEF TStep, TWorks, TWakes, SendFileAsyncWorks, SendFileAsyncWakes, TOpen,
        TOpenFails, TSeesCancel, TSendData, TReadFails, TSendThrows, TTail,
        TIncrement
  <2>2. UNCHANGED <<sVars, rVars>>
    BY <1>12 DEF TStep, TWorks, TWakes
  <2> QED
    BY <2>1, <2>2 DEF sVars, rVars
<1>13. ASSUME NEW m \in ClientDatagram, ServerReceive(m)
       PROVE  CallInv'
  BY <1>13 DEF ServerReceive, ServerTypeOK, sVars
<1>14. CASE UNCHANGED serverVars
  BY <1>14 DEF serverVars, serverLocal, tranVars, sVars, rVars
<1>15. CASE SJoinReceiver \/ SDestroyMembers \/ StopServer
  BY <1>15 DEF SJoinReceiver, SDestroyMembers, StopServer, tranVars, rVars
<1>16. CASE RReceiveThrows
  BY <1>16 DEF RReceiveThrows, tranVars, sVars, rVars
<1> QED
  BY <1>1, <1>2, <1>3, <1>4, <1>5, <1>6, <1>7, <1>8, <1>9, <1>10, <1>11,
     <1>12, <1>13, <1>14, <1>15, <1>16
  DEF ServerAct, ServerNext, ServerCalls, SStep, SWorks

-----------------------------------------------------------------------------
(***************************************************************************)
(* The packets.                                                            *)
(***************************************************************************)

\* The packet count of the current file is a natural number.
LEMMA TPNNat == ASSUME ServerTypeOK PROVE TPN \in Nat
  BY PacketCount DEF TPN, ServerTypeOK

\* The invariant after T has moved.  What T may change is the counter, the
\* request, its place in the loop and the set of sent packets.
LEMMA PacketT ==
  ASSUME ServerTypeOK, PacketInv, TStep
  PROVE  PacketInv'
<1> SUFFICES ASSUME ~uaf' PROVE PacketInv'
  BY DEF PacketInv
<1>0. /\ UNCHANGED <<sVars, rVars, file>>
      /\ ~uaf
      /\ status' \in {status, "CXL"}
  BY DEF TStep, TWorks, TWakes, SendFileAsyncWorks, SendFileAsyncWakes,
     TOpen, TOpenFails, TSeesCancel, TSendData, TReadFails, TSendThrows,
     TTail, TIncrement, TCancel, SendMessage, rVars, tranVars
<1>1. TPN \in Nat /\ TPN' = TPN
  BY <1>0, TPNNat DEF TPN
<1>2. /\ psn \in Nat /\ sent \subseteq Nat
      /\ retransmitPsn \in Nat \cup {NoPsn} /\ NoPsn = -1
      /\ rPc = "apply" /\ rMsg.xid = "RTX" => rMsg.psn \in Nat
  BY DEF ServerTypeOK, NoPsn, ClientDatagram
<1>3. /\ Applies("RTX")' = Applies("RTX")
      /\ Applies("DONE")' = Applies("DONE")
      /\ rMsg' = rMsg /\ sPhase' = sPhase /\ result' = result
      /\ (status' = "DONE" => status = "DONE")
  BY <1>0 DEF Applies, sVars, rVars
<1>4. Applies("RTX") => rMsg.psn \in Nat
  BY <1>2 DEF Applies
<1> USE <1>0, <1>1, <1>2, <1>3, <1>4 DEF PacketInv, SentBelow, Requestable
<1>5. CASE TOpen
  BY <1>5 DEF TOpen
<1>6. CASE TOpenFails
  BY <1>6 DEF TOpenFails, TCancel
<1>7. CASE TSeesCancel
  BY <1>7 DEF TSeesCancel
<1>8. CASE TSendData
  <2>1. NextPsn \in Nat /\ NextPsn < TPN /\ SentBelow(NextPsn)
    BY <1>8 DEF NextPsn, TSendData
  <2> QED
    BY <1>8, <2>1 DEF TSendData, TTakesRequest
<1>9. CASE TReadFails
  <2>1. NextPsn \in Nat /\ NextPsn < TPN /\ SentBelow(NextPsn)
    BY <1>9 DEF NextPsn, TReadFails
  <2> QED
    BY <1>9, <2>1 DEF TReadFails, TTakesRequest, TCancel
<1>10. CASE TSendThrows
  BY <1>10 DEF TSendThrows, tranVars
<1>11. CASE TTail
  <2>1. 0..(TPN - 1) \subseteq sent
    BY <1>11 DEF TTail
  <2>2. NextPsn \in Nat /\ NextPsn < TPN /\ SentBelow(NextPsn)
    BY <1>11 DEF NextPsn, TTail
  <2>3. NextPsn \in sent
    BY <2>1, <2>2
  <2> QED
    BY <1>11, <2>2, <2>3 DEF TTail, TTailPsn
<1>12. CASE TIncrement
  <2>1. SentBelow(psn + 1) /\ psn + 1 <= TPN
    BY <1>12 DEF TIncrement
  <2> QED
    BY <1>12, <2>1 DEF TIncrement
<1> QED
  BY <1>5, <1>6, <1>7, <1>8, <1>9, <1>10, <1>11, <1>12
  DEF TStep, TWorks, TWakes, SendFileAsyncWorks, SendFileAsyncWakes

\* The invariant after a step of S, of a caller of AbortFileTransfer or of
\* the destructor, none of which touches the counter, the request or the set
\* of sent packets once the call has begun.
LEMMA PacketS ==
  ASSUME ServerTypeOK, CallInv, PacketInv,
         SStep \/ AbortFileTransfer \/ StopServer
  PROVE  PacketInv'
<1> SUFFICES ASSUME ~uaf' PROVE PacketInv'
  BY DEF PacketInv
<1> USE DEF SendMessage, SendMessageThrows, SendMessageData
<1>0. /\ UNCHANGED <<rVars, file, psn, retransmitPsn, sent, call>>
      /\ ~uaf
      /\ tPc' = tPc \/ (tPc' = "open" /\ SSendData)
      /\ alive' = alive \/ ~alive'
  BY DEF SStep, SWorks, SSend, SSendData, SLoad, SAnswered, SCancelled,
     SUnexpected, STimeout, SCancel, SSendThrows, SErase, SDestroy,
     SJoinReceiver, SDestroyMembers, StopServer, AbortFileTransfer,
     AbortSends, sVars, rVars, tranVars
<1>1. TPN \in Nat /\ TPN' = TPN
  BY <1>0, TPNNat DEF TPN
<1>2. /\ Applies("RTX")' => Applies("RTX")
      /\ Applies("DONE")' => Applies("DONE")
      /\ rMsg' = rMsg
  BY <1>0 DEF Applies, rVars
<1>3. status' = "DONE" \/ sPhase' = "FIN" \/ result' = "FIN"
        => status = "DONE" \/ sPhase = "FIN" \/ result = "FIN"
  <2>1. CASE SSend
    BY <2>1 DEF SSend, ServerTypeOK
  <2>2. CASE SAnswered
    BY <2>2 DEF SAnswered, Answer, Following, ServerTypeOK, CallInv, tranVars
  <2>3. CASE SSendData \/ SLoad \/ SCancelled \/ SUnexpected \/ STimeout
             \/ SCancel \/ SSendThrows \/ SErase \/ SDestroy
             \/ SJoinReceiver \/ SDestroyMembers \/ StopServer
    BY <2>3 DEF SSendData, SLoad, SCancelled, SUnexpected, STimeout, SCancel,
       SSendThrows, SErase, SDestroy, SJoinReceiver, SDestroyMembers,
       StopServer, tranVars, ServerTypeOK
  <2>4. CASE AbortFileTransfer
    BY <2>4 DEF AbortFileTransfer, AbortSends, sVars
  <2> QED
    BY <2>1, <2>2, <2>3, <2>4 DEF SStep, SWorks
<1>4. CASE tPc' = tPc
  BY <1>0, <1>1, <1>2, <1>3, <1>4 DEF PacketInv, SentBelow, Requestable
<1>5. CASE tPc' = "open" /\ SSendData
  <2>1. tPc = "none"
    BY <1>5 DEF SSendData, CallInv
  <2> QED
    BY <1>0, <1>1, <1>2, <1>3, <1>5, <2>1
    DEF PacketInv, SentBelow, Requestable
<1> QED
  BY <1>0, <1>4, <1>5

\* The invariant after R has received or applied a datagram.
LEMMA PacketR ==
  ASSUME ServerTypeOK, PacketInv,
         RStep \/ \E m \in ClientDatagram : ServerReceive(m)
  PROVE  PacketInv'
<1> SUFFICES ASSUME ~uaf' PROVE PacketInv'
  BY DEF PacketInv
<1>0. /\ UNCHANGED <<sVars, file, psn, tPc, sent>>
      /\ ~uaf
  BY DEF RStep, OnReceiveApply, OnReceiveDangling, RLeaves, ServerReceive,
     tranVars
<1>1. TPN \in Nat /\ TPN' = TPN /\ psn \in Nat
  BY <1>0, TPNNat DEF TPN, ServerTypeOK
<1>2. CASE OnReceiveApply
  <2>1. ~Applies("RTX")' /\ ~Applies("DONE")'
    BY <1>2 DEF OnReceiveApply, RLoops, Applies
  <2>2. retransmitPsn' # NoPsn => Requestable(retransmitPsn')
    <3>1. CASE rMsg.xid = "RTX"
      <4>1. Applies("RTX") /\ retransmitPsn' = rMsg.psn
        BY <1>2, <3>1 DEF OnReceiveApply, Apply, Applies
      <4> QED
        BY <1>0, <4>1 DEF PacketInv
    <3>2. CASE rMsg.xid # "RTX"
      <4>1. retransmitPsn' = retransmitPsn
        BY <1>2, <3>2 DEF OnReceiveApply, Apply
      <4> QED
        BY <1>0, <4>1 DEF PacketInv
    <3> QED
      BY <3>1, <3>2
  <2>3. status' = "DONE" => status = "DONE" \/ Applies("DONE")
    BY <1>2 DEF OnReceiveApply, Apply, Applies
  <2> QED
    BY <1>0, <1>1, <2>1, <2>2, <2>3
    DEF PacketInv, SentBelow, Requestable, sVars
<1>3. CASE OnReceiveDangling
  BY <1>3 DEF OnReceiveDangling
<1>4. ASSUME NEW m \in ClientDatagram, ServerReceive(m)
      PROVE  PacketInv'
  <2>1. UNCHANGED <<status, retransmitPsn>>
    BY <1>4 DEF ServerReceive
  <2>2. CASE Accepts(m)
    <3>1. m \in ClientDatagram /\ rMsg' = m
      BY <1>4, <2>2 DEF ServerReceive
    <3>2. Applies("RTX")' => Requestable(m.psn)
      BY <1>0, <1>1, <2>2, <3>1, Accepted
      DEF Applies, Requestable, PacketInv, SentBelow, ServerTypeOK
    <3>3. Applies("DONE")' => SentBelow(TPN)
      BY <1>0, <2>2, <3>1, Accepted DEF Applies, PacketInv
    <3> QED
      BY <1>0, <1>1, <2>1, <3>1, <3>2, <3>3
      DEF PacketInv, SentBelow, Requestable, sVars
  <2>3. CASE ~Accepts(m)
    <3>1. ~Applies("RTX")' /\ ~Applies("DONE")'
      BY <1>4, <2>3 DEF ServerReceive, RLoops, Applies
    <3> QED
      BY <1>0, <1>1, <2>1, <3>1
      DEF PacketInv, SentBelow, Requestable, sVars
  <2> QED
    BY <2>2, <2>3
<1>5. CASE RLeaves
  <2>1. ~Applies("RTX")' /\ ~Applies("DONE")'
    BY <1>5 DEF RLeaves, Applies
  <2> QED
    BY <1>0, <1>1, <1>5, <2>1
    DEF RLeaves, PacketInv, SentBelow, Requestable, sVars, tranVars
<1> QED
  BY <1>2, <1>3, <1>4, <1>5 DEF RStep

\* The invariant after a call has constructed its transaction object: a
\* datagram R has still to apply is meant for an earlier one.
LEMMA PacketStart ==
  ASSUME ServerTypeOK, CallInv, StartFileTransfer
  PROVE  PacketInv'
<1>1. Files[call + 1] \in FileRecord
  BY FilesTyped, ServerAssumption DEF StartFileTransfer, ServerTypeOK
<1>2. TPN' \in Nat
  BY <1>1, PacketCount DEF StartFileTransfer, Construct, TPN
<1>3. ~Applies("RTX")' /\ ~Applies("DONE")'
  <2>1. rTran' # call'
    BY ServerAssumption DEF StartFileTransfer, CallInv, ServerTypeOK, rVars
  <2> QED
    BY <2>1 DEF Applies
<1>4. /\ sent' = {} /\ psn' = 0 /\ tPc' = "none" /\ retransmitPsn' = NoPsn
      /\ status' = "NTF" /\ sPhase' = "NTF" /\ result' = "none"
  BY DEF StartFileTransfer, Construct
<1>5. sent' \subseteq 0..(TPN' - 1) /\ SentBelow(psn)' /\ psn' <= TPN'
  BY <1>2, <1>4 DEF SentBelow
<1>6. retransmitPsn' = NoPsn'
  BY <1>4 DEF NoPsn
<1> QED
  BY <1>3, <1>4, <1>5, <1>6 DEF PacketInv

\* Every step keeps PacketInv.
LEMMA PacketNext ==
  ASSUME ServerTypeOK, CallInv, PacketInv, [ServerAct]_serverVars
  PROVE  PacketInv'
<1>1. CASE UNCHANGED serverVars
  BY <1>1
  DEF serverVars, serverLocal, tranVars, sVars, rVars, PacketInv, SentBelow,
      Requestable, Applies, TPN
<1>2. CASE RReceiveThrows
  BY <1>2
  DEF RReceiveThrows, tranVars, sVars, rVars, PacketInv, SentBelow,
      Requestable, Applies, TPN
<1> QED
  BY <1>1, <1>2, PacketT, PacketS, PacketR, PacketStart
  DEF ServerAct, ServerNext, ServerCalls

-----------------------------------------------------------------------------
\* The inductive invariant: types, the lifetimes of call, object and thread,
\* and what has been sent.
ServerInv == ServerTypeOK /\ CallInv /\ PacketInv

\* It holds initially.
LEMMA ServerInvInit == ServerInit => ServerInv
<1> SUFFICES ASSUME ServerInit PROVE ServerInv
  OBVIOUS
<1>1. ServerTypeOK
  BY TypeInit
<1>2. CallInv
  BY DEF ServerInit, CallInv, TRunning, Calling
<1>3. PacketInv
  <2>1. TPN \in Nat
    BY <1>1, TPNNat
  <2> QED
    BY <2>1 DEF ServerInit, PacketInv, SentBelow, NoPsn, Applies
<1> QED
  BY <1>1, <1>2, <1>3 DEF ServerInv

\* Every step keeps it.
LEMMA ServerInvNext ==
  ASSUME ServerInv, [ServerAct]_serverVars
  PROVE  ServerInv'
  BY TypeNext, CallNext, PacketNext DEF ServerInv

-----------------------------------------------------------------------------
(*                               The client.                               *)

\* The groups of variables that UNCHANGED names.
USE DEF fileVars, histVars, envVars, xVars

\* A step of the client, when any datagram a server can send may arrive.
ClientAct ==
  \/ ClientNext \/ ClientCalls \/ SocketThrows
  \/ \E m \in ServerDatagram : ClientReceive(m)

-----------------------------------------------------------------------------
(***************************************************************************)
(* The inductive invariant.                                                *)
(***************************************************************************)

\* The file being written: X writes its first packet in status RDY and the
\* others in status DATA, and packet_sequence_number_ is the length of the
\* file in the latter.  In status RDY it may be the counter of an earlier
\* file.  (client_transaction.cpp, cases INFO and DATA, and Reset)
StreamInv ==
  streamOpen =>
    /\ cCrc \in FileId
    /\ \A i \in DOMAIN tempFile.chunks : tempFile.chunks[i].psn = i - 1
    /\ tempFile.chunks = <<>> \/ Len(tempFile.chunks) = cPsn
    /\ cStatus = "RDY" => tempFile.chunks = <<>>
    /\ cStatus = "DATA" => Len(tempFile.chunks) = cPsn

\* What has been checked is a whole file, and while X waits for FIN or calls
\* the handler the temporary file is one that has been checked.
\* (client_transaction.cpp, cases DATA and FIN)
FileInv ==
  /\ \A c \in verified : \E id \in FileId : c = Content(id)
  /\ cStatus = "DONE" \/ xPc = "callback" => tempFile.chunks \in verified
  /\ \A r \in received : r.chunks \in verified

\* Who clears is_active_.  An X that has given up is past its last test of
\* it: if C sets it again, C also waits for that X.  C starts no X while
\* there is one to join, and the object is not destroyed before X has ended.
\* (client_transaction.cpp, Begin and SendMessage)
OwnerInv ==
  /\ ActiveHasOwner
  /\ xPc = "cxlBreak" /\ isActive => cPc \in {"reset", "join"}
  /\ cPc \in {"ntf", "gone"} => xPc = "none"

ClientInv == ClientTypeOK /\ StreamInv /\ FileInv /\ OwnerInv

-----------------------------------------------------------------------------
\* The packet count of an INFO is a natural number.
LEMMA ClientPacketCount ==
  ASSUME NEW size \in Nat
  PROVE  ClientPackets(size) \in Nat
  BY WireAssumption DEF ClientPackets

\* The fields of a datagram, by its id.
LEMMA DatagramFields ==
  ASSUME NEW m \in ServerDatagram
  PROVE  /\ m.xid \in {"NTF", "INFO", "DATA", "FIN", "CXL"}
         /\ m.xid = "NTF" => m.version \in Version
         /\ m.xid = "INFO" => /\ m.version \in Version
                              /\ m.size \in Nat
                              /\ m.crc \in FileId
         /\ m.xid = "DATA" => /\ m.psn \in Nat
                              /\ m.len \in Nat
                              /\ m.of \in FileId
  BY DEF ServerDatagram

-----------------------------------------------------------------------------
(***************************************************************************)
(* Types.                                                                  *)
(***************************************************************************)

\* The initial state has the types.
LEMMA ClientTypeInit == ClientInit => ClientTypeOK
<1> SUFFICES ASSUME ClientInit PROVE ClientTypeOK
  OBVIOUS
<1>1. clientUp \in BOOLEAN /\ isActive \in BOOLEAN /\ streamOpen \in BOOLEAN
      /\ handler \in BOOLEAN
  BY Zenon DEF ClientInit
<1>2. tempFile \in [bytes : Nat, chunks : Seq(Chunk)]
  BY DEF ClientInit, EmptyFile
<1>3. cMsg \in [xid : {"NTF"}, dst : {"main"}, version : Version,
                form : NtfForm]
  BY WireAssumption DEF ClientInit, NoNtf, NtfForm
<1> QED
  BY <1>1, <1>2, <1>3, WireAssumption DEF ClientInit, ClientTypeOK

\* What X does with a datagram keeps the types.
LEMMA TypeXReceive ==
  ASSUME ClientTypeOK, NEW m \in ServerDatagram, XReceive(m)
  PROVE  ClientTypeOK'
<1> USE DEF ClientTypeOK, XReceives, XAccepts
<1>1. UNCHANGED <<cPc, cMsg>>
  BY DEF XReceive
<1>2. ASSUME NEW next \in {"cxl", "cxlBreak"}, BeginCancel(next)
      PROVE  cStatus' = "CXL" /\ isActive' = FALSE /\ xPc' = next
             /\ isActive' \in BOOLEAN
  BY <1>2, Zenon DEF BeginCancel, ActiveAfterCancel
<1>3. CASE XDiscards(m)
  BY <1>1, <1>3 DEF XDiscards
<1>4. CASE XRejects(m)
  BY <1>1, <1>2, <1>4 DEF XRejects
<1>5. CASE XNtf(m)
  <2>1. clientUp' \in BOOLEAN
    BY <1>5, Zenon DEF XNtf
  <2> QED
    BY <1>1, <1>5, <2>1, DatagramFields DEF XNtf
<1>6. CASE XInfo(m)
  <2>1. streamOpen' \in BOOLEAN
    BY <1>6, Zenon DEF XInfo
  <2>2. tempFile' \in [bytes : Nat, chunks : Seq(Chunk)]
    BY <1>6 DEF XInfo, EmptyFile
  <2> QED
    BY <1>1, <1>6, <2>1, <2>2, DatagramFields, ClientPacketCount
    DEF XInfo, XTakesInfo, AfterInfo
<1>7. CASE XInfoOpenFails(m)
  BY <1>1, <1>2, <1>7, DatagramFields, ClientPacketCount
  DEF XInfoOpenFails, XTakesInfo
<1>8. CASE XDataOutOfOrder(m)
  BY <1>1, <1>8 DEF XDataOutOfOrder
<1>9. CASE XDataWriteFails(m)
  BY <1>1, <1>2, <1>9 DEF XDataWriteFails
<1>10. ASSUME XWrites(m)
       PROVE  cPsn' \in Nat
              /\ tempFile' \in [bytes : Nat, chunks : Seq(Chunk)]
              /\ tempFile'.chunks \in Seq(Chunk)
  <2>1. [of |-> m.of, psn |-> m.psn, len |-> m.len] \in Chunk
    BY <1>10, DatagramFields DEF XWrites, Chunk
  <2> QED
    BY <1>10, <2>1, DatagramFields DEF XWrites
<1>11. CASE XData(m)
  BY <1>1, <1>10, <1>11 DEF XData, XWrites
<1>12. CASE XLastData(m)
  <2>1. streamOpen' \in BOOLEAN
    BY <1>12, Zenon DEF XLastData
  <2> QED
    BY <1>1, <1>10, <1>12, <2>1 DEF XLastData, XWrites
<1>13. CASE XLastDataMismatch(m)
  <2>1. streamOpen' \in BOOLEAN
    BY <1>13, Zenon DEF XLastDataMismatch
  <2> QED
    BY <1>1, <1>2, <1>10, <1>13, <2>1 DEF XLastDataMismatch, XWrites
<1>14. CASE XFin(m)
  <2>1. isActive' \in BOOLEAN
    BY <1>14, Zenon DEF XFin, XEnds
  <2> QED
    BY <1>1, <1>14, <2>1 DEF XFin, XEnds
<1>15. CASE XCxl(m)
  <2>1. streamOpen' \in BOOLEAN
    BY <1>15, Zenon DEF XCxl
  <2>2. EmptyFile \in [bytes : Nat, chunks : Seq(Chunk)]
    BY DEF EmptyFile
  <2> QED
    BY <1>1, <1>2, <1>15, <2>1, <2>2 DEF XCxl
<1> QED
  BY <1>3, <1>4, <1>5, <1>6, <1>7, <1>8, <1>9, <1>11, <1>12, <1>13, <1>14,
     <1>15
  DEF XReceive, OnReceive

\* The other steps of X keep the types.
LEMMA TypeX ==
  ASSUME ClientTypeOK, XStep
  PROVE  ClientTypeOK'
<1> USE DEF ClientTypeOK
<1>1. CASE XTest /\ UNCHANGED <<cPc, cMsg>>
  BY <1>1 DEF XTest
<1>2. CASE XSendCxl /\ UNCHANGED <<cPc, cMsg>>
  BY <1>2 DEF XSendCxl
<1>3. CASE XSendCxlThrows /\ UNCHANGED <<cPc, cMsg>>
  <2>1. clientUp' \in BOOLEAN
    BY <1>3, Zenon DEF XSendCxlThrows
  <2> QED
    BY <1>3, <2>1 DEF XSendCxlThrows
<1>4. CASE OnFileReceived /\ UNCHANGED <<cPc, cMsg>>
  BY <1>4 DEF OnFileReceived
<1>5. CASE XTimesOut
  <2>1. isActive' \in BOOLEAN
    BY <1>5, Zenon
    DEF XTimesOut, XTimeout, XGivesUp, BeginCancel, ActiveAfterCancel
  <2> QED
    BY <1>5, <2>1 DEF XTimesOut, XTimeout, XGivesUp, BeginCancel
<1> QED
  BY <1>1, <1>2, <1>3, <1>4, <1>5 DEF XStep, XWorks, HandleIncomingMessages

\* C keeps the types.
LEMMA TypeC ==
  ASSUME ClientTypeOK, CStep
  PROVE  ClientTypeOK'
<1> USE DEF ClientTypeOK
<1>1. CASE Reset
  <2>1. streamOpen' \in BOOLEAN
    BY <1>1, Zenon DEF Reset, ResetFields
  <2> QED
    BY <1>1, <2>1, WireAssumption DEF Reset, ResetFields
<1>2. CASE Join
  BY <1>2 DEF Join
<1>3. CASE OnReceiveNtf
  BY <1>3 DEF OnReceiveNtf
<1>4. CASE OnReceiveWrongLength
  <2>1. isActive' \in BOOLEAN
    BY <1>4, Zenon DEF OnReceiveWrongLength
  <2> QED
    BY <1>4, <2>1 DEF OnReceiveWrongLength
<1>5. CASE OnReceiveDamaged
  BY <1>5 DEF OnReceiveDamaged
<1>6. CASE SendChk
  BY <1>6 DEF SendChk
<1> QED
  BY <1>1, <1>2, <1>3, <1>4, <1>5, <1>6 DEF CStep

\* Every step keeps the types.
LEMMA ClientTypeNext ==
  ASSUME ClientTypeOK, [ClientAct]_clientVars
  PROVE  ClientTypeOK'
<1>1. ASSUME NEW m \in ServerDatagram, Begin(m)
      PROVE  ClientTypeOK'
  <2>1. isActive' \in BOOLEAN
    BY <1>1, Zenon DEF Begin
  <2>2. m \in [xid : {"NTF"}, dst : {"main"}, version : Version,
              form : NtfForm]
    BY <1>1 DEF Begin, ServerDatagram
  <2> QED
    BY <1>1, <2>1, <2>2 DEF Begin, ClientTypeOK
<1>2. CASE StopClient
  BY <1>2 DEF StopClient, ClientTypeOK
<1>3. CASE AttachFileHandler \/ DetachFileHandler
  <2>1. handler' \in BOOLEAN
    BY <1>3, Zenon DEF AttachFileHandler, DetachFileHandler, SetHandler
  <2> QED
    BY <1>3, <2>1
    DEF AttachFileHandler, DetachFileHandler, SetHandler, ClientTypeOK
<1>4. CASE SocketThrows
  <2>1. clientUp' \in BOOLEAN
    BY <1>4, Zenon DEF SocketThrows
  <2> QED
    BY <1>4, <2>1 DEF SocketThrows, ClientTypeOK
<1>5. CASE UNCHANGED clientVars
  BY <1>5 DEF clientVars, clientLocal, ClientTypeOK
<1> QED
  BY <1>1, <1>2, <1>3, <1>4, <1>5, TypeX, TypeC, TypeXReceive
  DEF ClientAct, ClientNext, ClientCalls, ClientReceive

-----------------------------------------------------------------------------
(***************************************************************************)
(* The file being written.                                                 *)
(***************************************************************************)

\* A packet that passes the tests is the next one of the file.
LEMMA NextPacket ==
  ASSUME ClientTypeOK, StreamInv, NEW m \in ServerDatagram, XWrites(m)
  PROVE  /\ Len(tempFile.chunks) = cPsn
         /\ cPsn' = cPsn + 1
         /\ Len(tempFile'.chunks) = cPsn'
         /\ tempFile'.chunks # <<>>
         /\ \A i \in DOMAIN tempFile'.chunks : tempFile'.chunks[i].psn = i - 1
<1>1. m.psn = cPsn /\ m.psn \in Nat /\ streamOpen /\ DataFits(m)
  BY DatagramFields DEF XWrites, XAccepts, IsNext, Fits
<1>2. tempFile.chunks \in Seq(Chunk) /\ cPsn \in Nat
  BY DEF ClientTypeOK
<1>3. Len(tempFile.chunks) = cPsn
  BY <1>1, <1>2 DEF DataFits, StreamInv
<1> DEFINE chunk == [of |-> m.of, psn |-> m.psn, len |-> m.len]
<1>4. tempFile'.chunks = Append(tempFile.chunks, chunk) /\ cPsn' = cPsn + 1
  BY DEF XWrites
<1>5. chunk \in Chunk /\ chunk.psn = cPsn
  BY <1>1, DatagramFields DEF XWrites, XAccepts, Chunk
<1> HIDE DEF chunk
<1>6. /\ Len(tempFile'.chunks) = cPsn + 1
      /\ tempFile'.chunks # <<>>
      /\ \A i \in 1..cPsn : tempFile'.chunks[i] = tempFile.chunks[i]
      /\ tempFile'.chunks[cPsn + 1] = chunk
      /\ DOMAIN tempFile'.chunks = 1..(cPsn + 1)
      /\ DOMAIN tempFile.chunks = 1..cPsn
  BY <1>2, <1>3, <1>4, <1>5
<1>7. ASSUME NEW i \in DOMAIN tempFile'.chunks
      PROVE  tempFile'.chunks[i].psn = i - 1
  <2>1. CASE i = cPsn + 1
    BY <1>2, <1>5, <1>6, <2>1
  <2>2. CASE i # cPsn + 1
    <3>1. i \in 1..cPsn
      BY <1>2, <1>6, <2>2
    <3>2. tempFile.chunks[i].psn = i - 1
      BY <1>1, <1>6, <3>1 DEF StreamInv
    <3> QED
      BY <1>6, <3>1, <3>2
  <2> QED
    BY <2>1, <2>2
<1> QED
  BY <1>2, <1>3, <1>4, <1>6, <1>7

\* Every step keeps StreamInv.
LEMMA StreamNext ==
  ASSUME ClientTypeOK, StreamInv, [ClientAct]_clientVars
  PROVE  StreamInv'
<1>1. ASSUME UNCHANGED <<streamOpen, tempFile, cCrc, cPsn>>,
             cStatus' \notin {"RDY", "DATA"} \/ cStatus' = cStatus
      PROVE  StreamInv'
  BY <1>1 DEF StreamInv
<1>2. ASSUME ~streamOpen'
      PROVE  StreamInv'
  BY <1>2 DEF StreamInv
<1>3. ASSUME NEW m \in ServerDatagram, XReceive(m)
      PROVE  StreamInv'
  <2> USE DEF BeginCancel
  <2>1. CASE XDiscards(m) \/ XRejects(m) \/ XNtf(m) \/ XDataOutOfOrder(m)
             \/ XDataWriteFails(m) \/ XFin(m)
    BY <1>1, <2>1
    DEF XDiscards, XRejects, XNtf, XDataOutOfOrder, XDataWriteFails, XFin,
        XEnds
  <2>2. CASE XInfo(m)
    <3>1. m.crc \in FileId
      BY <2>2, DatagramFields DEF XInfo, XAccepts
    <3>2. DOMAIN EmptyFile.chunks = {} /\ EmptyFile.chunks = <<>>
      BY DEF EmptyFile
    <3> QED
      BY <2>2, <3>1, <3>2 DEF XInfo, XTakesInfo, AfterInfo, StreamInv
  <2>3. CASE XInfoOpenFails(m)
    <3>1. m.crc \in FileId
      BY <2>3, DatagramFields DEF XInfoOpenFails, XAccepts
    <3> QED
      BY <2>3, <3>1 DEF XInfoOpenFails, XTakesInfo, StreamInv
  <2>4. CASE XData(m)
    BY <2>4, NextPacket DEF XData, StreamInv, XWrites
  <2>5. CASE XLastData(m) \/ XLastDataMismatch(m) \/ XCxl(m)
    BY <1>2, <2>5 DEF XLastData, XLastDataMismatch, XCxl
  <2> QED
    BY <1>3, <2>1, <2>2, <2>3, <2>4, <2>5 DEF XReceive, OnReceive
<1>4. CASE Reset
  BY <1>2, <1>4 DEF Reset, ResetFields
<1>5. CASE CStep /\ ~Reset
  BY <1>1, <1>5
  DEF CStep, Join, OnReceiveNtf, OnReceiveWrongLength, OnReceiveDamaged,
      SendChk
<1>6. CASE XStep
  BY <1>1, <1>6
  DEF XStep, XWorks, XTimesOut, HandleIncomingMessages, XTest, XSendCxl,
      XSendCxlThrows, OnFileReceived, XTimeout, XGivesUp, BeginCancel
<1>7. CASE ClientCalls \/ SocketThrows \/ \E m \in ServerDatagram : Begin(m)
  BY <1>1, <1>7
  DEF ClientCalls, StopClient, AttachFileHandler, DetachFileHandler,
      SetHandler, SocketThrows, Begin
<1>8. CASE UNCHANGED clientVars
  BY <1>1, <1>8 DEF clientVars, clientLocal
<1> QED
  BY <1>3, <1>4, <1>5, <1>6, <1>7, <1>8
  DEF ClientAct, ClientNext, ClientReceive

-----------------------------------------------------------------------------
(***************************************************************************)
(* What is checked and handed on.                                          *)
(***************************************************************************)

\* The file DONE is sent for is whole, and is added to the checked ones.
LEMMA WholeFile ==
  ASSUME StreamInv, NEW m \in ServerDatagram, XLastData(m)
  PROVE  /\ cCrc \in FileId
         /\ tempFile'.chunks = Content(cCrc)
         /\ verified' = verified \cup {Content(cCrc)}
  BY DEF XLastData, XWrites, FileMatches, StreamInv

\* Every step keeps FileInv.
LEMMA FileNext ==
  ASSUME StreamInv, FileInv, [ClientAct]_clientVars
  PROVE  FileInv'
<1>1. ASSUME UNCHANGED <<verified, received>>,
             tempFile' = tempFile,
             cStatus' # "DONE" \/ cStatus' = cStatus,
             xPc' # "callback" \/ xPc' = xPc \/ cStatus = "DONE"
      PROVE  FileInv'
  BY <1>1 DEF FileInv
<1>2. ASSUME NEW m \in ServerDatagram, XReceive(m)
      PROVE  FileInv'
  <2> USE DEF BeginCancel, XReceives, XAccepts
  <2>1. CASE XDiscards(m) \/ XRejects(m) \/ XNtf(m) \/ XDataOutOfOrder(m)
             \/ XDataWriteFails(m) \/ XInfoOpenFails(m)
    BY <1>1, <2>1
    DEF XDiscards, XRejects, XNtf, XDataOutOfOrder, XDataWriteFails,
        XInfoOpenFails
  <2>2. CASE XInfo(m) \/ XData(m) \/ XLastDataMismatch(m) \/ XCxl(m)
    <3>1. UNCHANGED <<verified, received>>
      BY <2>2 DEF XInfo, XData, XLastDataMismatch, XCxl
    <3>2. cStatus' # "DONE" /\ xPc' # "callback"
      BY <2>2 DEF XInfo, AfterInfo, XData, XWrites, XLastDataMismatch, XCxl
    <3> QED
      BY <3>1, <3>2 DEF FileInv
  <2>3. CASE XLastData(m)
    <3>1. UNCHANGED received
      BY <2>3 DEF XLastData
    <3> QED
      BY <2>3, <3>1, WholeFile DEF FileInv
  <2>4. CASE XFin(m)
    <3>1. cStatus = "DONE"
      BY <2>4 DEF XFin, Fits
    <3> QED
      BY <1>1, <2>4, <3>1 DEF XFin, XEnds
  <2> QED
    BY <1>2, <2>1, <2>2, <2>3, <2>4 DEF XReceive, OnReceive
<1>3. CASE OnFileReceived /\ UNCHANGED <<cPc, cMsg>>
  <2>1. received' \subseteq
          received \cup {[version |-> cVersion, chunks |-> tempFile.chunks]}
    BY <1>3 DEF OnFileReceived
  <2>2. UNCHANGED <<verified, tempFile, cStatus>> /\ xPc' # "callback"
        /\ xPc = "callback"
    BY <1>3 DEF OnFileReceived
  <2>3. ASSUME NEW r \in received' PROVE r.chunks \in verified
    BY <2>1, <2>2, <2>3 DEF FileInv
  <2> QED
    BY <2>2, <2>3 DEF FileInv
<1>4. CASE CStep
  BY <1>1, <1>4
  DEF CStep, Reset, Join, OnReceiveNtf, OnReceiveWrongLength,
      OnReceiveDamaged, SendChk, ResetFields
<1>5. CASE XStep /\ ~OnFileReceived
  BY <1>1, <1>5
  DEF XStep, XWorks, XTimesOut, HandleIncomingMessages, XTest, XSendCxl,
      XSendCxlThrows, XTimeout, XGivesUp, BeginCancel
<1>6. CASE ClientCalls \/ SocketThrows \/ \E m \in ServerDatagram : Begin(m)
  BY <1>1, <1>6
  DEF ClientCalls, StopClient, AttachFileHandler, DetachFileHandler,
      SetHandler, SocketThrows, Begin
<1>7. CASE UNCHANGED clientVars
  BY <1>1, <1>7 DEF clientVars, clientLocal
<1> QED
  BY <1>2, <1>3, <1>4, <1>5, <1>6, <1>7
  DEF ClientAct, ClientNext, ClientReceive, XStep, XWorks, XTimesOut,
      HandleIncomingMessages

-----------------------------------------------------------------------------
(***************************************************************************)
(* The owner of is_active_.                                                *)
(***************************************************************************)

\* Every step keeps OwnerInv.
LEMMA OwnerNext ==
  ASSUME ClientTypeOK, OwnerInv, [ClientAct]_clientVars
  PROVE  OwnerInv'
<1> USE DEF OwnerInv, ActiveHasOwner
<1>1. ASSUME NEW m \in ServerDatagram, XReceive(m)
      PROVE  OwnerInv'
  <2>1. xPc = "recv" /\ xPc' \in {"recv", "cxl", "callback"}
        /\ UNCHANGED <<cPc, cMsg>>
    BY <1>1
    DEF XReceive, OnReceive, XDiscards, XRejects, XNtf, XInfo, XInfoOpenFails,
        XDataOutOfOrder, XDataWriteFails, XData, XLastData, XWrites,
        XLastDataMismatch, XFin, XEnds, XCxl, BeginCancel, XReceives, XAccepts
  <2> QED
    BY <2>1
<1>2. CASE XTest /\ UNCHANGED <<cPc, cMsg>>
  BY <1>2 DEF XTest
<1>3. CASE XSendCxl /\ UNCHANGED <<cPc, cMsg>>
  BY <1>3 DEF XSendCxl
<1>4. CASE XSendCxlThrows /\ UNCHANGED <<cPc, cMsg>>
  BY <1>4 DEF XSendCxlThrows
<1>5. CASE OnFileReceived /\ UNCHANGED <<cPc, cMsg>>
  BY <1>5 DEF OnFileReceived
<1>6. CASE XTimesOut
  BY <1>6 DEF XTimesOut, XTimeout, XGivesUp, BeginCancel, ActiveAfterCancel
<1>7. ASSUME NEW m \in ServerDatagram, Begin(m)
      PROVE  OwnerInv'
  BY <1>7 DEF Begin
<1>8. CASE Reset \/ Join
  BY <1>8 DEF Reset, Join
<1>9. CASE OnReceiveNtf \/ OnReceiveWrongLength \/ OnReceiveDamaged \/ SendChk
  BY <1>9 DEF OnReceiveNtf, OnReceiveWrongLength, OnReceiveDamaged, SendChk
<1>10. CASE ClientCalls \/ SocketThrows
  BY <1>10
  DEF ClientCalls, StopClient, AttachFileHandler, DetachFileHandler,
      SetHandler, SocketThrows
<1>11. CASE UNCHANGED clientVars
  BY <1>11 DEF clientVars, clientLocal
<1> QED
  BY <1>1, <1>2, <1>3, <1>4, <1>5, <1>6, <1>7, <1>8, <1>9, <1>10, <1>11
  DEF ClientAct, ClientNext, ClientReceive, CStep, XStep, XWorks,
      HandleIncomingMessages

-----------------------------------------------------------------------------
\* The inductive invariant holds initially.
LEMMA ClientInvInit == ClientInit => ClientInv
  BY ClientTypeInit
  DEF ClientInv, ClientInit, StreamInv, FileInv, OwnerInv, ActiveHasOwner

\* Every step keeps it.
LEMMA ClientInvNext ==
  ASSUME ClientInv, [ClientAct]_clientVars
  PROVE  ClientInv'
  BY ClientTypeNext, StreamNext, FileNext, OwnerNext DEF ClientInv

-----------------------------------------------------------------------------
(***************************************************************************)
(* The two on a network.                                                   *)
(***************************************************************************)

\* Everything on the network is something one end sends to the other.
NetTyped == net \subseteq ClientDatagram \cup ServerDatagram

\* A control message of the server is a server's datagram.
LEMMA ControlTyped ==
  ASSUME ServerTypeOK, NEW id \in {"NTF", "INFO", "FIN", "CXL"}
  PROVE  /\ Datagram(id) \in ServerDatagram
         /\ Datagram(id).xid = id
         /\ id = "INFO" => Datagram(id).crc = file.id
<1>1. /\ file.id \in FileId /\ file.version \in Version
      /\ clientAddr \in ClientSocket
  BY DEF ServerTypeOK, FileRecord
<1>2. NewFileSize(file) \in Nat
  BY <1>1, WireAssumption DEF NewFileSize
<1>3. CASE id = "NTF"
  BY <1>1, <1>3 DEF Datagram, Ntf, ServerDatagram, NtfForm
<1>4. CASE id = "INFO"
  BY <1>1, <1>2, <1>4 DEF Datagram, Info, ServerDatagram
<1>5. CASE id \in {"FIN", "CXL"}
  BY <1>1, <1>5 DEF Datagram, Simple, ServerDatagram
<1> QED
  BY <1>3, <1>4, <1>5

\* So is a packet.
LEMMA PacketTyped ==
  ASSUME ServerTypeOK
  PROVE  /\ Data(file, NextPsn, disk, clientAddr) \in ServerDatagram
         /\ Data(file, NextPsn, disk, clientAddr).xid = "DATA"
<1>1. /\ file.id \in FileId /\ disk \in FileId
      /\ clientAddr \in ClientSocket
  BY DEF ServerTypeOK, FileRecord
<1>2. NextPsn \in Nat
  BY DEF ServerTypeOK, NextPsn, NoPsn
<1>3. /\ PayloadSize \in Nat \ {0} /\ WordSize \in Nat \ {0}
      /\ Length[file.id] \in Nat
  BY <1>1, WireAssumption
<1>4. NewFileSize(file) \in Nat
  BY <1>3 DEF NewFileSize
<1>5. HeaderTpn(NewFileSize(file)) \in Nat
  BY <1>3, <1>4 DEF HeaderTpn
<1>6. HeaderPl(NewFileSize(file), NextPsn) \in Nat
  BY <1>3, <1>4 DEF HeaderPl
<1>7. ReadLength(NewFileSize(file), NextPsn) \in Nat
  <2>1. NextPsn * PayloadSize \in Nat
    BY <1>2, <1>3
  <2>2. FileOffset(NextPsn) \in Nat
    BY <1>3, <2>1 DEF FileOffset
  <2> QED
    BY <1>3, <1>4, <2>2 DEF ReadLength
<1> QED
  BY <1>1, <1>2, <1>5, <1>6, <1>7 DEF Data, ServerDatagram

\* What the server sends.  An INFO is of the current file, and FIN makes the
\* call one that has succeeded.
LEMMA ServerSends ==
  ASSUME ServerInv, ServerNext, NEW m \in net', m \notin net
  PROVE  /\ m \in ServerDatagram
         /\ m.xid \in {"NTF", "INFO", "DATA", "FIN", "CXL"}
         /\ m.xid = "INFO" => alive /\ m.crc = file.id
         /\ m.xid = "FIN" => result' = "FIN"
<1> USE DEF SendMessage, SendMessageThrows, SendMessageData, Send
<1>1. ServerTypeOK
  BY DEF ServerInv
<1>2. CASE SSend
  <2>1. m = Datagram(sPhase) /\ sPhase \in {"NTF", "INFO", "FIN"}
    BY <1>1, <1>2 DEF SSend, ServerTypeOK
  <2>2. sPhase = "FIN" => result' = "FIN"
    BY <1>2 DEF SSend
  <2>3. alive
    BY <1>2 DEF SSend, ServerInv, CallInv, Calling
  <2>4. /\ Datagram(sPhase) \in ServerDatagram
        /\ Datagram(sPhase).xid = sPhase
        /\ sPhase = "INFO" => Datagram(sPhase).crc = file.id
    BY <1>1, <2>1, ControlTyped
  <2> QED
    BY <2>1, <2>2, <2>3, <2>4
<1>3. CASE SCancel \/ AbortFileTransfer
           \/ ((TOpenFails \/ TReadFails) /\ UNCHANGED <<sVars, rVars>>)
  <2>1. m = Datagram("CXL")
    BY <1>3 DEF SCancel, AbortFileTransfer, AbortSends, TOpenFails,
       TReadFails, TCancel
  <2> QED
    BY <1>1, <2>1, ControlTyped
<1>4. CASE TSendData
  BY <1>1, <1>4, PacketTyped DEF TSendData
<1>5. CASE UNCHANGED net
  BY <1>5
<1> QED
  BY <1>2, <1>3, <1>4, <1>5
  DEF ServerNext, ServerCalls, SStep, SWorks, RStep, TStep, TWorks, TWakes,
      SendFileAsyncWorks, SendFileAsyncWakes, StartFileTransfer, SSendData,
      SLoad, SAnswered, SCancelled, SUnexpected, STimeout, SSendThrows,
      SErase, SDestroy, SJoinReceiver, SDestroyMembers, OnReceiveApply,
      OnReceiveDangling, RLeaves, TOpen, TSeesCancel, TSendThrows, TTail,
      TIncrement

\* Only StartFileTransfer changes the call and its file.
LEMMA SameCall ==
  ASSUME ServerNext \/ \E m \in ClientDatagram : ServerReceive(m),
         ~StartFileTransfer
  PROVE  UNCHANGED <<call, file>>
  BY DEF ServerNext, ServerCalls, SStep, SWorks, RStep, TStep, TWorks, TWakes,
      SendFileAsyncWorks, SendFileAsyncWakes, AbortFileTransfer, SSend,
      SSendData, SLoad, SAnswered, SCancelled, SUnexpected, STimeout, SCancel,
      SSendThrows, SErase, SDestroy, SJoinReceiver, SDestroyMembers,
      OnReceiveApply, OnReceiveDangling, RLeaves, ServerReceive, TOpen,
      TOpenFails, TSeesCancel, TSendData, TReadFails, TSendThrows, TTail,
      TIncrement, tranVars, sVars

\* StartFileTransfer decides to return FIN only where it sends it.
LEMMA ResultFin ==
  ASSUME ServerNext, result' = "FIN"
  PROVE  /\ UNCHANGED <<call, file>>
         /\ result = "FIN" \/ (SSend /\ sPhase = "FIN")
<1>1. ~StartFileTransfer
  BY DEF StartFileTransfer
<1>2. CASE SSend
  BY <1>1, <1>2, SameCall DEF SSend
<1>3. CASE ~SSend
  <2>1. result = "FIN"
    BY <1>1, <1>3
    DEF ServerNext, ServerCalls, SStep, SWorks, RStep, TStep, TWorks, TWakes,
        SSendData, SLoad, SAnswered, SCancelled, SUnexpected, STimeout,
        SCancel, SSendThrows, SErase, SDestroy, SJoinReceiver,
        SDestroyMembers, AbortFileTransfer, OnReceiveApply, OnReceiveDangling,
        RLeaves, sVars
  <2> QED
    BY <1>1, <2>1, SameCall
<1> QED
  BY <1>2, <1>3

\* What the client sends, and what it does to its history, when it receives d.
LEMMA ClientReceives ==
  ASSUME ClientInv, NEW d \in ServerDatagram, ClientReceive(d)
  PROVE  /\ \A m \in net' \ net :
              /\ m \in ClientDatagram
              /\ m.xid = "DONE" => Content(m.crc) \in verified'
         /\ verified' = verified
              \/ (cCrc \in FileId /\ verified' = verified \cup {Content(cCrc)})
         /\ cCrc' = cCrc \/ (d.xid = "INFO" /\ cCrc' = d.crc)
         /\ xPc' = "callback" => xPc = "callback" \/ d.xid = "FIN"
         /\ received' = received
<1> USE DEF BeginCancel, XReceives, XAccepts, Send, Simple, Rtx
<1>0. ClientTypeOK /\ StreamInv
  BY DEF ClientInv
<1>1. CASE Begin(d)
  BY <1>1 DEF Begin
<1>2. CASE XDiscards(d) \/ XRejects(d) \/ XNtf(d) \/ XDataWriteFails(d)
           \/ XInfoOpenFails(d) \/ XData(d) \/ XLastDataMismatch(d)
           \/ XCxl(d)
  <2>1. UNCHANGED net
    BY <1>2 DEF XDiscards, XRejects, XNtf, XDataWriteFails, XInfoOpenFails,
       XData, XLastDataMismatch, XCxl
  <2> QED
    BY <1>2, <2>1
    DEF XDiscards, XRejects, XNtf, XDataWriteFails, XInfoOpenFails, XTakesInfo,
        XData, XWrites, XLastDataMismatch, XCxl
<1>3. CASE XInfo(d)
  <2>1. \A m \in net' \ net : m \in ClientDatagram /\ m.xid # "DONE"
    BY <1>3 DEF XInfo, ClientDatagram
  <2> QED
    BY <1>3, <2>1 DEF XInfo, XTakesInfo
<1>4. CASE XDataOutOfOrder(d)
  <2>1. \A m \in net' \ net : m \in ClientDatagram /\ m.xid # "DONE"
    BY <1>0, <1>4 DEF XDataOutOfOrder, ClientDatagram, ClientTypeOK
  <2> QED
    BY <1>4, <2>1 DEF XDataOutOfOrder
<1>5. CASE XLastData(d)
  <2>1. cCrc \in FileId /\ verified' = verified \cup {Content(cCrc)}
    BY <1>0, <1>5, WholeFile
  <2>2. \A m \in net' \ net : m = Done(cVersion, cSize, cCrc)
    BY <1>5 DEF XLastData
  <2>3. Done(cVersion, cSize, cCrc) \in ClientDatagram
        /\ Done(cVersion, cSize, cCrc).crc = cCrc
    BY <1>0, <2>1 DEF Done, ClientDatagram, ClientTypeOK
  <2> QED
    BY <1>5, <2>1, <2>2, <2>3 DEF XLastData
<1>6. CASE XFin(d)
  BY <1>6 DEF XFin, XEnds
<1> QED
  BY <1>1, <1>2, <1>3, <1>4, <1>5, <1>6
  DEF ClientReceive, XReceive, OnReceive

\* The same of its other steps.
LEMMA ClientMovesOn ==
  ASSUME ClientNext
  PROVE  /\ \A m \in net' \ net : m \in ClientDatagram /\ m.xid # "DONE"
         /\ verified' = verified
         /\ cCrc' = cCrc \/ cCrc' = NoCrc
         /\ xPc' = "callback" => xPc = "callback"
         /\ received' = received
              \/ /\ OnFileReceived /\ xPc = "callback"
                 /\ received' = received \cup {[version |-> cVersion,
                                                chunks |-> tempFile.chunks]}
<1> USE DEF Send, Simple, ClientDatagram
<1>1. CASE XWorks /\ OnFileReceived
  BY <1>1 DEF OnFileReceived
<1>2. CASE XTest \/ XSendCxl \/ XSendCxlThrows \/ XTimesOut
  BY <1>2 DEF XTest, XSendCxl, XSendCxlThrows, XTimesOut, XTimeout, XGivesUp,
     BeginCancel
<1>3. CASE CStep
  BY <1>3 DEF CStep, Reset, ResetFields, Join, OnReceiveNtf,
     OnReceiveWrongLength, OnReceiveDamaged, SendChk
<1> QED
  BY <1>1, <1>2, <1>3 DEF ClientNext, XStep, XWorks, HandleIncomingMessages

\* What a server's step leaves alone at the client, and the reverse.
LEMMA ClientStands ==
  ASSUME ClientInv, UNCHANGED clientLocal
  PROVE  ClientInv'
  BY DEF clientLocal, ClientInv, ClientTypeOK, StreamInv, FileInv, OwnerInv,
     ActiveHasOwner

LEMMA ServerStands ==
  ASSUME ServerInv, UNCHANGED serverLocal
  PROVE  ServerInv'
<1> USE DEF serverLocal, tranVars, sVars, rVars
<1>1. ServerTypeOK'
  BY DEF ServerInv, ServerTypeOK
<1>2. CallInv'
  BY DEF ServerInv, CallInv, TRunning
<1>3. PacketInv'
  BY DEF ServerInv, PacketInv, SentBelow, Requestable, Applies, TPN
<1> QED
  BY <1>1, <1>2, <1>3 DEF ServerInv

\* Who a datagram under way comes from.
LEMMA FromWhom ==
  ASSUME NetTyped, NEW m \in net
  PROVE  /\ m.dst = "server" => m \in ClientDatagram
         /\ m.dst \in ClientSocket => m \in ServerDatagram
  BY DEF NetTyped, ClientDatagram, ServerDatagram, ClientSocket

=============================================================================
