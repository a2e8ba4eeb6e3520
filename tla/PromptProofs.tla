---------------------------- MODULE PromptProofs ----------------------------
(***************************************************************************)
(* What server and client promise on a prompt network, for every payload   *)
(* size and set of files, and in every scenario: the version of the        *)
(* notification reaches the handler, and an abort in time is heeded.       *)
(***************************************************************************)
EXTENDS TrftpPrompt, EndsSteps

-----------------------------------------------------------------------------
(***************************************************************************)
(* The datagrams on the wire and in the buffers of the sockets.            *)
(***************************************************************************)

AnyDatagram == ClientDatagram \cup ServerDatagram

\* Each socket holds datagrams that are addressed to it.
BufferTyped ==
  /\ buffer \in [Sockets -> Seq(AnyDatagram)]
  /\ \A s \in Sockets : \A i \in 1..Len(buffer[s]) : buffer[s][i].dst = s

Held(s) == {buffer[s][i] : i \in 1..Len(buffer[s])}

\* Every datagram somebody can still take.
UnderWay == net \cup UNION {Held(s) : s \in Sockets}

\* What is on its way has a socket to go to.
LEMMA Addressed ==
  ASSUME NetTyped, NEW m \in net
  PROVE  m \in AnyDatagram /\ m.dst \in Sockets
  BY DEF NetTyped, AnyDatagram, ClientDatagram, ServerDatagram, Sockets,
     ClientSocket

\* And what a socket holds is addressed to it.
LEMMA HeldIs ==
  ASSUME BufferTyped, NEW s \in Sockets, NEW m \in Held(s)
  PROVE  m \in AnyDatagram /\ m.dst = s
  BY DEF BufferTyped, Held

\* Delivery moves a datagram and takes none away.
LEMMA DeliverKeeps ==
  ASSUME NetTyped, BufferTyped, Deliver
  PROVE  /\ NetTyped' /\ BufferTyped' /\ UnderWay' = UnderWay
         /\ \E m \in net :
              /\ net' = net \ {m}
              /\ buffer' = [buffer EXCEPT ![m.dst] = Append(@, m)]
<1>1. PICK m \in net :
        /\ net' = net \ {m}
        /\ buffer' = [buffer EXCEPT ![m.dst] = Append(@, m)]
  BY DEF Deliver
<1>2. m \in AnyDatagram /\ m.dst \in Sockets
  BY Addressed
<1>3. NetTyped'
  BY <1>1 DEF NetTyped
<1>4. /\ buffer'[m.dst] = Append(buffer[m.dst], m)
      /\ \A s \in Sockets \ {m.dst} : buffer'[s] = buffer[s]
      /\ \A s \in Sockets : buffer[s] \in Seq(AnyDatagram)
      /\ buffer' \in [Sockets -> Seq(AnyDatagram)]
  <2>1. Append(buffer[m.dst], m) \in Seq(AnyDatagram)
    BY <1>2 DEF BufferTyped
  <2> QED
    BY <1>1, <1>2, <2>1 DEF BufferTyped
<1>5. /\ Len(buffer'[m.dst]) = Len(buffer[m.dst]) + 1
      /\ \A i \in 1..Len(buffer[m.dst]) : buffer'[m.dst][i] = buffer[m.dst][i]
      /\ buffer'[m.dst][Len(buffer[m.dst]) + 1] = m
      /\ Len(buffer[m.dst]) \in Nat
  BY <1>2, <1>4
<1>6. BufferTyped'
  <2>1. ASSUME NEW s \in Sockets, NEW i \in 1..Len(buffer'[s])
        PROVE  buffer'[s][i].dst = s
    <3>1. CASE s # m.dst
      BY <1>4, <2>1, <3>1 DEF BufferTyped
    <3>2. CASE s = m.dst /\ i = Len(buffer[s]) + 1
      BY <1>5, <3>2
    <3>3. CASE s = m.dst /\ i # Len(buffer[s]) + 1
      <4>1. i \in 1..Len(buffer[s])
        BY <1>5, <3>3
      <4> QED
        BY <1>5, <3>3, <4>1 DEF BufferTyped
    <3> QED
      BY <3>1, <3>2, <3>3
  <2> QED
    BY <1>4, <2>1 DEF BufferTyped
<1>7. /\ Held(m.dst)' = Held(m.dst) \cup {m}
      /\ \A s \in Sockets \ {m.dst} : Held(s)' = Held(s)
  <2>1. \A s \in Sockets \ {m.dst} : Held(s)' = Held(s)
    BY <1>4 DEF Held
  <2>2. Held(m.dst)' = {buffer'[m.dst][i] : i \in 1..Len(buffer'[m.dst])}
    BY DEF Held
  <2>3. Held(m.dst)' = Held(m.dst) \cup {m}
    BY <1>5, <2>2 DEF Held
  <2> QED
    BY <2>1, <2>3
<1>8. UnderWay' = UnderWay
  BY <1>1, <1>2, <1>7 DEF UnderWay
<1> QED
  BY <1>1, <1>3, <1>6, <1>8

\* Nor does a loss, but for a packet.
LEMMA LoseKeeps ==
  ASSUME NetTyped, BufferTyped, Lose
  PROVE  /\ NetTyped' /\ BufferTyped' /\ UnderWay' \subseteq UnderWay
         /\ \A m \in UnderWay : m.xid # "DATA" => m \in UnderWay'
         /\ net' \subseteq net /\ buffer' = buffer
<1>1. PICK m \in net : m.xid = "DATA" /\ net' = net \ {m} /\ buffer' = buffer
  BY DEF Lose, Losable
<1>2. \A s \in Sockets : Held(s)' = Held(s)
  BY <1>1 DEF Held
<1> QED
  BY <1>1, <1>2 DEF NetTyped, BufferTyped, UnderWay

\* Who takes a datagram from a socket leaves the others.
LEMMA TakeKeeps ==
  ASSUME BufferTyped, NEW s \in Sockets, buffer[s] # <<>>,
         buffer' = [buffer EXCEPT ![s] = Tail(@)], net \subseteq net'
  PROVE  /\ BufferTyped'
         /\ Head(buffer[s]) \in Held(s) /\ Head(buffer[s]) = buffer[s][1]
         /\ Head(buffer[s]) \in UnderWay
         /\ Head(buffer[s]) \in AnyDatagram /\ Head(buffer[s]).dst = s
         /\ UnderWay' \subseteq UnderWay \cup net'
         /\ \A m \in UnderWay : m # Head(buffer[s]) => m \in UnderWay'
         /\ Len(buffer'[s]) = Len(buffer[s]) - 1
         /\ \A i \in 1..Len(buffer'[s]) : buffer'[s][i] = buffer[s][i + 1]
         /\ \A r \in Sockets \ {s} : buffer'[r] = buffer[r]
<1> DEFINE q == buffer[s]
           t == Tail(q)
<1>1. /\ q \in Seq(AnyDatagram) /\ q # <<>>
      /\ buffer'[s] = t
      /\ \A r \in Sockets \ {s} : buffer'[r] = buffer[r]
      /\ buffer' \in [Sockets -> Seq(AnyDatagram)]
  <2>1. Tail(q) \in Seq(AnyDatagram)
    BY DEF BufferTyped
  <2> QED
    BY <2>1 DEF BufferTyped
<1>2. /\ Len(q) \in Nat /\ Len(q) > 0
      /\ Len(t) = Len(q) - 1
      /\ \A i \in 1..(Len(q) - 1) : t[i] = q[i + 1]
      /\ Head(q) = q[1]
  BY <1>1
<1>3. \A i \in 1..Len(q) : q[i].dst = s /\ q[i] \in AnyDatagram
  BY <1>1 DEF BufferTyped
<1> HIDE DEF q, t
<1>4. BufferTyped'
  <2>1. ASSUME NEW r \in Sockets, NEW i \in 1..Len(buffer'[r])
        PROVE  buffer'[r][i].dst = r
    <3>1. CASE r # s
      BY <1>1, <2>1, <3>1 DEF BufferTyped
    <3>2. CASE r = s
      <4>0. buffer'[r] = t /\ i \in 1..Len(t)
        BY <1>1, <3>2
      <4>1. i \in 1..(Len(q) - 1) /\ i + 1 \in 1..Len(q)
        BY <1>2, <4>0
      <4>2. t[i] = q[i + 1]
        BY <1>2, <4>1
      <4> QED
        BY <1>3, <3>2, <4>0, <4>1, <4>2
    <3> QED
      BY <3>1, <3>2
  <2> QED
    BY <1>1, <2>1 DEF BufferTyped
<1>5. Head(q) \in Held(s)
  BY <1>2 DEF Held, q
<1>6. Held(s)' \subseteq Held(s)
  <2>1. Held(s)' = {t[i] : i \in 1..Len(t)}
    BY <1>1 DEF Held
  <2>2. \A i \in 1..Len(t) : t[i] = q[i + 1] /\ i + 1 \in 1..Len(q)
    BY <1>2
  <2>3. Held(s) = {q[i] : i \in 1..Len(q)}
    BY DEF Held, q
  <2> QED
    BY <2>1, <2>2, <2>3
<1>7. ASSUME NEW m \in Held(s), m # Head(q) PROVE m \in Held(s)'
  <2>1. PICK i \in 1..Len(q) : m = q[i]
    BY DEF Held, q
  <2>2. i # 1
    BY <1>2, <1>7, <2>1
  <2>3. i - 1 \in 1..Len(t) /\ t[i - 1] = q[i]
    BY <1>2, <2>2
  <2>4. Held(s)' = {t[j] : j \in 1..Len(t)}
    BY <1>1 DEF Held
  <2> QED
    BY <2>1, <2>3, <2>4
<1>8. \A r \in Sockets \ {s} : Held(r)' = Held(r)
  BY <1>1 DEF Held
<1>9. UnderWay' \subseteq UnderWay \cup net'
  BY <1>6, <1>8 DEF UnderWay
<1>10. \A m \in UnderWay : m # Head(q) => m \in UnderWay'
  BY <1>7, <1>8 DEF UnderWay
<1>11. Head(q) \in UnderWay
  BY <1>5 DEF UnderWay
<1>12. Head(q) \in AnyDatagram /\ Head(q).dst = s
  BY <1>2, <1>3
<1>13. /\ Len(buffer'[s]) = Len(q) - 1
       /\ \A i \in 1..Len(buffer'[s]) : buffer'[s][i] = q[i + 1]
       /\ Head(q) = q[1]
  BY <1>1, <1>2
<1> QED
  BY <1>1, <1>4, <1>5, <1>9, <1>10, <1>11, <1>12, <1>13 DEF q

\* What is sent comes on top of what is under way.
LEMMA SendKeeps ==
  ASSUME BufferTyped, buffer' = buffer, net \subseteq net'
  PROVE  /\ BufferTyped'
         /\ UnderWay \subseteq UnderWay'
         /\ UnderWay' \subseteq UnderWay \cup net'
<1>1. \A s \in Sockets : Held(s)' = Held(s)
  BY DEF Held
<1> QED
  BY <1>1 DEF BufferTyped, UnderWay

-----------------------------------------------------------------------------
(***************************************************************************)
(* The steps, and what they keep whatever the scenario.                    *)
(***************************************************************************)

\* The groups of variables, and the guards that name a place in a thread.
USE DEF fixedVars, packetVars, objVars, fileVars, histVars, envVars, xVars,
        SAt, TAt, SSees

TypedInv == ServerInv /\ ClientInv /\ NetTyped /\ BufferTyped

\* A step of the server that neither starts a call nor takes a datagram.
ServerAlone ==
  SStep \/ RStep \/ TStep \/ (sPc \in Calling /\ AbortFileTransfer)

\* Nothing is ever taken from the wire by who sends.
LEMMA NetGrows ==
  /\ ServerNext => net \subseteq net'
  /\ ClientNext => net \subseteq net'
  /\ \A d \in AnyDatagram :
       /\ ServerReceive(d) => net' = net
       /\ ClientReceive(d) => net \subseteq net'
<1> USE DEF Send, SendMessage, SendMessageThrows, SendMessageData
<1>1. ServerNext => net \subseteq net'
  BY DEF ServerNext, ServerCalls, SStep, SWorks, RStep, TStep, TWorks, TWakes,
      SendFileAsyncWorks, SendFileAsyncWakes, AbortFileTransfer, AbortSends,
      StartFileTransfer, SSend,
      SSendData, SLoad, SAnswered, SCancelled, SUnexpected, STimeout, SCancel,
      SSendThrows, SErase, SDestroy, SJoinReceiver, SDestroyMembers,
      OnReceiveApply, OnReceiveDangling, RLeaves, TOpen, TOpenFails,
      TSeesCancel, TSendData, TReadFails, TSendThrows, TTail, TIncrement,
      TCancel
<1>2. ClientNext => net \subseteq net'
  BY DEF ClientNext, CStep, Reset, Join, OnReceiveNtf, OnReceiveWrongLength,
     OnReceiveDamaged, SendChk, XStep, XWorks, XTimesOut, XTimeout,
     HandleIncomingMessages, XTest, XSendCxl, XSendCxlThrows, OnFileReceived
<1>3. ASSUME NEW d, ClientReceive(d) PROVE net \subseteq net'
  BY <1>3 DEF ClientReceive, Begin, XReceive, OnReceive, XDiscards, XRejects,
     XNtf, XInfo, XInfoOpenFails, XDataOutOfOrder, XDataWriteFails, XData,
     XLastData, XLastDataMismatch, XFin, XCxl
<1> QED
  BY <1>1, <1>2, <1>3 DEF ServerReceive

\* Every step is one of these.
LEMMA StepIs ==
  ASSUME [Next]_promptVars
  PROVE  /\ sc' = sc
         /\ \/ UNCHANGED promptVars
            \/ /\ Deliver \/ Lose
               /\ UNCHANGED <<serverLocal, clientLocal, finished, aborted>>
            \/ ServerTakes /\ UNCHANGED aborted
            \/ ClientTakes /\ UNCHANGED aborted
            \/ TransactionTakes /\ UNCHANGED aborted
            \/ /\ ServerMoves(SWorks \/ RStep \/ TWorks)
               /\ UNCHANGED <<buffer, aborted>>
            \/ /\ ClientMoves(CStep \/ XWorks)
               /\ UNCHANGED <<buffer, aborted>>
            \/ /\ Quiet
               /\ ServerMoves(TWakes \/ STimeout)
               /\ UNCHANGED <<buffer, aborted>>
            \/ /\ Quiet
               /\ ClientMoves(XTimesOut)
               /\ UNCHANGED <<buffer, aborted>>
            \/ /\ sc.paced => Quiet
               /\ ServerMoves(StartFileTransfer)
               /\ UNCHANGED <<buffer, aborted>>
            \/ Abort
<1> HIDE DEF fixedVars, packetVars, objVars, fileVars, histVars, envVars, xVars,
             SAt, TAt, SSees
<1>1. CASE UNCHANGED promptVars
  BY <1>1 DEF promptVars
<1>2. CASE Works
  BY <1>2 DEF Works, Deliver, Lose, EndsWork
<1>3. CASE Timers
  BY <1>3 DEF Timers, Waits, TTimer, STimer, XTimer, ServerMoves
<1>4. CASE Waits(NextCall)
  BY <1>4 DEF Waits, NextCall
<1>5. CASE Abort
  BY <1>5 DEF Abort
<1> QED
  BY <1>1, <1>2, <1>3, <1>4, <1>5 DEF Next

\* Both ends keep their invariants, and what is under way stays well formed.
LEMMA TypedInit == Init => TypedInv
<1> SUFFICES ASSUME Init PROVE TypedInv
  OBVIOUS
<1>1. ServerInv /\ ClientInv
  BY ServerInvInit, ClientInvInit DEF Init, EndsInit
<1>2. NetTyped /\ BufferTyped
  BY DEF Init, NetTyped, BufferTyped
<1> QED
  BY <1>1, <1>2 DEF TypedInv

\* A step of the server: what it may be, and what it sends.
LEMMA ServerSteps ==
  ASSUME TypedInv, ServerNext \/ \E m \in ClientDatagram : ServerReceive(m)
  PROVE  /\ ServerInv' /\ NetTyped' /\ net \subseteq net'
         /\ \A m \in net' \ net : m \in ServerDatagram
<1>1. ServerInv'
  BY ServerInvNext DEF ServerAct, TypedInv
<1>2. net \subseteq net'
  BY NetGrows DEF AnyDatagram
<1>3. \A m \in net' \ net : m \in ServerDatagram
  BY ServerSends DEF TypedInv, ServerReceive
<1> QED
  BY <1>1, <1>2, <1>3 DEF NetTyped, TypedInv

\* And of the client.
LEMMA ClientSteps ==
  ASSUME TypedInv, ClientNext \/ \E d \in ServerDatagram : ClientReceive(d)
  PROVE  /\ ClientInv' /\ NetTyped' /\ net \subseteq net'
         /\ \A m \in net' \ net : m \in ClientDatagram
<1>1. ClientInv'
  BY ClientInvNext DEF ClientAct, TypedInv
<1>2. net \subseteq net'
  BY NetGrows DEF AnyDatagram
<1>3. \A m \in net' \ net : m \in ClientDatagram
  BY ClientReceives, ClientMovesOn DEF TypedInv
<1> QED
  BY <1>1, <1>2, <1>3 DEF NetTyped, TypedInv

\* R takes a datagram from the server's socket, ...
LEMMA ServerTakesIs ==
  ASSUME TypedInv, ServerTakes
  PROVE  /\ buffer["server"] # <<>>
         /\ buffer' = [buffer EXCEPT !["server"] = Tail(@)]
         /\ Head(buffer["server"]) \in ClientDatagram
         /\ UNCHANGED <<net, clientLocal>>
         /\ UNCHANGED serverLocal \/ ServerReceive(Head(buffer["server"]))
         /\ BufferTyped'
         /\ UnderWay' \subseteq UnderWay
         /\ Head(buffer["server"]) \in UnderWay
         /\ \A m \in UnderWay : m.dst # "server" => m \in UnderWay'
<1> DEFINE h == Head(buffer["server"])
<1>1. /\ buffer["server"] # <<>>
      /\ buffer' = [buffer EXCEPT !["server"] = Tail(@)]
      /\ UNCHANGED clientLocal
      /\ UNCHANGED serverVars \/ ServerReceive(h)
  BY DEF ServerTakes, Takes, ServerMoves
<1>2. UNCHANGED net
  BY <1>1 DEF serverVars, ServerReceive
<1>3. "server" \in Sockets /\ BufferTyped
  BY DEF Sockets, TypedInv
<1>4. /\ BufferTyped' /\ h \in UnderWay /\ h \in AnyDatagram
      /\ h.dst = "server"
      /\ UnderWay' \subseteq UnderWay \cup net'
      /\ \A m \in UnderWay : m # h => m \in UnderWay'
  BY <1>1, <1>2, <1>3, TakeKeeps
<1>5. h \in ClientDatagram
  BY <1>4 DEF AnyDatagram, ServerDatagram, ClientSocket
<1>6. UnderWay' \subseteq UnderWay
  BY <1>2, <1>4 DEF UnderWay
<1> QED
  BY <1>1, <1>2, <1>4, <1>5, <1>6 DEF serverVars

\* ... C one from the well-known socket, ...
LEMMA ClientTakesIs ==
  ASSUME TypedInv, ClientTakes
  PROVE  /\ buffer["main"] # <<>>
         /\ buffer' = [buffer EXCEPT !["main"] = Tail(@)]
         /\ Head(buffer["main"]) \in ServerDatagram
         /\ UNCHANGED <<net, serverLocal, finished>>
         /\ \/ /\ UNCHANGED clientLocal
               /\ isActive \/ Head(buffer["main"]).xid # "NTF"
            \/ Begin(Head(buffer["main"]))
         /\ BufferTyped'
         /\ UnderWay' \subseteq UnderWay
         /\ Head(buffer["main"]) \in UnderWay
         /\ \A m \in UnderWay : m.dst # "main" => m \in UnderWay'
<1> DEFINE h == Head(buffer["main"])
<1>1. /\ buffer["main"] # <<>>
      /\ buffer' = [buffer EXCEPT !["main"] = Tail(@)]
      /\ UNCHANGED <<serverLocal, finished>>
      /\ \/ UNCHANGED clientVars /\ (isActive \/ h.xid # "NTF")
         \/ Begin(h)
  BY DEF ClientTakes, Takes, ClientMoves
<1>2. UNCHANGED net
  BY <1>1 DEF clientVars, Begin
<1>3. "main" \in Sockets /\ BufferTyped
  BY DEF Sockets, ClientSocket, TypedInv
<1>4. /\ BufferTyped' /\ h \in UnderWay /\ h \in AnyDatagram
      /\ h.dst = "main"
      /\ UnderWay' \subseteq UnderWay \cup net'
      /\ \A m \in UnderWay : m # h => m \in UnderWay'
  BY <1>1, <1>2, <1>3, TakeKeeps
<1>5. h \in ServerDatagram
  BY <1>4 DEF AnyDatagram, ClientDatagram
<1>6. UnderWay' \subseteq UnderWay
  BY <1>2, <1>4 DEF UnderWay
<1> QED
  BY <1>1, <1>2, <1>4, <1>5, <1>6 DEF clientVars

\* ... and X one from the transaction's.
LEMMA TransactionTakesIs ==
  ASSUME TypedInv, TransactionTakes
  PROVE  /\ buffer["tran"] # <<>>
         /\ buffer' = [buffer EXCEPT !["tran"] = Tail(@)]
         /\ Head(buffer["tran"]) \in ServerDatagram
         /\ UNCHANGED <<serverLocal, finished>>
         /\ XReceive(Head(buffer["tran"]))
         /\ BufferTyped'
         /\ UnderWay' \subseteq UnderWay \cup net'
         /\ Head(buffer["tran"]) \in UnderWay
         /\ Head(buffer["tran"]).dst = "tran"
         /\ \A m \in UnderWay : m # Head(buffer["tran"]) => m \in UnderWay'
<1> DEFINE h == Head(buffer["tran"])
<1>1. /\ buffer["tran"] # <<>>
      /\ buffer' = [buffer EXCEPT !["tran"] = Tail(@)]
      /\ UNCHANGED <<serverLocal, finished>>
      /\ XReceive(h)
  BY DEF TransactionTakes, Takes, ClientMoves
<1>3. "tran" \in Sockets /\ BufferTyped /\ buffer["tran"] \in Seq(AnyDatagram)
  BY DEF Sockets, ClientSocket, TypedInv, BufferTyped
<1>4. h \in AnyDatagram
  BY <1>1, <1>3
<1>5. net \subseteq net'
  BY <1>1, <1>4, NetGrows DEF ClientReceive
<1>6. /\ BufferTyped' /\ h \in UnderWay
      /\ h.dst = "tran"
      /\ UnderWay' \subseteq UnderWay \cup net'
      /\ \A m \in UnderWay : m # h => m \in UnderWay'
  BY <1>1, <1>3, <1>5, TakeKeeps
<1>7. h \in ServerDatagram
  BY <1>4, <1>6 DEF AnyDatagram, ClientDatagram
<1> QED
  BY <1>1, <1>6, <1>7

\* Every step keeps TypedInv.
LEMMA TypedNext ==
  ASSUME TypedInv, [Next]_promptVars
  PROVE  TypedInv'
<1>1. CASE UNCHANGED promptVars
  BY <1>1, ServerStands, ClientStands
  DEF promptVars, endsVars, TypedInv, NetTyped, BufferTyped
<1>2. CASE /\ Deliver \/ Lose
           /\ UNCHANGED <<serverLocal, clientLocal, finished, aborted>>
  <2>1. ServerInv' /\ ClientInv'
    BY <1>2, ServerStands, ClientStands DEF TypedInv
  <2>2. NetTyped' /\ BufferTyped'
    BY <1>2, DeliverKeeps, LoseKeeps DEF TypedInv
  <2> QED
    BY <2>1, <2>2 DEF TypedInv
<1>3. CASE ServerTakes
  <2> DEFINE h == Head(buffer["server"])
  <2>1. /\ h \in ClientDatagram /\ UNCHANGED <<net, clientLocal>> /\ BufferTyped'
        /\ UNCHANGED serverLocal \/ ServerReceive(h)
    BY <1>3, ServerTakesIs
  <2>2. ServerInv'
    BY <2>1, ServerStands, ServerSteps DEF TypedInv
  <2> QED
    BY <2>1, <2>2, ClientStands DEF TypedInv, NetTyped
<1>4. CASE ClientTakes
  <2> DEFINE h == Head(buffer["main"])
  <2>1. /\ h \in ServerDatagram /\ UNCHANGED <<net, serverLocal>> /\ BufferTyped'
        /\ UNCHANGED clientLocal \/ Begin(h)
    BY <1>4, ClientTakesIs
  <2>2. ClientInv'
    BY <2>1, ClientStands, ClientSteps DEF TypedInv, ClientReceive
  <2> QED
    BY <2>1, <2>2, ServerStands DEF TypedInv, NetTyped
<1>5. CASE TransactionTakes
  <2> DEFINE h == Head(buffer["tran"])
  <2>1. /\ h \in ServerDatagram /\ UNCHANGED serverLocal /\ BufferTyped'
        /\ XReceive(h)
    BY <1>5, TransactionTakesIs
  <2>2. ClientInv' /\ NetTyped'
    BY <2>1, ClientSteps DEF TypedInv, ClientReceive
  <2> QED
    BY <2>1, <2>2, ServerStands DEF TypedInv
<1>6. CASE /\ ServerAlone \/ StartFileTransfer
           /\ UNCHANGED <<clientLocal, buffer>>
  <2>1. ServerNext
    BY <1>6 DEF ServerNext, ServerCalls, ServerAlone
  <2>2. ServerInv' /\ NetTyped' /\ net \subseteq net'
    BY <2>1, ServerSteps
  <2> QED
    BY <1>6, <2>2, ClientStands, SendKeeps DEF TypedInv
<1>7. CASE /\ CStep \/ XStep
           /\ UNCHANGED <<serverLocal, buffer>>
  <2>1. ClientInv' /\ NetTyped' /\ net \subseteq net'
    BY <1>7, ClientSteps DEF ClientNext
  <2> QED
    BY <1>7, <2>1, ServerStands, SendKeeps DEF TypedInv
<1> QED
  BY <1>1, <1>2, <1>3, <1>4, <1>5, <1>6, <1>7, StepIs
  DEF ServerMoves, ClientMoves, Abort, ServerAlone, SStep, TStep, XStep

-----------------------------------------------------------------------------
(***************************************************************************)
(* System calls succeed, and nobody stops the server or the client.        *)
(***************************************************************************)

NothingFails ==
  /\ sPc \in Calling \cup {"idle"}
  /\ alive => sPc \in Calling
  /\ cPc \in {"recv", "reset", "join", "ntf", "chk"}

\* It holds before the first call, ...
LEMMA NothingFailsInit == Init => NothingFails
  BY DEF Init, EndsInit, ServerInit, ClientInit, NothingFails

\* ... a step of the server keeps its part, ...
LEMMA ServerNeverFails ==
  ASSUME NothingFails, TypedInv,
         ServerNext \/ \E m \in ClientDatagram : ServerReceive(m)
  PROVE  /\ sPc' \in Calling \cup {"idle"}
         /\ alive' => sPc' \in Calling
<1> USE PromptAssumption DEF NothingFails, Calling
<1>1. CASE StartFileTransfer
  BY <1>1 DEF StartFileTransfer
<1>2. CASE AbortFileTransfer \/ RStep \/ TStep
           \/ \E m \in ClientDatagram : ServerReceive(m)
  BY <1>2 DEF AbortFileTransfer, RStep, OnReceiveApply, OnReceiveDangling,
     RLeaves, TStep, TWorks, TWakes, ServerReceive, sVars
<1>3. CASE SStep
  BY <1>3 DEF SStep, SWorks, SSend, SSendData, SLoad, SAnswered, SCancelled,
     AfterCancel, SUnexpected, STimeout, SCancel, SSendThrows, SErase,
     SDestroy, SJoinReceiver, SDestroyMembers
<1> QED
  BY <1>1, <1>2, <1>3 DEF ServerNext, ServerCalls

\* ... and so does one of the client.
LEMMA ClientNeverFails ==
  ASSUME NothingFails, ClientNext \/ \E d \in ServerDatagram : ClientReceive(d)
  PROVE  cPc' \in {"recv", "reset", "join", "ntf", "chk"}
  BY DEF NothingFails, ClientNext, ClientReceive, Begin, XReceive, CStep, Reset,
     Join, OnReceiveNtf, OnReceiveWrongLength, OnReceiveDamaged, SendChk,
     XStep, XWorks, XTimesOut

\* So every step does.
LEMMA NothingFailsNext ==
  ASSUME NothingFails, TypedInv, [Next]_promptVars
  PROVE  NothingFails'
<1> USE DEF serverLocal, clientLocal, sVars, NothingFails
<1>1. CASE UNCHANGED promptVars
  BY <1>1 DEF promptVars, endsVars
<1>2. CASE UNCHANGED <<serverLocal, clientLocal>>
  BY <1>2
<1>3. CASE ServerTakes
  BY <1>3, ServerTakesIs, ServerNeverFails
<1>4. CASE ClientTakes
  BY <1>4, ClientTakesIs, ClientNeverFails DEF ClientReceive
<1>5. CASE TransactionTakes
  BY <1>5, TransactionTakesIs, ClientNeverFails DEF ClientReceive
<1>6. CASE ServerNext /\ UNCHANGED clientLocal
  BY <1>6, ServerNeverFails
<1>7. CASE ClientNext /\ UNCHANGED serverLocal
  BY <1>7, ClientNeverFails
<1> QED
  BY <1>1, <1>2, <1>3, <1>4, <1>5, <1>6, <1>7, StepIs
  DEF ServerMoves, ClientMoves, Abort, ServerNext, ServerCalls, ClientNext,
      SStep, TStep, XStep

-----------------------------------------------------------------------------
(***************************************************************************)
(* The notification of a call, from StartFileTransfer to the moment the    *)
(* client takes it.                                                        *)
(***************************************************************************)

NtfToSend == sPc = "send" /\ sPhase = "NTF"

Pending == NtfToSend \/ \E m \in UnderWay : m.xid = "NTF"

\* No answer to it has come yet.
Unanswered ==
  /\ sPhase = "NTF" /\ status \in {"NTF", "CXL"}
  /\ rPc = "recv" /\ clientAddr = "main"

\* A step of the server that takes no datagram sends a notification only
\* where the call begins, ...
LEMMA NtfSentOnce ==
  ASSUME ServerInv, ServerAlone
  PROVE  /\ NtfToSend' => NtfToSend
         /\ \A m \in net' \ net : m.xid = "NTF" =>
              /\ NtfToSend /\ ~NtfToSend'
              /\ net' = net \cup {m}
              /\ m = Ntf(file, clientAddr)
<1> USE DEF NtfToSend, Send, SendMessage, SendMessageThrows, SendMessageData,
            Datagram, Ntf, Info, Simple, Data
<1>1. /\ sPhase \in {"NTF", "INFO", "DATA", "FIN"}
      /\ sPc = "wait" => sPhase # "FIN"
  BY DEF ServerInv, ServerTypeOK, CallInv
<1>2. CASE SSend
  BY <1>1, <1>2 DEF SSend
<1>3. CASE SAnswered
  <2>1. sPhase' = Following[sPhase] /\ sPhase \in {"NTF", "INFO", "DATA"}
        /\ UNCHANGED net
    BY <1>1, <1>3 DEF SAnswered
  <2>2. sPhase' # "NTF"
    BY <2>1 DEF Following
  <2> QED
    BY <2>1, <2>2
<1>6. CASE SCancel
  BY <1>6 DEF SCancel
<1>7. CASE SStep /\ ~SSend /\ ~SAnswered /\ ~SCancel
  <2>1. UNCHANGED net
    BY <1>7 DEF SStep, SWorks, SSendData, SLoad, SCancelled, SUnexpected,
       STimeout, SSendThrows, SErase, SDestroy, SJoinReceiver, SDestroyMembers
  <2>2. sPc' # "send" \/ (sPc' = sPc /\ sPhase' = sPhase)
    BY <1>7
    DEF SStep, SWorks, SSendData, SLoad, SCancelled, AfterCancel, SUnexpected,
        STimeout, SSendThrows, SErase, SDestroy, SJoinReceiver,
        SDestroyMembers
  <2> QED
    BY <2>1, <2>2
<1>4. CASE RStep \/ AbortFileTransfer
  BY <1>4 DEF RStep, OnReceiveApply, OnReceiveDangling, RLeaves,
     AbortFileTransfer, AbortSends, sVars
<1>5. CASE TStep
  BY <1>5 DEF TStep, TWorks, TWakes, SendFileAsyncWorks, SendFileAsyncWakes,
     TOpen, TOpenFails, TSeesCancel, TSendData, TReadFails, TSendThrows,
     TTail, TIncrement, TCancel, sVars
<1> QED
  BY <1>2, <1>3, <1>4, <1>5, <1>6, <1>7 DEF ServerAlone

\* ... and before the first answer everything goes to the well-known socket.
LEMMA UnansweredKept ==
  ASSUME ServerInv, NothingFails, Unanswered, ServerAlone
  PROVE  Unanswered' /\ \A m \in net' \ net : m.dst = "main"
<1> USE PromptAssumption
    DEF Unanswered, Send, SendMessage, SendMessageThrows, SendMessageData,
        Datagram, Ntf, Info, Simple
<1>1. tPc = "none" /\ sPc \notin {"stopping", "clearing"}
  BY DEF ServerInv, CallInv, NothingFails, Calling
<1>2. CASE SSend \/ SCancel
  BY <1>2 DEF SSend, SCancel, rVars
<1>3. CASE SStep /\ ~SSend /\ ~SCancel
  BY <1>1, <1>3
  DEF SStep, SWorks, SSendData, SLoad, SAnswered, SCancelled, Answer,
      AfterCancel, SUnexpected, STimeout, SSendThrows, SErase,
      SDestroy, SJoinReceiver, SDestroyMembers, tranVars, rVars
<1>4. CASE RStep
  BY <1>1, <1>4 DEF RStep, OnReceiveApply, OnReceiveDangling, RLeaves
<1>5. CASE AbortFileTransfer
  BY <1>5 DEF AbortFileTransfer, AbortSends, sVars, rVars
<1>6. CASE TStep
  BY <1>1, <1>6 DEF TStep, TWorks, TWakes, SendFileAsyncWorks,
     SendFileAsyncWakes, TOpen, TOpenFails, TSeesCancel, TSendData,
     TReadFails, TSendThrows, TTail, TIncrement
<1> QED
  BY <1>2, <1>3, <1>4, <1>5, <1>6 DEF ServerAlone

\* There is one of it, in one place.
OneNtf ==
  /\ NtfToSend => \A m \in UnderWay : m.xid # "NTF"
  /\ \A m, n \in net : m.xid = "NTF" /\ n.xid = "NTF" => m = n
  /\ \A m \in net, n \in Held("main") : ~(m.xid = "NTF" /\ n.xid = "NTF")
  /\ \A i, j \in 1..Len(buffer["main"]) :
       buffer["main"][i].xid = "NTF" /\ buffer["main"][j].xid = "NTF" => i = j

\* Both ends wait for the client to take it, and nothing else is about that
\* either of them would act upon.
Awaited ==
  /\ Unanswered /\ OneNtf
  /\ cPc = "recv" /\ xPc \in {"none", "recv"}
  /\ \A m \in UnderWay :
       /\ m.dst # "server"
       /\ xPc = "recv" => m.dst # "tran"
       /\ m.xid = "NTF" => m.dst = "main" /\ m.form = "good"

\* C begins a transaction only when X has ended, and X does not see the
\* fields that Reset leaves.
NoOverlap ==
  /\ cPc \in {"reset", "join", "ntf"} => xPc = "none" /\ cMsg.form = "good"
  /\ xPc = "recv" => isActive
  /\ xPc # "none" => serverAddr = "server"

\* The application lets the client rest before every call, or has no reason
\* to.
Rested == sc.paced \/ MaxCalls = 1

CalmInv ==
  /\ call = 0 =>
       /\ UnderWay = {} /\ sPc = "idle" /\ rPc = "recv"
       /\ cPc = "recv" /\ xPc = "none"
  /\ Rested => clientUp /\ NoOverlap /\ (Pending => Awaited)

\* A datagram of the client is no notification, nor addressed to the client.
LEMMA NoNtfBack ==
  ASSUME NEW m \in ClientDatagram
  PROVE  m.xid # "NTF" /\ m.dst = "server"
  BY DEF ClientDatagram

\* Nothing has been sent yet.
LEMMA CalmInit == Init => CalmInv
<1> SUFFICES ASSUME Init PROVE CalmInv
  OBVIOUS
<1>1. /\ sPc = "idle" /\ rPc = "recv" /\ cPc = "recv" /\ xPc = "none"
      /\ clientUp
  BY DEF Init, EndsInit, ServerInit, ClientInit
<1>2. UnderWay = {}
  BY DEF Init, UnderWay, Held
<1> QED
  BY <1>1, <1>2 DEF CalmInv, NoOverlap, Pending, NtfToSend

\* A step that adds datagrams, none of them a notification, adds none.
LEMMA NoneAdded ==
  ASSUME ~Pending, NtfToSend' => NtfToSend, UnderWay' \subseteq UnderWay \cup net',
         \A m \in net' \ net : m.xid # "NTF"
  PROVE  ~Pending'
  BY DEF Pending, UnderWay

\* Who starts no call leaves the call and its file.
LEMMA SameFile ==
  ASSUME ServerAlone
  PROVE  UNCHANGED <<call, file>>
  BY DEF ServerAlone, SStep, SWorks, RStep, TStep, TWorks, TWakes,
      SendFileAsyncWorks, SendFileAsyncWakes, AbortFileTransfer, SSend,
      SSendData, SLoad, SAnswered, SCancelled, SUnexpected, STimeout, SCancel,
      SSendThrows, SErase, SDestroy, SJoinReceiver, SDestroyMembers,
      OnReceiveApply, OnReceiveDangling, RLeaves, TOpen, TOpenFails,
      TSeesCancel, TSendData, TReadFails, TSendThrows, TTail, TIncrement,
      tranVars, sVars

\* Between calls the server does nothing of its own accord.
LEMMA IdleServer ==
  ASSUME ServerInv, NothingFails, sPc = "idle", rPc = "recv"
  PROVE  ~ServerAlone
<1>1. ~TRunning
  BY DEF NothingFails, ServerInv, CallInv, Calling
<1>2. ~SStep
  BY DEF SStep, SWorks, SSend, SSendData, SLoad, SAnswered, SCancelled,
     SUnexpected, STimeout, SCancel, SSendThrows, SErase, SDestroy,
     SJoinReceiver, SDestroyMembers
<1>3. ~RStep
  BY DEF RStep, OnReceiveApply, OnReceiveDangling, RLeaves
<1>4. ~TStep
  BY <1>1 DEF TStep, TWorks, TWakes, SendFileAsyncWorks, SendFileAsyncWakes,
     TOpen, TOpenFails, TSeesCancel, TSendData, TReadFails, TSendThrows,
     TTail, TIncrement, TRunning
<1> QED
  BY <1>2, <1>3, <1>4 DEF ServerAlone, Calling

\* What the server sends leaves one notification, in one place.
LEMMA OneNtfSent ==
  ASSUME TypedInv, OneNtf, ServerAlone, UNCHANGED buffer,
         \A m \in UnderWay : m.xid = "NTF" => m.dst = "main"
  PROVE  OneNtf'
<1>1. /\ NtfToSend' => NtfToSend
      /\ \A m \in net' \ net : m.xid = "NTF" =>
           /\ NtfToSend /\ ~NtfToSend'
           /\ net' = net \cup {m}
      /\ BufferTyped
  BY NtfSentOnce DEF TypedInv
<1>2. UnderWay' \subseteq UnderWay \cup net' /\ Held("main")' = Held("main")
      /\ net \subseteq UnderWay /\ Held("main") \subseteq UnderWay
  BY DEF UnderWay, Held, Sockets, ClientSocket
<1>3. CASE \A m \in net' \ net : m.xid # "NTF"
  BY <1>1, <1>2, <1>3 DEF OneNtf
<1>4. CASE \E m \in net' \ net : m.xid = "NTF"
  BY <1>1, <1>2, <1>4 DEF OneNtf
<1> QED
  BY <1>3, <1>4

\* The server keeps the invariant while a call lasts, ...
LEMMA CalmServer ==
  ASSUME TypedInv, NothingFails, CalmInv, ServerAlone,
         UNCHANGED <<clientLocal, buffer, sc>>
  PROVE  CalmInv'
<1>1. /\ ServerInv /\ BufferTyped
      /\ UNCHANGED call /\ call # 0
      /\ UNCHANGED <<clientUp, isActive, serverAddr, xPc, cPc, cMsg, sc>>
  BY SameFile, IdleServer DEF TypedInv, CalmInv, clientLocal
<1>2. UnderWay' \subseteq UnderWay \cup net'
  BY DEF UnderWay, Held
<1>3. NoOverlap => NoOverlap'
  BY <1>1 DEF NoOverlap
<1>4. CASE ~Rested
  BY <1>1, <1>4 DEF CalmInv, Rested
<1>5. CASE Rested /\ ~Pending
  <2>1. ~Pending'
    BY <1>1, <1>2, <1>5, NtfSentOnce, NoneAdded DEF Pending
  <2> QED
    BY <1>1, <1>3, <1>5, <2>1 DEF CalmInv
<1>6. CASE Rested /\ Pending
  <2>1. Awaited
    BY <1>6 DEF CalmInv
  <2>2. Unanswered' /\ \A m \in net' \ net : m.dst = "main"
    BY <1>1, <2>1, UnansweredKept DEF Awaited
  <2>3. \A m \in net' \ net : m.xid = "NTF" => m.form = "good"
    BY <1>1, NtfSentOnce DEF Ntf
  <2>4. OneNtf'
    BY <2>1, OneNtfSent DEF Awaited
  <2>5. Awaited'
    BY <1>1, <1>2, <2>1, <2>2, <2>3, <2>4 DEF Awaited, UnderWay
  <2> QED
    BY <1>1, <1>3, <1>6, <2>5 DEF CalmInv
<1> QED
  BY <1>4, <1>5, <1>6

\* What keeps still between two calls leaves the client to rest.
LEMMA RestIs ==
  ASSUME TypedInv, NothingFails, NoOverlap, clientUp, Quiet,
         sPc = "idle"
  PROVE  /\ net = {} /\ rPc = "recv"
         /\ cPc = "recv" /\ xPc \in {"none", "recv"}
         /\ buffer["server"] = <<>> /\ buffer["main"] = <<>>
         /\ xPc = "recv" => buffer["tran"] = <<>>
<1>1. ~TRunning
  BY DEF NothingFails, TypedInv, ServerInv, CallInv, Calling
<1>2. \A m : Deliverable(m)
  BY <1>1 DEF Deliverable
<1>3. net = {}
  BY <1>2 DEF Quiet
<1>4. rPc = "recv" /\ buffer["server"] = <<>>
  BY DEF Quiet, RRests
<1>5. CRests /\ XRests
  BY DEF Quiet
<1>6. cPc = "recv" /\ buffer["main"] = <<>>
  BY <1>5 DEF CRests, NoOverlap
<1> QED
  BY <1>3, <1>4, <1>5, <1>6 DEF XRests

\* An empty buffer holds nothing.
LEMMA EmptyHeld ==
  ASSUME NEW s, buffer[s] = <<>>
  PROVE  Held(s) = {}
  BY DEF Held

\* ... when the next one begins, ...
LEMMA CalmStart ==
  ASSUME TypedInv, NothingFails, CalmInv, StartFileTransfer,
         sc.paced => Quiet, UNCHANGED <<clientLocal, buffer, sc>>
  PROVE  CalmInv'
<1>1. /\ call' # 0 /\ sPc = "idle"
      /\ UNCHANGED <<clientUp, isActive, serverAddr, xPc, cPc, cMsg, sc, net,
                     rPc>>
      /\ NtfToSend' /\ sPhase' = "NTF" /\ status' = "NTF"
      /\ clientAddr' = "main" /\ call \in 0..MaxCalls /\ call < MaxCalls
  BY DEF StartFileTransfer, Construct, NtfToSend, clientLocal, rVars,
     TypedInv, ServerInv, ServerTypeOK
<1>2. UnderWay' = UnderWay
  BY <1>1 DEF UnderWay, Held
<1>3. NoOverlap => NoOverlap'
  BY <1>1 DEF NoOverlap
<1>4. ASSUME Rested
      PROVE  /\ rPc = "recv" /\ cPc = "recv" /\ xPc \in {"none", "recv"}
             /\ \A m \in UnderWay : m.dst = "tran" /\ xPc # "recv"
             /\ clientUp /\ NoOverlap
  <2>1. clientUp /\ NoOverlap
    BY <1>4 DEF CalmInv
  <2>2. CASE call = 0
    BY <2>1, <2>2 DEF CalmInv
  <2>3. CASE call # 0
    <3>1. MaxCalls # 1
      BY <1>1, <2>3, ServerAssumption
    <3>2. Quiet
      BY <1>4, <3>1 DEF Rested
    <3>3. /\ net = {} /\ rPc = "recv"
          /\ cPc = "recv" /\ xPc \in {"none", "recv"}
          /\ Held("server") = {} /\ Held("main") = {}
          /\ xPc = "recv" => Held("tran") = {}
      BY <1>1, <2>1, <3>2, RestIs, EmptyHeld
    <3>4. \A m \in UnderWay : m \in Held("tran") /\ m.dst = "tran"
      BY <3>3, HeldIs DEF UnderWay, Sockets, ClientSocket, TypedInv
    <3> QED
      BY <2>1, <3>3, <3>4
  <2> QED
    BY <2>2, <2>3
<1>5. ASSUME Rested
      PROVE  ~\E m \in UnderWay : m.xid = "NTF"
  BY <1>1, <1>4, <1>5 DEF CalmInv, Pending, Awaited
<1>6. ASSUME Rested
      PROVE  Awaited'
  <2>1. Held("main") \subseteq UnderWay /\ net \subseteq UnderWay
    BY DEF UnderWay, Sockets, ClientSocket
  <2>2. \A i \in 1..Len(buffer["main"]) : buffer["main"][i] \in UnderWay
    BY <2>1 DEF Held
  <2>3. OneNtf'
    BY <1>1, <1>2, <1>5, <1>6, <2>1, <2>2 DEF OneNtf, Held
  <2>4. Unanswered'
    BY <1>1, <1>4, <1>6 DEF Unanswered
  <2> QED
    BY <1>1, <1>2, <1>4, <1>5, <1>6, <2>3, <2>4 DEF Awaited
<1> QED
  BY <1>1, <1>3, <1>4, <1>6 DEF CalmInv, Rested

\* ... when R takes a datagram, ...
LEMMA CalmServerTakes ==
  ASSUME TypedInv, CalmInv, ServerTakes, UNCHANGED sc
  PROVE  CalmInv'
<1>1. /\ UNCHANGED <<net, clientLocal>>
      /\ UNCHANGED serverLocal \/ ServerReceive(Head(buffer["server"]))
      /\ UnderWay' \subseteq UnderWay
      /\ Head(buffer["server"]) \in UnderWay
      /\ Head(buffer["server"]) \in ClientDatagram
  BY ServerTakesIs
<1>2. UNCHANGED <<call, sPc, sPhase>>
  BY <1>1 DEF serverLocal, ServerReceive, sVars
<1>3. UNCHANGED <<clientUp, isActive, serverAddr, xPc, cPc, cMsg, sc>>
  BY <1>1 DEF clientLocal
<1>4. call # 0
  BY <1>1 DEF CalmInv
<1>5. Rested => ~Pending
  BY <1>1, NoNtfBack DEF CalmInv, Awaited
<1>6. ~Pending => ~Pending'
  BY <1>1, <1>2 DEF Pending, NtfToSend
<1> QED
  BY <1>2, <1>3, <1>4, <1>5, <1>6 DEF CalmInv, NoOverlap, Rested

\* ... when the network delivers or loses one, ...
LEMMA CalmNet ==
  ASSUME TypedInv, CalmInv, Deliver \/ Lose,
         UNCHANGED <<serverLocal, clientLocal, sc>>
  PROVE  CalmInv'
<1>1. /\ UNCHANGED <<call, sPc, sPhase, status, rPc, clientAddr>>
      /\ UNCHANGED <<clientUp, isActive, serverAddr, xPc, cPc, cMsg, sc>>
  BY DEF serverLocal, tranVars, sVars, rVars, clientLocal
<1>2. /\ UnderWay' \subseteq UnderWay /\ net' \subseteq net
      /\ NetTyped /\ BufferTyped
  BY DeliverKeeps, LoseKeeps DEF TypedInv
<1>3. Pending' => Pending
  BY <1>1, <1>2 DEF Pending, NtfToSend
<1>4. ASSUME OneNtf PROVE OneNtf'
  <2>1. CASE Lose
    BY <1>1, <1>2, <1>4, <2>1, LoseKeeps DEF OneNtf, Held, NtfToSend
  <2>2. CASE Deliver
    <3> DEFINE q == buffer["main"]
    <3>1. PICK m \in net :
            /\ net' = net \ {m}
            /\ buffer' = [buffer EXCEPT ![m.dst] = Append(@, m)]
      BY <1>2, <2>2, DeliverKeeps
    <3>2. m \in AnyDatagram /\ "main" \in Sockets /\ q \in Seq(AnyDatagram)
          /\ "main" \in DOMAIN buffer
      BY <1>2, Addressed DEF BufferTyped, Sockets, ClientSocket
    <3>3. NtfToSend' => \A n \in UnderWay' : n.xid # "NTF"
      BY <1>1, <1>2, <1>4 DEF OneNtf, NtfToSend
    <3>4. CASE m.dst # "main"
      <4>1. buffer'["main"] = buffer["main"] /\ Held("main")' = Held("main")
        BY <3>1, <3>4 DEF Held
      <4> QED
        BY <1>2, <1>4, <3>3, <4>1 DEF OneNtf
    <3>5. CASE m.dst = "main"
      <4>1. buffer'["main"] = Append(q, m)
        BY <3>1, <3>2, <3>5
      <4> HIDE DEF q
      <4>2. /\ Len(buffer'["main"]) = Len(q) + 1 /\ Len(q) \in Nat
            /\ \A i \in 1..Len(q) : buffer'["main"][i] = q[i]
            /\ buffer'["main"][Len(q) + 1] = m
        BY <3>2, <4>1
      <4>3. \A i \in 1..Len(buffer'["main"]) :
              \/ i \in 1..Len(q) /\ buffer'["main"][i] = q[i]
              \/ i = Len(q) + 1 /\ buffer'["main"][i] = m
        BY <4>2
      <4>4. Held("main") = {q[i] : i \in 1..Len(q)}
        BY DEF Held, q
      <4>5. \A n \in Held("main")' : n \in Held("main") \/ n = m
        BY <4>3, <4>4 DEF Held
      <4>6. \A i, j \in 1..Len(q) : q[i].xid = "NTF" /\ q[j].xid = "NTF" => i = j
        BY <1>4 DEF OneNtf, q
      <4>7. m.xid = "NTF" => \A i \in 1..Len(q) : q[i].xid # "NTF"
        BY <1>4, <4>4 DEF OneNtf
      <4>8. \A i, j \in 1..Len(buffer'["main"]) :
              (/\ buffer'["main"][i].xid = "NTF"
               /\ buffer'["main"][j].xid = "NTF") => i = j
        BY <4>3, <4>6, <4>7
      <4>9. \A n \in net' : n.xid = "NTF" => m.xid # "NTF" /\ n \in net
        BY <1>4, <3>1 DEF OneNtf
      <4>10. \A n \in net', k \in Held("main")' : ~(n.xid = "NTF" /\ k.xid = "NTF")
        BY <1>4, <4>5, <4>9 DEF OneNtf
      <4> QED
        BY <1>2, <1>4, <3>3, <4>8, <4>10 DEF OneNtf
    <3> QED
      BY <3>4, <3>5
  <2> QED
    BY <2>1, <2>2
<1>5. Awaited => Awaited'
  BY <1>1, <1>2, <1>4 DEF Awaited, Unanswered
<1>6. call = 0 => UnderWay' = {}
  BY <1>2 DEF CalmInv
<1> QED
  BY <1>1, <1>3, <1>5, <1>6 DEF CalmInv, NoOverlap, Rested

\* ... when C takes one, which ends the wait if it is the notification, ...
LEMMA CalmClientTakes ==
  ASSUME TypedInv, CalmInv, ClientTakes, UNCHANGED sc
  PROVE  CalmInv'
<1> DEFINE q == buffer["main"]
<1>1. /\ UNCHANGED <<net, serverLocal>>
      /\ \/ UNCHANGED clientLocal
         \/ Begin(Head(q))
      /\ UnderWay' \subseteq UnderWay
      /\ Head(q) \in UnderWay
      /\ q # <<>> /\ buffer' = [buffer EXCEPT !["main"] = Tail(@)]
  BY ClientTakesIs
<1>2. UNCHANGED <<call, sPc, sPhase, status, rPc, clientAddr>>
  BY <1>1 DEF serverLocal, tranVars, sVars, rVars
<1>3. call # 0
  BY <1>1 DEF CalmInv
<1>4. Pending' => Pending
  BY <1>1, <1>2 DEF Pending, NtfToSend
<1>5. "main" \in Sockets /\ BufferTyped
  BY DEF Sockets, ClientSocket, TypedInv
<1>6. /\ Head(q) \in Held("main") /\ Head(q) = q[1]
      /\ Len(buffer'["main"]) = Len(q) - 1
      /\ \A i \in 1..Len(buffer'["main"]) : buffer'["main"][i] = q[i + 1]
      /\ \A r \in Sockets \ {"main"} : buffer'[r] = buffer[r]
  BY <1>1, <1>5, TakeKeeps
<1>7. Len(q) \in Nat /\ q # <<>> => Len(q) > 0
  BY <1>5 DEF BufferTyped
<1>8. \A i \in 1..Len(buffer'["main"]) :
        i \in Int /\ i + 1 \in 1..Len(q) /\ buffer'["main"][i] = q[i + 1]
  BY <1>6, <1>7
<1>9. \A i, j \in 1..Len(buffer'["main"]) : i + 1 = j + 1 => i = j
  BY <1>8
<1>10. Held("main")' \subseteq Held("main")
  BY <1>8 DEF Held
<1>11. OneNtf => OneNtf'
  <2>1. ASSUME OneNtf,
               NEW i \in 1..Len(buffer'["main"]), NEW j \in 1..Len(buffer'["main"]),
               buffer'["main"][i].xid = "NTF", buffer'["main"][j].xid = "NTF"
        PROVE  i = j
    <3>1. i + 1 = j + 1
      BY <1>8, <2>1 DEF OneNtf
    <3> QED
      BY <1>9, <3>1
  <2> QED
    BY <1>1, <1>2, <1>10, <2>1 DEF OneNtf, NtfToSend
<1>12. CASE UNCHANGED clientLocal
  <2>1. UNCHANGED <<clientUp, isActive, serverAddr, xPc, cPc, cMsg, sc>>
    BY <1>12 DEF clientLocal
  <2>2. Awaited => Awaited'
    BY <1>1, <1>2, <1>11, <2>1 DEF Awaited, Unanswered
  <2> QED
    BY <1>2, <1>3, <1>4, <2>1, <2>2 DEF CalmInv, NoOverlap, Rested
<1>13. CASE Begin(Head(q)) /\ Rested
  <2>1. /\ Head(q).xid = "NTF" /\ ~isActive
        /\ cMsg' = Head(q) /\ cPc' = "reset"
        /\ UNCHANGED <<clientUp, serverAddr, xPc>>
    BY <1>13 DEF Begin
  <2>2. Pending
    BY <1>1, <2>1 DEF Pending
  <2>3. clientUp /\ NoOverlap /\ Awaited
    BY <1>13, <2>2 DEF CalmInv
  <2>4. xPc = "none" /\ cMsg'.form = "good"
    BY <1>1, <2>1, <2>3 DEF NoOverlap, Awaited
  <2>5. ~NtfToSend'
    BY <1>1, <1>2, <2>1, <2>3 DEF Awaited, OneNtf, NtfToSend
  <2>6. \A m \in net : m.xid # "NTF"
    BY <1>6, <2>1, <2>3 DEF Awaited, OneNtf
  <2>7. \A m \in Held("main")' : m.xid # "NTF"
    <3>1. ASSUME NEW i \in 1..Len(buffer'["main"]),
                 buffer'["main"][i].xid = "NTF"
          PROVE  FALSE
      <4>1. 1 \in 1..Len(q) /\ q[1].xid = "NTF"
        BY <1>1, <1>6, <1>7, <2>1
      <4>2. i + 1 \in 1..Len(q) /\ q[i + 1].xid = "NTF"
        BY <1>8, <3>1
      <4>3. i + 1 = 1
        BY <2>3, <4>1, <4>2 DEF Awaited, OneNtf
      <4> QED
        BY <4>3
    <3> QED
      BY <3>1 DEF Held
  <2>8. \A s \in {"server", "tran"} : \A m \in Held(s)' : m.xid # "NTF"
    <3>1. ASSUME NEW s \in {"server", "tran"}, NEW m \in Held(s)'
          PROVE  m \in UnderWay /\ m.dst # "main"
      <4>1. s \in Sockets /\ m \in Held(s)
        BY <1>6, <3>1 DEF Held, Sockets, ClientSocket
      <4> QED
        BY <1>5, <3>1, <4>1, HeldIs DEF UnderWay
    <3> QED
      BY <2>3, <3>1 DEF Awaited
  <2>9. ~Pending'
    BY <1>1, <2>5, <2>6, <2>7, <2>8
    DEF Pending, UnderWay, Sockets, ClientSocket
  <2> QED
    BY <1>2, <1>3, <2>1, <2>3, <2>4, <2>9 DEF CalmInv, NoOverlap
<1>14. CASE Begin(Head(q)) /\ ~Rested
  BY <1>2, <1>3, <1>14 DEF CalmInv, Rested
<1> QED
  BY <1>1, <1>12, <1>13, <1>14

\* ... when X does, ...
LEMMA CalmTransactionTakes ==
  ASSUME TypedInv, CalmInv, TransactionTakes, UNCHANGED sc
  PROVE  CalmInv'
<1> DEFINE h == Head(buffer["tran"])
<1>1. /\ UNCHANGED serverLocal /\ XReceive(h)
      /\ UnderWay' \subseteq UnderWay \cup net'
      /\ h \in UnderWay /\ h.dst = "tran" /\ h \in ServerDatagram
  BY TransactionTakesIs
<1> HIDE DEF h
<1>2. UNCHANGED <<call, sPc, sPhase>>
  BY <1>1 DEF serverLocal, sVars
<1>3. /\ xPc = "recv" /\ UNCHANGED <<cPc, cMsg>>
      /\ serverAddr' = "server"
      /\ xPc' = "recv" => isActive' = isActive
      /\ clientUp /\ (clientUp' \/ h.xid = "NTF")
  BY <1>1
  DEF XReceive, OnReceive, XDiscards, XRejects, XNtf, XInfo, XInfoOpenFails,
      XDataOutOfOrder, XDataWriteFails, XData, XLastData, XWrites,
      XLastDataMismatch, XFin, XEnds, XCxl, BeginCancel, XReceives, XAccepts
<1>4. call # 0
  BY <1>1 DEF CalmInv
<1>5. Rested => ~Pending
  BY <1>1, <1>3 DEF CalmInv, Awaited
<1>6. \A m \in net' \ net : m.xid # "NTF"
  BY <1>1, ClientReceives, NoNtfBack DEF ClientReceive, TypedInv
<1>7. Rested => ~Pending'
  BY <1>1, <1>2, <1>5, <1>6, NoneAdded DEF NtfToSend
<1>8. Rested => h.xid # "NTF"
  BY <1>1, <1>5 DEF Pending
<1> QED
  BY <1>2, <1>3, <1>4, <1>7, <1>8 DEF CalmInv, NoOverlap, Rested

\* ... and when the client goes on: X waits out its three seconds only if
\* no notification is on its way.
LEMMA CalmClient ==
  ASSUME TypedInv, NothingFails, CalmInv,
         CStep \/ XWorks \/ (Quiet /\ XTimesOut),
         UNCHANGED <<serverLocal, buffer, sc>>
  PROVE  CalmInv'
<1>1. UNCHANGED <<call, sPc, sPhase>>
  BY DEF serverLocal, sVars
<1>2. cPc \in {"reset", "join", "ntf", "chk"} \/ xPc # "none"
  BY DEF CStep, Reset, Join, OnReceiveNtf, OnReceiveWrongLength,
     OnReceiveDamaged, SendChk, XWorks, HandleIncomingMessages, XTest,
     XSendCxl, XSendCxlThrows, OnFileReceived, XTimesOut, XTimeout,
     NothingFails
<1>3. call # 0
  BY <1>2 DEF CalmInv
<1>4. ASSUME Rested PROVE ~Pending
  <2>1. SUFFICES ASSUME Pending PROVE FALSE
    OBVIOUS
  <2>2. clientUp /\ NoOverlap /\ Awaited
    BY <1>4, <2>1 DEF CalmInv
  <2>3. Quiet
    BY <2>2
    DEF Awaited, CStep, Reset, Join, OnReceiveNtf, OnReceiveWrongLength,
        OnReceiveDamaged, SendChk, XWorks, HandleIncomingMessages, XTest,
        XSendCxl, XSendCxlThrows, OnFileReceived
  <2>4. ~NtfToSend
    BY <2>3 DEF Quiet, SRests, NtfToSend
  <2>5. PICK m \in UnderWay : m.xid = "NTF"
    BY <2>1, <2>4 DEF Pending
  <2>6. m.dst = "main"
    BY <2>2, <2>5 DEF Awaited
  <2>7. m \notin net
    BY <2>3, <2>5, <2>6 DEF Quiet, Deliverable
  <2>8. PICK s \in Sockets : m \in Held(s)
    BY <2>5, <2>7 DEF UnderWay
  <2>9. s = "main"
    BY <2>6, <2>8, HeldIs DEF TypedInv
  <2>10. buffer["main"] = <<>>
    BY <2>2, <2>3 DEF Quiet, CRests, Awaited
  <2> QED
    BY <2>8, <2>9, <2>10, EmptyHeld
<1>5. /\ \A m \in net' \ net : m.xid # "NTF"
      /\ UnderWay' \subseteq UnderWay \cup net'
  BY ClientMovesOn, NoNtfBack DEF ClientNext, XStep, UnderWay, Held
<1>6. Rested => ~Pending'
  BY <1>1, <1>4, <1>5, NoneAdded DEF NtfToSend
<1>7. ASSUME CStep, clientUp, NoOverlap
      PROVE  clientUp' /\ NoOverlap'
  <2>1. CASE Reset
    BY <1>7, <2>1 DEF Reset, ResetFields, NoOverlap, NothingFails
  <2>2. CASE Join
    BY <1>7, <2>2 DEF Join, NoOverlap, NothingFails
  <2>3. CASE OnReceiveNtf \/ SendChk
    BY <1>7, <2>3 DEF OnReceiveNtf, SendChk, NoOverlap
  <2>4. CASE OnReceiveWrongLength \/ OnReceiveDamaged
    BY <1>7, <2>4 DEF OnReceiveWrongLength, OnReceiveDamaged, NoOverlap
  <2> QED
    BY <1>7, <2>1, <2>2, <2>3, <2>4 DEF CStep
<1>8. ASSUME XWorks \/ XTimesOut, clientUp, NoOverlap
      PROVE  clientUp' /\ NoOverlap'
  <2>0. UNCHANGED <<cPc, cMsg>>
    BY <1>8 DEF XWorks, XTimesOut
  <2>1. CASE XTest
    BY <1>8, <2>0, <2>1 DEF XTest, NoOverlap
  <2>2. CASE XSendCxl \/ XSendCxlThrows
    BY <1>8, <2>0, <2>2 DEF XSendCxl, XSendCxlThrows, NoOverlap
  <2>3. CASE OnFileReceived
    BY <1>8, <2>0, <2>3 DEF OnFileReceived, NoOverlap
  <2>4. CASE XTimeout
    BY <1>8, <2>0, <2>4 DEF XTimeout, XGivesUp, BeginCancel, NoOverlap
  <2> QED
    BY <1>8, <2>1, <2>2, <2>3, <2>4
    DEF XWorks, XTimesOut, HandleIncomingMessages
<1> QED
  BY <1>1, <1>3, <1>6, <1>7, <1>8 DEF CalmInv, Rested

\* So every step keeps it.
LEMMA CalmNext ==
  ASSUME TypedInv, NothingFails, CalmInv, [Next]_promptVars
  PROVE  CalmInv'
<1>1. CASE UNCHANGED promptVars
  <2>1. UnderWay' = UnderWay
    BY <1>1 DEF promptVars, endsVars, UnderWay, Held
  <2> QED
    BY <1>1, <2>1
    DEF promptVars, endsVars, serverLocal, tranVars, sVars, rVars,
        clientLocal, CalmInv, NoOverlap, Rested, Pending, NtfToSend, Awaited,
        Unanswered, OneNtf, Held
<1>2. UNCHANGED sc
  BY StepIs
<1> QED
  BY <1>1, <1>2, StepIs, CalmServer, CalmStart, CalmServerTakes, CalmNet,
     CalmClientTakes, CalmTransactionTakes, CalmClient
  DEF ServerMoves, ClientMoves, Abort, ServerAlone, SStep, TStep

-----------------------------------------------------------------------------
(***************************************************************************)
(* The version of the notification.                                        *)
(***************************************************************************)

\* Version 0 is what Reset leaves: no file has it.
Versioned == \A i \in 1..MaxCalls : Files[i].version # 0

\* From the notification to the handler.
VersionInv ==
  /\ file.version # 0
  /\ \A m \in UnderWay : m.xid = "NTF" => m.version # 0
  /\ cPc \in {"reset", "join", "ntf"} => cMsg.version # 0
  /\ xPc # "none" => cVersion # 0
  /\ VersionFromNtf

\* No version has been told yet.
LEMMA VersionInit == Versioned /\ Init => VersionInv
<1> SUFFICES ASSUME Versioned, Init PROVE VersionInv
  OBVIOUS
<1>1. /\ cPc = "recv" /\ xPc = "none" /\ received = {} /\ file = Files[1]
  BY DEF Init, EndsInit, ServerInit, ClientInit
<1>2. UnderWay = {}
  BY DEF Init, UnderWay, Held
<1> QED
  BY <1>1, <1>2, ServerAssumption DEF Versioned, VersionInv, VersionFromNtf

\* The transaction keeps the version while X receives.
LEMMA VersionKept ==
  ASSUME NEW h, XReceive(h), clientUp'
  PROVE  /\ UNCHANGED <<cVersion, received, cPc, cMsg>> /\ xPc = "recv"
  BY DEF XReceive, OnReceive, XDiscards, XRejects, XNtf, XInfo, XInfoOpenFails,
      XDataOutOfOrder, XDataWriteFails, XData, XLastData, XWrites,
      XLastDataMismatch, XFin, XEnds, XCxl, BeginCancel, XReceives, XAccepts

\* A step of the client that takes no datagram.
LEMMA VersionClient ==
  ASSUME NothingFails, NoOverlap, clientUp, VersionInv,
         CStep \/ XWorks \/ XTimesOut
  PROVE  /\ cPc' \in {"reset", "join", "ntf"} => cMsg'.version # 0
         /\ xPc' # "none" => cVersion' # 0
         /\ VersionFromNtf'
<1> USE DEF VersionInv, VersionFromNtf
<1>1. CASE CStep
  <2>1. CASE Reset
    BY <2>1 DEF Reset, ResetFields, NoOverlap, NothingFails
  <2>2. CASE Join
    BY <2>2 DEF Join, NoOverlap, NothingFails
  <2>3. CASE OnReceiveNtf \/ SendChk
    BY <2>3 DEF OnReceiveNtf, SendChk
  <2>4. CASE OnReceiveWrongLength \/ OnReceiveDamaged
    BY <2>4 DEF OnReceiveWrongLength, OnReceiveDamaged
  <2> QED
    BY <1>1, <2>1, <2>2, <2>3, <2>4 DEF CStep
<1>2. CASE XWorks \/ XTimesOut
  <2>0. UNCHANGED <<cPc, cMsg>>
    BY <1>2 DEF XWorks, XTimesOut
  <2>1. CASE XTest \/ XSendCxl \/ XSendCxlThrows \/ XTimeout
    BY <2>0, <2>1 DEF XTest, XSendCxl, XSendCxlThrows, XTimeout, XGivesUp,
       BeginCancel
  <2>2. CASE OnFileReceived
    BY <2>0, <2>2 DEF OnFileReceived
  <2> QED
    BY <1>2, <2>1, <2>2 DEF XWorks, XTimesOut, HandleIncomingMessages
<1> QED
  BY <1>1, <1>2

\* So every step keeps the version the client is told.
LEMMA VersionNext ==
  ASSUME Versioned, Rested, TypedInv, NothingFails, CalmInv, VersionInv,
         [Next]_promptVars
  PROVE  VersionInv'
<1> USE DEF VersionInv, VersionFromNtf
<1>0. /\ clientUp /\ NoOverlap /\ (Pending => Awaited) /\ sc' = sc
      /\ NetTyped /\ BufferTyped /\ ServerInv
  BY StepIs DEF CalmInv, TypedInv
<1>1. CASE UNCHANGED promptVars
  BY <1>1 DEF promptVars, endsVars, serverLocal, tranVars, clientLocal,
     UnderWay, Held
<1>2. CASE UNCHANGED <<serverLocal, clientLocal>> /\ (Deliver \/ Lose)
  <2>1. UnderWay' \subseteq UnderWay
    BY <1>0, <1>2, DeliverKeeps, LoseKeeps
  <2> QED
    BY <1>2, <2>1 DEF serverLocal, tranVars, clientLocal
<1>3. CASE ServerTakes
  <2>1. /\ UNCHANGED clientLocal /\ UnderWay' \subseteq UnderWay
        /\ UNCHANGED serverLocal
             \/ ServerReceive(Head(buffer["server"]))
    BY <1>3, ServerTakesIs
  <2>2. file' = file
    BY <2>1 DEF serverLocal, tranVars, ServerReceive
  <2> QED
    BY <2>1, <2>2 DEF clientLocal
<1>4. CASE ClientTakes
  <2> DEFINE h == Head(buffer["main"])
  <2>1. /\ UNCHANGED serverLocal /\ UnderWay' \subseteq UnderWay
        /\ UNCHANGED clientLocal \/ Begin(h)
        /\ h \in UnderWay
    BY <1>4, ClientTakesIs
  <2>2. CASE UNCHANGED clientLocal
    BY <2>1, <2>2 DEF clientLocal, serverLocal, tranVars
  <2>3. CASE Begin(h)
    <3>1. /\ h.version # 0 /\ cMsg' = h
          /\ UNCHANGED <<xPc, cVersion, received>>
      BY <2>1, <2>3 DEF Begin
    <3> QED
      BY <2>1, <3>1 DEF serverLocal, tranVars
  <2> QED
    BY <2>1, <2>2, <2>3
<1>5. CASE TransactionTakes
  <2> DEFINE h == Head(buffer["tran"])
  <2>1. /\ UNCHANGED serverLocal /\ XReceive(h)
        /\ UnderWay' \subseteq UnderWay \cup net'
        /\ h \in ServerDatagram
    BY <1>5, TransactionTakesIs
  <2>2. \A m \in net' \ net : m.xid # "NTF"
    BY <2>1, ClientReceives, NoNtfBack DEF ClientReceive, TypedInv
  <2>3. clientUp'
    BY <1>0, <1>5, CalmTransactionTakes DEF CalmInv, Rested
  <2>4. UNCHANGED <<cVersion, received, cPc, cMsg>> /\ xPc = "recv"
    BY <2>1, <2>3, VersionKept
  <2> QED
    BY <2>1, <2>2, <2>4 DEF serverLocal, tranVars, UnderWay
<1>6. CASE ServerAlone /\ UNCHANGED <<clientLocal, buffer>>
  <2>1. \A m \in net' \ net : m.xid = "NTF" => m.version = file.version
    BY <1>0, <1>6, NtfSentOnce DEF Ntf
  <2>2. UnderWay' \subseteq UnderWay \cup net'
    BY <1>6 DEF UnderWay, Held
  <2> QED
    BY <1>6, <2>1, <2>2, SameFile DEF clientLocal, UnderWay
<1>7. CASE StartFileTransfer /\ UNCHANGED <<clientLocal, buffer>>
  <2>1. /\ file' = Files[call + 1] /\ net' = net
        /\ call + 1 \in 1..MaxCalls
    BY <1>0, <1>7, ServerAssumption
    DEF StartFileTransfer, Construct, ServerInv, ServerTypeOK
  <2>2. UnderWay' = UnderWay
    BY <1>7, <2>1 DEF UnderWay, Held
  <2> QED
    BY <1>7, <2>1, <2>2 DEF clientLocal, Versioned
<1>8. CASE /\ CStep \/ XWorks \/ XTimesOut
           /\ UNCHANGED <<serverLocal, buffer>>
  <2>1. /\ \A m \in net' \ net : m.xid # "NTF"
        /\ UnderWay' \subseteq UnderWay \cup net'
    BY <1>8, ClientMovesOn, NoNtfBack DEF ClientNext, XStep, UnderWay, Held
  <2>2. /\ cPc' \in {"reset", "join", "ntf"} => cMsg'.version # 0
        /\ xPc' # "none" => cVersion' # 0
        /\ VersionFromNtf'
    BY <1>0, <1>8, VersionClient
  <2> QED
    BY <1>8, <2>1, <2>2 DEF serverLocal, tranVars, UnderWay
<1> QED
  BY <1>1, <1>2, <1>3, <1>4, <1>5, <1>6, <1>7, <1>8, StepIs
  DEF ServerMoves, ClientMoves, Abort, ServerAlone, SStep, TStep

\* The inductive invariant.
PromptInv ==
  /\ TypedInv /\ NothingFails /\ CalmInv
  /\ Versioned /\ Rested => VersionInv

\* PromptInv holds initially, ...
LEMMA PromptInvInit == Init => PromptInv
  BY TypedInit, NothingFailsInit, CalmInit, VersionInit DEF PromptInv

\* ... and every step keeps it.
LEMMA PromptInvNext ==
  ASSUME PromptInv, [Next]_promptVars
  PROVE  PromptInv'
<1>1. TypedInv' /\ NothingFails' /\ CalmInv'
  BY TypedNext, NothingFailsNext, CalmNext DEF PromptInv
<1>2. Rested' <=> Rested
  BY StepIs DEF Rested
<1>3. ASSUME Versioned, Rested PROVE VersionInv'
  BY <1>3, VersionNext DEF PromptInv
<1> QED
  BY <1>1, <1>2, <1>3 DEF PromptInv, Versioned

\* On a prompt network both ends keep the invariants they keep on any other,
\* and system calls that succeed leave S in a call or outside one.
THEOREM PromptInvHolds == Spec => []PromptInv
  BY PromptInvInit, PromptInvNext, PTL DEF Spec

\* If the application lets the client rest between calls, the handler is
\* told the version of the notification, whatever is lost, aborted or late.
\* (client_transaction.h, the comment on new_file_version_)
THEOREM VersionTold ==
  ASSUME Versioned
  PROVE  Spec => []VersionIfPaced
<1>1. PromptInv => VersionIfPaced
  BY DEF PromptInv, VersionIfPaced, VersionInv, Rested
<1> QED
  BY <1>1, PromptInvHolds, PTL

\* Nor does the client's process end with an exception then: no X receives the
\* notification and joins itself, and Reset, which C calls, takes the server's
\* address from no X that has still to send a cancellation.
\* (client_transaction.cpp, OnReceive, Reset and SendMessage)
THEOREM ClientStaysUp == Spec => [](sc.paced => clientUp)
<1>1. PromptInv => (sc.paced => clientUp)
  BY DEF PromptInv, CalmInv, Rested
<1> QED
  BY <1>1, PromptInvHolds, PTL

-----------------------------------------------------------------------------
(***************************************************************************)
(* One call, and the order in which its end is told.                       *)
(***************************************************************************)

\* X works on the transaction as long as it is active, or C is about to
\* start it.
Busy == isActive => cPc \in {"reset", "join", "ntf"} \/ xPc \in {"test", "recv"}

\* A packet is of the file whose size and number of packets it tells.
Genuine(m) == \E f \in FileRecord, n \in Nat : m = Data(f, n, f.id, m.dst)

\* The server has not been told that the client has the file, nor will be by
\* what is under way.
NoDone ==
  /\ \A m \in UnderWay : m.xid # "DONE"
  /\ rPc = "apply" => rMsg.xid # "DONE"
  /\ status # "DONE"

\* Somebody has been told that the call has succeeded.
FinTold ==
  \/ \E m \in UnderWay : m.xid = "FIN"
  \/ xPc = "callback" \/ result = "FIN"
  \/ received # {} \/ finished # {}

\* There is nothing to be confirmed yet.
NothingSent == (\A m \in UnderWay : m.xid # "DATA") /\ NoDone /\ sPhase # "FIN"

\* Nothing has been sent of the file, nor been asked for but packet 0.
Fresh ==
  /\ sent = {} /\ psn = 0 /\ retransmitPsn \in {NoPsn, 0}
  /\ rPc = "apply" /\ rMsg.xid = "RTX" => rMsg.psn = 0

\* A server that makes one call, and its client: the end at the client
\* follows FIN, which follows DONE, which follows the packets.
OneCallInv ==
  /\ Busy
  /\ disk = file.id
  /\ \A m \in UnderWay : m.xid = "DATA" => Genuine(m)
  /\ call = 0 => sPhase = "NTF"
  /\ FinTold => sPhase = "FIN"
  /\ sent = {} => NothingSent
  /\ tPc \in {"none", "open"} => Fresh

\* Before the call there is nothing to be told.
LEMMA OneCallInit == Init => OneCallInv
<1> SUFFICES ASSUME Init PROVE OneCallInv
  OBVIOUS
<1>1. UnderWay = {}
  BY DEF Init, UnderWay, Held
<1>2. /\ isActive = FALSE /\ file = Files[1] /\ disk = Files[1].id
      /\ sPhase = "NTF" /\ xPc = "none" /\ result = "none"
      /\ received = {} /\ finished = {} /\ status = "NTF" /\ rPc = "recv"
      /\ sent = {} /\ psn = 0 /\ retransmitPsn = NoPsn
  BY DEF Init, EndsInit, ServerInit, ClientInit
<1> QED
  BY <1>1, <1>2 DEF OneCallInv, Busy, FinTold, NothingSent, NoDone, Fresh

\* What the server's steps change.
LEMMA ServerDoes ==
  ASSUME ServerInv, ServerAlone
  PROVE  /\ UNCHANGED <<call, file, disk>>
         /\ sPhase = "FIN" => sPhase' = "FIN"
         /\ sPhase' = "FIN" => sPhase = "FIN" \/ status = "DONE"
         /\ status' = "DONE" =>
              status = "DONE" \/ (rPc = "apply" /\ rMsg.xid = "DONE")
         /\ rPc' = "apply" => rPc = "apply" /\ rMsg' = rMsg
         /\ sent \subseteq sent'
         /\ tPc' \in {"none", "open"} => tPc \in {"none", "open"}
<1> USE DEF SendMessage, SendMessageThrows, SendMessageData, Apply
<1>1. /\ sPhase \in {"NTF", "INFO", "DATA", "FIN"}
      /\ sPc = "wait" => sPhase # "FIN"
  BY DEF ServerInv, ServerTypeOK, CallInv
<1>2. UNCHANGED <<call, file>>
  BY SameFile
<1>3. CASE SAnswered
  <2>1. /\ sPhase' = Following[sPhase] /\ status = Answer[sPhase]
        /\ sPhase \in {"NTF", "INFO", "DATA"}
        /\ UNCHANGED <<tranVars, rVars>>
    BY <1>1, <1>3 DEF SAnswered
  <2>2. sPhase' = "FIN" => status = "DONE"
    BY <2>1 DEF Following, Answer
  <2> QED
    BY <1>2, <2>1, <2>2 DEF tranVars, rVars
<1>4. CASE SStep /\ ~SAnswered
  <2>1. UNCHANGED <<disk, sPhase, sent, rPc, rMsg>>
    BY <1>4
    DEF SStep, SWorks, SSend, SSendData, SLoad, SCancelled, SUnexpected,
        STimeout, SCancel, SSendThrows, SErase, SDestroy, SJoinReceiver,
        SDestroyMembers, tranVars, rVars
  <2>2. status' = "DONE" => status = "DONE"
    BY <1>1, <1>4
    DEF SStep, SWorks, SSend, SSendData, SLoad, SCancelled, SUnexpected,
        STimeout, SCancel, SSendThrows, SErase, SDestroy, SJoinReceiver,
        SDestroyMembers, tranVars
  <2>3. tPc' = tPc \/ (tPc = "none" /\ tPc' = "open")
    BY <1>4
    DEF SStep, SWorks, SSend, SSendData, SLoad, SCancelled, SUnexpected,
        STimeout, SCancel, SSendThrows, SErase, SDestroy, SJoinReceiver,
        SDestroyMembers, tranVars, ServerInv, CallInv
  <2> QED
    BY <1>2, <2>1, <2>2, <2>3
<1>5. CASE RStep
  BY <1>2, <1>5 DEF RStep, OnReceiveApply, OnReceiveDangling, RLeaves, RLoops,
     sVars, tranVars
<1>6. CASE AbortFileTransfer
  BY <1>2, <1>6 DEF AbortFileTransfer, AbortSends, sVars, rVars
<1>7. CASE TStep
  BY <1>2, <1>7 DEF TStep, TWorks, TWakes, SendFileAsyncWorks,
     SendFileAsyncWakes, TOpen, TOpenFails, TSeesCancel, TSendData,
     TReadFails, TSendThrows, TTail, TIncrement, TCancel, sVars, rVars,
     tranVars
<1> QED
  BY <1>3, <1>4, <1>5, <1>6, <1>7 DEF ServerAlone

\* What they send.
LEMMA ServerTells ==
  ASSUME ServerInv, ServerAlone, NEW m \in net' \ net
  PROVE  /\ m.xid # "DONE"
         /\ m.xid = "FIN" => sPhase = "FIN"
         /\ m.xid = "DATA" =>
              /\ m = Data(file, NextPsn, disk, clientAddr)
              /\ tPc = "loop" /\ tPc' \notin {"none", "open", "loop"}
              /\ sent' = sent \cup {NextPsn}
<1>1. /\ ServerNext
      /\ m.xid \in {"NTF", "INFO", "DATA", "FIN", "CXL"}
  BY ServerSends DEF ServerAlone, ServerNext, ServerCalls
<1>2. \A id \in {"NTF", "INFO", "FIN", "CXL"} : Datagram(id).xid = id
  BY ControlTyped DEF ServerInv
<1> USE DEF Send, SendMessage, SendMessageThrows, SendMessageData
<1>3. CASE SSend
  BY <1>1, <1>2, <1>3 DEF SSend, ServerInv, ServerTypeOK
<1>4. CASE TSendData
  BY <1>4 DEF TSendData, Data
<1>5. CASE ~SSend /\ ~TSendData
  <2>1. m = Datagram("CXL")
    BY <1>5
    DEF ServerAlone, SStep, SWorks, RStep, TStep, TWorks, TWakes,
        SendFileAsyncWorks, SendFileAsyncWakes, AbortFileTransfer, AbortSends,
        SSendData, SLoad, SAnswered, SCancelled, SUnexpected, STimeout,
        SCancel, SSendThrows, SErase, SDestroy, SJoinReceiver,
        SDestroyMembers, OnReceiveApply, OnReceiveDangling, RLeaves, TOpen,
        TOpenFails, TSeesCancel, TReadFails, TSendThrows, TTail, TIncrement,
        TCancel
  <2> QED
    BY <1>2, <2>1
<1> QED
  BY <1>3, <1>4, <1>5

\* Before the first packet the counter and the requests stay at packet 0.
LEMMA FreshKept ==
  ASSUME ServerInv, ServerAlone, Fresh,
         tPc \in {"none", "open", "loop"}, tPc' \in {"none", "open", "loop"}
  PROVE  Fresh'
<1> USE DEF Fresh, SendMessage, SendMessageThrows, SendMessageData, Apply
<1>1. CASE SStep
  BY <1>1 DEF SStep, SWorks, SSend, SSendData, SLoad, SAnswered, SCancelled,
     SUnexpected, STimeout, SCancel, SSendThrows, SErase, SDestroy,
     SJoinReceiver, SDestroyMembers, tranVars, rVars
<1>2. CASE RStep
  BY <1>2 DEF RStep, OnReceiveApply, OnReceiveDangling, RLeaves, tranVars,
     NoMsg, Simple
<1>3. CASE AbortFileTransfer
  BY <1>3 DEF AbortFileTransfer, AbortSends, rVars
<1>4. CASE TStep
  BY <1>4 DEF TStep, TWorks, TWakes, SendFileAsyncWorks,
     SendFileAsyncWakes, TOpen, TOpenFails, TSeesCancel, TSendData,
     TReadFails, TSendThrows, TTail, TIncrement, TCancel, rVars, tranVars
<1> QED
  BY <1>1, <1>2, <1>3, <1>4 DEF ServerAlone

\* The server keeps the invariant while the call lasts, ...
LEMMA OneCallServer ==
  ASSUME TypedInv, CalmInv, NothingFails, OneCallInv, ServerAlone,
         UNCHANGED <<clientLocal, buffer>>,
         finished' = finished \cup {i \in {call'} : result' = "FIN"}
  PROVE  OneCallInv'
<1>1. /\ UNCHANGED <<call, file, disk>> /\ call # 0
      /\ sPhase = "FIN" => sPhase' = "FIN"
      /\ sPhase' = "FIN" => sPhase = "FIN" \/ status = "DONE"
      /\ status' = "DONE" =>
           status = "DONE" \/ (rPc = "apply" /\ rMsg.xid = "DONE")
      /\ rPc' = "apply" => rPc = "apply" /\ rMsg' = rMsg
      /\ sent \subseteq sent'
      /\ tPc' \in {"none", "open"} => tPc \in {"none", "open"}
      /\ ServerInv
  BY ServerDoes, IdleServer DEF TypedInv, CalmInv
<1>2. UNCHANGED <<isActive, xPc, cPc, received>>
  BY DEF clientLocal
<1>3. UnderWay' \subseteq UnderWay \cup net'
  BY DEF UnderWay, Held
<1>4. \A m \in net' \ net :
        /\ m.xid # "DONE"
        /\ m.xid = "FIN" => sPhase = "FIN"
        /\ m.xid = "DATA" =>
             /\ m = Data(file, NextPsn, disk, clientAddr)
             /\ sent' = sent \cup {NextPsn}
  BY <1>1, ServerTells
<1>5. ASSUME NEW m \in UnderWay', m.xid = "DATA"
      PROVE  Genuine(m)
  <2>1. CASE m \in UnderWay
    BY <1>5, <2>1 DEF OneCallInv
  <2>2. CASE m \in net' \ net
    <3>1. m = Data(file, NextPsn, file.id, m.dst)
      BY <1>4, <1>5, <2>2 DEF OneCallInv, Data
    <3>2. file \in FileRecord /\ NextPsn \in Nat
      BY <1>1 DEF ServerInv, ServerTypeOK, NextPsn, NoPsn
    <3> QED
      BY <3>1, <3>2 DEF Genuine
  <2> QED
    BY <1>3, <2>1, <2>2 DEF UnderWay
<1>6. FinTold' => sPhase' = "FIN"
  <2>1. ServerNext
    BY DEF ServerAlone, ServerNext, ServerCalls
  <2>2. result' = "FIN" => result = "FIN" \/ sPhase = "FIN"
    BY <2>1, ResultFin DEF SSend
  <2>3. SUFFICES ASSUME FinTold' PROVE sPhase = "FIN"
    BY <1>1
  <2>4. CASE \E m \in UnderWay' : m.xid = "FIN"
    BY <1>3, <1>4, <2>4 DEF OneCallInv, FinTold, UnderWay
  <2>5. CASE result' = "FIN"
    BY <2>2, <2>5 DEF OneCallInv, FinTold
  <2>6. CASE xPc' = "callback" \/ received' # {}
             \/ (finished' # {} /\ result' # "FIN")
    BY <1>2, <2>6 DEF OneCallInv, FinTold
  <2> QED
    BY <2>3, <2>4, <2>5, <2>6 DEF FinTold
<1>7. ASSUME sent' = {} PROVE NothingSent'
  <2>1. sent = {}
    BY <1>1, <1>7
  <2>2. NothingSent
    BY <2>1 DEF OneCallInv
  <2>3. \A m \in UnderWay' : m.xid \notin {"DATA", "DONE"}
    BY <1>3, <1>4, <1>7, <2>2 DEF NothingSent, NoDone, UnderWay
  <2> QED
    BY <1>1, <2>2, <2>3 DEF NothingSent, NoDone
<1>8. tPc' \in {"none", "open"} => Fresh'
  BY <1>1, FreshKept DEF OneCallInv
<1> QED
  BY <1>1, <1>2, <1>5, <1>6, <1>7, <1>8 DEF OneCallInv, Busy

\* ... when it begins, which it does once, ...
LEMMA OneCallStart ==
  ASSUME MaxCalls = 1, TypedInv, CalmInv, OneCallInv, StartFileTransfer,
         UNCHANGED <<clientLocal, buffer>>,
         finished' = finished \cup {i \in {call'} : result' = "FIN"}
  PROVE  OneCallInv'
<1>1. /\ call = 0 /\ call' = call + 1 /\ rPc' = rPc /\ net' = net
      /\ file' = Files[1] /\ disk' = file'.id
      /\ sPhase' = "NTF" /\ result' = "none" /\ status' = "NTF"
      /\ sent' = {} /\ psn' = 0 /\ retransmitPsn' = NoPsn
  BY DEF StartFileTransfer, Construct, TypedInv, ServerInv, ServerTypeOK, rVars
<1>2. UNCHANGED <<isActive, xPc, cPc, received>>
  BY DEF clientLocal
<1>3. UnderWay' = {} /\ rPc = "recv" /\ xPc = "none"
  <2>1. UnderWay' = UnderWay
    BY <1>1 DEF UnderWay, Held
  <2> QED
    BY <1>1, <2>1 DEF CalmInv
<1>4. received = {} /\ finished = {}
  <2>1. ~FinTold
    BY <1>1 DEF OneCallInv
  <2> QED
    BY <2>1 DEF FinTold
<1>5. ~FinTold'
  BY <1>1, <1>2, <1>3, <1>4 DEF FinTold
<1> QED
  BY <1>1, <1>2, <1>3, <1>5
  DEF OneCallInv, Busy, NothingSent, NoDone, Fresh

\* ... when R takes a datagram, ...
LEMMA OneCallServerTakes ==
  ASSUME TypedInv, OneCallInv, ServerTakes
  PROVE  OneCallInv'
<1> DEFINE h == Head(buffer["server"])
<1>1. /\ UNCHANGED clientLocal
      /\ UNCHANGED serverLocal \/ ServerReceive(h)
      /\ UnderWay' \subseteq UnderWay
      /\ h \in UnderWay /\ h \in ClientDatagram
  BY ServerTakesIs
<1> HIDE DEF h
<1>2. UNCHANGED <<isActive, xPc, cPc, received>>
  BY <1>1 DEF clientLocal
<1>3. /\ UNCHANGED <<call, file, disk, sPhase, status, sent, tPc, psn,
                     retransmitPsn, result>>
      /\ rPc' = "apply" => (rPc = "apply" /\ rMsg' = rMsg)
                             \/ (rMsg' = h /\ Accepts(h))
  BY <1>1 DEF serverLocal, tranVars, sVars, rVars, ServerReceive, RLoops
<1>4. Accepts(h) /\ h.xid = "RTX" => h.psn \in Nat /\ h.psn <= psn
  BY <1>1, Accepted
<1>5. FinTold' => FinTold
  <2>1. finished' = finished \cup {i \in {call'} : result' = "FIN"}
    BY DEF ServerTakes, Takes, ServerMoves
  <2> QED
    BY <1>1, <1>2, <1>3, <2>1 DEF FinTold
<1>6. NothingSent => NothingSent'
  BY <1>1, <1>3 DEF NothingSent, NoDone
<1>7. Fresh => Fresh'
  BY <1>3, <1>4 DEF Fresh
<1> QED
  BY <1>1, <1>2, <1>3, <1>5, <1>6, <1>7 DEF OneCallInv, Busy

\* ... when the network delivers or loses one, ...
LEMMA OneCallNet ==
  ASSUME TypedInv, OneCallInv, Deliver \/ Lose,
         UNCHANGED <<serverLocal, clientLocal, finished>>
  PROVE  OneCallInv'
<1>1. UnderWay' \subseteq UnderWay
  BY DeliverKeeps, LoseKeeps DEF TypedInv
<1>2. UNCHANGED <<call, file, disk, sPhase, status, sent, tPc, psn,
                  retransmitPsn, result, rPc, rMsg>>
  BY DEF serverLocal, tranVars, sVars, rVars
<1>3. UNCHANGED <<isActive, xPc, cPc, received, finished>>
  BY DEF clientLocal
<1>4. FinTold' => FinTold
  BY <1>1, <1>2, <1>3 DEF FinTold
<1>5. NothingSent => NothingSent'
  BY <1>1, <1>2 DEF NothingSent, NoDone
<1>6. Fresh => Fresh'
  BY <1>2 DEF Fresh
<1> QED
  BY <1>1, <1>2, <1>3, <1>4, <1>5, <1>6 DEF OneCallInv, Busy

\* ... when C takes one, ...
LEMMA OneCallClientTakes ==
  ASSUME TypedInv, OneCallInv, ClientTakes
  PROVE  OneCallInv'
<1> DEFINE h == Head(buffer["main"])
<1>1. /\ UNCHANGED <<serverLocal, finished>>
      /\ UNCHANGED clientLocal \/ Begin(h)
      /\ UnderWay' \subseteq UnderWay
  BY ClientTakesIs
<1>2. UNCHANGED <<call, file, disk, sPhase, status, sent, tPc, psn,
                  retransmitPsn, result, rPc, rMsg>>
  BY <1>1 DEF serverLocal, tranVars, sVars, rVars
<1>3. UNCHANGED <<xPc, received, finished>>
      /\ (UNCHANGED <<isActive, cPc>> \/ cPc' = "reset")
  BY <1>1 DEF clientLocal, Begin
<1>4. FinTold' => FinTold
  BY <1>1, <1>2, <1>3 DEF FinTold
<1>5. NothingSent => NothingSent'
  BY <1>1, <1>2 DEF NothingSent, NoDone
<1>6. Fresh => Fresh'
  BY <1>2 DEF Fresh
<1> QED
  BY <1>1, <1>2, <1>3, <1>4, <1>5, <1>6 DEF OneCallInv, Busy

\* What X does with a datagram.
LEMMA TransactionDoes ==
  ASSUME NEW h \in ServerDatagram, XReceive(h)
  PROVE  /\ xPc = "recv" /\ (isActive' => isActive)
         /\ isActive' => xPc' = "recv"
         /\ xPc' = "callback" => h.xid = "FIN"
         /\ UNCHANGED <<received, cPc>>
         /\ \A m \in net' \ net : m.xid = "DONE" => XLastData(h)
         /\ h.xid = "CXL" => ~isActive' /\ net' = net
<1> USE DEF XReceives, XAccepts, BeginCancel, ActiveAfterCancel, Send, Simple,
            Rtx
<1>1. UNCHANGED cPc
  BY DEF XReceive
<1>2. CASE XDiscards(h)
  BY <1>1, <1>2 DEF XDiscards, Intact
<1>3. CASE XRejects(h)
  BY <1>1, <1>3 DEF XRejects
<1>4. CASE XNtf(h)
  BY <1>1, <1>4 DEF XNtf
<1>10. CASE XInfo(h) \/ XDataOutOfOrder(h)
  <2>1. /\ xPc = "recv" /\ UNCHANGED <<isActive, xPc, received>>
        /\ h.xid \in {"INFO", "DATA"}
        /\ \A m \in net' \ net : m.xid \in {"RDY", "RTX"}
    BY <1>10 DEF XInfo, XDataOutOfOrder
  <2> QED
    BY <1>1, <2>1
<1>5. CASE XInfoOpenFails(h) \/ XDataWriteFails(h)
  BY <1>1, <1>5 DEF XInfoOpenFails, XDataWriteFails
<1>6. CASE XData(h) \/ XLastData(h)
  BY <1>1, <1>6 DEF XData, XLastData, XWrites
<1>7. CASE XLastDataMismatch(h)
  BY <1>1, <1>7 DEF XLastDataMismatch, XWrites
<1>8. CASE XFin(h)
  BY <1>1, <1>8 DEF XFin, XEnds
<1>9. CASE XCxl(h)
  BY <1>1, <1>9 DEF XCxl
<1> QED
  BY <1>2, <1>3, <1>4, <1>5, <1>6, <1>7, <1>8, <1>9, <1>10
  DEF XReceive, OnReceive

\* ... when X takes one, ...
LEMMA OneCallTransactionTakes ==
  ASSUME TypedInv, OneCallInv, TransactionTakes
  PROVE  OneCallInv'
<1> DEFINE h == Head(buffer["tran"])
<1>1. /\ UNCHANGED <<serverLocal, finished>> /\ XReceive(h)
      /\ UnderWay' \subseteq UnderWay \cup net'
      /\ h \in UnderWay /\ h \in ServerDatagram
  BY TransactionTakesIs
<1> HIDE DEF h
<1>2. UNCHANGED <<call, file, disk, sPhase, status, sent, tPc, psn,
                  retransmitPsn, result, rPc, rMsg>>
  BY <1>1 DEF serverLocal, tranVars, sVars, rVars
<1>3. /\ isActive' => xPc' = "recv"
      /\ xPc' = "callback" => h.xid = "FIN"
      /\ UNCHANGED <<received, cPc>>
      /\ \A m \in net' \ net : m.xid = "DONE" => XLastData(h)
  BY <1>1, TransactionDoes
<1>4. \A m \in net' \ net : m \in ClientDatagram
  BY <1>1, ClientReceives DEF ClientReceive, TypedInv
<1>5. \A m \in net' \ net : m.xid \notin {"FIN", "DATA"}
  BY <1>4 DEF ClientDatagram
<1>6. FinTold' => FinTold
  BY <1>1, <1>2, <1>3, <1>5 DEF FinTold, UnderWay
<1>7. NothingSent => NothingSent'
  <2>1. XLastData(h) => h.xid = "DATA"
    BY DEF XLastData, XWrites, XAccepts
  <2>2. NothingSent => \A m \in net' \ net : m.xid # "DONE"
    BY <1>1, <1>3, <2>1 DEF NothingSent
  <2> QED
    BY <1>1, <1>2, <1>5, <2>2 DEF NothingSent, NoDone, UnderWay
<1>8. Fresh => Fresh'
  BY <1>2 DEF Fresh
<1>9. \A m \in UnderWay' : m.xid = "DATA" => Genuine(m)
  BY <1>1, <1>5 DEF OneCallInv, UnderWay
<1> QED
  BY <1>2, <1>3, <1>6, <1>7, <1>8, <1>9 DEF OneCallInv, Busy

\* What the client's other steps change.
LEMMA ClientDoes ==
  ASSUME NoOverlap, Busy, clientUp, NothingFails,
         CStep \/ XWorks \/ (Quiet /\ XTimesOut)
  PROVE  /\ Busy'
         /\ isActive' => isActive
         /\ isActive /\ ~Quiet => isActive'
         /\ xPc' = "callback" => xPc = "callback"
         /\ received' # received => xPc = "callback"
<1> USE DEF Busy, NoOverlap, NothingFails
<1>1. CASE Reset
  BY <1>1 DEF Reset, ResetFields
<1>2. CASE Join
  BY <1>2 DEF Join
<1>3. CASE OnReceiveNtf
  BY <1>3 DEF OnReceiveNtf
<1>8. CASE SendChk
  BY <1>8 DEF SendChk
<1>4. CASE OnReceiveWrongLength \/ OnReceiveDamaged
  BY <1>4 DEF OnReceiveWrongLength, OnReceiveDamaged
<1>5. CASE XWorks /\ XTest
  BY <1>5 DEF XWorks, XTest
<1>6. CASE XWorks /\ (XSendCxl \/ XSendCxlThrows)
  <2>1. xPc \in {"cxl", "cxlBreak"} /\ UNCHANGED <<isActive, cPc, received>>
        /\ xPc' # "callback"
    BY <1>6 DEF XWorks, XSendCxl, XSendCxlThrows
  <2> QED
    BY <2>1
<1>9. CASE XWorks /\ OnFileReceived
  BY <1>9 DEF XWorks, OnFileReceived
<1>7. CASE Quiet /\ XTimesOut
  BY <1>7 DEF XTimesOut, XTimeout, XGivesUp, BeginCancel, ActiveAfterCancel
<1> QED
  BY <1>1, <1>2, <1>3, <1>4, <1>5, <1>6, <1>7, <1>8, <1>9
  DEF CStep, XWorks, HandleIncomingMessages

\* ... and when the client goes on.
LEMMA OneCallClient ==
  ASSUME NoOverlap, clientUp, NothingFails, OneCallInv,
         CStep \/ XWorks \/ (Quiet /\ XTimesOut),
         UNCHANGED <<serverLocal, buffer, finished>>
  PROVE  OneCallInv'
<1>1. UNCHANGED <<call, file, disk, sPhase, status, sent, tPc, psn,
                  retransmitPsn, result, rPc, rMsg>>
  BY DEF serverLocal, tranVars, sVars, rVars
<1>2. /\ Busy'
      /\ xPc' = "callback" => xPc = "callback"
      /\ received' # received => xPc = "callback"
  BY ClientDoes DEF OneCallInv
<1>3. /\ \A m \in net' \ net : m \in ClientDatagram /\ m.xid # "DONE"
      /\ UnderWay' \subseteq UnderWay \cup net'
  BY ClientMovesOn DEF ClientNext, XStep, UnderWay, Held
<1>4. \A m \in net' \ net : m.xid \notin {"FIN", "DATA", "DONE"}
  BY <1>3 DEF ClientDatagram
<1>5. FinTold' => FinTold
  BY <1>1, <1>2, <1>3, <1>4 DEF FinTold, UnderWay
<1>6. NothingSent => NothingSent'
  BY <1>1, <1>3, <1>4 DEF NothingSent, NoDone, UnderWay
<1>7. Fresh => Fresh'
  BY <1>1 DEF Fresh
<1>8. \A m \in UnderWay' : m.xid = "DATA" => Genuine(m)
  BY <1>3, <1>4 DEF OneCallInv, UnderWay
<1> QED
  BY <1>1, <1>2, <1>5, <1>6, <1>7, <1>8 DEF OneCallInv

\* So every step keeps it.
LEMMA OneCallNext ==
  ASSUME MaxCalls = 1, TypedInv, NothingFails, CalmInv, OneCallInv,
         [Next]_promptVars
  PROVE  OneCallInv'
<1>1. clientUp /\ NoOverlap
  BY DEF CalmInv, Rested
<1>2. CASE UNCHANGED promptVars
  <2>1. UnderWay' = UnderWay
    BY <1>2 DEF promptVars, endsVars, UnderWay, Held
  <2>2. UNCHANGED <<call, file, disk, sPhase, status, sent, tPc, psn,
                    retransmitPsn, result, rPc, rMsg, isActive, xPc, cPc,
                    received, finished>>
    BY <1>2 DEF promptVars, endsVars, serverLocal, tranVars, sVars, rVars,
       clientLocal
  <2> QED
    BY <2>1, <2>2
    DEF OneCallInv, Busy, FinTold, NothingSent, NoDone, Fresh
<1> QED
  BY <1>1, <1>2, StepIs, OneCallServer, OneCallStart, OneCallServerTakes,
     OneCallNet, OneCallClientTakes, OneCallTransactionTakes, OneCallClient
  DEF ServerMoves, ClientMoves, Abort, ServerAlone, SStep, TStep

-----------------------------------------------------------------------------
(***************************************************************************)
(* An abort in time is heeded.                                             *)
(***************************************************************************)

\* The cancellation is on its way to an X that takes it before T can send
\* the second packet, ...
ClientWillCancel ==
  /\ isActive /\ NoDone
  /\ \E m \in UnderWay : m.xid = "CXL" /\ m.dst = "tran"
  /\ \A m \in UnderWay : m.xid = "DATA" => m.psn = 0
  /\ tPc \in {"none", "open", "loop"} => Fresh

\* ... or X has ended the transaction, ...
ClientHasEnded == ~isActive /\ NoDone

\* ... or nothing overwrites the cancellation that is stored.
CancelStays ==
  /\ status = "CXL" /\ sPc # "send"
  /\ rPc = "apply" => rMsg.xid = "CXL"

Heeded ==
  /\ call = 1 /\ ~Pending /\ sPhase # "FIN"
  /\ ClientWillCancel \/ ClientHasEnded \/ CancelStays

AbortInv == <<1, TRUE>> \in aborted => Heeded

\* A file of one packet never passes: its header says that the packet is
\* empty.  (server_transaction.cpp, CompleteHeader)
LEMMA OnePacketNever ==
  ASSUME ClientInv, NEW h \in ServerDatagram, Genuine(h), h.psn = 0,
         XLastData(h)
  PROVE  FALSE
<1>1. /\ XWrites(h) /\ XAccepts(h, "DATA") /\ cPsn + 1 = cTpn
      /\ FileMatches(tempFile')
      /\ h.pl = h.len /\ h.len = PayloadSize
      /\ ClientTypeOK /\ StreamInv
  BY DEF XLastData, XWrites, XAccepts, Intact, ValidateMessageIntegrity, Fits,
     DataFits, LengthFits, ClientInv
<1>2. /\ Len(tempFile.chunks) = cPsn /\ Len(tempFile'.chunks) = cPsn + 1
      /\ cPsn = 0
  BY <1>1, NextPacket DEF XWrites, IsNext
<1>3. tempFile'.chunks = Content(cCrc) /\ cCrc \in FileId
  BY WholeFile DEF ClientInv
<1>4. tempFile'.chunks
        = Append(tempFile.chunks, [of |-> h.of, psn |-> h.psn, len |-> h.len])
  BY <1>1 DEF XWrites
<1>5. tempFile'.chunks[1].of = h.of /\ tempFile'.chunks[1].len = h.len
  BY <1>1, <1>2, <1>4 DEF ClientTypeOK
<1>6. /\ PayloadSize \in Nat \ {0} /\ WordSize \in Nat
      /\ PayloadSize < WordSize /\ Length[cCrc] \in Nat
  BY <1>3, WireAssumption
<1>7. ClientPackets(Length[cCrc]) = 1
  BY <1>2, <1>3, <1>6, ClientPacketCount DEF Content
<1>8. Content(cCrc)[1] = [of |-> cCrc, psn |-> 0, len |-> Length[cCrc]]
  BY <1>6, <1>7 DEF Content
<1>9. h.of = cCrc /\ Length[cCrc] = PayloadSize
  BY <1>1, <1>3, <1>5, <1>8
<1>10. PICK f \in FileRecord, n \in Nat : h = Data(f, n, f.id, h.dst)
  BY DEF Genuine
<1>11. /\ f.id = cCrc /\ n = 0
       /\ h.pl = HeaderPl(NewFileSize(f), n)
  BY <1>9, <1>10 DEF Data
<1>12. NewFileSize(f) = PayloadSize
  BY <1>6, <1>9, <1>11 DEF NewFileSize
<1>13. HeaderTpn(PayloadSize) = 1
  BY <1>6 DEF HeaderTpn
<1>14. h.pl = PayloadSize % PayloadSize
  BY <1>11, <1>12, <1>13 DEF HeaderPl
<1> QED
  BY <1>1, <1>6, <1>14

\* While the cancellation is on its way to X, nobody rests.
LEMMA CancelWakes ==
  ASSUME TypedInv, NothingFails, clientUp, NoOverlap, Busy, ClientWillCancel
  PROVE  ~Quiet
<1> SUFFICES ASSUME Quiet PROVE FALSE
  OBVIOUS
<1>1. PICK m \in UnderWay : m.xid = "CXL" /\ m.dst = "tran"
  BY DEF ClientWillCancel
<1>2. m \notin net
  BY <1>1 DEF Quiet, Deliverable
<1>3. CRests /\ XRests
  BY DEF Quiet
<1>4. cPc = "recv"
  BY <1>3 DEF CRests, NoOverlap
<1>5. xPc = "recv" /\ buffer["tran"] = <<>>
  BY <1>3, <1>4 DEF XRests, Busy, ClientWillCancel
<1>6. PICK s \in Sockets : m \in Held(s)
  BY <1>1, <1>2 DEF UnderWay
<1>7. s = "tran"
  BY <1>1, <1>6, HeldIs DEF TypedInv
<1> QED
  BY <1>5, <1>6, <1>7, EmptyHeld

\* A stored cancellation that S will not overwrite stays.
LEMMA CancelKept ==
  ASSUME ServerInv, CancelStays,
         ServerAlone \/ \E h \in ClientDatagram : ServerReceive(h)
  PROVE  CancelStays'
<1> USE DEF CancelStays, SendMessage, SendMessageThrows, SendMessageData, Apply
<1>1. sPhase \in {"NTF", "INFO", "DATA", "FIN"}
      /\ (sPc = "wait" => sPhase # "FIN")
  BY DEF ServerInv, ServerTypeOK, CallInv
<1>2. CASE SAnswered
  <2>1. sPhase \in {"NTF", "INFO", "DATA"} /\ status = Answer[sPhase]
    BY <1>1, <1>2 DEF SAnswered
  <2> QED
    BY <2>1 DEF Answer
<1>3. CASE SStep /\ ~SAnswered
  BY <1>3
  DEF SStep, SWorks, SSend, SSendData, SLoad, SCancelled, AfterCancel,
      SUnexpected, STimeout, SCancel, SSendThrows, SErase, SDestroy,
      SJoinReceiver, SDestroyMembers, tranVars, rVars
<1>4. CASE RStep
  BY <1>4 DEF RStep, OnReceiveApply, OnReceiveDangling, RLeaves, RLoops,
     sVars, tranVars
<1>5. CASE AbortFileTransfer
  BY <1>5 DEF AbortFileTransfer, AbortSends, sVars, rVars
<1>6. CASE TStep
  BY <1>6 DEF TStep, TWorks, TWakes, SendFileAsyncWorks, SendFileAsyncWakes,
     TOpen, TOpenFails, TSeesCancel, TSendData, TReadFails, TSendThrows,
     TTail, TIncrement, TCancel, sVars, rVars, tranVars
<1>7. ASSUME NEW h \in ClientDatagram, ServerReceive(h)
      PROVE  CancelStays'
  <2>1. Accepts(h) => h.xid = "CXL"
    BY DEF Accepts, ChkFits
  <2> QED
    BY <1>7, <2>1 DEF ServerReceive, RLoops, sVars
<1> QED
  BY <1>2, <1>3, <1>4, <1>5, <1>6, <1>7 DEF ServerAlone

\* T does not come to a packet but by opening the file or by waking up.
LEMMA OnlyWakesLoop ==
  ASSUME ServerInv,
         SStep \/ RStep \/ TWorks \/ AbortFileTransfer,
         tPc' \in {"none", "open", "loop"}
  PROVE  tPc \in {"none", "open", "loop"}
<1>1. CASE SStep
  BY <1>1 DEF SStep, SWorks, SSend, SSendData, SLoad, SAnswered, SCancelled,
     SUnexpected, STimeout, SCancel, SSendThrows, SErase, SDestroy,
     SJoinReceiver, SDestroyMembers, SendMessageData, tranVars, ServerInv,
     CallInv
<1>2. CASE RStep \/ AbortFileTransfer
  BY <1>2 DEF RStep, OnReceiveApply, OnReceiveDangling, RLeaves,
     AbortFileTransfer, tranVars
<1>3. CASE TWorks
  BY <1>3 DEF TWorks, SendFileAsyncWorks, TOpen, TOpenFails, TSeesCancel,
     TSendData, TReadFails, TSendThrows, TCancel, tranVars
<1> QED
  BY <1>1, <1>2, <1>3

\* The server confirms nothing of its own accord.
LEMMA NoDoneServer ==
  ASSUME ServerInv, NoDone, ServerAlone, UNCHANGED buffer
  PROVE  NoDone'
<1>1. /\ status' = "DONE" =>
           status = "DONE" \/ (rPc = "apply" /\ rMsg.xid = "DONE")
      /\ rPc' = "apply" => rPc = "apply" /\ rMsg' = rMsg
  BY ServerDoes
<1>2. \A m \in net' \ net : m.xid # "DONE"
  BY ServerTells
<1>3. UnderWay' \subseteq UnderWay \cup net'
  BY DEF UnderWay, Held
<1> QED
  BY <1>1, <1>2, <1>3 DEF NoDone, UnderWay

\* The server keeps to it, ...
LEMMA HeededServer ==
  ASSUME TypedInv, Heeded,
         \/ SStep \/ RStep \/ TWorks \/ (sPc \in Calling /\ AbortFileTransfer)
         \/ TWakes /\ ~ClientWillCancel,
         UNCHANGED <<clientLocal, buffer>>
  PROVE  Heeded'
<1>0. ServerAlone
  BY DEF ServerAlone, TStep
<1>1. /\ ServerInv /\ call' = call /\ isActive' = isActive
      /\ sPhase' = "FIN" => sPhase = "FIN" \/ status = "DONE"
  BY <1>0, ServerDoes DEF TypedInv, clientLocal
<1>2. /\ UnderWay' \subseteq UnderWay \cup net' /\ net \subseteq net'
      /\ UnderWay \subseteq UnderWay'
  BY <1>0, NetGrows DEF UnderWay, Held, ServerAlone, ServerNext, ServerCalls
<1>3. ~Pending'
  BY <1>0, <1>1, <1>2, NtfSentOnce, NoneAdded DEF Heeded, Pending
<1>4. sPhase' # "FIN"
  BY <1>1 DEF Heeded, ClientWillCancel, ClientHasEnded, CancelStays, NoDone
<1>5. CASE CancelStays
  BY <1>0, <1>1, <1>3, <1>4, <1>5, CancelKept DEF Heeded
<1>6. CASE ClientHasEnded
  BY <1>0, <1>1, <1>3, <1>4, <1>6, NoDoneServer DEF Heeded, ClientHasEnded
<1>7. CASE ClientWillCancel
  <2>1. NoDone'
    BY <1>0, <1>1, <1>7, NoDoneServer DEF ClientWillCancel
  <2>2. \E m \in UnderWay' : m.xid = "CXL" /\ m.dst = "tran"
    BY <1>2, <1>7 DEF ClientWillCancel
  <2>3. ASSUME NEW m \in UnderWay', m.xid = "DATA" PROVE m.psn = 0
    <3>1. CASE m \in UnderWay
      BY <1>7, <2>3, <3>1 DEF ClientWillCancel
    <3>2. CASE m \in net' \ net
      <4>1. m = Data(file, NextPsn, disk, clientAddr) /\ tPc = "loop"
        BY <1>0, <1>1, <2>3, <3>2, ServerTells
      <4>2. NextPsn = 0
        BY <1>7, <4>1 DEF ClientWillCancel, Fresh, NextPsn, NoPsn
      <4> QED
        BY <4>1, <4>2 DEF Data
    <3> QED
      BY <1>2, <3>1, <3>2 DEF UnderWay
  <2>4. tPc' \in {"none", "open", "loop"} => Fresh'
    BY <1>0, <1>1, <1>7, OnlyWakesLoop, FreshKept DEF ClientWillCancel
  <2>5. ClientWillCancel'
    BY <1>1, <1>7, <2>1, <2>2, <2>3, <2>4 DEF ClientWillCancel
  <2> QED
    BY <1>1, <1>3, <1>4, <2>5 DEF Heeded
<1> QED
  BY <1>5, <1>6, <1>7 DEF Heeded

\* ... also when R takes a datagram, ...
LEMMA HeededServerTakes ==
  ASSUME TypedInv, Heeded, ServerTakes
  PROVE  Heeded'
<1> DEFINE h == Head(buffer["server"])
<1>1. /\ UNCHANGED clientLocal
      /\ UNCHANGED serverLocal \/ ServerReceive(h)
      /\ UnderWay' \subseteq UnderWay
      /\ h \in UnderWay /\ h \in ClientDatagram
      /\ \A m \in UnderWay : m.dst # "server" => m \in UnderWay'
      /\ ServerInv
  BY ServerTakesIs DEF TypedInv
<1> HIDE DEF h
<1>2. isActive' = isActive
  BY <1>1 DEF clientLocal
<1>3. /\ UNCHANGED <<call, sPc, sPhase, status, sent, tPc, psn, retransmitPsn>>
      /\ rPc' = "apply" => (rPc = "apply" /\ rMsg' = rMsg)
                             \/ (rMsg' = h /\ Accepts(h))
  BY <1>1 DEF serverLocal, tranVars, sVars, rVars, ServerReceive, RLoops
<1>4. /\ Accepts(h) /\ h.xid = "RTX" => h.psn \in Nat /\ h.psn <= psn
      /\ Accepts(h) /\ status = "CXL" => h.xid = "CXL"
  BY <1>1, Accepted DEF Accepts, ChkFits
<1>5. ~Pending'
  BY <1>1, <1>3 DEF Heeded, Pending, NtfToSend
<1>6. NoDone => NoDone'
  BY <1>1, <1>3 DEF NoDone
<1>7. Fresh => Fresh'
  BY <1>3, <1>4 DEF Fresh
<1>8. CancelStays => CancelStays'
  BY <1>3, <1>4 DEF CancelStays
<1>9. ClientWillCancel => ClientWillCancel'
  BY <1>1, <1>2, <1>3, <1>6, <1>7 DEF ClientWillCancel
<1> QED
  BY <1>2, <1>3, <1>5, <1>6, <1>8, <1>9 DEF Heeded, ClientHasEnded

\* ... when the network delivers or loses one, ...
LEMMA HeededNet ==
  ASSUME TypedInv, Heeded, Deliver \/ Lose,
         UNCHANGED <<serverLocal, clientLocal>>
  PROVE  Heeded'
<1>1. /\ UnderWay' \subseteq UnderWay
      /\ \A m \in UnderWay : m.xid # "DATA" => m \in UnderWay'
  BY DeliverKeeps, LoseKeeps DEF TypedInv
<1>2. /\ UNCHANGED <<call, sPc, sPhase, status, sent, tPc, psn, retransmitPsn,
                     rPc, rMsg>>
      /\ isActive' = isActive
  BY DEF serverLocal, tranVars, sVars, rVars, clientLocal
<1>3. ~Pending'
  BY <1>1, <1>2 DEF Heeded, Pending, NtfToSend
<1>4. /\ NoDone => NoDone'
      /\ Fresh => Fresh'
      /\ CancelStays => CancelStays'
  BY <1>1, <1>2 DEF NoDone, Fresh, CancelStays
<1>5. ClientWillCancel => ClientWillCancel'
  BY <1>1, <1>2, <1>4 DEF ClientWillCancel
<1> QED
  BY <1>2, <1>3, <1>4, <1>5 DEF Heeded, ClientHasEnded

\* ... when C takes one, which is not a notification, ...
LEMMA HeededClientTakes ==
  ASSUME TypedInv, Heeded, ClientTakes
  PROVE  Heeded'
<1> DEFINE h == Head(buffer["main"])
<1>1. /\ UNCHANGED <<serverLocal>>
      /\ UNCHANGED clientLocal \/ Begin(h)
      /\ UnderWay' \subseteq UnderWay /\ h \in UnderWay
      /\ \A m \in UnderWay : m.dst # "main" => m \in UnderWay'
  BY ClientTakesIs
<1> HIDE DEF h
<1>2. ~Begin(h)
  BY <1>1 DEF Begin, Heeded, Pending
<1>3. /\ UNCHANGED <<call, sPc, sPhase, status, sent, tPc, psn, retransmitPsn,
                     rPc, rMsg>>
      /\ isActive' = isActive
  BY <1>1, <1>2 DEF serverLocal, tranVars, sVars, rVars, clientLocal
<1>4. ~Pending'
  BY <1>1, <1>3 DEF Heeded, Pending, NtfToSend
<1>5. /\ NoDone => NoDone'
      /\ Fresh => Fresh'
      /\ CancelStays => CancelStays'
  BY <1>1, <1>3 DEF NoDone, Fresh, CancelStays
<1>6. ClientWillCancel => ClientWillCancel'
  BY <1>1, <1>3, <1>5 DEF ClientWillCancel
<1> QED
  BY <1>3, <1>4, <1>5, <1>6 DEF Heeded, ClientHasEnded

\* ... when X takes one: the cancellation, or another that leaves it on its
\* way or ends the transaction, ...
LEMMA HeededTransactionTakes ==
  ASSUME TypedInv, NoOverlap, OneCallInv, Heeded, TransactionTakes
  PROVE  Heeded'
<1> DEFINE h == Head(buffer["tran"])
<1>1. /\ UNCHANGED serverLocal /\ XReceive(h)
      /\ UnderWay' \subseteq UnderWay \cup net'
      /\ h \in UnderWay /\ h \in ServerDatagram
      /\ \A m \in UnderWay : m # h => m \in UnderWay'
      /\ ClientInv
  BY TransactionTakesIs DEF TypedInv
<1> HIDE DEF h
<1>2. UNCHANGED <<call, sPc, sPhase, status, sent, tPc, psn, retransmitPsn,
                  rPc, rMsg>>
  BY <1>1 DEF serverLocal, tranVars, sVars, rVars
<1>3. /\ xPc = "recv"
      /\ \A m \in net' \ net : m.xid = "DONE" => XLastData(h)
      /\ h.xid = "CXL" => ~isActive'
  BY <1>1, TransactionDoes
<1>4. \A m \in net' \ net : m.xid \notin {"NTF", "DATA"}
  <2>1. \A m \in net' \ net : m \in ClientDatagram
    BY <1>1, ClientReceives DEF ClientReceive
  <2> QED
    BY <2>1 DEF ClientDatagram
<1>5. ~Pending'
  BY <1>1, <1>2, <1>4, NoneAdded DEF Heeded, NtfToSend
<1>6. CASE CancelStays
  BY <1>2, <1>5, <1>6 DEF Heeded, CancelStays
<1>7. CASE ClientHasEnded
  BY <1>3, <1>7 DEF ClientHasEnded, NoOverlap
<1>8. CASE ClientWillCancel
  <2>1. ~XLastData(h)
    <3>1. XLastData(h) => h.xid = "DATA"
      BY DEF XLastData, XWrites, XAccepts
    <3> QED
      BY <1>1, <1>8, <3>1, OnePacketNever DEF ClientWillCancel, OneCallInv
  <2>2. NoDone'
    BY <1>1, <1>2, <1>3, <1>8, <2>1 DEF ClientWillCancel, NoDone, UnderWay
  <2>3. CASE ~isActive'
    BY <1>2, <1>5, <2>2, <2>3 DEF Heeded, ClientHasEnded
  <2>4. CASE isActive'
    <3>1. \E m \in UnderWay' : m.xid = "CXL" /\ m.dst = "tran"
      BY <1>1, <1>3, <1>8, <2>4 DEF ClientWillCancel
    <3>2. \A m \in UnderWay' : m.xid = "DATA" => m.psn = 0
      BY <1>1, <1>4, <1>8 DEF ClientWillCancel, UnderWay
    <3>3. Fresh => Fresh'
      BY <1>2 DEF Fresh
    <3>4. ClientWillCancel'
      BY <1>2, <1>8, <2>2, <2>4, <3>1, <3>2, <3>3 DEF ClientWillCancel
    <3> QED
      BY <1>2, <1>5, <3>4 DEF Heeded
  <2> QED
    BY <2>3, <2>4
<1> QED
  BY <1>6, <1>7, <1>8 DEF Heeded

\* ... and when the client goes on.
LEMMA HeededClient ==
  ASSUME TypedInv, NothingFails, clientUp, NoOverlap, Busy, Heeded,
         CStep \/ XWorks \/ (Quiet /\ XTimesOut),
         UNCHANGED <<serverLocal, buffer>>
  PROVE  Heeded'
<1>1. UNCHANGED <<call, sPc, sPhase, status, sent, tPc, psn, retransmitPsn,
                  rPc, rMsg>>
  BY DEF serverLocal, tranVars, sVars, rVars
<1>2. /\ isActive' => isActive
      /\ isActive /\ ~Quiet => isActive'
  BY ClientDoes
<1>3. /\ \A m \in net' \ net : m \in ClientDatagram /\ m.xid # "DONE"
      /\ UnderWay' \subseteq UnderWay \cup net'
      /\ UnderWay \subseteq UnderWay'
  BY ClientMovesOn, NetGrows DEF ClientNext, XStep, UnderWay, Held
<1>4. \A m \in net' \ net : m.xid \notin {"NTF", "DATA", "DONE"}
  BY <1>3 DEF ClientDatagram
<1>5. ~Pending'
  BY <1>1, <1>3, <1>4, NoneAdded DEF Heeded, NtfToSend
<1>6. /\ NoDone => NoDone'
      /\ Fresh => Fresh'
      /\ CancelStays => CancelStays'
  BY <1>1, <1>3, <1>4 DEF NoDone, Fresh, CancelStays, UnderWay
<1>7. ClientWillCancel => ClientWillCancel'
  <2>1. ASSUME ClientWillCancel PROVE isActive'
    BY <1>2, <2>1, CancelWakes DEF ClientWillCancel
  <2> QED
    BY <1>1, <1>3, <1>4, <1>6, <2>1 DEF ClientWillCancel, UnderWay
<1> QED
  BY <1>1, <1>2, <1>5, <1>6, <1>7 DEF Heeded, ClientHasEnded

\* The abort itself: if S is about to send, it has not asked for the file to
\* be confirmed.
LEMMA HeededAbort ==
  ASSUME MaxCalls = 1, TypedInv, CalmInv, OneCallInv, Abort, InTime
  PROVE  Heeded'
<1>1. /\ sPc \in Calling /\ AbortFileTransfer /\ ServerAlone
      /\ UNCHANGED <<clientLocal, buffer, sPc, sPhase, call, rPc, tPc, rMsg,
                     psn, retransmitPsn, sent>>
      /\ ServerInv
  BY DEF Abort, ServerMoves, ServerAlone, AbortFileTransfer, sVars, rVars,
     TypedInv
<1>2. /\ clientAddr = "tran" /\ rPc = "recv" /\ sPhase # "FIN"
  BY DEF InTime
<1>3. status' = "CXL" /\ net' = net \cup {Simple("CXL", "tran")}
  BY <1>1, <1>2, PromptAssumption
  DEF AbortFileTransfer, AbortSends, SendMessage, Send, Datagram
<1>4. UnderWay' = UnderWay \cup {Simple("CXL", "tran")}
  BY <1>1, <1>3 DEF UnderWay, Held
<1>5. call = 1
  <2>1. call # 0
    BY <1>1 DEF CalmInv, Calling
  <2> QED
    BY <1>1, <2>1 DEF ServerInv, ServerTypeOK
<1>6. ~Pending
  BY <1>2 DEF CalmInv, Rested, Awaited, Unanswered
<1>7. ~Pending'
  BY <1>1, <1>4, <1>6 DEF Pending, NtfToSend, Simple
<1>8. isActive' = isActive
  BY <1>1 DEF clientLocal
<1>9. CASE sPc # "send"
  BY <1>1, <1>2, <1>3, <1>5, <1>7, <1>9 DEF Heeded, CancelStays
<1>10. CASE sPc = "send"
  <2>1. sPhase \in {"INFO", "DATA"}
    BY <1>1, <1>2, <1>6, <1>10 DEF Pending, NtfToSend, ServerInv, ServerTypeOK
  <2>2. tPc = "none"
    BY <1>1, <1>10, <2>1 DEF ServerInv, CallInv
  <2>3. Fresh /\ NothingSent
    BY <2>2 DEF OneCallInv, Fresh
  <2>4. NoDone'
    BY <1>1, <1>3, <1>4, <2>3 DEF NothingSent, NoDone, Simple
  <2>5. Fresh'
    BY <1>1, <2>3 DEF Fresh
  <2>6. \A m \in UnderWay' : m.xid # "DATA"
    BY <1>4, <2>3 DEF NothingSent, Simple
  <2>7. \E m \in UnderWay' : m.xid = "CXL" /\ m.dst = "tran"
    <3>1. Simple("CXL", "tran").xid = "CXL" /\ Simple("CXL", "tran").dst = "tran"
      BY DEF Simple
    <3> QED
      BY <1>4, <3>1
  <2>8. ClientWillCancel' \/ ClientHasEnded'
    BY <2>4, <2>5, <2>6, <2>7 DEF ClientWillCancel, ClientHasEnded
  <2> QED
    BY <1>1, <1>2, <1>5, <1>7, <2>8 DEF Heeded
<1> QED
  BY <1>9, <1>10

\* So every step keeps AbortInv.
LEMMA AbortNext ==
  ASSUME MaxCalls = 1, TypedInv, NothingFails, CalmInv, OneCallInv, AbortInv,
         [Next]_promptVars
  PROVE  AbortInv'
<1>1. clientUp /\ NoOverlap /\ Busy
  BY DEF CalmInv, Rested, OneCallInv
<1>2. CASE Abort
  <2>1. aborted' = {<<call, InTime>>} /\ aborted = {}
    BY <1>2 DEF Abort
  <2>2. <<1, TRUE>> \in aborted' => InTime
    BY <2>1
  <2> QED
    BY <1>2, <2>2, HeededAbort DEF AbortInv
<1>3. CASE UNCHANGED promptVars
  <2>1. UnderWay' = UnderWay
    BY <1>3 DEF promptVars, endsVars, UnderWay, Held
  <2>2. UNCHANGED <<call, sPc, sPhase, status, sent, tPc, psn, retransmitPsn,
                    rPc, rMsg, isActive, aborted>>
    BY <1>3 DEF promptVars, endsVars, serverLocal, tranVars, sVars, rVars,
       clientLocal
  <2> QED
    BY <2>1, <2>2
    DEF AbortInv, Heeded, Pending, NtfToSend, ClientWillCancel,
        ClientHasEnded, CancelStays, NoDone, Fresh
<1>4. CASE ~Abort /\ ~UNCHANGED promptVars
  <2>1. aborted' = aborted
    BY <1>4, StepIs
  <2>2. SUFFICES ASSUME Heeded PROVE Heeded'
    BY <2>1 DEF AbortInv
  <2>3. ~StartFileTransfer
    BY <2>2 DEF StartFileTransfer, Heeded
  <2>4. Quiet => ~ClientWillCancel
    BY <1>1, CancelWakes
  <2> QED
    BY <1>1, <1>4, <2>2, <2>3, <2>4, StepIs, HeededServer, HeededServerTakes,
       HeededNet, HeededClientTakes, HeededTransactionTakes, HeededClient
    DEF ServerMoves, ClientMoves, SStep
<1> QED
  BY <1>2, <1>3, <1>4

\* The call that was aborted in time does not succeed, and its file does not
\* reach the handler, when it is the only call: see AbortHeeded.
\* (server.cpp, AbortFileTransfer)
THEOREM AbortTold ==
  ASSUME MaxCalls = 1
  PROVE  Spec => []AbortHeeded
<1> DEFINE Inv == PromptInv /\ OneCallInv /\ AbortInv
<1>1. Init => Inv
  <2>1. Init => AbortInv
    BY DEF Init, AbortInv
  <2> QED
    BY <2>1, PromptInvInit, OneCallInit
<1>2. Inv /\ [Next]_promptVars => Inv'
  BY PromptInvNext, OneCallNext, AbortNext DEF PromptInv
<1>3. Inv => AbortHeeded
  BY DEF OneCallInv, FinTold, AbortInv, Heeded, AbortHeeded, FileReceived
<1> QED
  BY <1>1, <1>2, <1>3, PTL DEF Spec

=============================================================================
