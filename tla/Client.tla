------------------------------- MODULE Client -------------------------------
(***************************************************************************)
(* client.cpp: the receiver C on the client's well-known socket, which     *)
(* begins a transaction on every notification that finds is_active_ false, *)
(* and the destructor.  Begin runs in C while the thread X of the previous *)
(* transaction may not have finished: C waits for it only after it has set *)
(* is_active_ and reset the fields they share.                             *)
(***************************************************************************)
EXTENDS ClientTransaction

VARIABLES
  cPc,   \* control state of C; the last three are ~Client's
  cMsg   \* the notification C is working on

xVars == <<isActive, cStatus, serverAddr, cVersion, fileVars, xPc, handler,
           histVars>>
clientLocal == <<clientUp, xVars, cPc, cMsg>>
clientVars == <<net, clientLocal>>

NoNtf == [xid |-> "NTF", dst |-> "main", version |-> 0, form |-> "good"]

ClientInit ==
  /\ clientUp = TRUE
  /\ isActive = FALSE
  /\ cStatus = "FIN"
  /\ serverAddr = "zero"
  /\ cTpn = 0 /\ cPsn = 0
  /\ streamOpen = FALSE /\ tempFile = EmptyFile
  /\ cVersion = 0 /\ cSize = 0 /\ cCrc = NoCrc
  /\ xPc = "none"
  /\ handler = TRUE
  /\ received = {} /\ verified = {}
  /\ cPc = "recv" /\ cMsg = NoNtf

-----------------------------------------------------------------------------
\* HandleIncomingMessages hands a notification to Begin, up to the
\* assignment of is_active_.  Any other message, and any message while a
\* transaction is active, changes nothing.
Begin(m) ==
  /\ clientUp /\ cPc = "recv"
  /\ m.dst = "main" /\ m.xid = "NTF"
  /\ ~isActive
  /\ isActive' = TRUE
  /\ cMsg' = m
  /\ cPc' = "reset"
  /\ UNCHANGED <<net, envVars, cStatus, serverAddr, cVersion, fileVars, xPc>>

\* Reset, called by Begin, and by the destructor after it has stopped C.
Reset ==
  /\ clientUp /\ cPc \in {"reset", "stopped"}
  /\ ResetFields
  /\ cPc' = IF cPc = "reset" THEN "join" ELSE "lastJoin"
  /\ UNCHANGED <<net, envVars, isActive, cStatus, tempFile, xPc, cMsg>>

Join ==
  /\ clientUp /\ cPc \in {"join", "lastJoin"}
  /\ xPc = "none"
  /\ cPc' = IF cPc = "join" THEN "ntf" ELSE "gone"
  /\ UNCHANGED <<net, clientUp, xVars, cMsg>>

\* OnReceive for the notification: start X, ...
OnReceiveNtf ==
  /\ clientUp /\ cPc = "ntf"
  /\ cMsg.form = "good"
  /\ serverAddr' = "server"
  /\ cStatus' = "NTF"
  /\ cVersion' = cMsg.version
  /\ xPc' = "test"
  /\ cPc' = "chk"
  /\ UNCHANGED <<net, envVars, isActive, fileVars, cMsg>>

\* ... cancel it for its length, ...
OnReceiveWrongLength ==
  /\ clientUp /\ cPc = "ntf"
  /\ cMsg.form = "length"
  /\ serverAddr' = "server"
  /\ cStatus' = "CXL"
  /\ isActive' = FALSE
  /\ Send(Simple("CXL", "server"))
  /\ cPc' = "recv"
  /\ UNCHANGED <<envVars, cVersion, fileVars, xPc, cMsg>>

\* ... or discard it, with is_active_ set and no X to clear it.
OnReceiveDamaged ==
  /\ clientUp /\ cPc = "ntf"
  /\ cMsg.form = "damaged"
  /\ serverAddr' = "server"
  /\ cPc' = "recv"
  /\ UNCHANGED <<net, envVars, isActive, cStatus, cVersion, fileVars, xPc, cMsg>>

\* SendMessage(CHK), while X is already running.
SendChk ==
  /\ clientUp /\ cPc = "chk"
  /\ cStatus' = "CHK"
  /\ Send(Simple("CHK", "server"))
  /\ cPc' = "recv"
  /\ UNCHANGED <<envVars, isActive, serverAddr, cVersion, fileVars, xPc, cMsg>>

\* recvfrom or sendto throws in C or in X, and nothing catches it.
SocketThrows ==
  /\ IoFails
  /\ clientUp
  /\ (cPc \in {"recv", "chk"} \/ xPc \in {"recv", "cxl", "cxlBreak"})
  /\ clientUp' = FALSE
  /\ UNCHANGED <<net, xVars, cPc, cMsg>>

\* ~Client stops C, then destroys transaction_, whose destructor is Reset.
StopClient ==
  /\ clientUp /\ cPc = "recv"
  /\ cPc' = "stopped"
  /\ UNCHANGED <<net, clientUp, xVars, cMsg>>

\* AttachFileHandler and DetachFileHandler.
SetHandler(attached) ==
  /\ clientUp
  /\ handler' = attached
  /\ UNCHANGED <<net, clientUp, isActive, cStatus, serverAddr, cVersion,
                 fileVars, xPc, histVars, cPc, cMsg>>

AttachFileHandler == ~handler /\ SetHandler(TRUE)
DetachFileHandler == handler /\ SetHandler(FALSE)

-----------------------------------------------------------------------------
CStep ==
  \/ Reset \/ Join
  \/ OnReceiveNtf \/ OnReceiveWrongLength \/ OnReceiveDamaged
  \/ SendChk

XWorks == HandleIncomingMessages /\ UNCHANGED <<cPc, cMsg>>
XTimesOut == XTimeout /\ UNCHANGED <<cPc, cMsg>>
XStep == XWorks \/ XTimesOut

XReceive(m) == OnReceive(m) /\ UNCHANGED <<cPc, cMsg>>

ClientReceive(m) == Begin(m) \/ XReceive(m)

ClientNext == CStep \/ XStep

\* What the application does.
ClientCalls == StopClient \/ AttachFileHandler \/ DetachFileHandler

-----------------------------------------------------------------------------
(***************************************************************************)
(* Properties of the client, whatever it receives.                         *)
(***************************************************************************)

Chunk == [of : FileId, psn : Nat, len : Nat]

\* Type invariant of the client's variables.
ClientTypeOK ==
  /\ clientUp \in BOOLEAN
  /\ isActive \in BOOLEAN
  /\ cStatus \in {"NTF", "CHK", "RDY", "DATA", "DONE", "FIN", "CXL"}
  /\ serverAddr \in {"zero", "server"}
  /\ cTpn \in Nat
  /\ cPsn \in Nat
  /\ streamOpen \in BOOLEAN
  /\ tempFile \in [bytes : Nat, chunks : Seq(Chunk)]
  /\ cVersion \in Version
  /\ cSize \in Nat
  /\ cCrc \in FileId \cup {NoCrc}
  /\ xPc \in {"none", "test", "recv", "cxl", "cxlBreak", "callback"}
  /\ handler \in BOOLEAN
  /\ received \subseteq [version : Version, chunks : Seq(Chunk)]
  /\ verified \subseteq Seq(Chunk)
  /\ cPc \in {"recv", "reset", "join", "ntf", "chk",
              "stopped", "lastJoin", "gone"}
  /\ cMsg \in [xid : {"NTF"}, dst : {"main"}, version : Version,
               form : NtfForm]

\* Whatever order packets come in, and although Begin and the destructor
\* reset the counter under a running X, an open file holds consecutive
\* packets from the first on, each once, and as many as
\* packet_sequence_number_ says.  X may open a file with the counter of an
\* earlier one, but then writes nothing to it.
\* (client_transaction.cpp, cases INFO and DATA, and Reset)
WrittenInOrder ==
  streamOpen =>
    /\ \A i \in DOMAIN tempFile.chunks : tempFile.chunks[i].psn = i - 1
    /\ tempFile.chunks = <<>> \/ Len(tempFile.chunks) = cPsn

\* The file handler is only ever given a whole file that has passed the
\* checks, and never a mixture of two, although packets of other transfers
\* arrive and a new notification may already be resetting the transaction
\* while the handler is being called.
\* (client_transaction.cpp, cases DATA and FIN; client.cpp, OnFileReceived)
DeliveredIntact ==
  \A r \in received :
    r.chunks \in verified /\ \E id \in FileId : r.chunks = Content(id)

\* X is working on a transaction or C is starting one whenever is_active_ is
\* set: otherwise nothing would ever clear it.  A damaged notification is
\* the one exception.  (client_transaction.cpp, Begin and SendMessage)
ActiveHasOwner ==
  isActive /\ clientUp /\ cMsg.form # "damaged"
    => xPc # "none" \/ cPc \in {"reset", "join", "ntf"}

\* The thread of a transaction ends, so that Begin's join and the
\* destructor's return.  (client_transaction.cpp, HandleIncomingMessages)
ThreadEnds == xPc # "none" ~> xPc = "none" \/ ~clientUp

\* The destructor returns.  (client.cpp, ~Client)
DestructorReturns == cPc = "stopped" ~> cPc = "gone" \/ ~clientUp

\* A client that is not busy with a transfer takes the next notification.
\* (client_transaction.cpp, OnReceive: a damaged message is discarded)
NeverWedged ==
  isActive /\ clientUp => xPc # "none" \/ cPc \in {"reset", "join", "ntf"}

\* The handler is told the version of the notification.
\* (client_transaction.h, the comment on new_file_version_)
VersionFromNtf == \A r \in received : r.version # 0

=============================================================================
