------------------------- MODULE ClientTransaction -------------------------
(***************************************************************************)
(* client_transaction.cpp: the client's one ClientTransaction object and   *)
(* the thread X that receives on the transaction's own socket.  The        *)
(* client's receiver C (module Client) resets and restarts the object      *)
(* whenever it finds is_active_ false, which X makes true of a transaction *)
(* before it has finished with it: X's steps are split there.              *)
(***************************************************************************)
EXTENDS UdpNetwork

CONSTANT NoCrc  \* the value of new_file_crc32_ after Reset

ASSUME NoCrcAssumption == NoCrc \notin FileId

VARIABLES
  clientUp,    \* FALSE once the process has run into std::terminate
  isActive,    \* is_active_
  cStatus,     \* status_
  serverAddr,  \* server_address_: "zero" after Reset, "server" otherwise
  cTpn,        \* total_packet_number_
  cPsn,        \* packet_sequence_number_
  streamOpen,  \* new_file_stream_ is open and can be written to
  tempFile,    \* the file at new_file_path_: its size and its chunks
  cVersion,    \* new_file_version_
  cSize,       \* new_file_size_
  cCrc,        \* new_file_crc32_
  xPc,         \* control state of X, "none" when there is no X to join
  handler,     \* a file handler is attached to the client
  received,    \* history: the calls of the file handler
  verified     \* history: the files DONE has been sent for, as chunks

fileVars == <<streamOpen, tempFile, cTpn, cPsn, cSize, cCrc>>
histVars == <<received, verified>>
envVars == <<clientUp, handler, histVars>>

EmptyFile == [bytes |-> 0, chunks |-> <<>>]

\* Reset, up to the join of X.
ResetFields ==
  /\ serverAddr' = "zero"
  /\ cTpn' = 0
  /\ cPsn' = 0
  /\ streamOpen' = FALSE
  /\ cVersion' = 0
  /\ cSize' = 0
  /\ cCrc' = NoCrc

\* Fault: a cancelled transaction stays active.
ActiveAfterCancelKept == isActive

ActiveAfterCancel == FALSE

\* SendMessage(CXL) up to is_active_ = false; XSendCxl is the rest.
BeginCancel(next) ==
  /\ cStatus' = "CXL"
  /\ isActive' = ActiveAfterCancel
  /\ xPc' = next

XReceives(m) ==
  /\ clientUp /\ xPc = "recv"
  /\ m.dst = "tran"
  /\ serverAddr' = "server"

-----------------------------------------------------------------------------
\* The loop condition of HandleIncomingMessages.
XTest ==
  /\ clientUp /\ xPc = "test"
  /\ xPc' = IF isActive THEN "recv" ELSE "none"
  /\ UNCHANGED <<net, envVars, isActive, cStatus, serverAddr, cVersion,
                 fileVars>>

\* Faults: a timeout is ignored, or taken for the FIN that got lost.
XTimeoutContinues ==
  xPc' = "test" /\ UNCHANGED <<isActive, cStatus>>

XTimeoutDelivers ==
  /\ isActive' = FALSE
  /\ cStatus' = IF cStatus = "DONE" THEN "FIN" ELSE "CXL"
  /\ xPc' = IF cStatus = "DONE" THEN "callback" ELSE "cxlBreak"

XGivesUp == BeginCancel("cxlBreak")

\* Nothing received for three seconds.
XTimeout ==
  /\ clientUp /\ xPc = "recv"
  /\ XGivesUp
  /\ UNCHANGED <<net, envVars, serverAddr, cVersion, fileVars>>

\* The rest of SendMessage(CXL).  sendto refuses the address Reset leaves,
\* and nothing in X catches the exception.
XSendCxl ==
  /\ clientUp /\ xPc \in {"cxl", "cxlBreak"}
  /\ serverAddr # "zero"
  /\ Send(Simple("CXL", "server"))
  /\ xPc' = IF xPc = "cxl" THEN "test" ELSE "none"
  /\ UNCHANGED <<envVars, isActive, cStatus, serverAddr, cVersion, fileVars>>

XSendCxlThrows ==
  /\ clientUp /\ xPc \in {"cxl", "cxlBreak"}
  /\ serverAddr = "zero"
  /\ clientUp' = FALSE
  /\ UNCHANGED <<net, isActive, cStatus, serverAddr, cVersion, fileVars, xPc,
                 handler, histVars>>

-----------------------------------------------------------------------------
(***************************************************************************)
(* OnReceive in X, by message.                                             *)
(***************************************************************************)

\* A notification that reaches X makes it join itself, which throws.
XNtf(m) ==
  /\ m.xid = "NTF" /\ m.form = "good" /\ XReceives(m)
  /\ cStatus' = "NTF"
  /\ cVersion' = m.version
  /\ clientUp' = FALSE
  /\ UNCHANGED <<net, isActive, fileVars, xPc, handler, histVars>>

\* The tests of the other cases: for INFO the status, the version and the
\* size, for DATA the status and the length each of its three cases asks for.
InfoFits(m) == cStatus = "CHK" /\ m.version = cVersion /\ m.size # 0

DataFits(m) ==
  /\ cStatus = IF m.psn = 0 THEN "RDY" ELSE "DATA"
  /\ LengthFits(m, cSize)

Fits(m) ==
  CASE m.xid = "NTF"  -> m.form = "good"
    [] m.xid = "INFO" -> InfoFits(m)
    [] m.xid = "DATA" -> DataFits(m)
    [] m.xid = "FIN"  -> cStatus = "DONE"
    [] m.xid = "CXL"  -> TRUE

Intact(m) ==
  CASE m.xid = "NTF"  -> m.form # "damaged"
    [] m.xid = "DATA" -> ValidateMessageIntegrity(m)
    [] OTHER          -> TRUE

\* The integrity check fails: the message is discarded.
XDiscards(m) ==
  /\ XReceives(m)
  /\ ~Intact(m)
  /\ UNCHANGED <<net, envVars, isActive, cStatus, cVersion, fileVars, xPc>>

\* Any other check fails: the transaction is cancelled.
XRejects(m) ==
  /\ XReceives(m)
  /\ Intact(m) /\ ~Fits(m)
  /\ BeginCancel("cxl")
  /\ UNCHANGED <<net, envVars, cVersion, fileVars>>

XAccepts(m, xid) == m.xid = xid /\ XReceives(m) /\ Intact(m) /\ Fits(m)

XTakesInfo(m) ==
  /\ cSize' = m.size
  /\ cCrc' = m.crc
  /\ cTpn' = ClientPackets(m.size)

\* Fault: sending RDY leaves status_ at INFO.
AfterInfoKept == "INFO"

AfterInfo == "RDY"

\* An open stream, which an X that C did not wait for has left, refuses to be
\* opened once more: is_open() still holds, but every write fails from then on
\* until Reset closes it, as on a closed one.
XInfo(m) ==
  /\ XAccepts(m, "INFO")
  /\ XTakesInfo(m)
  /\ streamOpen' = ~streamOpen
  /\ tempFile' = IF streamOpen THEN tempFile ELSE EmptyFile
  /\ cStatus' = AfterInfo
  /\ Send(Simple("RDY", "server"))
  /\ UNCHANGED <<envVars, isActive, cVersion, cPsn, xPc>>

XInfoOpenFails(m) ==
  /\ IoFails /\ ~streamOpen
  /\ XAccepts(m, "INFO")
  /\ XTakesInfo(m)
  /\ BeginCancel("cxl")
  /\ UNCHANGED <<net, envVars, cVersion, cPsn, streamOpen, tempFile>>

\* Fault: a packet is written without comparing its number.
IsNextAny(m) == TRUE

IsNext(m) == m.psn = cPsn

\* Not the packet it waits for: ask for that one.
XDataOutOfOrder(m) ==
  /\ XAccepts(m, "DATA")
  /\ ~IsNext(m)
  /\ Send(Rtx(cPsn))
  /\ UNCHANGED <<envVars, isActive, cStatus, cVersion, fileVars, xPc>>

\* write fails, as it always does on a closed stream.
XDataWriteFails(m) ==
  /\ IoFails \/ ~streamOpen
  /\ XAccepts(m, "DATA")
  /\ IsNext(m)
  /\ BeginCancel("cxl")
  /\ UNCHANGED <<net, envVars, cVersion, fileVars>>

XWrites(m) ==
  /\ XAccepts(m, "DATA")
  /\ IsNext(m)
  /\ streamOpen
  /\ tempFile' = [bytes  |-> tempFile.bytes + m.len,
                  chunks |-> Append(tempFile.chunks,
                               [of |-> m.of, psn |-> m.psn, len |-> m.len])]
  /\ cPsn' = cPsn + 1

XData(m) ==
  /\ XWrites(m)
  /\ cPsn + 1 # cTpn
  /\ cStatus' = "DATA"
  /\ UNCHANGED <<net, envVars, isActive, cVersion, streamOpen, cTpn, cSize,
                 cCrc, xPc>>

\* Fault: only the size is checked.
FileMatchesSize(f) == f.bytes = cSize

\* The size and CRC checks on the complete file.
FileMatches(f) == f.bytes = cSize /\ f.chunks = Content(cCrc)

XLastData(m) ==
  /\ XWrites(m)
  /\ cPsn + 1 = cTpn
  /\ streamOpen' = FALSE
  /\ FileMatches(tempFile')
  /\ cStatus' = "DONE"
  /\ Send(Done(cVersion, cSize, cCrc))
  /\ verified' = verified \cup {tempFile'.chunks}
  /\ UNCHANGED <<clientUp, isActive, cVersion, cTpn, cSize, cCrc, xPc,
                 handler, received>>

XLastDataMismatch(m) ==
  /\ XWrites(m)
  /\ cPsn + 1 = cTpn
  /\ streamOpen' = FALSE
  /\ ~FileMatches(tempFile')
  /\ BeginCancel("cxl")
  /\ UNCHANGED <<net, envVars, cVersion, cTpn, cSize, cCrc>>

\* Fault: the transaction is reset before the handler is called.
XEndsReset ==
  /\ cStatus' = "FIN" /\ isActive' = FALSE
  /\ xPc' = "callback"
  /\ cVersion' = 0

XEnds ==
  /\ cStatus' = "FIN" /\ isActive' = FALSE
  /\ xPc' = "callback"
  /\ UNCHANGED cVersion

XFin(m) ==
  /\ XAccepts(m, "FIN")
  /\ XEnds
  /\ UNCHANGED <<net, envVars, fileVars>>

\* client_->OnFileReceived(new_file_path_, new_file_version_).
OnFileReceived ==
  /\ clientUp /\ xPc = "callback"
  /\ received' = IF handler
                 THEN received \cup {[version |-> cVersion,
                                      chunks |-> tempFile.chunks]}
                 ELSE received
  /\ xPc' = "test"
  /\ UNCHANGED <<net, clientUp, isActive, cStatus, serverAddr, cVersion,
                 fileVars, handler, verified>>

\* A cancellation removes the file if it is still open.  So it does after a
\* refused opening, but then nobody looks at the file again.
XCxl(m) ==
  /\ XAccepts(m, "CXL")
  /\ streamOpen' = FALSE
  /\ tempFile' = IF streamOpen THEN EmptyFile ELSE tempFile
  /\ BeginCancel("cxl")
  /\ UNCHANGED <<net, envVars, cVersion, cTpn, cPsn, cSize, cCrc>>

OnReceive(m) ==
  \/ XDiscards(m) \/ XRejects(m) \/ XNtf(m)
  \/ XInfo(m) \/ XInfoOpenFails(m)
  \/ XDataOutOfOrder(m) \/ XDataWriteFails(m)
  \/ XData(m) \/ XLastData(m) \/ XLastDataMismatch(m)
  \/ XFin(m) \/ XCxl(m)

\* X, but for what it receives and for its timeout.
HandleIncomingMessages == XTest \/ XSendCxl \/ XSendCxlThrows \/ OnFileReceived

=============================================================================
