------------------------- MODULE ServerTransaction -------------------------
(***************************************************************************)
(* server_transaction.cpp: the state of one ServerTransaction object and   *)
(* the thread T that SendFileAsync starts.  The object is shared by three  *)
(* more threads, which module Server adds: the caller of StartFileTransfer *)
(* (S), the receiver (R) and callers of AbortFileTransfer.                 *)
(*                                                                         *)
(* A step is one access to a shared atomic, together with the thread-local *)
(* work and the sends that commute with the other threads' steps.          *)
(***************************************************************************)
EXTENDS UdpNetwork

VARIABLES
  serverUp,       \* FALSE once the process has run into std::terminate
  disk,           \* the content the path of the current file leads to
  file,           \* file_path_, new_file_version_, new_file_size_, ..crc32_
  status,         \* status_
  psn,            \* packet_sequence_number_
  retransmitPsn,  \* retransmit_psn_
  clientAddr,     \* client_address_
  tPc,            \* control state of T
  sent,           \* history: the packets this transaction has sent
  owed            \* history: T has taken a request and sent nothing since

fixedVars == <<file, disk>>
packetVars == <<psn, retransmitPsn, sent, owed>>
tranVars == <<fixedVars, status, packetVars, clientAddr, tPc>>

NoPsn == -1

TPN == ServerPackets(NewFileSize(file))

TRunning == tPc \in {"open", "loop", "tail", "incr"}

\* Fault: thr_ is detached.
ThrJoinedAlways == TRUE

\* The destructor's thr_.join() can return.
ThrJoined == ~TRunning

-----------------------------------------------------------------------------
\* The constructor, for a transfer of file f to the client's address.
Construct(f) ==
  /\ file' = f
  /\ disk' = f.id
  /\ status' = "NTF"
  /\ psn' = 0
  /\ retransmitPsn' = NoPsn
  /\ clientAddr' = "main"
  /\ tPc' = "none"
  /\ sent' = {}
  /\ owed' = FALSE

\* The datagram SendMessage(id) builds for the current client address.
Datagram(id) ==
  CASE id = "NTF"  -> Ntf(file, clientAddr)
    [] id = "INFO" -> Info(file, clientAddr)
    [] OTHER       -> Simple(id, clientAddr)

\* SendMessage(id) for a control message, with the status change it starts
\* with.  The status change stays when Send throws.
SendMessage(id) == status' = id /\ Send(Datagram(id))

SendMessageThrows(id) == status' = id /\ UNCHANGED net

\* SendMessage(DATA): SendFileAsync starts T.
SendMessageData ==
  /\ status' = "DATA"
  /\ tPc' = "open"
  /\ UNCHANGED net

-----------------------------------------------------------------------------
(***************************************************************************)
(* OnReceive, split where another thread can come between the tests of     *)
(* status_ and packet_sequence_number_ and the assignment they guard.      *)
(***************************************************************************)

\* Faults: DONE is not held against the counter or the contents, RTX not
\* against the counter, CHK not against the status.
DoneEarlyFits(m) == m.crc = file.id
DoneForeignFits(m) == psn = TPN
RtxAnyFits(m) == TRUE
ChkAnyFits == TRUE

ChkFits == status = "NTF"

DoneFits(m) ==
  /\ psn = TPN
  /\ m.version = file.version
  /\ m.size = NewFileSize(file)
  /\ m.crc = file.id

RtxFits(m) == m.psn <= psn

\* m passes the tests of its case.
Accepts(m) ==
  \/ m.xid = "CHK" /\ ChkFits
  \/ m.xid = "RDY" /\ status = "INFO"
  \/ m.xid = "DONE" /\ status = "DATA" /\ DoneFits(m)
  \/ m.xid = "CXL"
  \/ m.xid = "RTX" /\ status = "DATA" /\ RtxFits(m)

\* What an accepted m assigns.
Apply(m) ==
  IF m.xid = "RTX"
  THEN retransmitPsn' = m.psn /\ UNCHANGED status
  ELSE status' = m.xid /\ UNCHANGED retransmitPsn

-----------------------------------------------------------------------------
(***************************************************************************)
(* The thread of SendFileAsync.                                            *)
(***************************************************************************)

TAt(pc) == serverUp /\ tPc = pc

\* T gives up: SendMessage(CXL) and return.
TCancel == SendMessage("CXL") /\ tPc' = "done"

TOpen ==
  /\ TAt("open")
  /\ psn' = 0
  /\ tPc' = IF TPN > 0 THEN "loop" ELSE "done"
  /\ UNCHANGED <<net, serverUp, fixedVars, status, retransmitPsn, clientAddr,
                 sent, owed>>

TOpenFails ==
  /\ IoFails
  /\ TAt("open")
  /\ TCancel
  /\ UNCHANGED <<serverUp, fixedVars, packetVars, clientAddr>>

\* The head of the loop body: leave on a cancellation, ...
TSeesCancel ==
  /\ TAt("loop") /\ status = "CXL"
  /\ tPc' = "done"
  /\ UNCHANGED <<net, serverUp, fixedVars, status, packetVars, clientAddr>>

\* ... take a pending retransmission request, ...
\* Fault: the request is dropped.
NextPsnIgnoresRequest == psn

NextPsn == IF retransmitPsn # NoPsn THEN retransmitPsn ELSE psn

TTakesRequest ==
  /\ psn' = NextPsn
  /\ retransmitPsn' = NoPsn

\* ... read the packet, which fails on a file that has become too short, ...
Readable ==
  FileOffset(NextPsn) + ReadLength(NewFileSize(file), NextPsn) <= Length[disk]

TReadFails ==
  /\ TAt("loop") /\ status # "CXL"
  /\ IoFails \/ ~Readable
  /\ TTakesRequest
  /\ TCancel
  /\ UNCHANGED <<serverUp, fixedVars, clientAddr, sent, owed>>

\* ... and send it.
TSendData ==
  /\ TAt("loop") /\ status # "CXL"
  /\ Readable
  /\ TTakesRequest
  /\ Send(Data(file, NextPsn, disk, clientAddr))
  /\ sent' = sent \cup {NextPsn}
  /\ owed' = FALSE
  /\ tPc' = IF NextPsn = TPN - 1 THEN "tail" ELSE "incr"
  /\ UNCHANGED <<serverUp, fixedVars, status, clientAddr>>

\* Send throws in T, for DATA or for a CXL: nothing catches it.
TSendThrows ==
  /\ IoFails
  /\ TAt("open") \/ (TAt("loop") /\ status # "CXL")
  /\ serverUp' = FALSE
  /\ UNCHANGED <<net, tranVars>>

\* Fault: the request is stored whether there is one or not.
TTailPsnUnconditional == retransmitPsn

TTailPsn == NextPsn

\* After the last packet: the second of waiting, and another look at
\* retransmit_psn_.  The increment of the loop follows.
TTail ==
  /\ TAt("tail")
  /\ psn' = TTailPsn
  /\ retransmitPsn' = NoPsn
  /\ owed' = (retransmitPsn # NoPsn)
  /\ tPc' = "incr"
  /\ UNCHANGED <<net, serverUp, fixedVars, status, clientAddr, sent>>

\* After the pause between packets.
TIncrement ==
  /\ TAt("incr")
  /\ psn' = psn + 1
  /\ tPc' = IF psn + 1 < TPN THEN "loop" ELSE "done"
  /\ UNCHANGED <<net, serverUp, fixedVars, status, retransmitPsn, clientAddr,
                 sent, owed>>

\* SendFileAsync, in two parts: what T does at once, and what it does when
\* one of its sleeps is over.
SendFileAsyncWorks ==
  \/ TOpen \/ TOpenFails \/ TSeesCancel \/ TSendData \/ TReadFails
  \/ TSendThrows

SendFileAsyncWakes == TTail \/ TIncrement

=============================================================================
