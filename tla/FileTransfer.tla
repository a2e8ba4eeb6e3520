---------------------------- MODULE FileTransfer ----------------------------
(***************************************************************************)
(* What trftp promises, without messages, packets, threads or timers: an   *)
(* application transfers files one after the other, a call may fail in any *)
(* way, but it succeeds only when the client has checked the whole file,   *)
(* and the client hands on only whole files of calls that succeeded.       *)
(***************************************************************************)
EXTENDS Naturals

CONSTANTS
  Calls,  \* how many transfers the application asks for
  Wanted  \* Wanted[i]: the content of the file of the i-th

VARIABLES
  begun,     \* how many transfers have been asked for
  running,   \* the last of them has not returned
  finished,  \* the transfers that have succeeded
  checked,   \* the contents the client has checked
  delivered  \* the contents the client has handed to its application

vars == <<begun, running, finished, checked, delivered>>

Init ==
  /\ begun = 0
  /\ running = FALSE
  /\ finished = {}
  /\ checked = {}
  /\ delivered = {}

Begin ==
  /\ ~running /\ begun < Calls
  /\ begun' = begun + 1
  /\ running' = TRUE
  /\ UNCHANGED <<finished, checked, delivered>>

\* The client has a whole file, of the last transfer or an earlier one.
Check ==
  /\ \E i \in 1..begun : checked' = checked \cup {Wanted[i]}
  /\ UNCHANGED <<begun, running, finished, delivered>>

Finish ==
  /\ running /\ Wanted[begun] \in checked
  /\ finished' = finished \cup {begun}
  /\ UNCHANGED <<begun, running, checked, delivered>>

\* The call returns, whether it has succeeded or not.
Return ==
  /\ running
  /\ running' = FALSE
  /\ UNCHANGED <<begun, finished, checked, delivered>>

Deliver ==
  /\ \E i \in finished : delivered' = delivered \cup {Wanted[i]}
  /\ UNCHANGED <<begun, running, finished, checked>>

Next == Begin \/ Check \/ Finish \/ Return \/ Deliver

Spec == Init /\ [][Next]_vars
=============================================================================
