------------------------------ MODULE MCPrompt ------------------------------
EXTENDS TrftpPrompt

\* Packets of two bytes in a four-bit word: files of five packets.
MCLength == [f |-> 9, g |-> 9]

MCFiles == <<[id |-> "f", version |-> 1], [id |-> "g", version |-> 2]>>

\* All circumstances, but for an abort of a call that is made while the client
\* is busy with an earlier one.
MCScenarios ==
  [fastAnswer : BOOLEAN, slowCheck : BOOLEAN, paced : BOOLEAN,
   mayAbort : {FALSE}, mayLose : {1..2, 0..4}]
    \cup
  [fastAnswer : BOOLEAN, slowCheck : BOOLEAN, paced : {TRUE},
   mayAbort : {TRUE}, mayLose : {{}, 0..4}]

\* A client that checks its file within the second T sleeps.
MCFastCheck ==
  [fastAnswer : {FALSE}, slowCheck : {FALSE}, paced : {TRUE},
   mayAbort : {FALSE}, mayLose : {{}}]

\* Answers that come before S waits for them.
MCFastAnswer ==
  [fastAnswer : {TRUE}, slowCheck : {TRUE}, paced : {TRUE},
   mayAbort : {FALSE}, mayLose : {1..2}]
=============================================================================
