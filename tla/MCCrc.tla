------------------------------- MODULE MCCrc -------------------------------
(* Both uses of CalculateCrc32. They share no state: a behaviour is either *)
(* a call of CalculateFileCrc32 or the way of one message.                 *)
EXTENDS FileCrc, DamagedMessage

\* Every file of one byte, so that every entry of the table is used, and
\* files of one chunk, of a chunk and a bit, and of two chunks.
MCRewrites ==
  {<<>>, <<{0}, {7}>>, <<{0}, {7}, {1, 4}>>, <<{}, {}, {}, {}>>,
   <<{0, 2}, {1}, 0..7, {6}>>}
MCFiles == {<<b>> : b \in Byte} \cup MCRewrites
MCChunkSize == 2

MCMessages ==
  {[before |-> <<{0, 3}>>, crc |-> {5, 31}, after |-> <<{1, 7}>>],
   [before |-> <<{}>>, crc |-> {}, after |-> <<{}, {6}>>]}
MCMaxFlips == 3

VARIABLE task
MCInit ==
  /\ FileCrcInit /\ MessageInit
  /\ \/ task = "file" /\ sent.after = <<{1, 7}>>
     \/ task = "message" /\ disk = <<>>
MCNext ==
  /\ \/ task = "file" /\ FileCrcNext /\ UNCHANGED messageVars
     \/ task = "message" /\ Flip /\ UNCHANGED fileCrcVars
  /\ UNCHANGED task
MCSpec == MCInit /\ [][MCNext]_<<fileCrcVars, messageVars, task>>
============================================================================
