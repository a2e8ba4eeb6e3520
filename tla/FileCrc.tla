------------------------------ MODULE FileCrc ------------------------------
(***************************************************************************)
(* CalculateFileCrc32 of util.cpp: the file is read in chunks, the CRC-32  *)
(* of one chunk continued by the next. The server calls it for the file it *)
(* offers, the client for the file it has received; meanwhile another      *)
(* program may rewrite or remove the file, and the medium may fail.        *)
(***************************************************************************)
EXTENDS Crc32

CONSTANTS
  Files,      \* contents the file may have at first, sequences of bytes
  Rewrites,   \* contents another program may put in their place
  ChunkSize   \* size of read_buf

ASSUME FileCrcAssumption ==
  /\ Files \subseteq Seq(Byte) /\ Rewrites \subseteq Seq(Byte)
  /\ ChunkSize \in Nat \ {0}

VARIABLES
  disk,       \* the content under the path: <<c>>, or <<>> if there is none
  touched,    \* another program has changed or removed the file
  mediumFails, \* opening or reading has failed
  step,       \* the next step of CalculateFileCrc32
  fileSize,   \* file_size
  good,       \* state of ifs: no read has failed or come short
  bytes,      \* what was read; its length is total_read_size
  crc,        \* crc32
  answer      \* the value returned

readVars == <<fileSize, good, bytes, crc>>
fileCrcVars == <<disk, touched, mediumFails, step, readVars, answer>>

FileCrcInit ==
  /\ disk \in {<<>>} \cup {<<c>> : c \in Files}
  /\ touched = FALSE /\ mediumFails = FALSE
  /\ step = "exists" /\ fileSize = 0 /\ good = TRUE
  /\ bytes = <<>> /\ crc = Zero /\ answer = Zero

Return(value) == step' = "returned" /\ answer' = value

\* std::filesystem::exists
Exists ==
  /\ step = "exists"
  /\ \/ disk = <<>> /\ Return(Zero)
     \/ disk # <<>> /\ step' = "open" /\ UNCHANGED answer
  /\ UNCHANGED <<disk, touched, mediumFails, readVars>>

Open ==
  /\ step = "open" /\ disk # <<>>
  /\ step' = "size"
  /\ UNCHANGED <<disk, touched, mediumFails, readVars, answer>>

\* The file has gone, or cannot be opened for another reason.
OpenFails ==
  /\ step = "open"
  /\ mediumFails' = (disk # <<>>)
  /\ Return(Zero)
  /\ UNCHANGED <<disk, touched, readVars>>

\* std::filesystem::file_size asks by path and throws if the file has gone;
\* nothing catches the exception here.
TakeSize ==
  /\ step = "size"
  /\ \/ disk = <<>> /\ step' = "threw" /\ UNCHANGED fileSize
     \/ disk # <<>> /\ step' = "read" /\ fileSize' = Len(disk[1])
  /\ UNCHANGED <<disk, touched, mediumFails, good, bytes, crc, answer>>

\* What the next ifs.read finds.
NextChunk == SubSeq(disk[1], Len(bytes) + 1,
                    Min({Len(bytes) + ChunkSize, Len(disk[1])}))

\* Fault: the loop looks at the stream only, so a short last chunk is lost.
ReadChunkWholeOnly ==
  /\ step = "read" /\ good
  /\ \E n \in 1..Len(NextChunk) :
       LET buf == SubSeq(NextChunk, 1, n) IN
       /\ good' = (n = ChunkSize)
       /\ bytes' = IF good' THEN bytes \o buf ELSE bytes
       /\ crc' = IF good' THEN CalculateCrc32(buf, crc) ELSE crc
       /\ mediumFails' = (mediumFails \/ n < Len(NextChunk))
  /\ UNCHANGED <<disk, touched, step, fileSize, answer>>

\* ifs.read delivers something: a whole chunk, or less at the end of the file
\* or when the medium fails; after less than a chunk the stream has failed.
ReadChunk ==
  /\ step = "read" /\ good
  /\ \E n \in 1..Len(NextChunk) :
       LET buf == SubSeq(NextChunk, 1, n) IN
       /\ bytes' = bytes \o buf
       /\ crc' = CalculateCrc32(buf, crc)
       /\ good' = (n = ChunkSize)
       /\ mediumFails' = (mediumFails \/ n < Len(NextChunk))
  /\ UNCHANGED <<disk, touched, step, fileSize, answer>>

\* Fault: the number of bytes read is not compared with the size.
VerdictUnchecked == crc

\* The value returned after the last read.
Verdict == IF fileSize # Len(bytes) THEN Zero ELSE crc

\* ifs.read delivers nothing: the stream has failed, it is at the end of the
\* file, or the medium fails now.
ReadEnds ==
  /\ step = "read"
  /\ mediumFails' = (mediumFails \/ (good /\ NextChunk # <<>>))
  /\ Return(Verdict)
  /\ UNCHANGED <<disk, touched, readVars>>

\* Another program rewrites the file in place, or removes it. An open stream
\* still reads a removed file, so a removal matters up to file_size only.
Touch ==
  /\ ~touched /\ disk # <<>>
  /\ touched' = TRUE
  /\ \/ \E c \in Rewrites : disk' = <<c>>
     \/ step \in {"exists", "open", "size"} /\ disk' = <<>>
  /\ UNCHANGED <<mediumFails, step, readVars, answer>>

FileCrcNext ==
  \/ Exists \/ Open \/ OpenFails \/ TakeSize \/ ReadChunk \/ ReadEnds \/ Touch

FileCrcSpec == FileCrcInit /\ [][FileCrcNext]_fileCrcVars

----------------------------------------------------------------------------

\* While the file is read, crc32 is the CRC-32 of everything read so far,
\* whatever the sizes the reads delivered: the table of CalculateCrc32 is
\* right and chunks are chained (util.cpp:35-43, 68-72).
ChunksAreChained == crc = ReferenceCrc(bytes)

\* With nobody touching the file and no failing medium, the answer is the
\* CRC-32 of the file, also when its length is a multiple of the chunk
\* (util.cpp:68, gcount).
CrcOfFile ==
  step = "returned" /\ ~touched /\ ~mediumFails =>
    answer = IF disk = <<>> THEN Zero ELSE ReferenceCrc(disk[1])

\* An answer other than 0 is the CRC-32 of as many bytes as the file had when
\* its size was taken, and of the file itself unless another program touched
\* it (util.cpp:74-79): a medium that fails half way is noticed.
AnswerIsOfWholeFile ==
  step = "returned" /\ answer # Zero =>
    /\ answer = ReferenceCrc(bytes) /\ Len(bytes) = fileSize
    /\ ~touched => bytes = disk[1]
============================================================================
