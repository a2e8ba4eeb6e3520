------------------------- MODULE ThreadStreamProofs -------------------------
(***************************************************************************)
(* Lines of the log are not mixed, for any number of threads, consoles and *)
(* files: a target has one mutex at a time, of which one thread at most is *)
(* the holder, and a thread half way through a line has written the last   *)
(* piece of its target.                                                    *)
(***************************************************************************)
EXTENDS ThreadStream, TLAPS

Places == {"idle", "enter", "find", "make", "open", "line", "begin", "rest",
           "unlock"}

Piece == Threads \X Nat \X {"begin", "rest"}

\* Type invariant of the log's variables.
LogTypeOK ==
  /\ at \in [Threads -> Places]
  /\ target \in [Threads -> Targets]
  /\ osMutex \in [Threads -> Targets \X Nat]
  /\ lines \in [Threads -> Nat]
  /\ mapLocked \in BOOLEAN
  /\ made \in [Paths -> Nat]
  /\ output \in [Targets -> Seq(Piece)]

\* GetFileMutex is a critical section: one thread at a time is in it.
InMap(t) == at[t] \in {"find", "make"}

MapInv ==
  /\ \A t \in Threads : InMap(t) => mapLocked
  /\ \A t, u \in Threads : InMap(t) /\ InMap(u) => t = u
  /\ \A t \in Threads : at[t] = "make" => made[target[t]] = 0

\* Which mutex a thread has been given.
Given(t) == at[t] \in {"line", "begin", "rest", "unlock"}

TargetInv ==
  \A t \in Threads :
    /\ at[t] \in {"enter", "find", "make", "open"} => target[t] \in Paths
    /\ at[t] = "open" \/ Given(t) =>
         /\ target[t] \in Paths =>
              made[target[t]] > 0 /\ osMutex[t] = <<target[t], made[target[t]]>>
         /\ target[t] \in Consoles => osMutex[t] = <<target[t], 1>>

\* The destructor's critical section.
Writing(t) == at[t] \in {"begin", "rest", "unlock"}

LockInv ==
  /\ \A t \in Threads : Writing(t) => osMutex[t] \in locked
  /\ \A t, u \in Threads :
       Writing(t) /\ Writing(u) /\ target[t] = target[u] => t = u

\* A thread between the two pieces of its line has written the last piece.
HalfWritten ==
  \A t \in Threads :
    at[t] = "rest" =>
      /\ output[target[t]] # <<>>
      /\ output[target[t]][Len(output[target[t]])] = <<t, lines[t], "begin">>

LogInv ==
  LogTypeOK /\ MapInv /\ TargetInv /\ LockInv /\ HalfWritten /\ LinesAreWhole

-----------------------------------------------------------------------------
\* What every step that leaves the output alone has to show of it.
LEMMA OutputKept ==
  ASSUME LinesAreWhole, UNCHANGED output
  PROVE  LinesAreWhole'
BY DEF LinesAreWhole

\* The invariant holds before any thread logs.
LEMMA LogInitInv == LogInit => LogInv
<1> SUFFICES ASSUME LogInit PROVE LogInv
  OBVIOUS
<1>1. \A t \in Threads : at[t] = "idle"
  BY DEF LogInit
<1>2. LogTypeOK
  <2>1. (CHOOSE g \in Targets : TRUE) \in Targets
    BY LogAssumption DEF Targets
  <2>2. target \in [Threads -> Targets]
    BY <2>1 DEF LogInit
  <2>3. osMutex \in [Threads -> Targets \X Nat]
    BY <2>2 DEF LogInit
  <2>4. output \in [Targets -> Seq(Piece)]
    BY DEF LogInit
  <2> QED
    BY <2>2, <2>3, <2>4 DEF LogInit, LogTypeOK, Places
<1>3. LinesAreWhole
  BY DEF LogInit, LinesAreWhole
<1>4. MapInv /\ TargetInv /\ LockInv /\ HalfWritten
  BY <1>1 DEF MapInv, InMap, TargetInv, Given, LockInv, Writing, HalfWritten
<1> QED
  BY <1>2, <1>3, <1>4 DEF LogInv

\* A thread begins a line, which touches only what is its own.
LEMMA BeginLineInv ==
  ASSUME LogInv, NEW t \in Threads, NEW g \in Targets, BeginLine(t, g)
  PROVE  LogInv'
<1> USE DEF LogInv
<1>1. /\ at[t] = "idle"
      /\ at' \in [Threads -> Places]
      /\ at'[t] = IF g \in Consoles THEN "line" ELSE "enter"
      /\ \A u \in Threads \ {t} : at'[u] = at[u]
  BY DEF BeginLine, Goes, LogTypeOK, Places
<1>2. /\ target'[t] = g
      /\ osMutex'[t] = <<g, IF g \in Consoles THEN 1 ELSE 0>>
      /\ \A u \in Threads \ {t} :
           target'[u] = target[u] /\ osMutex'[u] = osMutex[u] /\ lines'[u] = lines[u]
  BY DEF BeginLine, LogTypeOK
<1>3. LogTypeOK'
  <2>1. lines' \in [Threads -> Nat] /\ target' \in [Threads -> Targets]
    BY DEF BeginLine, LogTypeOK
  <2>2. osMutex' \in [Threads -> Targets \X Nat]
    BY DEF BeginLine, LogTypeOK
  <2> QED
    BY <1>1, <2>1, <2>2 DEF BeginLine, LogTypeOK
<1>4. MapInv'
  BY <1>1, <1>2 DEF BeginLine, MapInv, InMap
<1>5. TargetInv'
  BY <1>1, <1>2, LogAssumption DEF BeginLine, TargetInv, Given, Targets
<1>6. LockInv' /\ HalfWritten'
  BY <1>1, <1>2 DEF BeginLine, LockInv, Writing, HalfWritten
<1>7. LinesAreWhole'
  BY OutputKept DEF BeginLine
<1> QED
  BY <1>3, <1>4, <1>5, <1>6, <1>7

\* GetFileMutex: a mutex is made only for a path that has none, by the one
\* thread that has map_mutex, so no thread's mutex is replaced.
LEMMA GetFileMutexInv ==
  ASSUME LogInv, NEW t \in Threads,
         EnterMap(t) \/ FindMutex(t) \/ FindNone(t) \/ MakeMutex(t)
  PROVE  LogInv'
<1> USE DEF LogInv
<1>1. /\ UNCHANGED <<target, lines, locked, output>>
      /\ at' \in [Threads -> Places]
      /\ \A u \in Threads \ {t} : at'[u] = at[u]
      /\ at[t] \in {"enter", "find", "make"} /\ at'[t] \in {"find", "make", "open"}
  BY DEF EnterMap, FindMutex, FindNone, MakeMutex, Goes, LogTypeOK, Places
<1>2. target[t] \in Paths /\ made[target[t]] \in Nat
  BY <1>1 DEF TargetInv, LogTypeOK
<1>3. /\ osMutex' \in [Threads -> Targets \X Nat]
      /\ \A u \in Threads \ {t} : osMutex'[u] = osMutex[u]
      /\ at'[t] = "open" => osMutex'[t] = <<target[t], made'[target[t]]>>
  <2>1. CASE EnterMap(t)
    BY <2>1 DEF EnterMap, Goes, LogTypeOK
  <2>2. CASE FindNone(t)
    BY <2>2 DEF FindNone, Goes, LogTypeOK
  <2>3. CASE FindMutex(t)
    <3>1. osMutex' = [osMutex EXCEPT ![t] = <<target[t], made[target[t]]>>]
          /\ UNCHANGED made
      BY <2>3 DEF FindMutex, HasMutex
    <3> QED
      BY <1>2, <3>1 DEF LogTypeOK
  <2>4. CASE MakeMutex(t)
    <3>1. /\ osMutex' = [osMutex EXCEPT ![t] = <<target[t], made'[target[t]]>>]
          /\ made' = [made EXCEPT ![target[t]] = @ + 1]
      BY <2>4 DEF MakeMutex, HasMutex
    <3>2. made'[target[t]] = made[target[t]] + 1
      BY <1>2, <3>1 DEF LogTypeOK
    <3> QED
      BY <1>2, <3>1, <3>2 DEF LogTypeOK
  <2> QED
    BY <2>1, <2>2, <2>3, <2>4
<1>4. LogTypeOK'
  <2>1. made' \in [Paths -> Nat]
    BY <1>2 DEF EnterMap, FindMutex, FindNone, MakeMutex, LogTypeOK
  <2>2. mapLocked' \in BOOLEAN
    BY DEF EnterMap, FindMutex, FindNone, MakeMutex, LogTypeOK
  <2> QED
    BY <1>1, <1>3, <2>1, <2>2 DEF LogTypeOK
<1>5. CASE EnterMap(t)
  <2>1. mapLocked' /\ ~mapLocked /\ at'[t] = "find" /\ UNCHANGED made
    BY <1>5 DEF EnterMap, MapFree, Goes, LogTypeOK
  <2>2. MapInv'
    BY <1>1, <2>1 DEF MapInv, InMap
  <2>3. TargetInv'
    BY <1>1, <1>2, <1>3, <2>1 DEF TargetInv, Given
  <2> QED
    BY <1>1, <1>3, <1>4, <2>2, <2>3, OutputKept DEF LockInv, Writing, HalfWritten
<1>6. CASE FindMutex(t)
  <2>1. /\ UNCHANGED made /\ made[target[t]] > 0
        /\ at[t] = "find" /\ at'[t] = "open"
    BY <1>6 DEF FindMutex, HasMutex, Goes, LogTypeOK
  <2>2. MapInv'
    BY <1>1, <2>1 DEF MapInv, InMap
  <2>3. TargetInv'
    BY <1>1, <1>2, <1>3, <2>1, LogAssumption DEF TargetInv, Given
  <2> QED
    BY <1>1, <1>3, <1>4, <2>2, <2>3, OutputKept DEF LockInv, Writing, HalfWritten
<1>7. CASE FindNone(t)
  <2>1. /\ UNCHANGED <<made, mapLocked>>
        /\ at[t] = "find" /\ at'[t] = "make" /\ made[target[t]] = 0
    BY <1>7 DEF FindNone, Goes, LogTypeOK
  <2>2. MapInv'
    BY <1>1, <2>1 DEF MapInv, InMap
  <2>3. TargetInv'
    BY <1>1, <1>2, <1>3, <2>1 DEF TargetInv, Given
  <2> QED
    BY <1>1, <1>3, <1>4, <2>2, <2>3, OutputKept DEF LockInv, Writing, HalfWritten
<1>8. CASE MakeMutex(t)
  <2>1. /\ at[t] = "make" /\ at'[t] = "open" /\ made[target[t]] = 0
        /\ made' = [made EXCEPT ![target[t]] = 1]
    <3>1. at[t] = "make" /\ at'[t] = "open"
      BY <1>8 DEF MakeMutex, Goes, LogTypeOK
    <3>2. made[target[t]] = 0 /\ made' = [made EXCEPT ![target[t]] = @ + 1]
      BY <1>8, <3>1 DEF MakeMutex, MapInv
    <3> QED
      BY <1>2, <3>1, <3>2 DEF LogTypeOK
  <2>2. MapInv'
    BY <1>1, <2>1 DEF MapInv, InMap, LogTypeOK
  <2>3. TargetInv'
    BY <1>1, <1>2, <1>3, <2>1, LogAssumption DEF TargetInv, Given, LogTypeOK
  <2> QED
    BY <1>1, <1>3, <1>4, <2>2, <2>3, OutputKept DEF LockInv, Writing, HalfWritten
<1> QED
  BY <1>5, <1>6, <1>7, <1>8
\* The constructor's last step, or its exception.
LEMMA OpenFileInv ==
  ASSUME LogInv, NEW t \in Threads, OpenFile(t)
  PROVE  LogInv'
<1> USE DEF LogInv
<1>1. /\ UNCHANGED <<target, osMutex, lines, mapLocked, made, locked, output>>
      /\ at[t] = "open" /\ at' \in [Threads -> Places]
      /\ at'[t] \in {"line", "idle"}
      /\ \A u \in Threads \ {t} : at'[u] = at[u]
  BY DEF OpenFile, Goes, LogTypeOK, Places
<1>2. LogTypeOK' /\ MapInv'
  BY <1>1 DEF LogTypeOK, MapInv, InMap
<1>3. TargetInv'
  BY <1>1 DEF TargetInv, Given
<1>4. LockInv' /\ HalfWritten'
  BY <1>1 DEF LockInv, Writing, HalfWritten
<1> QED
  BY <1>1, <1>2, <1>3, <1>4, OutputKept

\* A thread that takes the mutex of its target finds nobody writing to it:
\* a writer would have been given the same mutex.
LEMMA LockTargetInv ==
  ASSUME LogInv, NEW t \in Threads, LockTarget(t)
  PROVE  LogInv'
<1> USE DEF LogInv
<1>1. /\ UNCHANGED <<target, osMutex, lines, mapLocked, made, output>>
      /\ at[t] = "line" /\ at' \in [Threads -> Places] /\ at'[t] = "begin"
      /\ \A u \in Threads \ {t} : at'[u] = at[u]
      /\ osMutex[t] \notin locked /\ locked' = locked \cup {osMutex[t]}
  BY DEF LockTarget, TargetFree, Goes, LogTypeOK, Places
<1>2. LogTypeOK' /\ MapInv' /\ TargetInv'
  <2>1. LogTypeOK' /\ MapInv'
    BY <1>1 DEF LogTypeOK, MapInv, InMap
  <2>2. TargetInv'
    BY <1>1 DEF TargetInv, Given
  <2> QED
    BY <2>1, <2>2
<1>3. \A u \in Threads : Writing(u) => target[u] # target[t]
  <2> SUFFICES ASSUME NEW u \in Threads, Writing(u), target[u] = target[t]
               PROVE  FALSE
    OBVIOUS
  <2>1. osMutex[u] \in locked
    BY DEF LockInv
  <2>2. target[t] \in Targets /\ Given(t) /\ Given(u)
    BY <1>1 DEF LogTypeOK, Given, Writing
  <2>3. osMutex[u] = osMutex[t]
    BY <2>2 DEF TargetInv, Targets
  <2> QED
    BY <1>1, <2>1, <2>3
<1>4. LockInv' /\ HalfWritten'
  BY <1>1, <1>3 DEF LockInv, Writing, HalfWritten
<1> QED
  BY <1>1, <1>2, <1>4, OutputKept

\* The holder writes a piece: the second comes right after its own first.
LEMMA WritePieceInv ==
  ASSUME LogInv, NEW t \in Threads, WritePiece(t)
  PROVE  LogInv'
<1> USE DEF LogInv
<1> DEFINE g == target[t]
           piece == <<t, lines[t], at[t]>>
<1>1. /\ UNCHANGED <<target, osMutex, lines, mapLocked, made, locked>>
      /\ at' \in [Threads -> Places]
      /\ \/ at[t] = "begin" /\ at'[t] = "rest"
         \/ at[t] = "rest" /\ at'[t] = "unlock"
      /\ \A u \in Threads \ {t} : at'[u] = at[u]
      /\ output' = [output EXCEPT ![g] = Append(@, piece)]
  BY DEF WritePiece, Goes, LogTypeOK, Places
<1>2. g \in Targets /\ output[g] \in Seq(Piece) /\ piece \in Piece
  BY <1>1 DEF LogTypeOK, Piece
<1>3. /\ output'[g] = Append(output[g], piece)
      /\ output' \in [Targets -> Seq(Piece)]
      /\ \A h \in Targets \ {g} : output'[h] = output[h]
  BY <1>1, <1>2 DEF LogTypeOK
<1>4. /\ Len(output'[g]) = Len(output[g]) + 1
      /\ output'[g] # <<>> /\ output'[g][Len(output[g]) + 1] = piece
      /\ \A i \in 1..Len(output[g]) : output'[g][i] = output[g][i]
  BY <1>2, <1>3
<1>5. LogTypeOK' /\ MapInv' /\ TargetInv'
  <2>1. LogTypeOK'
    BY <1>1, <1>3 DEF LogTypeOK
  <2>2. MapInv'
    BY <1>1 DEF MapInv, InMap
  <2>3. TargetInv'
    BY <1>1 DEF TargetInv, Given
  <2> QED
    BY <2>1, <2>2, <2>3
<1>6. LockInv'
  BY <1>1 DEF LockInv, Writing
<1>7. HalfWritten'
  <2> SUFFICES ASSUME NEW u \in Threads, at'[u] = "rest"
               PROVE  /\ output'[target[u]] # <<>>
                      /\ output'[target[u]][Len(output'[target[u]])]
                           = <<u, lines[u], "begin">>
    BY <1>1 DEF HalfWritten
  <2>1. CASE u = t
    BY <1>1, <1>4, <2>1
  <2>2. CASE u # t
    <3>1. at[u] = "rest" /\ target[u] # g
      BY <1>1, <2>2 DEF LockInv, Writing
    <3>2. target[u] \in Targets
      BY DEF LogTypeOK
    <3> QED
      BY <1>3, <3>1, <3>2 DEF HalfWritten
  <2> QED
    BY <2>1, <2>2
<1>8. LinesAreWhole'
  <2> SUFFICES ASSUME NEW h \in Targets, NEW i \in DOMAIN output'[h],
                      output'[h][i][3] = "rest"
               PROVE  i > 1 /\ output'[h][i - 1]
                                = <<output'[h][i][1], output'[h][i][2], "begin">>
    BY DEF LinesAreWhole
  <2>1. CASE h # g
    BY <1>3, <2>1 DEF LinesAreWhole
  <2>2. CASE h = g /\ i \in 1..Len(output[g])
    <3>1. output[g][i][3] = "rest" /\ i \in DOMAIN output[g]
      BY <1>2, <1>4, <2>2
    <3>2. i > 1 /\ output[g][i - 1] = <<output[g][i][1], output[g][i][2], "begin">>
      BY <1>2, <3>1 DEF LinesAreWhole
    <3>3. i - 1 \in 1..Len(output[g])
      BY <1>2, <2>2, <3>2
    <3> QED
      BY <1>4, <2>2, <3>2, <3>3
  <2>3. CASE h = g /\ i = Len(output[g]) + 1
    <3>1. output'[h][i] = piece /\ at[t] = "rest"
      BY <1>4, <2>3
    <3>2. /\ output[g] # <<>>
          /\ output[g][Len(output[g])] = <<t, lines[t], "begin">>
      BY <3>1 DEF HalfWritten
    <3>3. Len(output[g]) \in Nat /\ Len(output[g]) > 0
      BY <1>2, <3>2
    <3> QED
      BY <1>4, <2>3, <3>1, <3>2, <3>3
  <2> QED
    BY <1>2, <1>3, <1>4, <2>1, <2>2, <2>3
<1> QED
  BY <1>5, <1>6, <1>7, <1>8

\* The holder releases the mutex of its target, which no other thread holds.
LEMMA UnlockTargetInv ==
  ASSUME LogInv, NEW t \in Threads, UnlockTarget(t)
  PROVE  LogInv'
<1> USE DEF LogInv
<1>1. /\ UNCHANGED <<target, osMutex, lines, mapLocked, made, output>>
      /\ at[t] = "unlock" /\ at' \in [Threads -> Places] /\ at'[t] = "idle"
      /\ \A u \in Threads \ {t} : at'[u] = at[u]
      /\ locked' = locked \ {osMutex[t]}
  BY DEF UnlockTarget, Goes, LogTypeOK, Places
<1>2. LogTypeOK' /\ MapInv' /\ TargetInv'
  <2>1. LogTypeOK' /\ MapInv'
    BY <1>1 DEF LogTypeOK, MapInv, InMap
  <2>2. TargetInv'
    BY <1>1 DEF TargetInv, Given
  <2> QED
    BY <2>1, <2>2
<1>3. \A u \in Threads \ {t} : Writing(u) => osMutex[u] # osMutex[t]
  <2> SUFFICES ASSUME NEW u \in Threads \ {t}, Writing(u), osMutex[u] = osMutex[t]
               PROVE  FALSE
    OBVIOUS
  <2>1. Given(t) /\ Given(u) /\ target[t] \in Targets /\ target[u] \in Targets
    BY <1>1 DEF Given, Writing, LogTypeOK
  <2>2. osMutex[t][1] = target[t] /\ osMutex[u][1] = target[u]
    BY <2>1 DEF TargetInv, Targets
  <2> QED
    BY <1>1, <2>2 DEF LockInv, Writing
<1>4. LockInv' /\ HalfWritten'
  BY <1>1, <1>3 DEF LockInv, Writing, HalfWritten
<1> QED
  BY <1>1, <1>2, <1>4, OutputKept

-----------------------------------------------------------------------------
\* The invariant holds throughout every execution, of any number of threads.
THEOREM LogInvariance == LogSpec => []LogInv
<1>1. LogInv /\ [LogNext]_logVars => LogInv'
  <2> SUFFICES ASSUME LogInv, [LogNext]_logVars PROVE LogInv'
    OBVIOUS
  <2>1. ASSUME NEW t \in Threads, LogStep(t) PROVE LogInv'
    BY <2>1, GetFileMutexInv, OpenFileInv, LockTargetInv, WritePieceInv,
       UnlockTargetInv DEF LogStep
  <2>2. ASSUME NEW t \in Threads, NEW g \in Targets, BeginLine(t, g) PROVE LogInv'
    BY <2>2, BeginLineInv
  <2>3. CASE UNCHANGED logVars
    BY <2>3 DEF logVars, LogInv, LogTypeOK, MapInv, InMap, TargetInv, Given,
                LockInv, Writing, HalfWritten, LinesAreWhole
  <2> QED
    BY <2>1, <2>2, <2>3 DEF LogNext
<1> QED
  BY LogInitInv, <1>1, PTL DEF LogSpec

\* No line of the log is torn by another, whatever threads log to whatever
\* consoles and files.  (thread_safe_log.cpp, ~ThreadStream)
THEOREM LinesWhole == LogSpec => []LinesAreWhole
<1>1. LogInv => LinesAreWhole
  BY DEF LogInv
<1> QED
  BY LogInvariance, <1>1, PTL

\* All lines to one file go through one mutex, although the first threads to
\* use the path may race to make it.  (thread_safe_log.cpp, GetFileMutex)
THEOREM OneMutex == LogSpec => []OneMutexPerFile
<1>1. LogInv => OneMutexPerFile
  BY DEF LogInv, TargetInv, Given, OneMutexPerFile
<1> QED
  BY LogInvariance, <1>1, PTL
=============================================================================
