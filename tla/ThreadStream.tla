---------------------------- MODULE ThreadStream ----------------------------
(***************************************************************************)
(* The log of thread_safe_log.cpp. A line of the log (terr, tout, tfout)   *)
(* is a temporary ThreadStream: its constructor finds the mutex of its     *)
(* target, the line is put together in the object, and the destructor      *)
(* writes it while it holds that mutex. The mutexes of the consoles are    *)
(* static; those of files are made when a path is first used and kept in a *)
(* map that has a mutex of its own. Any number of threads log.             *)
(***************************************************************************)
EXTENDS Integers, Sequences, FiniteSets

CONSTANTS
  Threads,
  Consoles,   \* std::cout and std::cerr
  Paths,      \* paths of log files, each naming a different file
  MaxLines    \* bound on the lines one thread logs

ASSUME LogAssumption == Consoles # {} /\ Consoles \cap Paths = {}

Targets == Consoles \cup Paths

VARIABLES
  at,         \* where each thread is: "idle", "enter", "find", "make",
              \* "open", "line", "begin", "rest" or "unlock"
  target,     \* the target of the thread's ThreadStream
  osMutex,    \* its os_mutex_: the target, and which of the mutexes ever made
              \* for that target
  lines,      \* how many lines the thread has begun
  mapLocked,  \* map_mutex is held
  made,       \* file_mutexes: how many mutexes were made for a path; the last
              \* is the one in the map, one replaced there is destroyed
  locked,     \* the mutexes of targets that are held
  output      \* what each target received: thread, line and piece

logVars == <<at, target, osMutex, lines, mapLocked, made, locked, output>>

LogInit ==
  /\ at = [t \in Threads |-> "idle"]
  /\ target = [t \in Threads |-> CHOOSE g \in Targets : TRUE]
  /\ osMutex = [t \in Threads |-> <<target[t], 0>>]
  /\ lines = [t \in Threads |-> 0]
  /\ mapLocked = FALSE
  /\ made = [p \in Paths |-> 0]
  /\ locked = {}
  /\ output = [g \in Targets |-> <<>>]

Goes(t, from, to) == at[t] = from /\ at' = [at EXCEPT ![t] = to]

\* A thread comes to a statement that logs; a console's mutex is at hand.
BeginLine(t, g) ==
  /\ lines[t] < MaxLines
  /\ Goes(t, "idle", IF g \in Consoles THEN "line" ELSE "enter")
  /\ lines' = [lines EXCEPT ![t] = @ + 1]
  /\ target' = [target EXCEPT ![t] = g]
  /\ osMutex' = [osMutex EXCEPT ![t] = <<g, IF g \in Consoles THEN 1 ELSE 0>>]
  /\ UNCHANGED <<mapLocked, made, locked, output>>

\* Fault: the map is used without its mutex.
MapFreeAlways == TRUE

\* GetFileMutex: take map_mutex, look the path up, make its mutex if there is
\* none, and release map_mutex.
MapFree == ~mapLocked

EnterMap(t) ==
  /\ Goes(t, "enter", "find")
  /\ MapFree
  /\ mapLocked' = TRUE
  /\ UNCHANGED <<target, osMutex, lines, made, locked, output>>

HasMutex(t) == osMutex' = [osMutex EXCEPT ![t] = <<target[t], made'[target[t]]>>]

FindMutex(t) ==
  /\ Goes(t, "find", "open")
  /\ made[target[t]] > 0
  /\ UNCHANGED <<target, lines, made, locked, output>>
  /\ HasMutex(t)
  /\ mapLocked' = FALSE

FindNone(t) ==
  /\ Goes(t, "find", "make")
  /\ made[target[t]] = 0
  /\ UNCHANGED <<target, osMutex, lines, mapLocked, made, locked, output>>

MakeMutex(t) ==
  /\ Goes(t, "make", "open")
  /\ made' = [made EXCEPT ![target[t]] = @ + 1]
  /\ HasMutex(t)
  /\ mapLocked' = FALSE
  /\ UNCHANGED <<target, lines, locked, output>>

\* The file is opened for appending; if that fails the constructor throws and
\* nothing is written.
OpenFile(t) ==
  /\ \/ Goes(t, "open", "line")
     \/ Goes(t, "open", "idle")
  /\ UNCHANGED <<target, osMutex, lines, mapLocked, made, locked, output>>

\* Fault: the destructor does not take the target's mutex.
TargetFreeAlways(t) == TRUE

\* ~ThreadStream: the line reaches its target in two pieces, the second of a
\* file's when it is closed.
TargetFree(t) == osMutex[t] \notin locked

LockTarget(t) ==
  /\ Goes(t, "line", "begin")
  /\ TargetFree(t)
  /\ locked' = locked \cup {osMutex[t]}
  /\ UNCHANGED <<target, osMutex, lines, mapLocked, made, output>>

WritePiece(t) ==
  /\ \/ Goes(t, "begin", "rest")
     \/ Goes(t, "rest", "unlock")
  /\ output' = [output EXCEPT ![target[t]] = Append(@, <<t, lines[t], at[t]>>)]
  /\ UNCHANGED <<target, osMutex, lines, mapLocked, made, locked>>

\* Fault: the destructor leaves without releasing the mutex.
UnlockTargetForgotten(t) ==
  /\ Goes(t, "unlock", "idle")
  /\ UNCHANGED <<target, osMutex, lines, mapLocked, made, locked, output>>

UnlockTarget(t) ==
  /\ Goes(t, "unlock", "idle")
  /\ locked' = locked \ {osMutex[t]}
  /\ UNCHANGED <<target, osMutex, lines, mapLocked, made, output>>

LogStep(t) ==
  \/ EnterMap(t) \/ FindMutex(t) \/ FindNone(t) \/ MakeMutex(t)
  \/ OpenFile(t) \/ LockTarget(t) \/ WritePiece(t) \/ UnlockTarget(t)

LogNext == \E t \in Threads : LogStep(t) \/ \E g \in Targets : BeginLine(t, g)

\* The scheduler runs every thread. A mutex may be given to any waiting
\* thread, but each thread logs finitely often.
LogSpec ==
  LogInit /\ [][LogNext]_logVars /\ \A t \in Threads : WF_logVars(LogStep(t))

----------------------------------------------------------------------------

\* Lines are not mixed: each target receives the second piece of a line right
\* after the first, however the destructors of several threads interleave
\* (thread_safe_log.h:20-23, thread_safe_log.cpp:28-39).
LinesAreWhole ==
  \A g \in Targets : \A i \in DOMAIN output[g] :
    output[g][i][3] = "rest" =>
      i > 1 /\ output[g][i - 1] = <<output[g][i][1], output[g][i][2], "begin">>

\* A thread that has been given the mutex of a path, and has not finished its
\* line, refers to the mutex that is in the map: every line to one file goes
\* through one mutex, and none is destroyed while it is referred to
\* (thread_safe_log.cpp:68-82).
OneMutexPerFile ==
  \A t \in Threads :
    at[t] \in {"open", "line", "begin", "rest", "unlock"} /\ target[t] \in Paths
      => osMutex[t][2] = made[target[t]]

\* Every statement that logs comes to its end: the two kinds of mutex never
\* make threads wait for each other for ever.
LoggingReturns == \A t \in Threads : at[t] # "idle" ~> at[t] = "idle"
============================================================================
