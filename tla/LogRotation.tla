---------------------------- MODULE LogRotation -----------------------------
(***************************************************************************)
(* A rotated log file (RotatingFileStream).  errors.log is opened by the   *)
(* API, the worker and the scheduler, which share the volume, and nothing  *)
(* serialises them: here a process makes one system call per step, with    *)
(* the calls of the others in between.                                     *)
(*                                                                         *)
(* file[0] is the log and file[i] its i-th history.  A line is a number,   *)
(* in the order of the appends, and a file's size is its number of lines.  *)
(* ToOldest is a faulty variant of the operator defined after it; no       *)
(* action uses it.                                                         *)
(***************************************************************************)
EXTENDS Integers, Sequences, FiniteSets

CONSTANTS
  Writers,    \* the processes that log to the file
  MaxFiles,   \* LOG_MAX_FILES
  MaxSize,    \* LOG_MAX_BYTES, in lines
  MaxLines    \* bound on the lines

ASSUME LogAssumption ==
  /\ MaxFiles \in Nat \ {0} /\ MaxSize \in Nat \ {0} /\ MaxLines \in Nat
  /\ IsFiniteSet(Writers) /\ Writers # {}

VARIABLES
  exists,   \* the numbers of the files there are
  file,     \* their lines
  lines,    \* lines appended so far
  doing,    \* the next system call of each process
  index,    \* the file its rotation is at
  clashed   \* two processes have rotated at the same time

logVars == <<exists, file, lines, doing, index, clashed>>

Files == 0..MaxFiles

\* The constructor of each process has created the file.
LogInit ==
  /\ exists = {0} /\ file = [i \in Files |-> <<>>] /\ lines = 0
  /\ doing = [w \in Writers |-> "idle"] /\ index = [w \in Writers |-> 0] /\ clashed = FALSE

LogTypeOK ==
  /\ exists \subseteq Files /\ file \in [Files -> Seq(Nat)] /\ lines \in Nat
  /\ doing \in [Writers -> {"idle", "look", "act", "create", "append"}]
  /\ index \in [Writers -> Files] /\ clashed \in BOOLEAN

Goes(w, call)  == doing' = [doing EXCEPT ![w] = call]
Rotating(w)    == doing[w] \in {"look", "act", "create"}
Size           == IF 0 \in exists THEN Len(file[0]) ELSE 0
MustRotate     == Size > 0 /\ Size + 1 > MaxSize

\* A line arrives: rotate looks at the size of the log.
StatSize(w) ==
  /\ doing[w] = "idle" /\ lines < MaxLines
  /\ IF MustRotate
     THEN /\ Goes(w, "look") /\ index' = [index EXCEPT ![w] = MaxFiles]
          /\ clashed' = (clashed \/ \E v \in Writers : Rotating(v))
     ELSE Goes(w, "append") /\ UNCHANGED <<index, clashed>>
  /\ UNCHANGED <<exists, file, lines>>

\* From the oldest history down to the log itself, then the new log.
Down(w) ==
  IF index[w] = 0 THEN Goes(w, "create") /\ UNCHANGED index
  ELSE Goes(w, "look") /\ index' = [index EXCEPT ![w] = @ - 1]

LookFor(w) ==
  /\ doing[w] = "look"
  /\ IF index[w] \in exists THEN Goes(w, "act") /\ UNCHANGED index ELSE Down(w)
  /\ UNCHANGED <<exists, file, lines, clashed>>

Delete ==
  exists' = exists \ {MaxFiles} /\ file' = [file EXCEPT ![MaxFiles] = <<>>]

ToOldest(i) == IF i \in Files THEN MaxFiles ELSE i
Older(i)    == i + 1

Shift(i) ==
  /\ exists' = (exists \ {i}) \union {Older(i)}
  /\ file' = [file EXCEPT ![Older(i)] = file[i], ![i] = <<>>]

Move(w) ==
  /\ doing[w] = "act" /\ index[w] \in exists
  /\ IF index[w] = MaxFiles THEN Delete ELSE Shift(index[w])
  /\ Down(w) /\ UNCHANGED <<lines, clashed>>

\* Another process has taken the file since the look: the stream fails, nothing handles its
\* error, and the process starts again and opens the log.
Gone(w) ==
  /\ doing[w] = "act" /\ index[w] \notin exists
  /\ Goes(w, "idle") /\ index' = [index EXCEPT ![w] = 0] /\ exists' = exists \union {0}
  /\ UNCHANGED <<file, lines, clashed>>

OpenLog(w) ==
  /\ doing[w] = "create" /\ exists' = exists \union {0} /\ Goes(w, "append")
  /\ UNCHANGED <<file, lines, index, clashed>>

AppendLine(w) ==
  /\ doing[w] = "append" /\ exists' = exists \union {0} /\ lines' = lines + 1
  /\ file' = [file EXCEPT ![0] = Append(@, lines + 1)] /\ Goes(w, "idle")
  /\ UNCHANGED <<index, clashed>>

LogNext ==
  \E w \in Writers : StatSize(w) \/ LookFor(w) \/ Move(w) \/ Gone(w) \/ OpenLog(w) \/ AppendLine(w)

LogSpec == LogInit /\ [][LogNext]_logVars

-----------------------------------------------------------------------------
(* Property.                                                               *)

Kept == {n \in 1..lines : \E i \in Files, j \in 1..MaxSize+Cardinality(Writers) :
                            j \in DOMAIN file[i] /\ file[i][j] = n}

\* Whatever the interleaving, lines stay in order from the oldest history to the log, no
\* file exceeds its size by more than a line for each other process, and as long as two
\* processes have not rotated at once nothing is lost but the oldest lines, and these only
\* when every history is in use (shared/src/index.ts 61-84, README.md 85).
LogKept ==
  /\ \A i, j \in Files : \A a \in DOMAIN file[i], b \in DOMAIN file[j] :
       i > j \/ (i = j /\ a < b) => file[i][a] < file[j][b]
  /\ \A i \in Files : Len(file[i]) <= MaxSize + Cardinality(Writers) - 1
  /\ clashed \/ /\ \A n \in Kept : n..lines \subseteq Kept
                /\ Kept = 1..lines \/ exists = Files \/ \E w \in Writers : Rotating(w)
=============================================================================
