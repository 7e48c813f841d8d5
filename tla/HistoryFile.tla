----------------------------- MODULE HistoryFile -----------------------------
(***************************************************************************)
(* The history file (history_file.c).  Shells load it at their start and   *)
(* merge their session into it at a clean exit, each under an advisory     *)
(* lock on a file beside it; what is written goes to a temporary file that *)
(* takes its place.  A shell may die between any two steps.                *)
(***************************************************************************)
EXTENDS HistoryRing

CONSTANTS
  Shells, Commands,            \* a command is a sequence of characters
  FileLines,                   \* what another shell may have left in the file
  SessionMax,                  \* commands a shell takes (bound)
  MaxEntries, Deduplicate      \* per shell: history.max_entries, history.deduplicate

\* No command is empty, and a shell keeps some of its history (history_store.c:53,
\* shell_config.c:244).
ASSUME HistoryFileAssumption ==
  /\ FileLines \subseteq Seq(Seq(STRING)) /\ Commands \subseteq Seq(STRING) \ {NoEntry}
  /\ "nobody" \notin Shells
  /\ MaxEntries \in [Shells -> 1..HistoryCap] /\ Deduplicate \in [Shells -> BOOLEAN]

VARIABLES
  file,         \* the lines of ~/.gsh_history
  lockOwner,    \* who holds the lock of ~/.gsh_history.lock
  temporary,    \* per shell: its temporary file, or NoFile
  shell,        \* per shell: where it is, its ring and its session, what it reported
  saved         \* whose session is in the file, for the promise
historyVars == <<file, lockOwner, temporary, shell, saved>>

Nobody == "nobody"
NoFile == << <<"no file">> >>
Escape == "escape"
Specials == {"escape", "newline", "return"}   \* backslash, \n and \r

------------------------------------------------------------------------------
(* A line: ": 12:0;" and the command with its special characters escaped.   *)
(* A line of another shell is the command as it is.                         *)

Header == ": 12:0;"
LetterOf(c) == CASE c = "newline" -> "n" [] c = "return" -> "r" [] OTHER -> Escape
WriteEntry(command) ==
  <<Header>> \o FlattenSeq([i \in DOMAIN command |->
    IF command[i] \in Specials THEN <<Escape, LetterOf(command[i])>> ELSE <<command[i]>>])

\* The character that an escape stands for; one before another character is itself.
DecodeEntry(text) ==
  LET Meant(letter) == CASE letter = "n" -> "newline" [] letter = "r" -> "return" [] OTHER -> Escape
      Escapes(i) == i < Len(text) /\ text[i] = Escape /\ text[i + 1] \in {"n", "r", Escape}
      decoded[i \in 1..Len(text) + 1] ==
        IF i > Len(text) THEN <<>>
        ELSE IF Escapes(i) THEN <<Meant(text[i + 1])>> \o decoded[i + 2]
        ELSE <<text[i]>> \o decoded[i + 1]
  IN decoded[1]

\* The command of a line, if it has one: a carriage return at its end is dropped.
CommandOf(line) ==
  LET text == IF line # <<>> /\ Last(line) = "return" THEN Front(line) ELSE line
  IN IF text # <<>> /\ Head(text) = Header THEN DecodeEntry(Tail(text)) ELSE text
AcceptLine(ring, line) ==
  IF CommandOf(line) = <<>> THEN ring ELSE Add(ring, CommandOf(line), FALSE)
LoadHistory(lines) == FoldLeft(AcceptLine, EmptyRing, lines)

\* The newest commands of a ring, as they are written.
WriteStore(ring, most) ==
  LET retained == Min({ring.count, most})
  IN [i \in 1..retained |->
        WriteEntry(Event(ring, OldestEvent(ring) + ring.count - retained + i - 1))]

------------------------------------------------------------------------------
(* The shells. *)

NoRings == [ring |-> EmptyRing, session |-> EmptyRing]
HistoryInit ==
  /\ file \in FileLines /\ lockOwner = Nobody
  /\ temporary = [s \in Shells |-> NoFile]
  /\ saved = {}
  /\ shell = [s \in Shells |-> [at |-> "start", rings |-> NoRings, ready |-> FALSE, told |-> FALSE]]

Goes(s, from, to) == shell[s].at = from /\ shell' = [shell EXCEPT ![s].at = to]
\* MUTANT: the lock of another shell is no hindrance.
LockAnyway(s) == lockOwner' = s
Lock(s) == lockOwner = Nobody /\ lockOwner' = s
AcquireLock(s) ==
  /\ \/ Goes(s, "start", "load") \/ Goes(s, "exit", "merge")
  /\ Lock(s) /\ UNCHANGED <<file, temporary, saved>>

\* The lock was not free for two seconds: history is not read, or the session
\* is not saved.
AcquireFails(s) ==
  /\ lockOwner # Nobody
  /\ \/ /\ shell[s].at = "start"
        /\ shell' = [shell EXCEPT ![s].at = "running", ![s].told = TRUE]
     \/ /\ shell[s].at = "exit"
        /\ shell' = [shell EXCEPT ![s].at = "gone", ![s].told = TRUE]
  /\ UNCHANGED <<file, lockOwner, temporary, saved>>

InitializeFile(s) ==
  /\ shell[s].at = "load" /\ lockOwner' = Nobody
  /\ shell' = [shell EXCEPT ![s].at = "running", ![s].ready = TRUE,
                            ![s].rings.ring = LoadHistory(file)]
  /\ UNCHANGED <<file, temporary, saved>>

\* A command that the ring takes is of the session as well.
RecordHistory(s, command) ==
  LET rings == shell[s].rings
      added == Add(rings.ring, command, Deduplicate[s])
  IN /\ shell[s].at = "running" /\ rings.session.nextEvent <= SessionMax
     /\ shell' = [shell EXCEPT ![s].rings =
          IF added = rings.ring THEN rings
          ELSE [ring |-> added, session |-> Add(rings.session, command, FALSE)]]
     /\ UNCHANGED <<file, lockOwner, temporary, saved>>

Exit(s) ==
  /\ Goes(s, "running",
          IF shell[s].ready /\ shell[s].rings.session.count # 0 THEN "exit" ELSE "gone")
  /\ UNCHANGED <<file, lockOwner, temporary, saved>>

MergeSession(s) ==
  LET rings == shell[s].rings
  IN /\ shell[s].at = "merge"
     /\ shell' = [shell EXCEPT ![s].at = "create",
          ![s].rings.ring = AddAll(LoadHistory(file), Entries(rings.session), Deduplicate[s])]
     /\ UNCHANGED <<file, lockOwner, temporary, saved>>

CreateTemporary(s) ==
  /\ Goes(s, "create", "write")
  /\ temporary' = [temporary EXCEPT ![s] = <<>>] /\ UNCHANGED <<file, lockOwner, saved>>
WriteTemporary(s) ==
  /\ Goes(s, "write", "rename")
  /\ temporary' = [temporary EXCEPT ![s] = WriteStore(shell[s].rings.ring, MaxEntries[s])]
  /\ UNCHANGED <<file, lockOwner, saved>>
\* The disk is full after some of the lines.
WriteFails(s) ==
  /\ shell[s].at = "write"
  /\ shell' = [shell EXCEPT ![s].at = "release", ![s].told = TRUE]
  /\ temporary' = [temporary EXCEPT ![s] = NoFile] /\ UNCHANGED <<file, lockOwner, saved>>
ReplaceHistory(s) ==
  /\ Goes(s, "rename", "release")
  /\ file' = temporary[s] /\ temporary' = [temporary EXCEPT ![s] = NoFile]
  /\ saved' = saved \cup {s} /\ UNCHANGED lockOwner
ReleaseLock(s) ==
  /\ Goes(s, "release", "gone") /\ lockOwner' = Nobody /\ UNCHANGED <<file, temporary, saved>>

\* The kernel gives up the lock of a process that dies; its temporary file stays.
Killed(s) ==
  /\ shell[s].at \notin {"gone", "killed"} /\ shell' = [shell EXCEPT ![s].at = "killed"]
  /\ lockOwner' = IF lockOwner = s THEN Nobody ELSE lockOwner
  /\ \/ shell[s].at # "write" /\ UNCHANGED temporary
     \/ /\ shell[s].at = "write"
        /\ LET lines == WriteStore(shell[s].rings.ring, MaxEntries[s])
           IN \E n \in 0..Len(lines) :
                temporary' = [temporary EXCEPT ![s] = SubSeq(lines, 1, n)]
  /\ UNCHANGED <<file, saved>>

HistoryStep(s) ==
  \/ AcquireLock(s) \/ AcquireFails(s) \/ InitializeFile(s) \/ Exit(s) \/ MergeSession(s)
  \/ CreateTemporary(s) \/ WriteTemporary(s) \/ WriteFails(s) \/ ReplaceHistory(s)
  \/ ReleaseLock(s) \/ Killed(s)
  \/ \E c \in Commands : RecordHistory(s, c)

------------------------------------------------------------------------------
(* What a shell finds in the file, and what it adds to it. *)

Chosen(done, line) == IF CommandOf(line) = NoEntry THEN done ELSE Append(done, CommandOf(line))
CommandsOf(lines) ==
  LET chosen[i \in 0..Len(lines)] ==
        IF i = 0 THEN <<>> ELSE Chosen(chosen[i - 1], lines[i])
  IN chosen[Len(lines)]
FileCommands ==
  LET commands == CommandsOf(file)
  IN SubSeq(commands, Max({1, Len(commands) - HistoryCap + 1}), Len(commands))
SessionOf(s) == Entries(shell[s].rings.session)

=============================================================================
