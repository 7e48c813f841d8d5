----------------------------- MODULE StateCommit -----------------------------
(***************************************************************************)
(* How a compound command changes the session.  It is evaluated in a child *)
(* process, on a copy of the session's state.  The child records what it   *)
(* changes and, at its end, writes the parts of a transaction into a pipe, *)
(* the directory and the descriptors that `exec' changed into sockets.     *)
(* The owner reads while its reactor runs, checks everything when the      *)
(* child was reaped, and takes either all of it or nothing.  Meanwhile the *)
(* job may have been stopped, and the owner may have run commands of its   *)
(* own.                                                                    *)
(***************************************************************************)
EXTENDS VariableStore

CONSTANTS
  Scripts,          \* the commands that may be evaluated: sequences of steps
  Initial,          \* the session at the start
  AliasJournalCap,  \* GSH_ALIAS_JOURNAL_CAP
  ReadsPerTurn,     \* reads of the pipe in one turn of the reactor
  Faults,           \* which failures of the system may happen
  DirectCommands,   \* what the owner may run itself while the job is stopped
  MaxAttempts,      \* bound: compound commands that are launched
  MaxDirect         \* bound: commands the owner runs while the job is stopped

VARIABLES
  session,     \* the state of the owner, a record of its parts
  generation,  \* how often the owner changed each part that counts changes
  standard,    \* what a standard descriptor of the owner is bound to
  mode,        \* "editor", "foreground", or "stopped" with a job to resume
  running,     \* the owner's loop goes on
  status,      \* the last status
  attempt,     \* the transaction that is open at the owner
  child,       \* the evaluator process
  pipe,        \* parts written and not yet read
  launched, directs,
  touched      \* history: parts the owner changed since the job was launched

vars == <<session, generation, standard, mode, running, status, attempt, child, pipe,
          launched, directs, touched>>

Counted == {"variables", "aliases", "functions", "cache"}
Optional == {"aliases", "positionals", "cache", "functions", "directory"}

\* The owner's expectations come from the preflight of the command: a part is
\* expected when some step of the script, run or not, could change it.
Touches == [assign |-> "variables", declare |-> "variables", unset |-> "variables",
            cd |-> "directory", skipped_cd |-> "directory", alias |-> "aliases",
            unalias |-> "aliases", unalias_all |-> "aliases", define |-> "functions",
            positional |-> "positionals", option |-> "options", hash |-> "cache",
            exit |-> "control", redirect |-> "exec", overlay |-> "exec",
            overlay_fails |-> "exec"]
Possible(script) == {Touches[script[i].op] : i \in DOMAIN script}

SessionParts == {"variables", "aliases", "functions", "positionals", "options", "cache",
                 "directory"}

\* What the parser and the start of the shell give: steps and commands are some
\* of those below, on names a variable may have, and the session has its parts.
ASSUME CommandsAssumption ==
  /\ "PWD" \in Names
  /\ DOMAIN Initial = SessionParts /\ Initial.variables \in Store
  /\ \A script \in Scripts :
       /\ script \in Seq(ToSet(script))
       /\ \A i \in DOMAIN script :
            /\ script[i].op \in DOMAIN Touches
            /\ script[i].op \in {"assign", "declare", "unset"} => script[i].name \in Names
  /\ \A command \in DirectCommands :
       command.op \in {"assign", "unalias_all", "define", "hash", "set", "cd"}

ASSUME BoundsAssumption == ReadsPerTurn \in Nat \ {0}

Closed == [active |-> FALSE, expected |-> {}, exec |-> FALSE, received |-> <<>>,
           eof |-> FALSE, invalid |-> FALSE, open |-> FALSE]
NoChild == [phase |-> "none"]

Init ==
  /\ session = Initial
  /\ generation = [part \in Counted |-> 0]
  /\ standard = "terminal"
  /\ mode = "editor" /\ running = TRUE /\ status = 0
  /\ attempt = Closed /\ child = NoChild /\ pipe = <<>>
  /\ launched = 0 /\ directs = 0 /\ touched = {}

------------------------------------------------------------------------------
(* The evaluator.                                                           *)

\* A copy of the session, with empty journals on the owner's generations.
Fork(script) ==
  [phase |-> "running", todo |-> script, state |-> session, journal |-> <<>>,
   aliasJournal |-> <<>>, base |-> generation, invalid |-> FALSE, exiting |-> FALSE,
   standard |-> standard, redirected |-> FALSE, outcome |-> "none", code |-> 0,
   exitStatus |-> 0, sent |-> {}, written |-> 0, malformed |-> "none", killed |-> FALSE]

\* The parts in the order they are written and read; functions are a header
\* and, when the header is valid, what it describes.
Parts(expected) ==
  LET when(part, sent) == IF part \in expected THEN sent ELSE <<>>
  IN <<"variables">> \o when("aliases", <<"aliases">>)
     \o when("positionals", <<"positionals">>) \o when("cache", <<"cache_header", "cache">>)
     \o <<"options", "control">> \o when("functions", <<"functions_header", "functions">>)

\* A step that reports 125, the status of the shell's own failures, ends the
\* command; after any other the next step is evaluated.
Abort(c, code) == [c EXCEPT !.todo = <<>>, !.code = code]
Continue(c, code) == [c EXCEPT !.todo = Tail(@), !.code = code]

\* The store changes first and the change is recorded after; a change the
\* journal has no room for stays in the copy and ends the command.
Recorded(c, result, entry) ==
  LET record == Record(c.journal, entry)
  IN IF ~ result.ok THEN Continue(c, 1)
     ELSE IF ~ record.ok THEN Abort([c EXCEPT !.state.variables = result.store], 125)
     ELSE Continue([c EXCEPT !.state.variables = result.store, !.journal = record.journal], 0)

\* An alias builtin that cannot record its change spoils the transaction too.
RecordedAlias(c, aliases, entry) ==
  IF Len(c.aliasJournal) = AliasJournalCap
  THEN Abort([c EXCEPT !.state.aliases = aliases, !.invalid = TRUE], 125)
  ELSE Continue([c EXCEPT !.state.aliases = aliases,
                          !.aliasJournal = Append(@, entry)], 0)

Declare(c, s) ==
  IF s.attributes \subseteq c.state.variables[s.name].attributes
     /\ c.state.variables[s.name].present
  THEN Continue(c, 0)
  ELSE Recorded(c, SetVariable(c.state.variables, s.name, Nothing, s.attributes,
                               s.attributes, FALSE),
                Change(s.name, "attributes", Nothing, s.attributes))

\* cd sets PWD once the process is in the directory.
ChangeDirectory(c, s) ==
  Recorded([c EXCEPT !.state.directory = s.value],
           SetVariable(c.state.variables, "PWD", s.value, {}, {}, TRUE),
           Change("PWD", "set", s.value, {}))

StepOf(c) ==
  LET s == Head(c.todo)
      variables == c.state.variables
  IN CASE s.op = "assign" ->
            Recorded(c, SetVariable(variables, s.name, s.value, s.attributes, s.attributes, TRUE),
                     Change(s.name, "set", s.value, s.attributes))
       [] s.op = "declare" -> Declare(c, s)
       [] s.op = "unset" ->
            IF variables[s.name].present
            THEN Recorded(c, UnsetVariable(variables, s.name),
                          Change(s.name, "unset", Nothing, {}))
            ELSE Continue(c, 0)
       [] s.op = "cd" -> ChangeDirectory(c, s)
       [] s.op = "skipped_cd" -> Continue(c, 0)
       [] s.op = "alias" ->
            RecordedAlias(c, c.state.aliases \cup {s.name}, [op |-> "set", name |-> s.name])
       [] s.op = "unalias" ->
            IF s.name \in c.state.aliases
            THEN RecordedAlias(c, c.state.aliases \ {s.name}, [op |-> "unset", name |-> s.name])
            ELSE Continue(c, 1)
       [] s.op = "unalias_all" -> RecordedAlias(c, {}, [op |-> "clear"])
       [] s.op = "define" -> Continue([c EXCEPT !.state.functions = "evaluator"], 0)
       [] s.op = "positional" -> Continue([c EXCEPT !.state.positionals = "evaluator"], 0)
       [] s.op = "option" -> Continue([c EXCEPT !.state.options = "evaluator"], 0)
       [] s.op = "hash" -> Continue([c EXCEPT !.state.cache = "evaluator"], 0)
       [] s.op = "redirect" ->
            Continue([c EXCEPT !.standard = "file", !.redirected = TRUE], 0)
       [] s.op = "overlay_fails" -> Abort([c EXCEPT !.outcome = "failed"], 127)
       [] s.op = "overlay" -> [c EXCEPT !.outcome = "overlaid", !.phase = "program"]
       [] s.op = "exit" -> [Abort(c, s.code) EXCEPT !.exiting = TRUE, !.exitStatus = s.code]

EvaluateStep ==
  /\ child.phase = "running" /\ mode = "foreground" /\ child.todo # <<>>
  /\ child' = StepOf(child)
  /\ UNCHANGED <<session, generation, standard, mode, running, status, attempt, pipe,
                 launched, directs, touched>>

\* The descriptors and the directory go before the parts; each may fail, and
\* then the command reports 125 but still commits.
SendDescriptors ==
  /\ child.phase = "running" /\ mode = "foreground" /\ child.todo = <<>>
  /\ \E descriptors, directory \in {"sent", "failed", "unused"} :
       /\ (descriptors = "unused") = ~ child.redirected
       /\ (directory = "unused") = ("directory" \notin attempt.expected)
       /\ "failed" \in {descriptors, directory} => "send" \in Faults
       /\ child' = [child EXCEPT
            !.phase = IF child.invalid THEN "exiting" ELSE "writing",
            !.sent = (IF descriptors = "sent" THEN {"descriptors"} ELSE {})
                     \cup (IF directory = "sent" THEN {"directory"} ELSE {}),
            !.code = IF child.invalid \/ "failed" \in {descriptors, directory}
                     THEN 125 ELSE @]
  /\ UNCHANGED <<session, generation, standard, mode, running, status, attempt, pipe,
                 launched, directs, touched>>

WritePartStuck ==
  /\ child.phase = "writing" /\ mode = "foreground" /\ attempt.open
  /\ child.written < Len(Parts(attempt.expected))
  /\ pipe' = Append(pipe, Parts(attempt.expected)[child.written + 1])
  /\ child' = [child EXCEPT !.written = @ + 1]
  /\ UNCHANGED <<session, generation, standard, mode, running, status, attempt,
                 launched, directs, touched>>

\* A part is written whole, or damaged, or the write fails and ends it all.  A
\* pipe whose reader gave up kills the writer.
WritePart ==
  /\ child.phase = "writing" /\ mode = "foreground"
  /\ LET parts == Parts(attempt.expected)
         next == parts[child.written + 1]
     IN /\ child.written < Len(parts)
        /\ \/ /\ attempt.open
              /\ pipe' = Append(pipe, next)
              /\ \E damaged \in {child.malformed, next} :
                   /\ damaged # child.malformed =>
                        "malformed" \in Faults /\ child.malformed = "none"
                   /\ child' = [child EXCEPT !.written = @ + 1, !.malformed = damaged]
           \/ /\ attempt.open /\ "write" \in Faults
              /\ child' = [child EXCEPT !.phase = "exiting", !.code = 125]
              /\ UNCHANGED pipe
           \/ /\ ~ attempt.open
              /\ child' = [child EXCEPT !.phase = "gone", !.killed = TRUE]
              /\ UNCHANGED pipe
  /\ UNCHANGED <<session, generation, standard, mode, running, status, attempt,
                 launched, directs, touched>>

ChildExits ==
  /\ mode = "foreground"
  /\ \/ child.phase = "writing" /\ child.written = Len(Parts(attempt.expected))
     \/ child.phase \in {"exiting", "program"}
  /\ child' = [child EXCEPT !.phase = "gone"]
  /\ UNCHANGED <<session, generation, standard, mode, running, status, attempt, pipe,
                 launched, directs, touched>>

ChildIsKilled ==
  /\ "kill" \in Faults
  /\ child.phase \in {"running", "writing", "exiting", "program"}
  /\ child' = [child EXCEPT !.phase = "gone", !.killed = TRUE]
  /\ UNCHANGED <<session, generation, standard, mode, running, status, attempt, pipe,
                 launched, directs, touched>>

------------------------------------------------------------------------------
(* The owner reads.                                                         *)

FunctionsHeader == "functions_header"

\* A part that arrives when nothing is expected any more spoils the transaction;
\* the header of the functions is checked before there is room for what follows it.
Spoils(a, place, part) ==
  \/ place > Len(Parts(a.expected))
  \/ /\ part = FunctionsHeader
     /\ \/ child.malformed = FunctionsHeader
        \/ child.base.functions # generation.functions

ReadParts(a, count) ==
  [a EXCEPT !.received = @ \o SubSeq(pipe, 1, count),
            !.invalid = @ \/ \E i \in 1..count : Spoils(a, Len(a.received) + i, pipe[i])]

WriterGone == child.phase \in {"gone", "program"}

ReceiveTurn ==
  /\ attempt.open
  /\ LET count == IF Len(pipe) < ReadsPerTurn THEN Len(pipe) ELSE ReadsPerTurn
         ended == count < ReadsPerTurn /\ WriterGone
     IN \/ /\ count > 0 \/ ended
           /\ attempt' = [ReadParts(attempt, count) EXCEPT !.eof = ended, !.open = ~ ended]
           /\ pipe' = SubSeq(pipe, count + 1, Len(pipe))
        \/ /\ "read" \in Faults
           /\ attempt' = [attempt EXCEPT !.invalid = TRUE, !.open = FALSE]
           /\ pipe' = <<>>
  /\ UNCHANGED <<session, generation, standard, mode, running, status, child,
                 launched, directs, touched>>

\* Every part passes its validator: versions, counts, bounds and names.
WellFormed(a) == child.malformed \notin ToSet(a.received)

CompleteOverAliases(a) ==
  /\ ~ child.killed /\ a.eof /\ ~ a.invalid
  /\ a.received = Parts(a.expected)
  /\ WellFormed(a)
  /\ child.base.variables = generation.variables

(* The whole transaction is complete, well formed, and based on what the    *)
(* owner still has.                                                         *)
Complete(a) ==
  /\ ~ child.killed /\ a.eof /\ ~ a.invalid
  /\ a.received = Parts(a.expected)
  /\ WellFormed(a)
  /\ child.base.variables = generation.variables
  /\ \A part \in a.expected \cap {"aliases", "functions", "cache"} :
       child.base[part] = generation[part]

ApplyAlias(known, e) ==
  CASE e.op = "set" -> known \cup {e.name}
    [] e.op = "unset" -> known \ {e.name}
    [] OTHER -> {}

ApplyAliases(aliases, journal) ==
  LET applied[i \in 0..Len(journal)] ==
        IF i = 0 THEN aliases ELSE ApplyAlias(applied[i - 1], journal[i])
  IN applied[Len(journal)]

\* All the parts at once: journals on the owner's stores, snapshots whole.
Merged(variables, expected) ==
  [part \in DOMAIN session |->
     CASE part = "variables" -> variables
       [] part = "options" -> child.state.options
       [] part = "aliases" /\ part \in expected ->
            ApplyAliases(session.aliases, child.aliasJournal)
       [] part \in expected \ {"aliases"} -> child.state[part]
       [] OTHER -> session[part]]

Bumped(expected) ==
  [part \in Counted |-> generation[part]
                        + (IF part \in expected \cup {"variables"} THEN 1 ELSE 0)]

Accepted(a, staged) ==
  /\ session' = Merged(staged.store, a.expected)
  /\ generation' = Bumped(a.expected)

\* The directory is entered before the journals are tried; when they are
\* refused the owner goes back, and gives up if it cannot.
RolledBack(rollback) ==
  /\ session' = [session EXCEPT !.directory = IF rollback THEN @ ELSE child.state.directory]
  /\ UNCHANGED generation

DirectoryArrives(a) == "directory" \in a.expected => "directory" \in child.sent

\* What is left in the pipe when the child was reaped is read to the end.
Drained ==
  LET a == ReadParts(attempt, Len(pipe))
  IN [a EXCEPT !.eof = @ \/ attempt.open]

\* The commit of the state: `result' says whether it was taken.
FinishCommit(a, result) ==
  LET staged == ApplyJournal(session.variables, child.journal)
  IN \/ /\ result = "committed"
        /\ Complete(a) /\ DirectoryArrives(a) /\ staged.ok
        /\ Accepted(a, staged)
     \/ /\ result = "rejected"
        /\ \/ ~ Complete(a) \/ ~ DirectoryArrives(a)
           \/ "directory" \in a.expected /\ "directory" \in Faults
           \/ "directory" \notin a.expected /\ ~ staged.ok
        /\ UNCHANGED <<session, generation>>
     \/ /\ result \in {"rejected", "lost"}
        /\ Complete(a) /\ "directory" \in a.expected /\ DirectoryArrives(a) /\ ~ staged.ok
        /\ result = "lost" => "directory" \in Faults
        /\ RolledBack(result = "rejected")

\* The descriptors of `exec' are a transaction of their own, applied first; an
\* interrupted application may have bound some of them.
ExecCommit(result) ==
  \/ /\ result = "unused"
     /\ ~ (attempt.exec /\ "descriptors" \in child.sent)
     /\ UNCHANGED standard
  \/ /\ result = "applied"
     /\ attempt.exec /\ "descriptors" \in child.sent
     /\ standard' = child.standard
  \/ /\ result = "refused"
     /\ attempt.exec /\ "descriptors" \in child.sent /\ "exec" \in Faults
     /\ standard' \in {standard, child.standard}

\* The wait status, with 128 plus the number of the signal that killed it.
WaitStatus == IF child.killed THEN 137 ELSE child.code

\* What the owner reports, and whether it stops: for an exit it has committed,
\* or because it could not go back to its directory.
JobStatusHides(exec, result) ==
  IF exec = "refused" THEN 125 ELSE IF child.exiting THEN child.exitStatus ELSE WaitStatus
JobStatus(exec, result) ==
  IF exec = "refused" \/ result # "committed" THEN 125
  ELSE IF child.exiting THEN child.exitStatus ELSE WaitStatus

Leaves(result) == result = "lost" \/ (result = "committed" /\ child.exiting)

Close ==
  /\ attempt' = Closed /\ pipe' = <<>> /\ child' = NoChild /\ mode' = "editor"

(* finish_job: the process was reaped.                                      *)
FinishJob ==
  /\ child.phase = "gone" /\ attempt.active
  /\ IF child.outcome = "overlaid"
     THEN /\ status' = WaitStatus /\ running' = FALSE
          /\ UNCHANGED <<session, generation, standard>>
     ELSE \E exec \in {"unused", "applied", "refused"},
             result \in {"committed", "rejected", "lost"} :
            /\ ExecCommit(exec)
            /\ FinishCommit(Drained, result)
            /\ status' = JobStatus(exec, result)
            /\ running' = ~ Leaves(result)
  /\ Close
  /\ UNCHANGED <<launched, directs, touched>>

------------------------------------------------------------------------------
(* The owner's other steps.                                                 *)

Ready == running /\ launched < MaxAttempts /\ mode = "editor" /\ child.phase = "none"

\* Channels first, then the fork, then the terminal; what fails is told, and
\* leaves no transaction open.
Launch(script) ==
  /\ Ready
  /\ launched' = launched + 1 /\ touched' = {}
  /\ \/ /\ child' = Fork(script)
        /\ attempt' = [Closed EXCEPT !.active = TRUE, !.open = TRUE,
                         !.expected = Possible(script) \cap Optional,
                         !.exec = "exec" \in Possible(script)]
        /\ mode' = "foreground"
     \/ /\ "launch" \in Faults
        /\ UNCHANGED <<child, attempt, mode>>
  /\ UNCHANGED <<session, generation, standard, running, status, pipe, directs>>

JobStops ==
  /\ mode = "foreground" /\ child.phase \in {"running", "writing", "exiting"}
  /\ mode' = "stopped"
  /\ UNCHANGED <<session, generation, standard, running, status, attempt, child, pipe,
                 launched, directs, touched>>

JobContinues ==
  /\ mode = "stopped" /\ running
  /\ mode' = "foreground"
  /\ UNCHANGED <<session, generation, standard, running, status, attempt, child, pipe,
                 launched, directs, touched>>

Counting(part) == generation' = [generation EXCEPT ![part] = @ + 1]

(* Commands the reactor runs itself while the job is stopped: what becomes *)
(* of the session, which count goes up, and which parts are changed.        *)
DirectChange(command) ==
  CASE command.op = "assign" ->
         LET result == SetVariable(session.variables, command.name, command.value, {}, {}, TRUE)
         IN [session |-> [session EXCEPT !.variables = result.store],
             counts |-> {"variables"}, parts |-> {"variables"}]
    [] command.op = "unalias_all" ->
         [session |-> [session EXCEPT !.aliases = {}],
          counts |-> {"aliases"}, parts |-> {"aliases"}]
    [] command.op = "define" ->
         [session |-> [session EXCEPT !.functions = "owner"],
          counts |-> {"functions"}, parts |-> {"functions"}]
    [] command.op = "hash" ->
         [session |-> [session EXCEPT !.cache = "owner"],
          counts |-> {"cache"}, parts |-> {"cache"}]
    [] command.op = "set" ->
         [session |-> [session EXCEPT !.positionals = "owner", !.options = "owner"],
          counts |-> {"variables"}, parts |-> {"positionals", "options"}]
    \* The reactor's own cd changes PWD and the directory and counts nothing.
    [] command.op = "cd" ->
         LET result == SetVariable(session.variables, "PWD", command.value, {}, {}, TRUE)
         IN [session |-> [session EXCEPT !.variables = result.store,
                                         !.directory = command.value],
             counts |-> {}, parts |-> {"variables", "directory"}]

Direct(command) ==
  /\ running /\ directs < MaxDirect /\ mode = "stopped" /\ child.phase # "gone"
  /\ directs' = directs + 1
  /\ LET change == DirectChange(command)
     IN /\ session' = change.session
        /\ generation' = [part \in Counted |->
                            generation[part] + (IF part \in change.counts THEN 1 ELSE 0)]
        /\ touched' = touched \cup change.parts
  /\ UNCHANGED <<standard, mode, running, status, attempt, child, pipe, launched>>

Next ==
  \/ EvaluateStep \/ SendDescriptors \/ WritePart \/ ChildExits \/ ChildIsKilled
  \/ ReceiveTurn \/ FinishJob
  \/ \E script \in Scripts : Launch(script)
  \/ JobStops \/ JobContinues
  \/ \E command \in DirectCommands : Direct(command)

(* A process that is resumed again and again makes progress, the reactor    *)
(* reaps, and a stopped job is continued in the end: bg and fg are the      *)
(* user's, and are assumed.                                                 *)
Fairness ==
  /\ SF_vars(EvaluateStep \/ SendDescriptors \/ WritePart \/ ChildExits)
  /\ WF_vars(FinishJob) /\ SF_vars(JobContinues)

Spec == Init /\ [][Next]_vars
FairSpec == Spec /\ Fairness

------------------------------------------------------------------------------
(* Properties.                                                              *)

TypeOK ==
  /\ session.variables \in Store /\ Count(session.variables) <= StoreCap
  /\ mode \in {"editor", "foreground", "stopped"} /\ running \in BOOLEAN
  /\ standard \in {"terminal", "file"}
  /\ child.phase # "none" =>
       /\ child.state.variables \in Store /\ Count(child.state.variables) <= StoreCap
       /\ child.journal \in Seq(JournalEntry) /\ Len(child.journal) <= JournalCap
       /\ Len(child.aliasJournal) <= AliasJournalCap

(* What a variable is worth to a command: its value, if it has one.         *)
Seen(store) == [n \in Names |-> IF store[n].set THEN store[n].value ELSE Nothing]
View(state) == [part \in DOMAIN state |->
                  IF part = "variables" THEN Seen(state[part]) ELSE state[part]]

(* The session changes as the abstract transaction allows: a compound       *)
(* command takes effect whole, as its evaluator left it, or not at all, and *)
(* never over a change the owner made meanwhile; only an owner that stops   *)
(* at once may be left in another directory.                                *)
T == INSTANCE Transaction WITH
       data <- View(session), up <- running,
       work <- IF attempt.active THEN {View(child.state)} ELSE {},
       footprint <- attempt.expected \cup {"variables", "options"}

RefinesTransaction == T!TransactionSpec

(* With the attributes too: when a transaction is accepted, the variables   *)
(* of the session are those the evaluator had at its end, exported and      *)
(* readonly alike.                                                          *)
CommittedIsEvaluators ==
  [][(child.phase = "gone" /\ generation'.variables # generation.variables)
       => session'.variables = child.state.variables]_vars

(* PWD names the directory the shell is in.                                 *)
DirectoryAgrees == running => session.variables["PWD"].value = session.directory

(* A command whose evaluator ended by itself and whose changes were         *)
(* not taken reports 125, never the status the evaluator ended with.        *)
RejectionTold ==
  (child.phase = "gone" /\ mode' = "editor"
     /\ View(session') # View(child.state) /\ touched = {})
    => status' = 125

(* The shell leaves for an exit inside the command only after it took the   *)
(* state the command exited with, or with 125 where it cannot go back to    *)
(* its directory.                                                           *)
ExitFollowsCommit ==
  (running /\ ~ running')
    => \/ /\ child.exiting
          /\ View(session') = [part \in DOMAIN session |->
                IF part \in attempt.expected \cup {"variables", "options"}
                THEN View(child.state)[part] ELSE View(session)[part]]
          /\ status' \in {child.exitStatus, 125}
       \/ /\ status' = 125 /\ "directory" \in attempt.expected
          /\ \A part \in DOMAIN session \ {"directory"} : session'[part] = session[part]

(* What the user is told agrees with what was taken (gsh.c:3371): no        *)
(* status of a rejected command, no exit without its state.  Only a program *)
(* that replaced the evaluator reports its own status and ends the shell.   *)
StatusFollowsCommit ==
  [][~ (child.phase = "gone" /\ child.outcome = "overlaid")
       => RejectionTold /\ ExitFollowsCommit]_vars

(* Every compound command ends: the owner gets back to its editor.          *)
CommandEnds == attempt.active ~> ~ attempt.active
==============================================================================
