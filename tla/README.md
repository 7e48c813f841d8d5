# Verification of gsh

This directory holds TLA+ specifications of gsh (Genshell), the TLC
configurations that model-check them, and TLAPS proofs. It is kept beside the
code: every definition that models code names its source lines in
`PROJECT.json` ("map").

## The system

gsh is an interactive shell written in C. One process runs a `poll()` reactor
(`src/src/gsh.c`); it never executes shell language that may block. External
commands, pipelines and here-document writers are forked; compound commands
run in a forked *evaluator* that sends its state back in a transaction; small
workers (completion, redirection, journal, LLM) answer over pipes. Two things
are hard: the order in which the events of these processes reach the reactor,
and the many places where the code has unrolled a recursive definition (the
grammar, the meaning of a tree, arithmetic) into a bounded machine.

### Inventory

| Component | State | Operations | Interaction | What makes it correct |
|---|---|---|---|---|
| Pipeline status (`background_jobs.c`) | last, selected and rightmost status | initialize, record, result | inside every job | the status is the one by position, whatever the order of reaping |
| Job table (`background_jobs.c`) | 128 entries, ids, current and previous, sequence | add, update, consume, remove, continue, notify, resolve | the reactor, the builtins, the job service | identities are unique, no living child is forgotten |
| Classic reactor (`gsh.c`) | mode, foreground job, terminal, waits, pending list | launch, fg, bg, wait, interrupt, reap | children through signals and `waitpid`, the table by calls | the terminal has the right owner, the prompt comes back, waits end |
| Job service (`gsh.c`) | one outstanding request | jobs, wait, register, kill | evaluator over a socket | an answer no later than the end of its jobs |
| Managed REPL (`async_repl.c`) | 16 cells, 8 jobs, dependencies, AI lane | accept, next, start, attach, reap, close, focus | reactor by calls, children over PTYs | dependencies are kept, cells are not reused while needed, the queue moves |
| Managed dispatch and frames (`gsh.c`) | lanes, PTYs, frame buffers | dispatch, route, draw | drives the REPL store | a lane has one user |
| Evaluator (`gsh.c`) | a stack of 88 tasks, depths of loops, functions, sources | run one task | its own process | the stack computes the meaning of the tree and closes every frame |
| Traps (`shell_traps.c`) | pending flags, entries, subshell snapshot | configure, enter subshell, take | signal handler and evaluator share flags | every caught signal is delivered once |
| State commit (`gsh.c`, stores) | a staged copy of variables, functions, aliases, options, directory | begin, receive, finish, close | evaluator over a pipe | all of the state is taken, or nothing |
| Exec descriptors (`gsh.c`) | descriptors of both processes, channels | protect, send, relocate, place | with the state commit, over a socket | the user's descriptors change as told, the reactor keeps its own |
| Word expansion (`native_plan.c`) | buffers of one command | parameter, arithmetic, splitting, pathname | called by reactor and evaluator | the result is that of the definition of the language |
| Lexer, parser, alias expansion (`posix_*.c`, `alias_expansion.c`) | bounded arrays and stacks | scan, parse, substitute | called by reactor and evaluator | the tree is the one the text means |
| History store and file (`history_*.c`, `builtin_fc.c`) | a ring, a file shared by shells | add, search, load, merge | several processes through a lock and a rename | entries of another shell survive |
| LLM journal (`llm_journal.c`) | queue, pipe, worker, two files | enqueue, write, rotate, shut down | several shells share the file | nothing readable behind a torn record, losses are reported |
| Line editor, completion (`gsh.c`, `completion.c`) | the line, recall, search, paste, a request and its worker | feed a byte, complete, apply | worker over a pipe | what was typed stands in the line; stale answers are dropped |
| Variables, positionals, functions, aliases | values, attributes, definitions | set, unset, export, define | state commit | a scope restores what it shadowed |
| LLM request (`llm_repl.c`, `llm_worker.c`) | request, tool calls, worker | submit, answer, cancel, continue | worker over pipes, cells of the REPL | an answer reaches its own cell or none |
| Configuration, options, command cache | settings, paths by generation | load, set, look up | reactor, state commit | an entry of an old PATH is not used |
| File, text and resource builtins, viewer, hardware probe, JSON, command policy, setup | none of their own | | | sequential or pure |

### Hard behaviours

The members of one job stop, continue and exit on their own; the kernel keeps
at most one unreported change of each. A job changes sides between the
foreground job (`current_job`) and the table, which are separate copies.
Waits of the user and of an evaluator look at the same table. Lists pause in
the reactor and may be interrupted. A compound command that was stopped commits
after the user changed the session. An evaluator dies between two parts of its
transaction. `exec` names numbers that the reactor itself uses. Shells share
files, die, and meet full disks. An answer of a worker comes after the line it
was for. Tables have limits and ids wrap. The list of hazards, each at its line,
is in `PROJECT.json`.

## Modules

| Module | Models |
|---|---|
| `PipelineStatus` | the status accumulator, with the reference "status by position" over a history of exits |
| `JobTable` | `background_jobs.c` as operators from a table to a table; EXTENDS `PipelineStatus` |
| `JobControl` | the classic reactor with its children; EXTENDS `JobTable` |
| `AsyncCells` | the store of `async_repl.c` as operators from a store to a store |
| `AsyncRepl` | the managed reactor of `gsh.c` that drives the store, with its children; EXTENDS `AsyncCells` |
| `Submissions` | the abstract promise of the managed REPL, which `AsyncRepl` implements |
| `TrapState` | the trap store and the flags of its handler |
| `NativeMachine` | the evaluator's stack machine, its subshells and traps; EXTENDS `TrapState` |
| `ShellSemantics` | the reference: what a tree means, by recursion over the tree |
| `VariableStore` | the store of variables and the journal of its changes |
| `StateCommit` | evaluator and owner over a pipe, with the faults of every step; EXTENDS `VariableStore` |
| `Transaction` | the abstract promise "whole or nothing, and over no other change", which `StateCommit` implements |
| `ExecDescriptors` | the descriptor tables of the shell and of an evaluator through `exec` |
| `DescriptorSession` | the abstract promise of `exec`, which `ExecDescriptors` implements |
| `Patterns`, `ArithmeticExpansion`, `WordExpansion` | the algorithms of `native_plan.c`, each with its reference definition; `Patterns` has those that remove a pattern and pathname expansion |
| `Words` | their inputs, and the properties that compare them |
| `Grammar`, `Lexing` | parser, scanner and here-documents, each with its reference |
| `Source` | alias substitution with its reference; the inputs of all three, and the properties that compare them |
| `HistoryRing` | the ring, its readers, and the range of `fc` |
| `HistoryFile` | several shells that load and merge one file; EXTENDS `HistoryRing` |
| `HistoryLog` | the abstract promise of the file: a log, which `HistoryFile` implements |
| `LlmJournal` | queue, pipe, worker, lock, rotation of the journal, shared by shells |
| `Storage` | composes `HistoryFile` and `LlmJournal` |
| `Completion` | word, place, candidates and answer of a completion |
| `LineEditor` | what a byte does to the editor; EXTENDS `HistoryRing` |
| `Editor` | the editor with its completion worker and a job that takes the keyboard; EXTENDS both |
| `MC...` | model values, small alphabets, scripts, symmetry and views for TLC |
| `NaturalMinimum` | lemmas on the least element of a set of naturals, used by several of the proofs |
| `JobControlProofs` | theorems about the operators of `PipelineStatus` and `JobTable`, and about `JobControl`: types, terminal, identities |
| `JobInvariantProofs` | theorems about `JobControl` that relate children, table and foreground job |
| `AsyncReplProofs` | theorems about `AsyncCells` and `AsyncRepl`, and that it implements `Submissions` |
| `EvaluatorProofs` | theorems about `NativeMachine`: its trap stores, and its frames |
| `CommitProofs` | theorems about `VariableStore` and `StateCommit`, and that it implements `Transaction` |
| `StorageProofs` | theorems about `HistoryFile` and `LlmJournal` in `Storage` |
| `DescriptorProofs` | theorems about `ExecDescriptors`, and that it implements `DescriptorSession` |

A definition whose comment begins with "Mutant" is a plausible bug that stands
for the definition it precedes when the properties are tested; no specification
uses it.

### Job control and managed REPL

A job table is a record. The C array with its `known` flags is the function
`slots`, whose domain is the set of known slots. `ghosts` stands for slots
below the high-water mark that are no longer known but whose old contents the
prompt still reads. `nextId`, `current`, `previous` and `nextSeq` are the
fields of the same purpose. `MaxId` is `UINT32_MAX`; the 64-bit sequence does
not wrap in the model. Commands, formats and terminal modes are left out. An
exit status stands for its wait status, and the constant 148 for a stop.

`JobControl` has these variables: `fgJob` is `current_job` with the flags that
steer it (`txn` is `variable_commit_active`: the job is an evaluator whose
commit is outstanding); `mode`, `waitFor` (`wait_all`, `wait_targets`),
`list` and `listActive` (`pending_list_next`, `pending_list_active`), `notify`
and `lastStatus` are the reactor's fields; `service` is the evaluator's
outstanding wait; `terminal` is the owner that `tcsetpgrp` sets. `proc` is the
kernel's view of the children, and is the environment. `owed` and the `exits`
of a job are histories used only by properties.

One action is one handler up to its return to `poll()`, with everything that
it calls: a command includes the prompt that follows it, and the prompt's
deferred reports (`Prompt`) change the table. `Reap(p)` is one turn of the loop
of `reap_children`; its branches are those of the code and in its order:
foreground job first, then the table, then unknown children, and
`finish_job_service_wait` last (`ReplyToService`). The children's own actions
and the user's signals come between any two of these.

`begin_native_list` and the nodes that follow it are `SubmitList` and the
actions that take `Head(list)` in mode `DISPATCH`. `SubmitSwallowed` is the
dispatch of a line while an older list is pending; the nodes left then are
those of a new tree under an old index, so the model leaves open whether they
are the old ones or none. A launch that fails (`Faults`) kills the members and
keeps the job to reap them, silently, as `reject_native_pipeline_fork` and
`handoff_external_job` do. The result of the state commit is left open here
(`lastStatus` may become 125); `StateCommit` is that part of `finish_job`.

The two reactors are modelled apart. gsh runs in managed mode by default, with
a PTY for each command; the classic mode hands over its own terminal. They
share the parser and the job table, but a command is dispatched by one or by
the other, so `JobControl` is a session in classic mode and `AsyncRepl` one in
managed mode.

In `AsyncCells` the array of cells is a function; a cell keeps the fields that
decide something: its state, id, class (`cmd`), process, whether its PTY is
open, whether its output is closed, and the three flags of the keyboard focus.
The four terminal states are one (`settled`), since no guard tells them apart
once statuses are left out. A command is its class: `control`, `barrier`,
`blocks` and `dep` are the flags that `accept_managed_submission` computes from
the syntax, and `how` is the way `dispatch_accepted` takes.

In `AsyncRepl`, `stateCell` is `async_state_cell`, `evaluator` the process of
`current_job`, `registry` the processes that the job table holds as stopped,
and `proc` again the kernel's view. A list that the reactor holds
(`pending_list_active`) is never without `MODE_DISPATCH` in managed mode, so the
mode stands for both. `Submit`, `Notify`, `LeaveJob` (Ctrl-]) and `SuspendJob`
(Ctrl-Z) are the user's. `PtyRequest` and `PtyHangup` are the output of a PTY;
the immediate request of a native viewer is a `PtyRequest` right after the
launch. `ReapStop`, `ReapContinue` and `ReapEnd` are the branches of
`reap_children`, which treats the evaluator apart. A turn of
`schedule_managed_submissions` is `BeginTurn` (the automatic focus, then
`finish_managed_state_cell`) and `DispatchNext`, which starts the oldest cell
that may start and ends in `finalize_managed_dispatch` (`Finalize`). The code
starts up to four commands in a turn; the model starts one, and lets events come
between any two, which is the more general order. `Submissions` knows only what
was accepted and what is not settled yet.

### Evaluator

In `NativeMachine` a process is one record: `ev` holds the fields of
`native_evaluator` that decide control (depths, control in flight, errexit, the
pending exit), `stack` the tasks of `native_machine_workspace` with their cursor
and saved fields, `traps` its trap store. There is an operator for each task of
`run_native_machine_continuation`; `Step` runs the one on top. A subshell suspends
its parent in `parents`; an asynchronous list goes on as parent or as child, so
every process is followed by some behaviour. A simple command is a status, an
effect on the evaluator (`break`, `return`, `exit`, `set -e`, `trap`, a function
call, `eval`, `.`) and its name in `trace`. `Signal` is its handler, and may come
at every step; `Faults` lets forks and the storage of items be
refused. `ShellSemantics` gives the meaning of the same tree by plain recursion,
without stack or bounds.

### State transaction and descriptors

`StateCommit`: `session` is the owner's state by parts, `child` the evaluator
with its copy, its journals and what it has sent, `pipe` the bytes in flight by
parts, `attempt` the owner's staging (`variable_commit_*`), `generation` the
counts of changes. `Launch` is the preflight and the fork, `EvaluateStep` a step
of the script, `WritePart` and `SendDescriptors` the end of the evaluator,
`ReceiveTurn` a turn of the reactor, `FinishJob` the whole of `finish_job` with
`finish_variable_commit`. `JobStops`, `JobContinues` and `Direct` are a
stopped job and what the user does meanwhile. `Faults` names the failures: a
write, a read, a kill, a damaged part, a directory that cannot be entered, a
descriptor that cannot be sent. `touched` is a history of the owner's changes.

`ExecDescriptors`: a table is a function from numbers to what they are open on;
the reactor's own descriptors and the channels of an evaluator are values of
their own, `held` says under which number the reactor uses each. Operations run
in the order of the code (protect, move, open, send; receive into the lowest
numbers, move away, place). An operation on a list of numbers is a fold over it
that stops at the first failure, and `Walk` is one such step. `DescriptorSession`
sees the user's part only.

### Languages

`Words` and `Source` are pure: a state is an input, built piece by piece, and
the invariants compare the algorithm with a definition. The algorithms are kept
as machines (explicit stacks and buffers, passes in place); the definitions are
recursive. In `Patterns` the stars are marked and restored as the code does it,
with a byte that a character of two bytes may have (`Marked`). `Lexing` reads
bytes: what a dollar opens is decided by the longest opening behind it, and a
backslash takes one byte along. In `WordExpansion` a byte carries its provenance, null markers
included, because splitting and `${x:=word}` depend on them. In `Grammar` the
parser writes its tree into arrays with slices, as the code does, because the
slices are where it goes wrong. Elsewhere spelling is abstracted: tokens, pieces,
tokens of patterns, sets of names.

### Storage and editor

`HistoryFile` and `LlmJournal` take one system call at a time, since shells
share the files and die between any two. A line of the history file keeps its
escapes, for two encodings meet in it. Parts of a journal frame stand for its
bytes. `Editor` feeds one byte to `LineEditor` at a time; `Tab` forks a worker
with the line as it is, and its answer is applied when it was reaped. The
session may change directory, variables or aliases in between.

## Runs

| Run | Instance | Distinct states | Shows |
|---|---|---|---|
| `JobSafety` | 3 processes, 1 slot, ids 1..2, statuses 0 and 1, pipelines up to 3, 4 forks, faults | 1,221,842 | `TypeOK`, `PipelineByPosition`, `TerminalOwnership`, `StoppedJobRegistered` |
| `JobLiveness` | 2 processes, 2 slots, ids 1..3, pipelines of 2, waits, one list, 2 forks; fairness | 676,116 | `DistinctJobs`, `CurrentMirrorsTable`, `NoForgottenChild`, `ServiceAnswered`, `ForegroundReturns`, `WaitReturns` |
| `AsyncSafety` | 3 cells, 2 jobs, 4 commands of six classes, signals, interactive programs, faults | 405,654 | `NoLostChild`, `ControlAccepted`, `KeepsPromise` |
| `AsyncQueue` | 4 cells, 2 jobs, 4 commands of four classes; fairness | 60,690 | `OneSessionWriter`, `QueueMoves` |
| `AsyncListLost` | 3 cells, 2 commands, one of them a list of the reactor | | violates `EveryCommandStarts` (below) |
| `Evaluator` | 29 scripts that nest two or three constructs, the caps of the code, 2 signals at any point, refused steps | 11,362 | `Balanced`, `TrapsOK`, `MeetsReference` |
| `Commit` | 4 names in a store of 3, every pair of steps on one variable and one of each other kind, all faults, one attempt, one direct command; fairness | 134,849 | `RefinesTransaction`, `StatusFollowsCommit`, `CommandEnds` |
| `Words` | patterns to 4 tokens of 4 characters on values to 3; expressions of 2 operators on 4 bits; words of 3 pieces; 4 file systems, patterns to 3 components | 295,887 | `RemovalIsExact`, `ArithmeticIsExact`, `SplittingIsExact`, `MatchesAreSorted` |
| `Source` | trees of 3 nested commands, 3 of 27 lines, words of 4 pieces, scripts of 5 lines with here-documents, 4 alias tables with texts to 4 | 160,936 | `TreeIsParsed`, `WordEndsWithItsQuotes`, `LinesAreReadOnce`, `AliasesAreExact`, `SyntaxErrorIsFinal` |
| `Storage` | 2 shells, 2 commands each, a ring of 3, files of other shells, 2 records each | 380,684 | `NothingBehindTorn`, `LossIsReported`, `ReadersSeeTheNewest`, `FileIsLog` |
| `Editor` | every line to 4 of 9 characters completed; 3 keys of 16, 2 pastes, 5 events, a line of 7 | 1,420,064 | `CompletionIsTheWords`, `LineIsWhatWasTyped`, `AnswersAreCurrent` |
| `Descriptors` | 18 numbers, 3 files, exec with one or two redirections, one that fills the table, two programs in one command, 2 evaluators, 1 direct exec | 218,100 | `ReactorKeepsItsOwn`, `ChannelsAreKept`, `KeepsDescriptors` |

### Bounds

Job control. Three members are enough for a pipeline in which the order of
exits and the position of the failure differ, with a member in between; one slot
makes the table full as soon as one job is known, so every refusal and every
reclaim happens, and four forks with two ids make ids wrap and be skipped.
Two jobs are what the current and previous job, a wait with two operands and
two copies of one group need. `MaxLaunches` bounds the number of forks, and is
the only bound on the length of a behaviour. Processes are symmetric (no
operator orders them), so the safety runs use symmetry; the liveness run does
not. Views leave out `lastStatus` (and `owed` in the liveness run), which no
guard and no property of those runs reads. `PidReuse` is FALSE: a process id is
not given out again while an entry remembers it. With TRUE the environment is
the worst possible kernel, for which the code makes no claim.

Managed REPL. Three cells and four commands make cells be reused, the last cell
be kept for a control, and a command be accepted into the cell of an older one
while others still wait; with `JobCap` 2 the limit on jobs is met. In
`AsyncQueue` a fourth cell is needed, because one is always left to the
controls: with four, three other commands overlap, which is what a subshell
needs to overtake a redirection that waits for a barrier.

Evaluator. The rules of the machine meet in pairs, so each script nests two or
three constructs; two signals suffice for one that arrives in the action of the
other. `MaxSignals` bounds signals, `StepCap` the cursor of one walk. The
recursive function reaches the task cap of 88.

Commit. One variable sees every pair of steps, since the journal folds at most
two changes at a time; a crowded script passes the cap of the store on its way;
two alias entries fill the journal. One stopped job and one direct command are
what a lost generation needs.

Words, Source. Four bits make every overflow reachable that 64 do. Patterns
of four tokens give two stars with segments around them; one character is ASCII,
one is not and one has the byte that marks stars; three pieces put one between two; three nested commands are one inside another that has a sibling.
Caps of arrays in `Source` are large enough not to be met; the caps of contexts,
here-documents, expansions and text are met.

Storage, Editor. Two shells race for a lock; a ring of three is overwritten
within two sessions; a frame of two parts is torn in the middle. A paste has
text that begins like its own end. Three keys after a history and a line of the
start reach recall, search and every state of an escape sequence.

Descriptors. With 18 numbers the table is full after `Many`, so every
relocation that can fail does; two launches let a second evaluator start from
moved descriptors.

`CHECK_DEADLOCK FALSE` stands where the number of commands, records, events or
pieces is bounded and the system stops once they are used up. In `JobControl`
and `NativeMachine` deadlock is checked: the shell can always do something, or
the script is done.

### Fairness

`JobControl!FairSpec` assumes only that a child does not stay reportable for
ever. `SIGCHLD` writes to the signal pipe, which wakes `poll()`; a full batch
of reaps writes again (`requeue_child_signal`). No child is assumed to exit and
the user is not assumed to type. The formula `[]<>~Reportable(p)` says the same
as weak fairness of `Reap(p)`, which is enabled exactly while `Reportable(p)`
holds and makes it false.

`AsyncRepl!Fairness` assumes weak fairness of `Reap` (as above), of the answer
of the redirection worker (a worker that writes a file and exits; its pipe is
polled), and of the two parts of a turn, which every pass of `run_reactor`
executes. `QueueMoves` is conditional on the children being gone from some time
on.

`StateCommit!FairSpec` assumes weak fairness of `FinishJob` (the reactor reaps)
and strong fairness of the evaluator's own steps and of `JobContinues`: a
stopped evaluator is resumed by the user again and again, and a process that is
resumed for ever runs. The stop comes from the user, so without this assumption
nothing ends; `MaxDirect` bounds only what the owner does meanwhile. Scripts are
finite, so a process that runs ends.

## What the properties say

- `PipelineByPosition`: the accumulator, updated event by event in the two
  copies of a job, equals what the history of exits says.
- `CurrentMirrorsTable`: the two copies never differ.
- `TerminalOwnership`: the owner of the terminal, the mode and the foreground
  flag move together on every path, the failing ones included.
- `StoppedJobRegistered`: the capacity that a launch checks is still there
  when the job stops.
- `NoForgottenChild`, `DistinctJobs`: no living child leaves the books, and
  identities are not shared, through reclaiming and wrapping.
- `ServiceAnswered`: an evaluator is not left waiting after an event that
  finished its jobs, and a request does not survive its evaluator.
- `ForegroundReturns`, `WaitReturns`: liveness. The second excludes a retained
  foreground job, for which it is false (below).
- `KeepsPromise`: `AsyncRepl` implements `Submissions`. The scheduler looks for
  what a command depends on among the cells that are still there; the property
  says that the reuse of cells never makes it miss an earlier unsettled command,
  and that no command starts twice or comes back after it has settled.
- `NoLostChild`: a process that is not reaped has exactly one unsettled cell.
- `ControlAccepted`: with the store full of jobs the user can still say `fg`.
- `OneSessionWriter`: two commands that change the session never overlap, though
  three different mechanisms (mode, `current_job`, `async_state_cell`) each
  guard a part of it.
- `QueueMoves`: nothing that was accepted waits for ever once the children are
  gone, except behind the defects below.
- `MeetsReference`: the stack machine runs the commands and ends with the status
  that the recursive meaning of the script has, whatever signals are caught.
- `Balanced`: every depth the evaluator counts is the number of frames of that
  kind on its stack, however control leaves them; and the loops that a `break` or
  `continue` has yet to leave are there, unless the process ends with an error.
- `TrapsOK`: the count of actions, the summary flag and the snapshot of a
  subshell agree with the entries; a subshell has only its own actions.
- `RefinesTransaction`: `StateCommit` implements `Transaction`.
- `StatusFollowsCommit`: 125 exactly where the changes were not taken; no exit
  of the shell without the state it exits with.
- `CommandEnds`: the owner gets back to its editor.
- `RemovalIsExact`, `ArithmeticIsExact`, `SplittingIsExact`, `MatchesAreSorted`:
  each algorithm gives what its definition gives: the five searches agree, no
  operation is done that would overflow and no skipped branch has an effect,
  splitting in place reads no byte that it has overwritten, a pattern names the
  files that match it. `RemovalIsExact` leaves out a bracket with a character that
  holds the marker's byte, for which it is false (below).
- `TreeIsParsed`: parsing the text of a tree gives the tree.
  `WordEndsWithItsQuotes`: a word ends where what is open in it does, and every
  prefix of it asks for more, but for a dollar alone; the grammar of words
  (`MayWrap`) leaves out two texts that are read otherwise (below).
  `LinesAreReadOnce`: each line of a script is a
  command or belongs to one document. `AliasesAreExact`: substituting in the
  text over and over gives what reading it once gives, and ends.
  `SyntaxErrorIsFinal`: input that is called wrong cannot be completed.
- `FileIsLog`: `HistoryFile` implements `HistoryLog`: a shell that exits appends
  its whole session once, and one that dies leaves the file as it was.
- `NothingBehindTorn`, `LossIsReported`: only the last record of a file may be
  torn, and a record that was accepted is on disk or its loss is told.
- `ReadersSeeTheNewest`: recall, search and `fc` see the newest commands in
  order through the wrap of the ring.
- `CompletionIsTheWords`: completion extends the word at the cursor as a shell
  reads it, by the names its place allows, and a cycle goes through them.
- `LineIsWhatWasTyped`: pastes are kept whole, each line end once, and end;
  characters stay whole.
- `AnswersAreCurrent`: an answer that enters the line is one that the shell
  would give now.
- `ReactorKeepsItsOwn`, `ChannelsAreKept`: no `exec`, borrowed redirection or
  relocation takes a number that the reactor or an evaluator's channel has.
- `KeepsDescriptors`: `ExecDescriptors` implements `DescriptorSession`: a change
  of the user's descriptors is lost only with the process or when told. A command
  that tried several programs ends with 125 (`failed`), which tells nothing of them:
  the shell understands the outcome of one program only (`finish_exec_outcome`).

## Disagreements

`AsyncListLost` is kept as a run: `EveryCommandStarts` (`src/README.md` line
666). In managed mode an asynchronous list or a plain `wait` leaves
`MODE_DISPATCH` to a dispatcher that returns at once while the managed REPL is
enabled. The scheduler runs in `MODE_EDITOR` only. No later command starts, and
Ctrl-C only clears the line. It was also seen in the program.

The others are stated in the modules and are not runs of their own. Each is
found by TLC with the run's configuration after the change in parentheses.

Job control and managed REPL:
- `WaitAnswered` (in `JobLiveness.cfg`, as its only property): a background job
  is stopped, resumed with `fg`, stopped again, killed; `wait` is given before
  the death is reaped. The job is still `current_job`, so the event takes the
  branch that does not call `finish_background_wait` (`gsh.c:3734`), and the
  wait ends only with Ctrl-C or another event.
- `EditorHasNoPendingList` (same): Ctrl-C between two nodes of a list, or the
  stop of one node, opens the editor with the list still pending. The next line
  is not run; the list goes on (`gsh.c:4168`).
- `PromptReportsKnownJobs` (same): `emit_deferred_job_notifications` reads slots
  that were consumed.
- `ForegroundNotFrozen` (same): in `a | b`, `a` is stopped and then `b` exits.
  Nothing runs and the shell does not take the terminal back.
- `OneSessionWriter` fails with a control that the dispatcher runs as a list
  (`Control("list")` among the commands of `AsyncQueue.cfg`), and
  `ControlAccepted` with one that is a job of its own (`Control("external")`, in
  `AsyncSafety.cfg`): `command_is_managed_control` (`gsh.c:10807`) takes
  every line that begins with `exit` for a control, `exit & true` too.
- `StoppedJobHasNoKeys` (in `AsyncSafety.cfg`): the stop of an evaluator by
  another process does not reach its cell, which keeps the keyboard.
- An evaluator that was stopped, resumed and waits for all jobs waits for its
  own entry.

Evaluator (`Evaluator.cfg`, `MaxSignals = 0`, `Faults = FALSE`):
- `CleanBetweenCommands` (`Scripts <- DeepScripts`): a push on the full stack of
  88 tasks stops the machine with the status it has and leaves the depths and
  slots as they are; a function that calls itself in an `if` ends silently with
  0, below its limit of 32 calls, and `return` is then accepted outside of any
  function (`gsh.c:19236`).
- `SuppressionExplained` (`Scripts <- BranchScripts`): the list after `else` is
  exempt from `set -e` like a condition (`gsh.c:19494`).
- `FatalStops` (`Scripts <- FatalScripts`): an error that ends the shell does not
  stop every construct around it. `TakenActionRuns` (`LeavingScripts`,
  `MaxSignals = 2`): the action of a signal that arrives while the words of a
  `return` are expanded is lost. `{ false && true; }` under `set -e`
  exits.
- `Balanced` had `levels <= loops` without its exception, which the proof found to
  be wrong: a trap action that cannot be prepared (`gsh.c:20983`) when a `break`
  completes is a fatal error with `loop_levels` set. The loop then finishes without
  `consume_loop_control` (`gsh.c:19638`, `19736`), so `loop_levels` stays 1 with no
  loop left, and the EXIT action is passed over.

State transaction (`Commit.cfg`):
- `DirectoryAgrees` (`Faults = {}`, `DirectCommands <- CdDirect`): a `cd` typed
  while a compound command is stopped counts no generation (`gsh.c:9532`); the
  command then enters its own directory, and PWD names another.
- `CommittedIsEvaluators`: a variable unset and set again in a compound command
  keeps the export it lost (`shell_variables.c:763`).
- `RefinesTransaction` fails with `JournalCap = 1`: a change that finds the
  journal of variables full (64 names) stops the command with 125, but the state
  it has then is sent and taken, without that change. A full alias journal does
  commit nothing (`gsh.c:18546`).
- A journal in the order of first changes can exceed the table on its way
  although its result fits, and is refused with 125. An interrupted compound
  command leaves `$?` at 125.

Words (`Words.cfg`), languages (`Source.cfg`):
- `BracketsKeepTheirCharacters`: the stars of a pattern are overwritten with the
  byte 0x80 and the pattern is split at every such byte (`native_plan.c:1757`,
  `1789`), also at one that belongs to a character in a bracket: with `x=a`,
  `${x#*[aÀ]*}` is cut inside of the bracket and removes nothing. Restoring the
  stars turns that byte into `*` (`1775`, `2100`), so a longest removal lets the
  bracket take a star. `RemovalIsExact` excludes these patterns on text in ASCII
  (`StarInBracket`); complemented brackets are not modelled.
- `AssignedIsExpanded`: `${x:="foo"}` stores what comes before the first null
  byte, the marker of the quote (`native_plan.c:2441`).
- `PatternFindsMatches`: `*/` stays as it is when a plain file stands beside the
  directories (`native_plan.c:5809`).
- `UnquotedAtRemovesEmpty`: an unquoted `$@` with a delimiter before the marker
  of a parameter leaves an empty field.
- `RedirectsAreTheirs`: a compound command takes the first redirection of its
  body for its own (`posix_parser.c:275`).
- `ForListIsIncomplete`: `for x in a b` at the end of input is an error instead of
  incomplete. `for x in a do; do` is refused, `"${x:-it's}"` asks for more, the
  first `)` of a `case` in `$(...)` ends it.
- `SubshellIsCommand`: `$((a)a)`, a command that begins with a subshell, is read as
  arithmetic, and asks for more for ever (`posix_lexer.c:141`).
  `DollarInQuotesIsByte`: in `"$'"` the dollar opens a quote, though it has no
  meaning within double quotes (`posix_lexer.c:162`). `MayWrap` leaves out both.
- The alias tables hold no value that ends in a blank nested in the word that
  another one forces to be read: there the code and the definition part.

Editor and history (`Editor.cfg`, `Storage.cfg`):
- With `FocusWithin = TRUE` the part `PasteEnds` fails: a job that asks for
  private input within a paste takes the end of the paste, and Enter then only
  adds lines (`gsh.c:12250`).
- Completion splits a word that starts with an escaped character wrongly, takes a
  quoted command name for unknown, writes a newline in a file name as backslash
  and newline, and completes commands after a redirection at the start
  (`ReadAlike` leaves these out). CR ESC [ LF in a paste loses a line end. At the
  cap of the line a character may be cut. A line too long leaves recall
  unfinished. An interrupt by signal leaves a cycle active.
- `fc -l N` lists only the event N; a private `fc` still leaves out the newest
  command.

Descriptors (`Descriptors.cfg`, `Scripts <- MCSourced`): `KeepsDescriptors` fails,
since the preflight sees no `exec` in a file read by `.` or in `eval`; its change
ends with the evaluator, silently, although `README.md:190` says that both REPLs
preserve descriptor changes. `ChannelsAreKept` fails too: the preflight decides
whether the channels are moved above the user's numbers (`gsh.c:22966`), so a
sourced `exec 9>&1` can name the channel of its own commit.

## Proofs

Every theorem holds for all values of the constants that satisfy the named
assumptions of the modules: for any number of processes, slots, cells, shells,
commands and statuses, where a run has two or three. The assumptions say what
the code fixes: caps are positive, there are more job ids than slots (otherwise
`next_job_id` can fail with a free slot), conditions of traps are finitely many
naturals with 0, the session has its parts, a command is one of those the model
knows on a name a variable may have, a file that the user opens is neither the
reactor's nor a channel, no command of the history is empty and at least one is
kept. Theorems that need more have it as a
hypothesis, which the run of the same property satisfies. Each one follows from an
inductive invariant, proved action by action.

### Jobs (`JobControlProofs`, `JobInvariantProofs`)

- `TypeCorrect`, `TerminalSafe`: inductive together. `ShapeOK` is needed: the
  lists of states and exits have the length of the list of members.
- `DistinctAlways`: `DistinctInv` adds that every sequence number is below
  `nextSeq` and that the foreground job's members are distinct, since a job that
  stops enters the table with them. An action keeps a part of the entries (`Keeps`)
  or adds one (`AddsDistinct`).
- `RecordAgrees`, `ResultByPosition`: the accumulator agrees with the history of
  exits after each member, in any order, and then answers by position.
- `JobControlInvariant`, with `StatusIsByPosition`, `CountsAreExact`,
  `CopiesAgree`, `StopsAreRegistered` and `ChildrenAreKnown` as its consequences.
  None of these five is inductive alone. `JobsInv` says of each group that its
  count is exact, its accumulator agrees with its exits, and its reaped members are
  no children any more; of the foreground job that each entry is either its copy or
  shares no process with it, and that, as long as it has no entry, it has not
  stopped and a slot is free or reclaimable for it; and of the children that each
  one alive is a member of a job. Hypothesis `~PidReuse`: the kernel does not give
  out a process id that an entry still remembers. The code keeps bare ids, so
  nothing can be shown without it.
- `ServiceIsAnswered`: unconditional; whichever branch of `reap_children` takes
  the event, `ReplyToService` comes after it and looks at the same table.

### Managed REPL (`AsyncReplProofs`)

- `ReplTypeCorrect`, `ChildrenAreOwned`: `ReplInv` relates a cell's state to its
  process, its PTY and its output (`CellOK`), gives occupied cells ids of their own
  below `nextId`, cells and children each other one for one, and the evaluator the
  lane.
- `WritersExclude`, under `HoldersAreBarriers`: what takes the reactor itself (a
  redirection, a list) is a barrier and no control.
- `RoomForControls`, under `ControlsRunHere`: a control is run by the reactor and
  has no child. Both hypotheses are what `accept_managed_submission` gives every
  line except one that begins with `exit` and goes on (Disagreements).
- `ReplKeepsPromise`: the refinement of `Submissions`. The reuse of a cell is a
  stutter, since what is settled is not in the mapping; the order of controls and
  barriers follows from the ids.

### Evaluator (`EvaluatorProofs`)

- `TrapsAreKept`: from `TrapsInvariant`, which speaks of every pair of processes
  in the chain of subshells, not of the innermost alone: when a subshell ends,
  the pair below becomes the innermost. The operations of one store are lemmas.
  The attempt found an error of the model: the stages of a pipeline fork from the
  process that waits for them, and not one from another. `NativeMachine` and
  `TrapState` were corrected.
- `FramesAreBalanced`: the counters of the evaluator and its stack are separate
  pieces of state, changed in different places, so that `Balanced` says nothing of
  what the counters will be after the next task is popped. The invariant gives each
  task the *level* below it: `Over(l, t)` is the level above `t`, `Fits(t, l)` says
  that what the task saved (loops of the caller, source slot, dot depth) is what
  `l` has, and `Standing` that the stack climbs in this way from the level its
  process began with to the one the evaluator counts. Pushing and popping
  (`PushStands`, `PopStands`) keep it, and every task is shown to leave the level
  it stands on, whichever way control leaves it.
- Besides, a process leaves loops or returns or exits, never two of these, and no
  more loops than there are (`Rules`), except where an error is fatal (`Doomed`), the
  action of EXIT gives back the exit it interrupted (`Ending`), or no room was left
  for this action (`Stuck`). The processes that wait are `Quiet`: each began to wait
  at a node, with no `break` in flight.
- The last step counts: the sums along the climb are the cardinalities that
  `Balanced` compares (`CountedSteps`, `LevelsAreTasks`).
- The attempt found the conjunct on `loop_levels` false as it stood (Disagreements),
  that the model read the script's next command after the action of EXIT had begun
  (`gsh.c:23690`), and that a `break` took the operand 0, which the code refuses
  (`gsh.c:17959`).

### State transaction (`CommitProofs`)

- `CommitInvariant`: wherever the owner changed nothing since the fork, replaying
  the journals on the owner's stores gives the evaluator's, and a part the script
  cannot change is the owner's; what the owner did change it counted; and a
  transaction that was spoilt is never written.
- `CommitRefines`: every action is a step of `Transaction` or a stutter.
- `StatusIsTold`: 125 exactly with a refusal, and no exit but with its state. The
  attempt showed that a first form of `ExitFollowsCommit` took a moved directory
  for the sign of the emergency exit; it now says that this exit comes with 125,
  only where a directory was expected, and leaves every other part as it was.
- Hypotheses: `OwnerStaysPut`, the user gives no `cd` while the job is stopped,
  because `cd` counts no generation (`gsh.c:9532`); and `JournalHasRoom`, a script
  changes no more names than the journal holds. Both are necessary: TLC refutes
  the refinement without either (Disagreements).

### Storage (`StorageProofs`)

- `TornIsLast`: `FilesInv` says that a worker within a record holds the lock, so
  that nobody else appends, and that the file it is about to append to has only
  whole records, since `Readable` equals the file only then.
- `LossIsTold`: `OwnerSound` says that while nobody was warned the parts of the
  records not yet written are, without a gap and in order (`Follows`), in the
  worker, the pipe and the queue, that a closed pipe means an empty queue, and that
  a worker that ended by itself had nothing left. Then a shell that is done has all
  it accepted on disk. For the history: where a session can be given up, it was
  told.
- `HistoryIsLog`: `HistoryFile` implements `HistoryLog`, every step a step of the
  log or a stutter. `LogInv` says that a shell between its lock and its release owns
  the lock, that a ring that was merged is what the file holds now plus the session,
  and that a temporary file about to take the place of the file is that ring, written.
  Three groups of lemmas carry it. A ring of any size holds the newest of what was
  added to it, in order, with duplicates left out as asked (`AddKeeps`,
  `AddAllKeeps`); taking the newest twice, or before and after an append, is taking
  them once (`NewestOfNewest`, `NewestAppend`, `NewestOnce`), so that the ring's
  capacity and `history.max_entries` can cut at different places; and a command that
  is written is read back as it was, escapes, line ends and a leading mark included
  (`WrittenIsRead`). What a fold or a recursive function does is had from its steps:
  it exists (`FoldExists`, `RecursionExists`), hence it is its definition
  (`FoldRuns`). `HistoryFileAssumption` states what the code ensures: no empty
  command is recorded (`history_store.c:53`), and a shell keeps at least one entry
  and at most the ring's (`shell_config.c:244`).
- `NewestAreRead`: from the same invariant, every ring is one whose entries stand,
  in order, from its start around (`RingOK`). Then the events that `fc` lists are
  the end of its entries without the last (`FcLists`), and the greatest event with a
  prefix is the greatest entry with it (`PrefixFinds`), where a reverse search has to
  stop (`PrefixIsHeld`). For the journal, readers see all records but a torn last one
  (`ReadableTalk`, from `TornAtEnd`), and the slots hold the last of the talk, each at
  its number modulo the slots (`Holds`): a record that is put takes the place of no
  other one that is still needed (`OtherPlace`), so the exchanges that are asked for,
  which are at most half of the slots (`JournalAssumption`, `llm_journal.c:487`), are
  all there (`ContextIs`).

### Descriptors (`DescriptorProofs`)

- `DescriptorsInvariant`: each process is `Sound`: every number of its table is the
  user's, or in use by the one who takes it for his. This is inductive for the shell.
  For the evaluator it needs that its ends are above the standard numbers and outside
  of what its commands name (`EvaluatorSound`), which the preflight provides; and
  `dirty` has to say whether a command that changes descriptors was run (`Changing`).
  An evaluator that was replaced has reported one program, or more than the shell
  understands; one that was not replaced never reports that it was.
- `OwnIsKept`: unconditional; whatever evaluators do, sourced texts included.
- `ChannelsKept`, `ExecKeepsItsPromise`: under `NothingSourced`, no script takes its
  commands from a file or a string. Both are false without it (Disagreements). The
  second is the refinement: a borrowed redirection is a stutter (`BorrowIsNothing`:
  what is saved in order and restored in the reverse order leaves the table as it
  was, failures at any point included), and what arrives over the socket is, after
  it was moved aside and placed, what the evaluator had (`ReceiveSound`).
- An operation on a list of numbers is a recursive function. `WalkExists` shows
  that it is defined, and what it does is shown step by step (`StepByStep`), which
  follows from the least element of a set of naturals.
- The attempt found that in the result of `exec` two guards of a CASE overlapped,
  so that the model fixed neither; the rewritten `RunExec` tests them in the order
  of the code.

### Model-checked only

Liveness (`ForegroundReturns`, `WaitReturns`, `QueueMoves`, `CommandEnds`): proofs
need ENABLED and fairness, which the prover does not handle. The properties of
`Words`, `Source` and `Editor`, and `MeetsReference`, rest on definitions by
recursion (`Patterns`, `ArithmeticExpansion`, `WordExpansion`, `Grammar`, `Lexing`,
`Source`, `Completion`, `LineEditor`, `Editor`, `ShellSemantics` declare RECURSIVE
operators).

## Not modelled

The reasons are in `PROJECT.json`. In the classic reactor: negated pipelines
(the status is only inverted), an asynchronous node inside a longer list and the
registration of children by an evaluator. In the managed REPL: the AI lane,
cancelled and rejected cells, the statuses that `$?`, `wait` and dependent
commands read, frames and viewports, the change between the two modes, and
shutdown. Which of several live jobs `fg` and `bg` mean is left open, since the
current job is `JobTable`'s matter.

Of the language: the expansion of here-documents, the scanner inside `$(...)`,
the decoding of quoted delimiters, redirections of external commands, scopes of
variables, and what the builtins do. The request of the model, its tool calls
and its worker, the files and text builtins, the viewer, hardware probe, JSON
and command policy are not modelled: the first is a process of its own that the
shell reaches through the journal and the cells, the others are sequential or
pure.

Hazards without a property: an evaluator that waits for itself (above); a
finished job that is reclaimed before `wait` asks for it, which then answers
127; a late stop of a child whose cell was cancelled (`async_repl.c:1554`); an AI
cell that cannot attach its continuation (`gsh.c:12663`); a command that depends
on a cell that was reused (`async_repl.c:336`); a launch refused before its fork,
which is finished with an older status (`gsh.c:8240`).

## Plan

1. The AI lane in `AsyncRepl`: LLM cells, cancellation, and the answer that comes
   after it.
