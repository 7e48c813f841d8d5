---------------------------- MODULE NativeMachine ----------------------------
(***************************************************************************)
(* The evaluator of src/gsh.c for commands read from a script: one machine *)
(* per process, whose stack of tasks replaces recursion over the tree.     *)
(*                                                                         *)
(* A process is a record (run); the shell and the subshells that wait for  *)
(* the one that executes are kept in `parents'.  Processes share nothing,  *)
(* so the fork of an asynchronous list goes on either as the parent or as  *)
(* the child, and every process is followed by some behaviour.  Words,     *)
(* variables, redirections and the output of commands are left out: a      *)
(* simple command has an effect on the evaluator and a status, and tells   *)
(* its name to `trace'.                                                    *)
(***************************************************************************)
EXTENDS Integers, Sequences, SequencesExt, FiniteSets, TrapState

CONSTANTS Scripts,      \* sequences of complete commands, as syntax trees
          Functions,    \* the body of each function, by name
          Actions,      \* the tree of the action of each condition
          TaskCap,      \* NATIVE_MACHINE_TASK_CAP
          FunctionCap,  \* GSH_FUNCTION_DEPTH_CAP
          SourceCap,    \* GSH_SOURCE_DEPTH_CAP
          StepCap,      \* bound on the steps of one walk over a sequence
          MaxSignals,   \* bound on the signals that arrive
          Faults        \* forks and the storage of items may fail

ASSUME CapsAssumption ==
    /\ {TaskCap, FunctionCap, SourceCap, StepCap, MaxSignals} \subseteq Nat
    /\ Faults \in BOOLEAN

VARIABLES script,    \* the complete commands not yet read
          run,       \* the process that executes
          parents,   \* the processes that wait for it, innermost last
          trace,     \* names of the commands that ran
          signals,   \* signals that arrived so far
          faulted,   \* something was refused
          origin     \* where the process that is followed began

vars == <<script, run, parents, trace, signals, faulted, origin>>

(***************************************************************************)
(* Tasks and processes.                                                    *)
(***************************************************************************)
None == [kind |-> "none"]

SequenceKinds == {"list", "and_or"}

Task(kind, node, suppressed) ==
    [kind |-> kind, node |-> node, suppressed |-> suppressed, cursor |-> 1,
     tested |-> FALSE, through |-> FALSE, result |-> 0, text |-> FALSE,
     frames |-> <<>>, waiting |-> FALSE, saved |-> None]

NodeTask(node, suppressed) == Task("NODE", node, suppressed)

NewEvaluator ==
    [exiting |-> FALSE, exitStatus |-> 0, returning |-> FALSE,
     returnStatus |-> 0, control |-> "none", levels |-> 0, loops |-> 0,
     fatal |-> FALSE, last |-> 0, functions |-> 0, dots |-> 0,
     sources |-> 0, slots |-> 0, texts |-> 0, errexit |-> FALSE,
     exitTrap |-> "idle", value |-> 0]

(* What the evaluator holds when the machine starts: no part of the code,  *)
(* the frames on the stack are counted from it.                            *)
Held(ev) == [functions |-> ev.functions, slots |-> ev.slots,
             texts |-> ev.texts, loops |-> ev.loops, dots |-> ev.dots]

NewRun(ev, traps, stack, child) ==
    [stack |-> stack, status |-> 0, ev |-> ev, traps |-> traps,
     live |-> TRUE, child |-> child,
     base |-> Held(ev)]

Init ==
    /\ script \in Scripts
    /\ run = NewRun(NewEvaluator, NewStore({}), <<>>, FALSE)
    /\ parents = <<>>
    /\ trace = <<>>
    /\ signals = 0
    /\ faulted = FALSE
    /\ origin = [commands |-> script, ev |-> NewEvaluator]

Top == Last(run.stack)
Popped == [run EXCEPT !.stack = Front(@)]

Flip(status) == IF status = 0 THEN 1 ELSE 0
Negated(neg, status) == IF neg /\ status # 125 THEN Flip(status) ELSE status

(* A push that finds the stack full stops the machine with the status it   *)
(* has (run_native_machine_continuation) or with 125 (a step on a node).   *)
Push(c, tasks) ==
    IF Len(c.stack) + Len(tasks) > TaskCap
    THEN [c EXCEPT !.live = FALSE]
    ELSE [c EXCEPT !.stack = @ \o tasks]

Explain(c) == IF c.live THEN c ELSE [c EXCEPT !.status = 125]

Fail(c) == [c EXCEPT !.status = 125, !.live = FALSE]

(***************************************************************************)
(* The completion of a command: pending traps, $?, errexit.                *)
(***************************************************************************)
ErrexitApplies(ev, status, suppressed) ==
    /\ ~suppressed /\ status # 0
    /\ ~ev.exiting /\ ~ev.returning
    /\ ev.errexit

Settle(c, suppressed) ==
    [c EXCEPT !.ev.last = c.status,
              !.ev.fatal = @ \/ ErrexitApplies(c.ev, c.status, suppressed)]

TrapResult(ev, prior) ==
    CASE ev.exiting -> ev.exitStatus
      [] ~ev.exiting /\ ev.fatal -> 2
      [] OTHER -> prior

(* Mutant: $? is that of the action. *)
EndPendingChanged(c, saved) == [c EXCEPT !.status = TrapResult(c.ev, c.ev.last)]

(* finish_native_trap_request after the frame of the action was left. *)
EndPending(c, saved) ==
    [c EXCEPT !.ev.last = saved.prior,
              !.status = TrapResult(c.ev, saved.prior)]

EndExit(c, saved, actionStatus) ==
    LET replaced == c.ev.fatal /\ actionStatus # saved.prior
        status == CASE c.ev.exiting -> c.ev.exitStatus
                    [] ~c.ev.exiting /\ replaced -> actionStatus
                    [] OTHER -> saved.prior
    IN [c EXCEPT !.status = status,
                 !.ev.exitTrap = "complete",
                 !.ev.exiting = @ \/ saved.exiting,
                 !.ev.exitStatus = CASE c.ev.exiting -> @
                                     [] ~c.ev.exiting /\ replaced -> status
                                     [] OTHER -> saved.exitStatus,
                 !.ev.fatal = @ \/ saved.fatal,
                 !.ev.last = status]

SavedTrap(c, condition) ==
    [kind |-> "trap", condition |-> condition, prior |-> c.status,
     exiting |-> c.ev.exiting, fatal |-> c.ev.fatal,
     exitStatus |-> c.ev.exitStatus, sources |-> c.ev.sources,
     slot |-> c.ev.slots + 1]

BeginExit(c) ==
    [c EXCEPT !.ev.exitTrap = "running", !.ev.exiting = FALSE,
              !.ev.fatal = FALSE, !.ev.last = c.status]

CanEnterSource(ev) == ev.sources = ev.slots /\ ev.slots < SourceCap

EnterSource(c) == [c EXCEPT !.ev.sources = @ + 1, !.ev.slots = @ + 1]

ActionTasks(saved, suppressed) ==
    <<[Task("TRAP_FINISH", None, suppressed) EXCEPT !.saved = saved],
      NodeTask(Actions[saved.condition], FALSE)>>

TrapDue(c) ==
    c.ev.exitTrap # "running" /\ ~c.ev.exiting /\ HavePending(c.traps)

(* complete_native_machine_node; an action that cannot be prepared is      *)
(* fatal and reported at once.                                             *)
Complete(c, suppressed) ==
    IF ~TrapDue(c) THEN Settle(c, suppressed)
    ELSE LET taken == [c EXCEPT !.traps = AfterTake(@)]
             saved == SavedTrap(c, TakenCondition(c.traps))
         IN CASE Caught(c.traps) = {} -> Settle(taken, suppressed)
              [] Caught(c.traps) # {} /\ CanEnterSource(c.ev) ->
                     Push([EnterSource(taken) EXCEPT !.ev.last = c.status],
                          ActionTasks(saved, suppressed))
              [] OTHER ->
                     Settle(EndPending([taken EXCEPT !.ev.fatal = TRUE], saved),
                            suppressed)

(* leave_native_trap_frame, and the slot is released if it is the top one. *)
LeaveAction(c, saved) ==
    IF saved.slot = c.ev.slots
    THEN [c EXCEPT !.ev.sources = saved.sources, !.ev.slots = @ - 1]
    ELSE [c EXCEPT !.ev.sources = saved.sources, !.ev.fatal = TRUE,
                   !.status = 125]

FinishTrap(c, task) ==
    LET left == LeaveAction(c, task.saved)
    IN IF task.saved.condition # 0
       THEN Complete(EndPending(left, task.saved), task.suppressed)
       ELSE LET ended == EndExit(left, task.saved, left.status)
            IN IF c.child THEN Complete(ended, task.suppressed) ELSE ended

(***************************************************************************)
(* One step of the process that executes takes the task on top.            *)
(***************************************************************************)
Runs == run.live /\ run.stack # <<>>

On(kind) == Runs /\ Top.kind = kind

Keep == UNCHANGED <<script, parents, trace, signals, faulted, origin>>

(* evaluator_control_status: a node met while control leaves is passed. *)
Unwinds(ev) == ev.exiting \/ ev.returning \/ ev.levels # 0

ControlStatus(ev) ==
    CASE ev.exiting -> ev.exitStatus
      [] ~ev.exiting /\ ev.returning -> ev.returnStatus
      [] OTHER -> ev.last

Suppressed(task) == task.suppressed \/ task.node.neg

OnNode(kinds) ==
    /\ On("NODE")
    /\ ~Unwinds(run.ev)
    /\ Top.node.kind \in kinds

Foreground(kinds) == OnNode(kinds) /\ ~Top.node.async

PassNode ==
    /\ On("NODE")
    /\ Unwinds(run.ev)
    /\ run' = Complete([Popped EXCEPT !.status = ControlStatus(run.ev)],
                       Suppressed(Top))
    /\ Keep

(***************************************************************************)
(* Sequences: lists and and-or lists that stand in one another are walked  *)
(* by one task with a frame for each.                                      *)
(***************************************************************************)
Frame(node, suppressed) ==
    [node |-> node, next |-> 1, status |-> 0, suppressed |-> suppressed]

Selected(parent, i, status) ==
    CASE parent.kind # "and_or"      -> TRUE
      [] parent.ops[i] = "and"       -> status = 0
      [] parent.ops[i] = "or"        -> status # 0
      [] OTHER                       -> TRUE

TestsChild(parent, i) == parent.kind = "and_or" /\ i < Len(parent.kids)

(* One turn of next_sequence_evaluation on [frames, status, child]. *)
Walk(w) ==
    LET f == Last(w.frames)
        outer == Front(w.frames)
        kid == f.node.kids[f.next]
        moved == Append(outer, [f EXCEPT !.next = @ + 1])
        inner == f.suppressed \/ TestsChild(f.node, f.next)
    IN CASE w.child # None \/ w.frames = <<>> -> w
         [] f.next > Len(f.node.kids) ->
              [w EXCEPT !.status = f.status,
                        !.frames = IF outer = <<>> THEN <<>>
                                   ELSE Append(Front(outer),
                                          [Last(outer) EXCEPT !.status = f.status])]
         [] ~Selected(f.node, f.next, f.status) -> [w EXCEPT !.frames = moved]
         [] kid.kind \in SequenceKinds /\ ~kid.async ->
              [w EXCEPT !.frames = Append(moved, Frame(kid, inner))]
         [] OTHER -> [w EXCEPT !.frames = moved,
                               !.child = [node |-> kid, suppressed |-> inner]]

WalkAll(frames, status) ==
    FoldLeft(LAMBDA w, i : Walk(w),
             [frames |-> frames, status |-> status, child |-> None],
             [i \in 1..StepCap |-> i])

StartSequence ==
    /\ Foreground(SequenceKinds)
    /\ run' = Explain(Push(Popped,
                 <<[Task("SEQUENCE", Top.node, Top.suppressed) EXCEPT
                      !.frames = <<Frame(Top.node, Top.suppressed)>>]>>))
    /\ Keep

Stops(ev) == ev.fatal \/ Unwinds(ev)

Noted(frames, status) ==
    Append(Front(frames), [Last(frames) EXCEPT !.status = status])

StepSequence ==
    /\ On("SEQUENCE")
    /\ IF Top.waiting /\ Stops(run.ev)
       THEN run' = Complete(Popped, Top.suppressed)
       ELSE LET w == WalkAll(IF Top.waiting THEN Noted(Top.frames, run.status)
                             ELSE Top.frames, run.status)
                again == [Top EXCEPT !.frames = w.frames, !.waiting = TRUE]
            IN run' = IF w.child = None
                      THEN Complete([Popped EXCEPT !.status = w.status],
                                    Top.suppressed)
                      ELSE Push(Push(Popped, <<again>>),
                                <<NodeTask(w.child.node, w.child.suppressed)>>)
    /\ Keep

(***************************************************************************)
(* Negation, conditions, case and loops.                                   *)
(***************************************************************************)
StartPipeline ==
    /\ Foreground({"pipeline"})
    /\ LET kid == NodeTask(Top.node.kids[1], Suppressed(Top))
           not == Task("NEGATE", Top.node, TRUE)
       IN run' = Explain(Push(Popped, IF Top.node.neg THEN <<not, kid>>
                                                       ELSE <<kid>>))
    /\ Keep

StepNegate ==
    /\ On("NEGATE")
    /\ run' = Complete([Popped EXCEPT !.status = Flip(@)], Top.suppressed)
    /\ Keep

StepComplete ==
    /\ On("COMPLETE")
    /\ run' = Complete(Popped, Top.suppressed)
    /\ Keep

StartIf ==
    /\ Foreground({"if"})
    /\ run' = Explain(Push(Popped, <<Task("IF", Top.node, Top.suppressed)>>))
    /\ Keep

(* A branch is [test, body]; the else branch is [body] and has no body     *)
(* after it, so that its list is the test.                                 *)
HasBody(branch) == Len(branch.kids) = 2

StepIf ==
    /\ On("IF")
    /\ LET branches == Top.node.kids
           tested == branches[Top.cursor - 1]
           done == [Top EXCEPT !.kind = "COMPLETE"]
           next == [Top EXCEPT !.tested = TRUE, !.cursor = @ + 1]
       IN run' =
            CASE Top.tested /\ (~HasBody(tested) \/ Unwinds(run.ev)) ->
                   Push(Popped, <<done>>)
              [] Top.tested /\ HasBody(tested) /\ ~Unwinds(run.ev)
                            /\ run.status = 0 ->
                   Push(Popped, <<done, NodeTask(tested.kids[2],
                                                 Top.suppressed)>>)
              [] OTHER ->
                   IF Top.cursor > Len(branches)
                   THEN Push([Popped EXCEPT !.status = 0], <<done>>)
                   ELSE Push(Popped, <<next, NodeTask(branches[Top.cursor].kids[1],
                                                      TRUE)>>)
    /\ Keep

Refused(c, task) == Push([c EXCEPT !.status = 125],
                         <<[task EXCEPT !.kind = "COMPLETE"]>>)

StartCase ==
    /\ Foreground({"case"})
    /\ \/ /\ run' = Explain(Push([Popped EXCEPT !.ev.texts = @ + 1],
                    <<[Task("CASE", Top.node, Top.suppressed) EXCEPT
                         !.text = TRUE]>>))
          /\ UNCHANGED faulted
       \/ /\ Faults
          /\ run' = Explain(Refused(Popped, Top))
          /\ faulted' = TRUE
    /\ UNCHANGED <<script, parents, trace, signals, origin>>

(* Mutant: the items are kept when control leaves. *)
KeepText(c, task) == IF task.text /\ ~Unwinds(c.ev) THEN [c EXCEPT !.ev.texts = @ - 1] ELSE c

ReleaseText(c, task) ==
    IF task.text THEN [c EXCEPT !.ev.texts = @ - 1] ELSE c

(* The first item from the cursor on that matches, or that is fallen into. *)
Matching(task) ==
    {i \in task.cursor..Len(task.node.kids) :
       \/ task.node.kids[i].matches
       \/ task.through /\ i = task.cursor}

(* The item whose list is run next: items without one fall through or end. *)
CaseStep(c, task) ==
    LET items == task.node.kids
        first == CHOOSE i \in Matching(task) : \A j \in Matching(task) : i <= j
        ended(t) == Push(ReleaseText([c EXCEPT !.status = t.result], t),
                         <<[t EXCEPT !.kind = "COMPLETE", !.text = FALSE]>>)
        taken == [task EXCEPT !.cursor = first + 1,
                              !.through = items[first].through]
    IN CASE Matching(task) = {} -> ended(task)
         [] Matching(task) # {} /\ items[first].kids # <<>> ->
              Push(c, <<[taken EXCEPT !.kind = "CASE_AFTER"],
                        NodeTask(items[first].kids[1], task.suppressed)>>)
         [] OTHER ->
              IF taken.through THEN Push(c, <<[taken EXCEPT !.result = 0]>>)
                               ELSE ended([taken EXCEPT !.result = 0])

StepCase ==
    /\ On("CASE")
    /\ run' = CaseStep(Popped, Top)
    /\ Keep

(* A pattern that cannot be read ends the case without completing it. *)
FailCase ==
    /\ On("CASE") /\ Faults
    /\ run' = [ReleaseText(Popped, Top) EXCEPT !.status = 125]
    /\ faulted' = TRUE
    /\ UNCHANGED <<script, parents, trace, signals, origin>>

StepCaseAfter ==
    /\ On("CASE_AFTER")
    /\ LET told == [Top EXCEPT !.result = run.status]
       IN run' = IF Unwinds(run.ev) \/ ~Top.through
                 THEN Push(ReleaseText(Popped, Top),
                           <<[told EXCEPT !.kind = "COMPLETE", !.text = FALSE]>>)
                 ELSE CaseStep(Popped, [told EXCEPT !.kind = "CASE"])
    /\ Keep

StartFor ==
    /\ Foreground({"for"})
    /\ LET text == Top.node.items # 0
           loop == [Task("FOR", Top.node, Top.suppressed) EXCEPT !.text = text]
       IN \/ /\ run' = Explain(Push([Popped EXCEPT
                        !.ev.loops = @ + 1,
                        !.ev.texts = @ + (IF text THEN 1 ELSE 0)], <<loop>>))
             /\ UNCHANGED faulted
          \/ /\ Faults
             /\ run' = Explain(Refused(Popped, Top))
             /\ faulted' = TRUE
    /\ UNCHANGED <<script, parents, trace, signals, origin>>

FinishFor(c, task) ==
    LET left == [ReleaseText(c, task) EXCEPT !.ev.loops = @ - 1,
                                             !.status = task.result]
    IN Push(left, <<[task EXCEPT !.kind = "COMPLETE", !.text = FALSE]>>)

ForItem(c, task) ==
    IF task.cursor > task.node.items THEN FinishFor(c, task)
    ELSE Push(c, <<[task EXCEPT !.kind = "FOR_AFTER", !.cursor = @ + 1],
                   NodeTask(task.node.kids[1], task.suppressed)>>)

StepFor ==
    /\ On("FOR")
    /\ run' = ForItem(Popped, Top)
    /\ Keep

(* The variable of the loop cannot be assigned. *)
FailFor ==
    /\ On("FOR") /\ Faults /\ Top.cursor <= Top.node.items
    /\ run' = FinishFor(Popped, [Top EXCEPT !.result = 1])
    /\ faulted' = TRUE
    /\ UNCHANGED <<script, parents, trace, signals, origin>>

(* consume_loop_control: one loop is left, the last one may go on. *)
LoopControl(ev) ==
    CASE ev.levels = 0 -> "NONE"
      [] ev.levels = 1 /\ ev.control = "continue" -> "NEXT"
      [] OTHER -> "LEAVE"

Consume(c) ==
    [c EXCEPT !.ev.levels = IF @ = 0 THEN 0 ELSE @ - 1,
              !.ev.control = IF c.ev.levels = 1 THEN "none" ELSE @]

Leaves(ev) == ev.fatal \/ ev.exiting \/ ev.returning

StepForAfter ==
    /\ On("FOR_AFTER")
    /\ LET told == [Top EXCEPT !.result = run.status]
       IN run' = CASE Leaves(run.ev) -> FinishFor(Popped, told)
                   [] ~Leaves(run.ev) /\ LoopControl(run.ev) = "LEAVE" ->
                        FinishFor(Consume(Popped), told)
                   [] OTHER -> ForItem(Consume(Popped), told)
    /\ Keep

Condition(c, task) ==
    Push(c, <<[task EXCEPT !.kind = "WHILE_CONDITION"],
              NodeTask(task.node.kids[1], TRUE)>>)

StartWhile ==
    /\ Foreground({"while", "until"})
    /\ run' = LET c == Condition([Popped EXCEPT !.ev.loops = @ + 1],
                                 Task("WHILE", Top.node, Top.suppressed))
              IN IF c.live THEN c
                 ELSE Explain([c EXCEPT !.ev.loops = run.ev.loops])
    /\ Keep

FinishWhile(c, task) ==
    LET ended == [c EXCEPT !.ev.loops = @ - 1,
                           !.status = CASE c.ev.exiting -> c.ev.exitStatus
                                        [] ~c.ev.exiting /\ c.ev.returning ->
                                             c.ev.returnStatus
                                        [] OTHER -> task.result]
    IN Push(ended, <<[task EXCEPT !.kind = "COMPLETE"]>>)

StepCondition ==
    /\ On("WHILE_CONDITION")
    /\ LET told == [Top EXCEPT !.result = run.status]
           ends == (Top.node.kind = "while") # (run.status = 0)
           control == LoopControl(run.ev)
       IN run' =
            CASE Leaves(run.ev) -> FinishWhile(Popped, Top)
              [] ~Leaves(run.ev) /\ control = "LEAVE" ->
                   FinishWhile(Consume(Popped), told)
              [] ~Leaves(run.ev) /\ control = "NEXT" ->
                   Condition(Consume(Popped), told)
              [] OTHER ->
                   IF ends THEN FinishWhile(Popped, Top)
                   ELSE Push(Popped, <<[Top EXCEPT !.kind = "WHILE_BODY"],
                                       NodeTask(Top.node.kids[2],
                                                Top.suppressed)>>)
    /\ Keep

StepBody ==
    /\ On("WHILE_BODY")
    /\ LET told == [Top EXCEPT !.result = run.status]
       IN run' = CASE Leaves(run.ev) -> FinishWhile(Popped, told)
                   [] ~Leaves(run.ev) /\ LoopControl(run.ev) = "LEAVE" ->
                        FinishWhile(Consume(Popped), told)
                   [] OTHER -> Condition(Consume(Popped), told)
    /\ Keep

(***************************************************************************)
(* Simple commands.                                                        *)
(***************************************************************************)
Leaf(op) == Foreground({"simple"}) /\ Top.node.cmd.op = op

Command == Top.node.cmd

Told(status) == Negated(Top.node.neg, status)

Ends(c, status) == Complete([c EXCEPT !.status = status], Suppressed(Top))

RunCommand ==
    /\ Leaf("run")
    /\ trace' = Append(trace, Command.name)
    /\ run' = Ends(Popped, Told(Command.status))
    /\ UNCHANGED <<script, parents, signals, faulted, origin>>

(* An external test of a variable, and the assignment that changes it. *)
RunCounter ==
    /\ Leaf("tick")
    /\ run' = Ends([Popped EXCEPT !.ev.value = @ + 1],
                   Told(IF run.ev.value < Command.limit THEN 0 ELSE 1))
    /\ Keep

RunSet ==
    /\ Leaf("set")
    /\ run' = Ends([Popped EXCEPT !.ev.errexit = Command.on], Told(0))
    /\ Keep

(* A name that is no condition is refused, like any operand that is bad. *)
RunTrap ==
    /\ Leaf("trap") /\ Command.condition \in Conditions
    /\ run' = Ends([Popped EXCEPT !.traps = Configure(@, Command.condition,
                                                         Command.action)],
                   Told(0))
    /\ Keep

(* A special builtin that fails is fatal. *)
RunSpecialFailure ==
    /\ Leaf("refused")
    /\ run' = Ends([Popped EXCEPT !.ev.fatal = TRUE], Told(1))
    /\ Keep

RunExit ==
    /\ Leaf("exit")
    /\ LET status == IF Command.given THEN Command.status ELSE run.ev.last
       IN run' = Ends([Popped EXCEPT !.ev.exiting = TRUE,
                                     !.ev.exitStatus = status], status)
    /\ Keep

RunReturn ==
    /\ Leaf("return")
    /\ run' = IF run.ev.functions = 0 /\ run.ev.dots = 0
              THEN Ends(Popped, Told(1))
              ELSE Ends([Popped EXCEPT !.ev.returning = TRUE,
                                       !.ev.returnStatus = Told(Command.status)],
                        Told(Command.status))
    /\ Keep

(* A count that is no positive number is refused like any bad operand.     *)
RunLoopControl ==
    /\ Leaf("break") \/ Leaf("continue")
    /\ Command.count \in Nat \ {0}
    /\ run' = IF run.ev.loops = 0 THEN Ends(Popped, Told(1))
              ELSE Ends([Popped EXCEPT
                           !.ev.control = Command.op,
                           !.ev.levels = IF Command.count < run.ev.loops
                                         THEN Command.count ELSE run.ev.loops],
                        Told(0))
    /\ Keep

(***************************************************************************)
(* Functions, eval and dot put a frame below their body.                   *)
(***************************************************************************)
EnterFunction(c) ==
    [c EXCEPT !.ev.functions = @ + 1, !.ev.loops = 0, !.ev.control = "none",
              !.ev.levels = 0, !.ev.returning = FALSE]

SavedFunction(ev, neg) ==
    [kind |-> "function", loops |-> ev.loops, control |-> ev.control,
     levels |-> ev.levels, neg |-> neg]

FunctionTasks(kind, ev, name, neg, suppressed) ==
    <<[Task(kind, None, suppressed) EXCEPT !.saved = SavedFunction(ev, neg)],
      NodeTask(Functions[name], suppressed)>>

CallFunction ==
    /\ Leaf("call")
    /\ run' = IF run.ev.functions >= FunctionCap
              THEN Ends(Popped, 125)
              ELSE Explain(Push(EnterFunction(Popped),
                     FunctionTasks("FUNCTION_FINISH", run.ev, Command.name,
                                   Top.node.neg, Suppressed(Top))))
    /\ Keep

LeaveFunction(c, saved) ==
    [c EXCEPT !.status = Negated(saved.neg, IF c.ev.returning
                                            THEN c.ev.returnStatus ELSE @),
              !.ev.returning = FALSE,
              !.ev.functions = @ - 1, !.ev.loops = saved.loops,
              !.ev.control = saved.control, !.ev.levels = saved.levels]

FinishFunction ==
    /\ On("FUNCTION_FINISH")
    /\ run' = Complete(LeaveFunction(Popped, Top.saved), Top.suppressed)
    /\ Keep

SavedSource(ev, dot, neg) ==
    [kind |-> "source", dot |-> dot, neg |-> neg, dots |-> ev.dots,
     sources |-> ev.sources, slot |-> ev.slots + 1]

RunSource ==
    /\ Leaf("eval") \/ Leaf("dot")
    /\ LET dot == Command.op = "dot"
           entered == [EnterSource(Popped) EXCEPT
                         !.ev.dots = @ + (IF dot THEN 1 ELSE 0)]
       IN run' = IF ~CanEnterSource(run.ev)
                 THEN Ends([Popped EXCEPT !.ev.fatal = TRUE], 125)
                 ELSE Explain(Push(entered,
                        <<[Task("SOURCE_FINISH", None, Suppressed(Top)) EXCEPT
                             !.saved = SavedSource(run.ev, dot, Top.node.neg)],
                          NodeTask(Command.body, Suppressed(Top))>>))
    /\ Keep

LeaveSource(c, saved) ==
    LET ev == c.ev
        returned == ~ev.exiting /\ saved.dot /\ ev.returning
        status == CASE ev.exiting -> ev.exitStatus
                    [] returned -> ev.returnStatus
                    [] OTHER -> c.status
        left == [c EXCEPT !.status = IF ev.fatal \/ ev.exiting THEN status
                                     ELSE Negated(saved.neg, status),
                          !.ev.returning = @ /\ ~returned,
                          !.ev.dots = saved.dots,
                          !.ev.sources = saved.sources]
    IN IF saved.slot = ev.slots
       THEN [left EXCEPT !.ev.slots = @ - 1]
       ELSE [left EXCEPT !.ev.fatal = TRUE, !.status = 125]

FinishSource ==
    /\ On("SOURCE_FINISH")
    /\ run' = Complete(LeaveSource(Popped, Top.saved), Top.suppressed)
    /\ Keep

FinishAction ==
    /\ On("TRAP_FINISH")
    /\ run' = FinishTrap(Popped, Top)
    /\ Keep

(***************************************************************************)
(* Processes.                                                              *)
(***************************************************************************)
ChildEvaluator(ev) ==
    [ev EXCEPT !.loops = 0, !.control = "none", !.levels = 0]

Fork(c, ev, stack) == NewRun(ev, EnterSubshell(c.traps), stack, TRUE)

Waiting(stages) == [run |-> Popped, suppressed |-> Suppressed(Top),
                    neg |-> Top.node.neg, stages |-> stages]

StartSubshell ==
    /\ Foreground({"subshell"})
    /\ parents' = Append(parents, Waiting(<<>>))
    /\ run' = Fork(run, ChildEvaluator(run.ev),
                   <<NodeTask(Top.node.kids[1], Top.suppressed)>>)
    /\ UNCHANGED <<script, trace, signals, faulted, origin>>

(* The stages of a pipeline share nothing: they are run one after another, *)
(* each a fork of the process c that waits for all of them.                *)
StageRun(c, stage, suppressed) ==
    LET ev == [c.ev EXCEPT !.returning = FALSE, !.exiting = FALSE,
                           !.fatal = FALSE]
        called == EnterFunction(Fork(c, ev, <<>>))
    IN IF stage.cmd.op = "call"
       THEN [called EXCEPT !.stack = FunctionTasks("CHILD_FINISH", ev,
                                        stage.cmd.name, FALSE, suppressed)]
       ELSE [Fork(c, ev, <<>>) EXCEPT !.status = stage.cmd.status]

StageTrace(stage) ==
    IF stage.cmd.op = "call" THEN trace ELSE Append(trace, stage.cmd.name)

StartStages ==
    /\ Foreground({"stages"})
    /\ parents' = Append(parents, Waiting(Tail(Top.node.kids)))
    /\ run' = StageRun(run, Head(Top.node.kids), Suppressed(Top))
    /\ trace' = StageTrace(Head(Top.node.kids))
    /\ UNCHANGED <<script, signals, faulted, origin>>

FinishChild ==
    /\ On("CHILD_FINISH")
    /\ run' = LeaveFunction(Popped, Top.saved)
    /\ Keep

AsyncParent ==
    /\ On("NODE") /\ ~Unwinds(run.ev) /\ Top.node.async
    /\ run' = Ends(Popped, 0)
    /\ Keep

AsyncChild ==
    /\ On("NODE") /\ ~Unwinds(run.ev) /\ Top.node.async
    /\ LET node == [Top.node EXCEPT !.async = FALSE]
       IN /\ run' = Fork(run, ChildEvaluator(run.ev),
                         <<NodeTask(node, Suppressed(Top))>>)
          /\ origin' = [commands |-> <<node>>, ev |-> ChildEvaluator(run.ev)]
    /\ parents' = <<>> /\ trace' = <<>> /\ script' = <<>>
    /\ UNCHANGED <<signals, faulted>>

(* A fork that fails stops the whole machine. *)
FailFork ==
    /\ On("NODE") /\ ~Unwinds(run.ev) /\ Faults
    /\ Top.node.async \/ Top.node.kind = "subshell"
    /\ run' = Fail(Popped)
    /\ faulted' = TRUE
    /\ UNCHANGED <<script, parents, trace, signals, origin>>

Halted == ~run.live \/ run.stack = <<>>

WantsExitAction(c) == c.ev.exitTrap = "idle" /\ HasAction(c.traps, 0)

(* The script goes on with its next command unless the shell must end or   *)
(* the action of EXIT has begun.                                           *)
Reads ==
    /\ ~run.child /\ script # <<>> /\ ~run.ev.fatal /\ ~run.ev.exiting
    /\ run.ev.exitTrap = "idle"

RunExitAction ==
    /\ Halted /\ ~Reads
    /\ run.child => run.live
    /\ WantsExitAction(run)
    /\ LET begun == [BeginExit(run) EXCEPT !.stack = <<>>, !.live = TRUE,
                                           !.base = Held(run.ev)]
           saved == SavedTrap(run, 0)
       IN run' = IF CanEnterSource(run.ev)
                 THEN Push(EnterSource(begun), ActionTasks(saved, FALSE))
                 ELSE EndExit([begun EXCEPT !.ev.fatal = TRUE], saved, 125)
    /\ Keep

Gone == Halted /\ ~Reads /\ (WantsExitAction(run) => run.child /\ ~run.live)

Resume ==
    /\ run.child /\ Gone /\ parents # <<>>
    /\ LET p == Last(parents)
       IN IF p.stages # <<>>
          THEN /\ run' = StageRun(p.run, Head(p.stages), p.suppressed)
               /\ trace' = StageTrace(Head(p.stages))
               /\ parents' = Append(Front(parents),
                                    [p EXCEPT !.stages = Tail(@)])
          ELSE /\ run' = Complete([p.run EXCEPT !.status =
                                      Negated(p.neg, run.status)], p.suppressed)
               /\ parents' = Front(parents)
               /\ UNCHANGED trace
    /\ UNCHANGED <<script, signals, faulted, origin>>

ReadCommand ==
    /\ Halted /\ Reads
    /\ run' = NewRun([run.ev EXCEPT !.fatal = FALSE, !.sources = 0],
                     run.traps, <<NodeTask(Head(script), FALSE)>>, FALSE)
    /\ script' = Tail(script)
    /\ UNCHANGED <<parents, trace, signals, faulted, origin>>

Done == Gone /\ parents = <<>>

Ended == Done /\ UNCHANGED vars

(* A caught signal reaches the process that runs or one that waits. *)
Signal ==
    /\ signals < MaxSignals /\ ~Done
    /\ signals' = signals + 1
    /\ \E c \in Conditions \ {0} :
         \/ /\ HasAction(run.traps, c)
            /\ run' = [run EXCEPT !.traps = Arrive(@, c)]
            /\ UNCHANGED parents
         \/ \E i \in DOMAIN parents :
              /\ HasAction(parents[i].run.traps, c)
              /\ parents' = [parents EXCEPT ![i].run.traps = Arrive(@, c)]
              /\ UNCHANGED run
    /\ UNCHANGED <<script, trace, faulted, origin>>

Step ==
    \/ PassNode \/ StartSequence \/ StepSequence
    \/ StartPipeline \/ StepNegate \/ StepComplete
    \/ StartIf \/ StepIf \/ StartCase \/ StepCase \/ FailCase \/ StepCaseAfter
    \/ StartFor \/ StepFor \/ FailFor \/ StepForAfter
    \/ StartWhile \/ StepCondition \/ StepBody
    \/ RunCommand \/ RunCounter \/ RunSet \/ RunTrap \/ RunSpecialFailure
    \/ RunExit \/ RunReturn \/ RunLoopControl
    \/ CallFunction \/ FinishFunction \/ RunSource \/ FinishSource
    \/ FinishAction
    \/ StartSubshell \/ StartStages \/ FinishChild
    \/ AsyncParent \/ AsyncChild \/ FailFork
    \/ RunExitAction \/ Resume \/ ReadCommand

Next == Step \/ Signal \/ Ended

Spec == Init /\ [][Next]_vars

(***************************************************************************)
(* Properties.                                                             *)
(***************************************************************************)
Evaluators ==
    [exiting : BOOLEAN, exitStatus : Nat, returning : BOOLEAN,
     returnStatus : Nat, control : {"none", "break", "continue"},
     levels : Nat, loops : Nat, fatal : BOOLEAN, last : Nat,
     functions : 0..FunctionCap, dots : Nat, sources : 0..SourceCap,
     slots : 0..SourceCap, texts : Nat, errexit : BOOLEAN,
     exitTrap : {"idle", "running", "complete"}, value : Nat]

(* The evaluator has its fields, the stack its room, and no depth passes   *)
(* its cap.                                                                *)
TypeOK ==
    /\ run.ev \in Evaluators
    /\ run.traps \in TrapStore
    /\ run.status \in Nat
    /\ Len(run.stack) <= TaskCap
    /\ signals \in 0..MaxSignals

TasksFrom(k, Is(_)) ==
    Cardinality({i \in DOMAIN run.stack : i > k /\ Is(run.stack[i])})

IsLoop(task) ==
    task.kind \in {"FOR", "FOR_AFTER", "WHILE_CONDITION", "WHILE_BODY"}
IsFunction(task) == task.saved.kind = "function"
IsSlot(task) == task.saved.kind \in {"source", "trap"}
IsDot(task) == task.saved.kind = "source" /\ task.saved.dot
HasText(task) == task.text

(* A fatal error ends the shell; while its action of EXIT runs the frame   *)
(* at the bottom of the stack remembers it.                                *)
Doomed(c) ==
    \/ c.ev.fatal
    \/ /\ c.stack # <<>> /\ c.ev.exitTrap = "running"
       /\ c.stack[1].kind = "TRAP_FINISH" /\ c.stack[1].saved.condition = 0
       /\ c.stack[1].saved.fatal

(* While the machine runs, every depth the evaluator counts is the number  *)
(* of frames of that kind on the stack, however control leaves them: a     *)
(* break, a return, an exit or a fatal error closes each frame it crosses  *)
(* once, a function hides the loops of its caller, and a source slot is    *)
(* released in the order they were taken (gsh.c:18184-18268, 19558-19782,  *)
(* 20281-20461).  A `break' leaves no more loops than there are, unless an *)
(* error made the shell close them (gsh.c:19638, 19736) before it counted  *)
(* them.                                                                   *)
Balanced ==
    run.live =>
      LET functions == {i \in DOMAIN run.stack : IsFunction(run.stack[i])}
          inner == CHOOSE i \in functions \cup {0} : \A j \in functions : j <= i
      IN /\ run.ev.functions = run.base.functions + TasksFrom(0, IsFunction)
         /\ run.ev.slots = run.base.slots + TasksFrom(0, IsSlot)
         /\ run.ev.texts = run.base.texts + TasksFrom(0, HasText)
         /\ run.ev.dots = run.base.dots + TasksFrom(0, IsDot)
         /\ run.ev.loops = TasksFrom(inner, IsLoop)
                           + (IF inner = 0 THEN run.base.loops ELSE 0)
         /\ run.ev.levels <= run.ev.loops \/ Doomed(run)

(* The trap store of every process is right, and a subshell that has not   *)
(* set a trap of its own still lists those of the shell that started it    *)
(* (shell_traps.c:407-554).                                                *)
TrapsOK ==
    /\ StoreOK(run.traps)
    /\ \A i \in DOMAIN parents : StoreOK(parents[i].run.traps)
    /\ run.traps.snapshot # NoSnapshot /\ parents # <<>> =>
         \A c \in Conditions : HasAction(Last(parents).run.traps, c) =>
                               QueryState(run.traps, c) = "ACTION"

(* A command that ends in whatever way, refused ones included, leaves the  *)
(* evaluator as it found it for the next command of the script.            *)
CleanBetweenCommands ==
    Halted /\ Reads => Held(run.ev) = Held(NewEvaluator)

(* `set -e' is put off only where a status is tested: below a condition, a *)
(* negation or a non-final part of an and-or list, in this process or in   *)
(* the one that waits for it (posix_conformance.c:2989-3003).              *)
Tests(task) ==
    \/ task.kind \in {"NEGATE", "WHILE_CONDITION"}
    \/ task.kind = "IF" /\ HasBody(task.node.kids[task.cursor - 1])
    \/ \E i \in DOMAIN task.frames :
         LET f == task.frames[i] IN TestsChild(f.node, f.next - 1)
    \/ task.saved.kind \in {"function", "source"} /\ task.saved.neg

SuppressionExplained ==
    On("NODE") /\ Top.suppressed =>
      \/ \E i \in DOMAIN run.stack : Tests(run.stack[i])
      \/ \E p \in DOMAIN parents :
           \/ parents[p].neg
           \/ \E i \in DOMAIN parents[p].run.stack : Tests(parents[p].run.stack[i])

(* Once an error is fatal the shell only leaves: no further command runs.  *)
FatalStops ==
    [][run.ev.fatal /\ run'.ev.fatal => trace' = trace]_vars

(* An action whose signal was taken from the store is run.                 *)
TakenActionRuns ==
    Done /\ signals # 0 /\ run.traps.pending = {} => "signal-action" \in ToSet(trace)
=============================================================================
