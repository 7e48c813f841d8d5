------------------------------ MODULE AsyncRepl ------------------------------
(***************************************************************************)
(* The managed REPL: the reactor of src/gsh.c driving the store of cells,  *)
(* with the children it starts.  The reactor is one thread; a step is one  *)
(* line or key of the user, one event of a child, a PTY or the redirection *)
(* worker, or one step of the scheduler.  A turn of the scheduler starts   *)
(* up to four commands before the next event; here it is one               *)
(* (DispatchNext), after the beginning of the turn (BeginTurn) when that   *)
(* has anything to do.  LLM cells are left out: llm_enabled is FALSE.      *)
(***************************************************************************)
EXTENDS AsyncCells

CONSTANTS MaxId,        \* bound on the commands accepted
          Signals,      \* other processes stop and continue the children
          Interactive,  \* programs turn echo or canonical input off
          Faults        \* PTYs, pipes and forks may fail

ASSUME MaxIdAssumption == MaxId \in Nat
ASSUME FlagsAssumption == {Signals, Interactive, Faults} \subseteq BOOLEAN

VARIABLES cells,       \* async_repl.cells
          nextId,      \* async_repl.next_id
          mode,        \* the reactor's mode
          stateCell,   \* async_state_cell
          evaluator,   \* current_job: the process of the active evaluator
          registry,    \* the pids that background_jobs holds as stopped
          proc         \* the children, as the kernel sees them

vars == <<cells, nextId, mode, stateCell, evaluator, registry, proc>>

(* A list that the reactor owns keeps pending_list_active and MODE_DISPATCH;*)
(* in managed mode one is never without the other.                         *)
Modes == {"EDITOR", "DISPATCH", "REDIRECTION"}

(* Stopping and continued children have an event that waitpid did not yet  *)
(* report; a later change replaces it.                                     *)
Lives == {"free", "running", "stopping", "stopped", "continued", "zombie"}

TypeOK ==
    /\ cells \in [Cells -> Cell]
    /\ \A i \in Cells : cells[i].closed => ~cells[i].pty
    /\ nextId \in Nat \ {0}
    /\ mode \in Modes
    /\ stateCell \in Cells \cup {NoCell}
    /\ evaluator \in Pids \cup {NoPid}
    /\ registry \subseteq Pids
    /\ proc \in [Pids -> Lives]

Init ==
    /\ cells = [i \in Cells |-> FreeCell]
    /\ nextId = 1
    /\ mode = "EDITOR"
    /\ stateCell = NoCell
    /\ evaluator = NoPid
    /\ registry = {}
    /\ proc = [p \in Pids |-> "free"]

(***************************************************************************)
(* The children.                                                           *)
(***************************************************************************)
Stopped(p)   == proc[p] \in {"stopping", "stopped"}
Continued(p) == IF Stopped(p) THEN [proc EXCEPT ![p] = "continued"] ELSE proc
Suspended(p) == IF proc[p] \in {"running", "continued"}
                THEN [proc EXCEPT ![p] = "stopping"] ELSE proc

ProcSignal(p) ==
    /\ Signals
    /\ proc' \in {Continued(p), Suspended(p)} \ {proc}
    /\ UNCHANGED <<cells, nextId, mode, stateCell, evaluator, registry>>

(* A stopped child can only be killed. *)
ProcEnd(p) ==
    /\ \/ proc[p] \in {"running", "continued"}
       \/ Signals /\ Stopped(p)
    /\ proc' = [proc EXCEPT ![p] = "zombie"]
    /\ UNCHANGED <<cells, nextId, mode, stateCell, evaluator, registry>>

(***************************************************************************)
(* The user at the editor.                                                 *)
(***************************************************************************)
Submit(c) ==
    /\ EditorHasKeys(cells)
    /\ nextId <= MaxId
    /\ HasRoom(cells, c.control)
    /\ cells' = Accept(cells, nextId, c)
    /\ nextId' = nextId + 1
    /\ UNCHANGED <<mode, stateCell, evaluator, registry, proc>>

(* resource_notice: a control that is started and finished at once. *)
Notify ==
    /\ EditorHasKeys(cells)
    /\ nextId <= MaxId
    /\ HasRoom(cells, TRUE)
    /\ LET i  == CellFor(cells)
           cs == Accept(cells, nextId, Notice)
       IN  cells' = Finish(Starting(cs, i), i)
    /\ nextId' = nextId + 1
    /\ UNCHANGED <<mode, stateCell, evaluator, registry, proc>>

(* Ctrl-] *)
LeaveJob ==
    /\ ~EditorHasKeys(cells)
    /\ cells' = Unfocus(cells)
    /\ UNCHANGED <<nextId, mode, stateCell, evaluator, registry, proc>>

(* Ctrl-Z *)
SuspendJob ==
    /\ ~EditorHasKeys(cells)
    /\ LET i == FocusedJob(cells)
       IN  /\ cells' = MarkStopped(cells, i)
           /\ registry' = registry \cup {cells[i].pid}
           /\ proc' = Suspended(cells[i].pid)
    /\ UNCHANGED <<nextId, mode, stateCell, evaluator>>

(***************************************************************************)
(* Output of the PTYs.  A program that turns echo or canonical input off   *)
(* asks for the keyboard; end of file closes the cell's output.            *)
(***************************************************************************)
PtyRequest(i) ==
    /\ Interactive
    /\ cells[i].pty
    /\ cells' = Autofocus(RequestInput(cells, i))
    /\ cells' # cells
    /\ UNCHANGED <<nextId, mode, stateCell, evaluator, registry, proc>>

PtyHangup(i) ==
    /\ cells[i].pty
    /\ cells' = CloseOutput(cells, i)
    /\ UNCHANGED <<nextId, mode, stateCell, evaluator, registry, proc>>

(***************************************************************************)
(* reap_children.  The evaluator is the current job: its stops and         *)
(* continuations never reach its cell.                                     *)
(***************************************************************************)
ReapStop(p) ==
    /\ proc[p] = "stopping"
    /\ proc' = [proc EXCEPT ![p] = "stopped"]
    /\ registry' = registry \cup {p}
    /\ cells' = IF p = evaluator THEN cells
                ELSE MarkStopped(cells, CellOf(cells, p))
    /\ UNCHANGED <<nextId, mode, stateCell, evaluator>>

ReapContinue(p) ==
    /\ proc[p] = "continued"
    /\ proc' = [proc EXCEPT ![p] = "running"]
    /\ registry' = registry \ {p}
    /\ cells' = IF p = evaluator THEN cells
                ELSE MarkRunning(cells, CellOf(cells, p))
    /\ UNCHANGED <<nextId, mode, stateCell, evaluator>>

(* finish_job reaps the cell only when there is a state cell. *)
ReapEnd(p) ==
    /\ proc[p] = "zombie"
    /\ proc' = [proc EXCEPT ![p] = "free"]
    /\ registry' = registry \ {p}
    /\ cells' = IF p = evaluator /\ stateCell = NoCell
                THEN cells ELSE ReapCell(cells, p)
    /\ evaluator' = IF p = evaluator THEN NoPid ELSE evaluator
    /\ UNCHANGED <<nextId, mode, stateCell>>

(* receive_redirection_result, reap_redirection_worker *)
RedirectionAnswer ==
    /\ mode = "REDIRECTION"
    /\ mode' = "EDITOR"
    /\ UNCHANGED <<cells, nextId, stateCell, evaluator, registry, proc>>

(***************************************************************************)
(* The scheduler: schedule_managed_submissions.                            *)
(***************************************************************************)
(* Mutant: an evaluator does not keep the lane. *)
LaneTaken == mode # "EDITOR"

LaneBusy == stateCell # NoCell \/ evaluator # NoPid \/ mode # "EDITOR"

(* Mutant: the lane is given back while its evaluator runs. *)
LaneIdle == stateCell # NoCell /\ mode = "EDITOR"

(* finish_managed_state_cell *)
LaneDone == stateCell # NoCell /\ mode = "EDITOR" /\ evaluator = NoPid

TurnDue == LaneDone \/ Autofocus(cells) # cells

BeginTurn ==
    /\ TurnDue
    /\ LET cs == Autofocus(cells)
       IN  cells' = IF LaneDone /\ cs[stateCell].state = "starting"
                    THEN Finish(cs, stateCell) ELSE cs
    /\ stateCell' = IF LaneDone THEN NoCell ELSE stateCell
    /\ UNCHANGED <<nextId, mode, evaluator, registry, proc>>

Scheduled(i) ==
    /\ mode = "EDITOR"
    /\ ~TurnDue
    /\ Dispatchable(cells, LaneBusy) # {}
    /\ i = Oldest(cells, Dispatchable(cells, LaneBusy))

(***************************************************************************)
(* finalize_managed_dispatch: cs is the store the command left, e the      *)
(* evaluator and m the mode after it.  What neither runs nor has settled   *)
(* takes the lane, whoever has it.                                         *)
(***************************************************************************)
TakesLane(i, cs, e, m) ==
    \/ e # NoPid /\ e = cs[i].pid
    \/ /\ cs[i].state # "running" /\ ~Settled(cs[i])
       /\ m # "EDITOR" \/ e # NoPid

Finalize(i, cs, e, m) ==
    /\ cells' = IF TakesLane(i, cs, e, m) \/ cs[i].state = "running"
                THEN cs ELSE Finish(cs, i)
    /\ stateCell' = IF TakesLane(i, cs, e, m) THEN i ELSE stateCell

Runs(i, how) == Scheduled(i) /\ cells[i].cmd.how = how

RunBuiltin(i) ==
    /\ Runs(i, "builtin")
    /\ Finalize(i, Starting(cells, i), evaluator, "EDITOR")
    /\ UNCHANGED <<nextId, mode, evaluator, registry, proc>>

(* start_async_external, start_async_native_pipeline *)
StartExternal(i, p) ==
    /\ Runs(i, "external")
    /\ proc[p] = "free"
    /\ proc' = [proc EXCEPT ![p] = "running"]
    /\ Finalize(i, Attach(Starting(cells, i), i, p), evaluator, "EDITOR")
    /\ UNCHANGED <<nextId, mode, evaluator, registry>>

(* start_native_compound, handoff_managed_compound *)
StartEvaluator(i, p) ==
    /\ Runs(i, "evaluator")
    /\ evaluator = NoPid
    /\ proc[p] = "free"
    /\ proc' = [proc EXCEPT ![p] = "running"]
    /\ evaluator' = p
    /\ Finalize(i, Attach(Starting(cells, i), i, p), p, "EDITOR")
    /\ UNCHANGED <<nextId, mode, registry>>

(* No PTY, no pipe or, for an evaluator, one that is already active: the   *)
(* command is given up, and its cell left as it is.                        *)
RefuseStart(i) ==
    /\ \/ Faults /\ Runs(i, "external")
       \/ Runs(i, "evaluator") /\ (Faults \/ evaluator # NoPid)
    /\ Finalize(i, Starting(cells, i), evaluator, "EDITOR")
    /\ UNCHANGED <<nextId, mode, evaluator, registry, proc>>

(* fork fails: the cell is finished on the spot. *)
FailStart(i) ==
    /\ Faults
    /\ Runs(i, "external")
    /\ Finalize(i, Finish(Starting(cells, i), i), evaluator, "EDITOR")
    /\ UNCHANGED <<nextId, mode, evaluator, registry, proc>>

(* start_async_stateless_redirection; begin_native_list, which handles     *)
(* asynchronous lists and wait and hands the rest to a dispatcher that the *)
(* managed REPL does not run.                                              *)
StartAndHold(i, how, m) ==
    /\ Runs(i, how)
    /\ mode' = m
    /\ Finalize(i, Starting(cells, i), evaluator, m)
    /\ UNCHANGED <<nextId, evaluator, registry, proc>>

StartRedirection(i) == StartAndHold(i, "redirect", "REDIRECTION")
StartList(i)        == StartAndHold(i, "list", "DISPATCH")

(* The jobs that fg and bg may mean; which one is current is left open.    *)
LiveJobs    == {j \in Cells : HasJob(cells[j])}
StoppedJobs == {j \in LiveJobs : cells[j].pid \in registry}

(* SIGCONT to a job the registry holds as stopped. *)
Resume(cs, j) == IF j \in StoppedJobs THEN MarkRunning(cs, j) ELSE cs

ResumeJob(j) ==
    /\ proc' = IF j \in StoppedJobs THEN Continued(cells[j].pid) ELSE proc
    /\ registry' = registry \ {cells[j].pid}

RunForeground(i, j) ==
    /\ Runs(i, "fg")
    /\ j \in LiveJobs
    /\ CanFocus(cells, j)
    /\ Finalize(i, Resume(Focus(Starting(cells, i), j), j), evaluator, "EDITOR")
    /\ ResumeJob(j)
    /\ UNCHANGED <<nextId, mode, evaluator>>

RunBackground(i, j) ==
    /\ Runs(i, "bg")
    /\ j \in StoppedJobs
    /\ Finalize(i, Resume(Starting(cells, i), j), evaluator, "EDITOR")
    /\ ResumeJob(j)
    /\ UNCHANGED <<nextId, mode, evaluator>>

(* No such job, or one that is not stopped. *)
RefuseResume(i) ==
    /\ \/ Runs(i, "fg") /\ LiveJobs = {}
       \/ Runs(i, "bg") /\ LiveJobs \ StoppedJobs # {}
       \/ Runs(i, "bg") /\ LiveJobs = {}
    /\ Finalize(i, Starting(cells, i), evaluator, "EDITOR")
    /\ UNCHANGED <<nextId, mode, evaluator, registry, proc>>

DispatchNext ==
    \E i \in Cells :
        \/ RunBuiltin(i)
        \/ \E p \in Pids : StartExternal(i, p) \/ StartEvaluator(i, p)
        \/ RefuseStart(i) \/ FailStart(i)
        \/ StartRedirection(i) \/ StartList(i)
        \/ \E j \in Cells : RunForeground(i, j) \/ RunBackground(i, j)
        \/ RefuseResume(i)

Reap == \E p \in Pids : ReapStop(p) \/ ReapContinue(p) \/ ReapEnd(p)

Next ==
    \/ \E p \in Pids : ProcSignal(p) \/ ProcEnd(p)
    \/ \E c \in Commands : Submit(c)
    \/ Notify \/ LeaveJob \/ SuspendJob
    \/ \E i \in Cells : PtyRequest(i) \/ PtyHangup(i)
    \/ Reap
    \/ RedirectionAnswer
    \/ BeginTurn
    \/ DispatchNext

(* Every pass of run_reactor reaps what SIGCHLD announced, reads the       *)
(* worker's answer and runs the scheduler; nothing is assumed of the user  *)
(* or of the children.                                                     *)
Fairness ==
    /\ WF_vars(Reap)
    /\ WF_vars(RedirectionAnswer)
    /\ WF_vars(BeginTurn)
    /\ WF_vars(DispatchNext)

Spec == Init /\ [][Next]_vars /\ Fairness

(***************************************************************************)
(* Properties.                                                             *)
(***************************************************************************)

(* The managed REPL implements Submissions: every accepted command starts  *)
(* at most once, whatever cells are reused, and in the order that barriers,*)
(* blockers and controls prescribe (gsh_async_repl_next).                  *)
PendingSubmissions ==
    {[id |-> cells[i].id, cmd |-> cells[i].cmd,
      started |-> cells[i].state # "queued"] :
        i \in {j \in Cells : Unsettled(cells[j])}}

Promise == INSTANCE Submissions WITH
               accepted <- nextId - 1, pending <- PendingSubmissions

KeepsPromise == Promise!SubmissionSpec

(* A child that was not reaped has exactly one cell, which is not settled, *)
(* and a cell names no process that is gone: no reuse of a cell and no     *)
(* branch of reap_children forgets a process or its cell.                  *)
NoLostChild ==
    /\ \A p \in Pids : proc[p] # "free" =>
           \E i \in Cells : /\ cells[i].pid = p
                            /\ cells[i].state \in {"running", "stopped"}
                            /\ \A j \in Cells : cells[j].pid = p => j = i
    /\ \A i \in Cells : HasJob(cells[i]) => proc[cells[i].pid] # "free"

(* Unless a control is under way already, one can be accepted: commands    *)
(* never take the last cell (oldest_reusable_cell), and no control keeps   *)
(* the one it used.                                                        *)
ControlAccepted ==
    \/ HasRoom(cells, TRUE)
    \/ \E i \in Cells : cells[i].cmd.control /\ Unsettled(cells[i])

(* Commands that change the session run one at a time: while the           *)
(* redirection worker or a list has the reactor no evaluator is active,    *)
(* though a subshell is no barrier and may overtake one                    *)
(* (managed_state_lane_busy).                                              *)
OneSessionWriter == mode # "EDITOR" => evaluator = NoPid

(* The cell of a control or a refused command that waits for the lane and  *)
(* was put out of it by another one.                                       *)
PutOut(i) == cells[i].state = "starting" /\ stateCell # i

Quiet   == \A p \in Pids : proc[p] \in {"free", "zombie"}
NoQueue == \A i \in Cells : cells[i].state # "queued"

(* Once the children have ended every accepted command starts, unless a    *)
(* list holds the reactor or a command was put out of the lane.            *)
QueueMoves ==
    <>[]Quiet => []<>\/ NoQueue
                     \/ mode = "DISPATCH"
                     \/ \E i \in Cells : PutOut(i)

(* ... and without these exceptions: an accepted command is not lost.      *)
EveryCommandStarts == <>[]Quiet => []<>NoQueue

(* A job whose stop the reactor has taken does not keep the keyboard.      *)
StoppedJobHasNoKeys ==
    \A i \in Focusable(cells) : cells[i].pid \notin registry
=============================================================================
