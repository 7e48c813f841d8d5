----------------------------- MODULE JobControl -----------------------------
(***************************************************************************)
(* The classic reactor of src/gsh.c and its children.  The shell is one    *)
(* thread: an action is one command the editor submits, one continuation   *)
(* of a list, one request of an evaluator, or one child event taken by     *)
(* waitpid.  The children run on their own: they stop, continue and exit   *)
(* between any two actions, and the kernel keeps at most one unreported    *)
(* event for each of them.                                                 *)
(***************************************************************************)
EXTENDS JobTable

CONSTANTS ExitStatus,     \* statuses a child may exit with
          Lists,          \* command lists the editor may submit
          Waits,          \* operand lists of wait; <<>> waits for every job
          MaxMembers,     \* bound on the processes of one job
          MaxLaunches,    \* bound on the number of forks
          Faults,         \* forks and terminal handoffs may fail
          PidReuse        \* the kernel may give out a pid the table remembers

ASSUME ExitAssumption   == ExitStatus \subseteq Nat
ASSUME WaitAssumption   == Waits \subseteq Seq(Pid)
ASSUME MemberAssumption == MaxMembers \in Nat \ {0}
ASSUME LaunchAssumption == MaxLaunches \in Nat
ASSUME FaultAssumption  == Faults \in BOOLEAN
ASSUME ReuseAssumption  == PidReuse \in BOOLEAN
ASSUME ListAssumption   == Lists \subseteq Seq({"compound", "wait"})

VARIABLES proc,        \* the children, as the kernel sees them
          jobs,        \* background_jobs
          fgJob,       \* current_job
          mode,        \* the reactor's mode
          terminal,    \* whose process group owns the terminal
          waitFor,     \* wait_all and wait_targets
          service,     \* the outstanding wait of an evaluator
          list,        \* nodes left of the pending list
          listActive,  \* pending_list_active
          lastStatus,  \* last_status
          notify,      \* the notify option (set -b)
          launched,    \* number of forks so far
          owed         \* history: exit status of each unwaited background job

vars == <<proc, jobs, fgJob, mode, terminal, waitFor, service, list,
          listActive, lastStatus, notify, launched, owed>>

(* What a command that only answers at the prompt leaves alone. *)
idle == <<proc, fgJob, mode, terminal, waitFor, service, list, listActive,
          notify, launched, owed>>

StopStatus == 148     \* 128 + SIGTSTP
KillStatus == 137     \* 128 + SIGKILL

Modes == {"EDITOR", "DISPATCH", "FOREGROUND", "WAIT"}

(* The terminal's owner: the shell or the leader of a process group. *)
Shell    == <<>>
Group(g) == <<Pgid(g)>>

(***************************************************************************)
(* Children.  `event' is what the next waitpid reports of a live child; a  *)
(* later change replaces an unreported one.                                *)
(***************************************************************************)
Process == [life : {"free", "running", "stopped", "zombie"},
            event : {"none", "stop", "continue"}, status : WaitStatus]

NoProcess == [life |-> "free", event |-> "none", status |-> 0]
Running   == [life |-> "running", event |-> "none", status |-> 0]
Zombie(s) == [life |-> "zombie", event |-> "none", status |-> s]

Alive(p)      == proc[p].life \in {"running", "stopped"}
Reportable(p) == proc[p].life = "zombie" \/ proc[p].event # "none"

EventOf(p) ==
    IF proc[p].life = "zombie"
    THEN [kind |-> "exit", status |-> proc[p].status]
    ELSE [kind |-> proc[p].event, status |-> StopStatus]

Taken(p) ==
    IF proc[p].life = "zombie" THEN NoProcess
                               ELSE [proc[p] EXCEPT !.event = "none"]

Assigned(S, r) == [p \in Pid |-> IF p \in S THEN r ELSE proc[p]]

(* SIGCONT to a process group reaches the members not yet reaped. *)
Unreaped(g) ==
    {g.members[m] : m \in {k \in 1..Len(g.members) : g.mstate[k] # "done"}}

Resumed(S) ==
    [p \in Pid |-> IF p \in S /\ proc[p].life = "stopped"
                   THEN [life |-> "running", event |-> "continue", status |-> 0]
                   ELSE proc[p]]

FreePids ==
    {p \in Pid :
        /\ proc[p].life = "free"
        /\ PidReuse \/ /\ p \notin KnownPids(jobs)
                       /\ ~(fgJob.active /\ p \in Members(fgJob))}

(* The member lists a fork loop may produce. *)
FreshMembers(n) ==
    {s \in [1..n -> FreePids] : \A i, j \in 1..n : i # j => s[i] # s[j]}

CanFork(n) == launched + n <= MaxLaunches

(***************************************************************************)
(* The foreground job.                                                     *)
(***************************************************************************)
NoJob == [active |-> FALSE, foreground |-> FALSE, stopped |-> FALSE,
          txn |-> FALSE, members |-> <<>>, mstate |-> <<>>, remaining |-> 0,
          pipe |-> NewPipeline(1, FALSE), exits |-> <<>>]

(* initialize_job; txn: an evaluator whose state commit is outstanding. *)
JobOf(g, foreground, stopped, txn) ==
    [active |-> TRUE, foreground |-> foreground, stopped |-> stopped,
     txn |-> txn, members |-> g.members, mstate |-> g.mstate,
     remaining |-> g.remaining, pipe |-> g.pipe, exits |-> g.exits]

InForeground(p) == fgJob.active /\ p \in Members(fgJob)

SameGroup(e) == fgJob.active /\ Pgid(fgJob) = Pgid(e)

(* Mutant: the capacity to register a stop is not reserved. *)
CanStartFull == ~fgJob.active

(* No second job starts while there is one, or without room to stop it.    *)
CanStart == ~fgJob.active /\ HasCapacity(jobs)

(***************************************************************************)
(* Waits.  A wait without operands wants the whole table done; one with    *)
(* operands wants no operand to be a known job that is still pending.      *)
(***************************************************************************)
NoWait    == [all |-> FALSE, targets |-> <<>>]
NoService == [active |-> FALSE, all |-> FALSE, targets |-> <<>>]

WaitRequests == {[all |-> s = <<>>, targets |-> s] : s \in Waits}

Targets(w) == {w.targets[n] : n \in 1..Len(w.targets)}

WaitSatisfied(t, w) ==
    IF w.all THEN ActiveSlots(t) = {}
             ELSE \A p \in Targets(w) : ~IsPending(t, p)

AfterWait(t, w) == IF w.all THEN ConsumeAll(t) ELSE Consume(t, Targets(w))

(* The last operand decides; one consumed before, or unknown, gives 127. *)
WaitStatusOf(t, w) ==
    LET n == Len(w.targets)
        S == {i \in KnownSlots(t) : SlotOfStatusPid(t, w.targets[n], i)}
    IN  IF w.all THEN 0
        ELSE IF S = {} \/ \E k \in 1..(n - 1) : w.targets[k] = w.targets[n]
        THEN 127
        ELSE t.slots[CHOOSE i \in S : TRUE].status

(* The background jobs a finished wait has answered for. *)
Answered(w) == IF w.all THEN DOMAIN owed ELSE Targets(w)

Forgive(S) == [p \in DOMAIN owed \ S |-> owed[p]]

Owe(p, status) ==
    [q \in DOMAIN owed \cup {p} |-> IF q = p THEN status ELSE owed[q]]

(* finish_job_service_wait on a table t. *)
ServiceDone(t)   == service.active /\ WaitSatisfied(t, service)
ServiceTable(t)  == IF ServiceDone(t) THEN AfterWait(t, service) ELSE t
ServiceAnswer(t) == IF ServiceDone(t) THEN Answered(service) ELSE {}
ServiceAfter(t)  == IF ServiceDone(t) THEN NoService ELSE service

(* schedule_pending_continuation: the list goes on, or the prompt returns. *)
ContinueMode      == IF listActive THEN "DISPATCH" ELSE "EDITOR"
ContinueTable(t)  == IF listActive THEN t ELSE Prompt(t)

(***************************************************************************)
(* The children and the user's signals to them.                            *)
(***************************************************************************)
Init ==
    /\ proc = [p \in Pid |-> NoProcess]
    /\ jobs = EmptyTable
    /\ fgJob = NoJob
    /\ mode = "EDITOR"
    /\ terminal = Shell
    /\ waitFor = NoWait
    /\ service = NoService
    /\ list = <<>>
    /\ listActive = FALSE
    /\ lastStatus = 0
    /\ notify = FALSE
    /\ launched = 0
    /\ owed = [p \in {} |-> 0]

ProcStop(p) ==
    /\ proc[p].life = "running"
    /\ proc' = [proc EXCEPT ![p] =
                  [life |-> "stopped", event |-> "stop", status |-> 0]]
    /\ UNCHANGED <<jobs, fgJob, mode, terminal, waitFor, service, list,
                   listActive, lastStatus, notify, launched, owed>>

ProcContinue(p) ==
    /\ proc[p].life = "stopped"
    /\ proc' = Resumed({p})
    /\ UNCHANGED <<jobs, fgJob, mode, terminal, waitFor, service, list,
                   listActive, lastStatus, notify, launched, owed>>

(* A stopped child ends only by SIGKILL. *)
ProcExit(p, s) ==
    /\ \/ proc[p].life = "running" /\ s \in ExitStatus
       \/ proc[p].life = "stopped" /\ s = KillStatus
    /\ proc' = [proc EXCEPT ![p] = Zombie(s)]
    /\ owed' = IF p \in DOMAIN owed THEN Owe(p, s) ELSE owed
    /\ UNCHANGED <<jobs, fgJob, mode, terminal, waitFor, service, list,
                   listActive, lastStatus, notify, launched>>

(***************************************************************************)
(* Commands the editor submits.  While a list is pending its continuation  *)
(* comes first (dispatch_pending), so a command needs listActive to be     *)
(* FALSE; SubmitSwallowed is the other case.                               *)
(***************************************************************************)
AtEditor == mode = "EDITOR" /\ ~listActive

(* A command that only prints, sets the status and prompts. *)
Answer(status) ==
    /\ lastStatus' = status
    /\ jobs' = Prompt(jobs)
    /\ UNCHANGED idle

(* start_background_node, register_background_node *)
BackgroundRefused ==
    /\ AtEditor
    /\ ~HasCapacity(jobs)
    /\ Answer(125)

LaunchBackground(p) ==
    /\ AtEditor
    /\ HasCapacity(jobs)
    /\ CanFork(1)
    /\ p \in FreePids
    /\ launched' = launched + 1
    /\ IF CanAdd(jobs, <<p>>)
       THEN /\ proc' = Assigned({p}, Running)
            /\ jobs' = Prompt(AddJob(jobs, NewGroup(<<p>>, 1, FALSE)))
            /\ lastStatus' = 0
            /\ owed' = Owe(p, Unfinished)
       ELSE /\ proc' = Assigned({p}, Zombie(KillStatus))
            /\ jobs' = Prompt(jobs)
            /\ lastStatus' = 125
            /\ owed' = Forgive({p})
    /\ UNCHANGED <<fgJob, mode, terminal, waitFor, service, list, listActive,
                   notify>>

(***************************************************************************)
(* start_native_pipeline, start_external, start_native_compound.  A        *)
(* compound runs in an evaluator, a single process; it is the only one of  *)
(* the three that a list continues with, and refusing it gives up the list.*)
(***************************************************************************)
AtLaunch(compound) ==
    \/ AtEditor
    \/ compound /\ mode = "DISPATCH" /\ list # <<>> /\ Head(list) = "compound"

RestOfList == IF list = <<>> THEN list ELSE Tail(list)

AbandonList == list' = <<>> /\ listActive' = FALSE

LaunchRefused(compound) ==
    /\ AtLaunch(compound)
    /\ ~CanStart
    /\ mode' = "EDITOR"
    /\ jobs' = Prompt(jobs)
    /\ AbandonList
    /\ UNCHANGED <<proc, fgJob, terminal, waitFor, service, lastStatus, notify,
                   launched, owed>>

(* The members run, and wait for the end of the handoff. *)
Fork(members, r) ==
    /\ CanFork(Len(members))
    /\ launched' = launched + Len(members)
    /\ proc' = Assigned({members[i] : i \in DOMAIN members}, r)
    /\ owed' = Forgive({members[i] : i \in DOMAIN members})

LaunchForeground(members, count, pipefail, compound) ==
    /\ AtLaunch(compound)
    /\ CanStart
    /\ compound => Len(members) = 1 /\ ~pipefail
    /\ Fork(members, Running)
    /\ fgJob' = JobOf(NewGroup(members, count, pipefail), TRUE, FALSE, compound)
    /\ mode' = "FOREGROUND"
    /\ terminal' = Group(fgJob')
    /\ list' = RestOfList
    /\ UNCHANGED <<jobs, waitFor, service, listActive, lastStatus, notify>>

(* tcsetattr or tcsetpgrp fails: the group is killed and kept, silent. *)
HandoffFails(members, count, pipefail, compound) ==
    /\ Faults
    /\ AtLaunch(compound)
    /\ CanStart
    /\ compound => Len(members) = 1 /\ ~pipefail
    /\ Fork(members, Zombie(KillStatus))
    /\ fgJob' = JobOf(NewGroup(members, count, pipefail), FALSE, FALSE, FALSE)
    /\ mode' = "EDITOR"
    /\ jobs' = Prompt(jobs)
    /\ AbandonList
    /\ UNCHANGED <<terminal, waitFor, service, lastStatus, notify>>

(* reject_native_pipeline_fork: the members forked so far are killed.      *)
PipelineForkFails(members) ==
    /\ Faults
    /\ AtEditor
    /\ CanStart
    /\ Fork(members, Zombie(KillStatus))
    /\ fgJob' = JobOf(NewGroup(members, Len(members), FALSE),
                      FALSE, FALSE, FALSE)
    /\ jobs' = Prompt(jobs)
    /\ UNCHANGED <<mode, terminal, waitFor, service, list, listActive,
                   lastStatus, notify>>

(* reject_compound_start *)
CompoundForkFails ==
    /\ Faults
    /\ AtLaunch(TRUE)
    /\ CanStart
    /\ mode' = "EDITOR"
    /\ jobs' = Prompt(jobs)
    /\ AbandonList
    /\ UNCHANGED <<proc, fgJob, terminal, waitFor, service, lastStatus, notify,
                   launched, owed>>

(***************************************************************************)
(* fg and bg.  resolve_reactor_job takes any known job that is not done.   *)
(***************************************************************************)
Resumable(i) == i \in KnownSlots(jobs) /\ jobs.slots[i].state # "DONE"

(* Another job whose state commit is outstanding is never dropped. *)
Blocked(i) == fgJob.active /\ ~SameGroup(jobs.slots[i]) /\ fgJob.txn

FgRefused ==
    /\ AtEditor
    /\ \/ \E i \in KnownSlots(jobs) : ~Resumable(i) \/ Blocked(i)
       \/ KnownSlots(jobs) = {}
    /\ Answer(1)

(* Mutant: the retained job is not marked as foreground again. *)
FgJobUnmarked(e) ==
    IF SameGroup(e) THEN fgJob ELSE JobOf(e, TRUE, e.state = "STOPPED", FALSE)

(* The retained job, or one rebuilt from the entry. *)
FgJob(e) ==
    IF SameGroup(e) THEN [fgJob EXCEPT !.foreground = TRUE]
                    ELSE JobOf(e, TRUE, e.state = "STOPPED", FALSE)

Fg(i) ==
    /\ AtEditor
    /\ Resumable(i)
    /\ ~Blocked(i)
    /\ LET e == jobs.slots[i]
           j == FgJob(e)
       IN  /\ IF j.stopped
              THEN /\ proc' = Resumed(Unreaped(j))
                   /\ fgJob' = [ResumeStopped(j) EXCEPT !.stopped = FALSE]
                   /\ jobs' = ContinueJob(jobs, e.id)
              ELSE /\ fgJob' = j
                   /\ UNCHANGED <<proc, jobs>>
           /\ terminal' = Group(j)
    /\ mode' = "FOREGROUND"
    /\ UNCHANGED <<waitFor, service, list, listActive, lastStatus, notify,
                   launched, owed>>

FgHandoffFails(i) ==
    /\ Faults
    /\ AtEditor
    /\ Resumable(i)
    /\ ~Blocked(i)
    /\ fgJob' = IF SameGroup(jobs.slots[i]) THEN fgJob ELSE NoJob
    /\ lastStatus' = 1
    /\ jobs' = Prompt(jobs)
    /\ UNCHANGED <<proc, mode, terminal, waitFor, service, list, listActive,
                   notify, launched, owed>>

BgRefused ==
    /\ AtEditor
    /\ \/ \E i \in KnownSlots(jobs) : jobs.slots[i].state # "STOPPED"
       \/ KnownSlots(jobs) = {}
    /\ Answer(1)

(* Mutant: only the entry of the table is resumed. *)
BgJobStale == IF fgJob.txn THEN fgJob ELSE NoJob

(* A job without an outstanding commit leaves current_job. *)
BgJob == IF fgJob.txn
         THEN [ResumeStopped(fgJob) EXCEPT !.stopped = FALSE,
                                           !.foreground = FALSE]
         ELSE NoJob

Bg(i) ==
    /\ AtEditor
    /\ i \in KnownSlots(jobs)
    /\ jobs.slots[i].state = "STOPPED"
    /\ LET e == jobs.slots[i]
       IN  /\ proc' = Resumed(Unreaped(e))
           /\ jobs' = Prompt(ContinueJob(jobs, e.id))
           /\ fgJob' = IF SameGroup(e) THEN BgJob ELSE fgJob
    /\ lastStatus' = 0
    /\ UNCHANGED <<mode, terminal, waitFor, service, list, listActive, notify,
                   launched, owed>>

(* The evaluator of the foreground job is there to make a request. *)
EvaluatorRuns ==
    /\ fgJob.active
    /\ fgJob.txn
    /\ proc[Pgid(fgJob)].life = "running"

(* gsh_builtin_jobs, by the editor or for the evaluator: the jobs S that   *)
(* were shown, all of them or those its operands name, are notified.       *)
Jobs(S) ==
    \/ /\ AtEditor
       /\ lastStatus' \in {0, 1}
       /\ jobs' = Prompt(MarkNotified(jobs, S))
       /\ UNCHANGED idle
    \/ /\ EvaluatorRuns
       /\ ~service.active
       /\ jobs' = MarkNotified(jobs, S)
       /\ UNCHANGED <<idle, lastStatus>>

SetNotify ==
    /\ AtEditor
    /\ notify' = ~notify
    /\ jobs' = Prompt(jobs)
    /\ lastStatus' = 0
    /\ UNCHANGED <<proc, fgJob, mode, terminal, waitFor, service, list,
                   listActive, launched, owed>>

(***************************************************************************)
(* Lists.  begin_native_list keeps a list in the reactor when it waits;    *)
(* continue_native_list takes its nodes one by one, in mode DISPATCH.      *)
(***************************************************************************)
SubmitList(l) ==
    /\ AtEditor
    /\ list' = l
    /\ listActive' = TRUE
    /\ mode' = "DISPATCH"
    /\ UNCHANGED <<proc, jobs, fgJob, terminal, waitFor, service, lastStatus,
                   notify, launched, owed>>

(* A line submitted while a list is pending is parsed, then continues that *)
(* list: the node index left over names a node of the new tree, or none.   *)
SubmitSwallowed ==
    /\ mode = "EDITOR"
    /\ listActive
    /\ mode' = "DISPATCH"
    /\ \/ UNCHANGED <<list, lastStatus>>
       \/ /\ list # <<>>
          /\ list' = <<>>
          /\ lastStatus' = 125
    /\ UNCHANGED <<proc, jobs, fgJob, terminal, waitFor, service, listActive,
                   notify, launched, owed>>

EndList ==
    /\ mode = "DISPATCH"
    /\ list = <<>>
    /\ listActive' = FALSE
    /\ mode' = "EDITOR"
    /\ jobs' = Prompt(jobs)
    /\ UNCHANGED <<proc, fgJob, terminal, waitFor, service, list, lastStatus,
                   notify, launched, owed>>

(***************************************************************************)
(* wait.                                                                   *)
(***************************************************************************)
(* begin_background_wait, for the editor or for the head of a list. *)
BeginWait(w) ==
    /\ \/ AtEditor
       \/ mode = "DISPATCH" /\ list # <<>> /\ Head(list) = "wait"
    /\ list' = RestOfList
    /\ IF WaitSatisfied(jobs, w)
       THEN /\ jobs' = ContinueTable(AfterWait(jobs, w))
            /\ lastStatus' = WaitStatusOf(jobs, w)
            /\ owed' = Forgive(Answered(w))
            /\ mode' = ContinueMode
            /\ UNCHANGED waitFor
       ELSE /\ waitFor' = w
            /\ mode' = "WAIT"
            /\ UNCHANGED <<jobs, lastStatus, owed>>
    /\ UNCHANGED <<proc, fgJob, terminal, service, listActive, notify,
                   launched>>

(* Ctrl-C in process_pending_signals: a wait gives up its list, a list     *)
(* between two nodes only returns to the editor.                           *)
InterruptWait ==
    /\ mode = "WAIT"
    /\ mode' = "EDITOR"
    /\ waitFor' = NoWait
    /\ lastStatus' = 130
    /\ AbandonList
    /\ jobs' = Prompt(jobs)
    /\ UNCHANGED <<proc, fgJob, terminal, service, notify, launched, owed>>

InterruptDispatch ==
    /\ mode = "DISPATCH"
    /\ mode' = "EDITOR"
    /\ jobs' = Prompt(jobs)
    /\ UNCHANGED <<proc, fgJob, terminal, waitFor, service, list, listActive,
                   lastStatus, notify, launched, owed>>

(* begin_job_service_wait; a second request is refused (EBUSY). *)
ServiceWait(w) ==
    /\ EvaluatorRuns
    /\ ~service.active
    /\ IF WaitSatisfied(jobs, w)
       THEN /\ jobs' = AfterWait(jobs, w)
            /\ owed' = Forgive(Answered(w))
            /\ UNCHANGED service
       ELSE /\ service' = [active |-> TRUE, all |-> w.all,
                           targets |-> w.targets]
            /\ UNCHANGED <<jobs, owed>>
    /\ UNCHANGED <<proc, fgJob, mode, terminal, waitFor, list, listActive,
                   lastStatus, notify, launched>>

(***************************************************************************)
(* reap_children, for one child.                                           *)
(***************************************************************************)
Take(p) ==
    /\ Reportable(p)
    /\ proc' = [proc EXCEPT ![p] = Taken(p)]

MemberIndex(g, p) == CHOOSE m \in 1..Len(g.members) : HasMember(g, p, m)

(* Mutant: the branch forgets the evaluator's wait. *)
ReplyForgotten(t) == jobs' = t /\ UNCHANGED <<service, owed>>

(* finish_job_service_wait, the last call for each child. *)
ReplyToService(t) ==
    /\ jobs' = ServiceTable(t)
    /\ service' = ServiceAfter(t)
    /\ owed' = Forgive(ServiceAnswer(t))

(* Every remaining member is stopped for the first time. *)
NewlyStopped(g) == AllStopped(g) /\ ~fgJob.stopped

(* The entry of a foreground job that stops: the tracked one, or a new one.*)
RegisterStopped(t, g) ==
    IF Pgid(g) \in KnownPids(t)
    THEN t
    ELSE LET t1 == AddJob(t, g)
         IN  [t1 EXCEPT !.slots = [i \in KnownSlots(t1) |->
                 IF @[i].seq = t.nextSeq
                 THEN [@[i] EXCEPT !.state = "STOPPED"]
                 ELSE @[i]]]

ForegroundStop(p) ==
    LET t == UpdateMember(jobs, p, EventOf(p))
        g == SetMember(fgJob, MemberIndex(fgJob, p), "stopped")
        r == RegisterStopped(t, g)
    IN  /\ EventOf(p).kind = "stop"
        /\ IF NewlyStopped(g)
           THEN /\ fgJob' = [g EXCEPT !.stopped = TRUE, !.foreground = FALSE]
                /\ lastStatus' = StopStatus
                /\ IF fgJob.foreground
                   THEN /\ ReplyToService(Prompt(r))
                        /\ mode' = "EDITOR"
                        /\ terminal' = Shell
                   ELSE ReplyToService(r) /\ UNCHANGED <<mode, terminal>>
           ELSE /\ fgJob' = g
                /\ ReplyToService(t)
                /\ UNCHANGED <<mode, terminal, lastStatus>>
        /\ UNCHANGED <<list, listActive>>

ForegroundContinue(p) ==
    /\ EventOf(p).kind = "continue"
    /\ fgJob' = [SetMember(fgJob, MemberIndex(fgJob, p), "running")
                    EXCEPT !.stopped = FALSE]
    /\ ReplyToService(UpdateMember(jobs, p, EventOf(p)))
    /\ UNCHANGED <<mode, terminal, list, listActive, lastStatus>>

(* update_job_state, an exit that leaves members running. *)
ForegroundExit(p) ==
    LET g == ExitMember(fgJob, MemberIndex(fgJob, p), EventOf(p).status)
    IN  /\ EventOf(p).kind = "exit"
        /\ g.remaining # 0
        /\ fgJob' = g
        /\ ReplyToService(UpdateMember(jobs, p, EventOf(p)))
        /\ UNCHANGED <<mode, terminal, list, listActive, lastStatus>>

(* finish_job, once every member has ended.  An evaluator's commit is      *)
(* closed with its job service, and a commit that is refused gives 125.    *)
FinalStatus(g) == IF PipelineKnown(g.pipe) THEN PipelineResult(g.pipe) ELSE 1

RemoveTracked(t, g) ==
    IF \E i \in KnownSlots(t) : SlotOf(t, Pgid(g), i)
    THEN RemoveJob(t, t.slots[CHOOSE i \in KnownSlots(t) :
                                  SlotOf(t, Pgid(g), i)].id)
    ELSE t

FinishForeground(p) ==
    LET t == UpdateMember(jobs, p, EventOf(p))
        g == ExitMember(fgJob, MemberIndex(fgJob, p), EventOf(p).status)
        r == ContinueTable(RemoveTracked(t, g))
    IN  /\ EventOf(p).kind = "exit"
        /\ g.remaining = 0
        /\ fgJob' = NoJob
        /\ \/ lastStatus' = FinalStatus(g)
           \/ fgJob.txn /\ lastStatus' = 125
        /\ IF fgJob.foreground
           THEN /\ jobs' = r
                /\ mode' = ContinueMode
                /\ terminal' = Shell
                /\ owed' = Forgive(Members(g))
           ELSE /\ jobs' = t
                /\ UNCHANGED <<mode, terminal, owed>>
        /\ service' = IF fgJob.txn THEN NoService ELSE service
        /\ UNCHANGED <<list, listActive>>

ReapForeground(p) ==
    /\ InForeground(p)
    /\ Take(p)
    /\ \/ ForegroundStop(p)
       \/ ForegroundContinue(p)
       \/ ForegroundExit(p)
       \/ FinishForeground(p)
    /\ UNCHANGED <<waitFor, notify, launched>>

(* The table after an event of a background job, notices included. *)
NoticedSlots(t, p, kind) ==
    {i \in KnownSlots(t) :
        /\ SlotOf(t, p, i)
        /\ \/ kind = "stop"
           \/ t.slots[i].state = "DONE" /\ mode # "WAIT" /\ notify}

Noticed(p) ==
    LET t == UpdateMember(jobs, p, EventOf(p))
    IN  MarkNotified(t, NoticedSlots(t, p, EventOf(p).kind))

(* The branch of the table: finish_background_wait comes before the        *)
(* service's wait.                                                         *)
ReapBackground(p) ==
    LET t == Noticed(p)
        r == ContinueTable(AfterWait(t, waitFor))
    IN  /\ ~InForeground(p)
        /\ p \in KnownPids(jobs)
        /\ Take(p)
        /\ IF mode = "WAIT" /\ WaitSatisfied(t, waitFor)
           THEN /\ jobs' = ServiceTable(r)
                /\ service' = ServiceAfter(r)
                /\ owed' = Forgive(Answered(waitFor) \cup ServiceAnswer(r))
                /\ waitFor' = NoWait
                /\ mode' = ContinueMode
                /\ lastStatus' = WaitStatusOf(t, waitFor)
           ELSE ReplyToService(t) /\ UNCHANGED <<waitFor, mode, lastStatus>>
        /\ UNCHANGED <<fgJob, terminal, list, listActive, notify, launched>>

(* A child no table knows. *)
ReapUnknown(p) ==
    /\ ~InForeground(p)
    /\ p \notin KnownPids(jobs)
    /\ Take(p)
    /\ ReplyToService(jobs)
    /\ UNCHANGED <<fgJob, mode, terminal, waitFor, list, listActive, lastStatus,
                   notify, launched>>

Reap(p) == ReapForeground(p) \/ ReapBackground(p) \/ ReapUnknown(p)

(***************************************************************************)
(* The specification.                                                      *)
(***************************************************************************)
Children ==
    \E p \in Pid : \/ ProcStop(p)
                  \/ ProcContinue(p)
                  \/ \E s \in ExitStatus \cup {KillStatus} : ProcExit(p, s)

Launch ==
    \/ BackgroundRefused
    \/ \E p \in Pid : LaunchBackground(p)
    \/ \E compound \in BOOLEAN : LaunchRefused(compound)
    \/ \E n \in 1..MaxMembers : \E members \in FreshMembers(n) :
          \/ PipelineForkFails(members)
          \/ \E count \in 1..n, pipefail, compound \in BOOLEAN :
                \/ LaunchForeground(members, count, pipefail, compound)
                \/ HandoffFails(members, count, pipefail, compound)
    \/ CompoundForkFails

Builtin ==
    \/ FgRefused \/ BgRefused \/ SetNotify
    \/ \E S \in SUBSET KnownSlots(jobs) : Jobs(S)
    \/ \E i \in 1..Cap : Fg(i) \/ FgHandoffFails(i) \/ Bg(i)
    \/ \E w \in WaitRequests : BeginWait(w) \/ ServiceWait(w)

ListStep ==
    \/ \E l \in Lists : SubmitList(l)
    \/ SubmitSwallowed
    \/ EndList

Interrupt == InterruptWait \/ InterruptDispatch

Next ==
    \/ Children \/ Launch \/ Builtin \/ ListStep \/ Interrupt
    \/ \E p \in Pid : Reap(p)

Spec == Init /\ [][Next]_vars

(***************************************************************************)
(* Fairness.  SIGCHLD wakes poll(), and a full batch of reaps raises the   *)
(* signal again (requeue_child_signal), so a child that stays reportable   *)
(* is reaped.  Reap(p) is enabled exactly while Reportable(p) holds and    *)
(* ends it: []<>~Reportable(p) is its weak fairness without ENABLED.  No   *)
(* child is assumed to end, and the user to do nothing.                    *)
(***************************************************************************)
FairSpec == Spec /\ \A p \in Pid : []<>~Reportable(p)

(***************************************************************************)
(* Properties.                                                             *)
(***************************************************************************)
Job == [active : BOOLEAN, foreground : BOOLEAN, stopped : BOOLEAN,
        txn : BOOLEAN, members : Seq(Pid), mstate : Seq(MemberState),
        remaining : Nat, pipe : PipelineRecord,
        exits : Seq(Nat \cup {Unfinished})]

WaitRequest == [all : BOOLEAN, targets : Seq(Pid)]

(* Every variable holds a value of its kind. *)
TypeOK ==
    /\ proc \in [Pid -> Process]
    /\ TableOK(jobs)
    /\ fgJob \in Job
    /\ ShapeOK(fgJob)
    /\ mode \in Modes
    /\ terminal \in {Shell} \cup {<<p>> : p \in Pid}
    /\ waitFor \in WaitRequest
    /\ service \in [active : BOOLEAN, all : BOOLEAN, targets : Seq(Pid)]
    /\ list \in Seq({"compound", "wait"})
    /\ listActive \in BOOLEAN
    /\ lastStatus \in Nat
    /\ notify \in BOOLEAN
    /\ launched \in Nat
    /\ DOMAIN owed \subseteq Pid
    /\ \A p \in DOMAIN owed : owed[p] \in Nat \cup {Unfinished}

(* Two known jobs never share an id, a sequence number or a process, and a *)
(* job never lists a process twice, whatever was reclaimed, consumed or    *)
(* wrapped in between (gsh_background_add_job, next_job_id).               *)
DistinctJobs ==
    \A i, j \in KnownSlots(jobs) :
        /\ i # j => /\ jobs.slots[i].id # jobs.slots[j].id
                    /\ jobs.slots[i].seq # jobs.slots[j].seq
                    /\ Members(jobs.slots[i]) \cap Members(jobs.slots[j]) = {}
        /\ \A m, n \in 1..Len(jobs.slots[i].members) :
              m # n => jobs.slots[i].members[m] # jobs.slots[i].members[n]

(* The count of members still to end is exact under every order of stops,  *)
(* continues and exits; a job is done when it reaches zero and is stopped  *)
(* only while no remaining member runs.                                    *)
Counted(g) == g.remaining = Cardinality({m \in 1..Len(g.members) :
                                            g.mstate[m] # "done"})

Runs(g) == \E m \in 1..Len(g.members) : g.mstate[m] = "running"

CountsAgree ==
    /\ \A i \in KnownSlots(jobs) :
          LET e == jobs.slots[i]
          IN  /\ Counted(e)
              /\ e.state = "DONE" <=> e.remaining = 0
              /\ e.state = "STOPPED" => ~Runs(e)
    /\ fgJob.active => /\ Counted(fgJob)
                       /\ fgJob.remaining # 0
                       /\ fgJob.stopped => ~Runs(fgJob)

(* The status of a pipeline is that of its commands by position, in        *)
(* whatever order its members were reaped, stopped, moved between the      *)
(* foreground and the table, and resumed.                                  *)
PipelineByPosition ==
    /\ \A i \in KnownSlots(jobs) :
          LET e == jobs.slots[i]
          IN  /\ Agrees(e.pipe, e.exits)
              /\ e.state = "DONE" =>
                    StatusByPosition(e.exits, e.pipe.count, e.pipe.pipefail,
                                     e.status)
    /\ fgJob.active => Agrees(fgJob.pipe, fgJob.exits)

(* The retained foreground job and its entry in the table are two copies   *)
(* of one process group, updated by separate code (update_job_state and    *)
(* gsh_background_update_member): they never drift apart.                  *)
CurrentMirrorsTable ==
    \A i \in KnownSlots(jobs) :
        LET e == jobs.slots[i]
        IN  SameGroup(e) => /\ fgJob.members = e.members
                            /\ fgJob.mstate = e.mstate
                            /\ fgJob.remaining = e.remaining
                            /\ fgJob.pipe = e.pipe
                            /\ fgJob.stopped <=> e.state = "STOPPED"

(* The current job of the table is a known one whenever there is any, and  *)
(* the previous one is another: %+ and %- never name the same job.         *)
CurrentIsKnown ==
    /\ KnownSlots(jobs) = {} <=> jobs.current = 0
    /\ jobs.current # 0 => jobs.current \in KnownIds(jobs)
    /\ jobs.current # 0 => jobs.previous # jobs.current

(* The terminal belongs to the foreground job exactly in mode FOREGROUND,  *)
(* and to the shell in every other one, faults included.                   *)
TerminalOwnership ==
    /\ mode = "FOREGROUND" <=> fgJob.active /\ fgJob.foreground
    /\ terminal = IF mode = "FOREGROUND" THEN Group(fgJob) ELSE Shell

(* A job stopped in the foreground can always be resumed: it has an entry. *)
(* The capacity checked at launch is still there when it stops.            *)
StoppedJobRegistered ==
    fgJob.active /\ fgJob.stopped =>
        \E i \in KnownSlots(jobs) : SameGroup(jobs.slots[i])

(* No living child is lost: it is a member of the foreground job or of a   *)
(* known job.                                                              *)
NoForgottenChild ==
    \A p \in Pid : Alive(p) => InForeground(p) \/ p \in KnownPids(jobs)

(* While an entry remembers an unwaited background job, it remembers the   *)
(* status that job exited with, and only after it has exited.              *)
KnownStatusIsTrue ==
    \A i \in KnownSlots(jobs) :
        LET e == jobs.slots[i]
        IN  StatusPid(e) \in DOMAIN owed /\ e.state = "DONE" =>
                e.status = owed[StatusPid(e)]

(* An evaluator's wait is answered as soon as its jobs are done, whichever *)
(* branch of reap_children saw the last of them end; and the request never *)
(* outlives the evaluator.                                                 *)
ServiceAnswered ==
    service.active => /\ fgJob.active /\ fgJob.txn
                      /\ ~WaitSatisfied(jobs, service)

(* Once every member of the foreground job is dead the shell comes back.   *)
ForegroundDead ==
    mode = "FOREGROUND" /\ \A p \in Members(fgJob) : ~Alive(p)

ForegroundReturns == ForegroundDead ~> mode # "FOREGROUND"

(* A wait ends once the jobs it waits for are dead, if no foreground job   *)
(* is retained.                                                            *)
WaitOnDead ==
    /\ mode = "WAIT"
    /\ ~fgJob.active
    /\ ~WaitSatisfied(jobs, waitFor)
    /\ \A i \in ActiveSlots(jobs) :
          waitFor.all \/ StatusPid(jobs.slots[i]) \in Targets(waitFor) =>
              \A p \in Members(jobs.slots[i]) : ~Alive(p)

WaitReturns == WaitOnDead ~> mode # "WAIT"

(***************************************************************************)
(* Claims of the documentation that the code does not keep.                *)
(***************************************************************************)
(* specs/0002.real_time.md:208, the shell "reclaims the terminal when the  *)
(* job exits or stops": a foreground job whose remaining members were all  *)
(* reaped as stopped has stopped.                                          *)
ForegroundNotFrozen ==
    mode = "FOREGROUND" => ~AllStopped(fgJob)

(* specs/0002.real_time.md:351, "no deadlock, livelock": the reactor does   *)
(* not wait for jobs that are all done.                                    *)
WaitAnswered ==
    mode = "WAIT" => ~WaitSatisfied(jobs, waitFor)

(* specs/0002.real_time.md:344, "no accepted command is lost": a line      *)
(* accepted by the editor is not taken for the rest of an earlier list.    *)
EditorHasNoPendingList == mode = "EDITOR" => ~listActive

(* specs/0002.real_time.md:345, "no stale asynchronous result reaches the  *)
(* active prompt": what a prompt reports as done is a job of the table.    *)
PromptReportsKnownJobs ==
    \A r \in Reported(jobs) :
        \E i \in KnownSlots(jobs) : i = r.slot /\ jobs.slots[i].id = r.id
=============================================================================
