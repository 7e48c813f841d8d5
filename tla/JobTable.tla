------------------------------ MODULE JobTable ------------------------------
(***************************************************************************)
(* The bounded job table of src/background_jobs.c as operators from a      *)
(* table to a table.  JobControl and the modules after it keep one table   *)
(* in a variable and apply these operators in their actions.               *)
(*                                                                         *)
(* The C array `entries' with its flags `known' and `consumed' is a        *)
(* function whose domain is the set of slots that hold a known entry:      *)
(* `consumed' is set only together with the clearing of `known'.  `used'   *)
(* is the largest known slot (consume and remove trim it).  A slot below    *)
(* `used' may hold an entry that was consumed: `ghosts' is the set of those *)
(* whose state is still DONE and not notified, which the prompt reads.      *)
(* `status_pid' is the member that runs the last command and `pgid' the    *)
(* first member, as every caller of gsh_background_add_job passes them.    *)
(***************************************************************************)
EXTENDS PipelineStatus, FiniteSets

CONSTANTS Pid,    \* process ids
          Cap,    \* GSH_BACKGROUND_CAP
          MaxId   \* the largest job id, UINT32_MAX

ASSUME CapAssumption == Cap \in Nat \ {0}
(* Ids wrap, and one more id than slots guarantees a free one. *)
ASSUME MaxIdAssumption == MaxId \in Nat /\ MaxId > Cap

JobId == 1..MaxId

MemberState == {"running", "stopped", "done"}

(* The fields an entry of the table and the foreground job have in common. *)
(* `exits' is the history variable of PipelineStatus.                      *)
ProcessGroup ==
    [members : Seq(Pid), mstate : Seq(MemberState), remaining : Nat,
     pipe : PipelineRecord, exits : Seq(Nat \cup {Unfinished})]

Entry ==
    [members : Seq(Pid), mstate : Seq(MemberState), remaining : Nat,
     pipe : PipelineRecord, exits : Seq(Nat \cup {Unfinished}),
     id : JobId, seq : Nat, state : {"RUNNING", "STOPPED", "DONE"},
     notified : BOOLEAN, status : WaitStatus]

(* One state and one exit for each member; the commands come first. *)
ShapeOK(g) ==
    /\ Len(g.mstate) = Len(g.members)
    /\ Len(g.exits) = Len(g.members)
    /\ g.members # <<>> => g.pipe.count <= Len(g.members)

Members(g)   == {g.members[i] : i \in 1..Len(g.members)}
StatusPid(g) == g.members[g.pipe.count]
Pgid(g)      == g.members[1]

(* gsh_background_initialize *)
EmptyTable ==
    [slots |-> [i \in {} |-> 0], ghosts |-> {}, nextId |-> 1, current |-> 0,
     previous |-> 0, nextSeq |-> 1]

KnownSlots(t) == DOMAIN t.slots
KnownIds(t)   == {t.slots[i].id : i \in KnownSlots(t)}
KnownPids(t)  == UNION {Members(t.slots[i]) : i \in KnownSlots(t)}

(* The type of a table. *)
TableOK(t) ==
    /\ DOMAIN t = {"slots", "ghosts", "nextId", "current", "previous",
                   "nextSeq"}
    /\ DOMAIN t.slots \subseteq 1..Cap
    /\ \A i \in DOMAIN t.slots :
          t.slots[i] \in Entry /\ ShapeOK(t.slots[i]) /\ t.slots[i].members # <<>>
    /\ t.ghosts \subseteq [slot : 1..Cap, id : JobId]
    /\ t.nextId \in JobId
    /\ t.current \in JobId \cup {0}
    /\ t.previous \in JobId \cup {0}
    /\ t.nextSeq \in Nat

(***************************************************************************)
(* Members of a process group.                                             *)
(***************************************************************************)
HasMember(g, p, m) ==
    /\ m \in 1..Len(g.members)
    /\ g.members[m] = p
    /\ \A k \in 1..(m - 1) : g.members[k] # p

(* all_members_stopped, all_remaining_members_stopped *)
AllStopped(g) ==
    /\ g.remaining # 0
    /\ \A m \in 1..Len(g.mstate) : g.mstate[m] # "running"

(* Mutant: a stopped member that is killed is not counted. *)
ExitRunningMember(g, m, status) ==
    [g EXCEPT !.mstate    = [@ EXCEPT ![m] = "done"],
              !.remaining = IF g.mstate[m] = "running" THEN @ - 1 ELSE @,
              !.pipe      = RecordStatus(@, m, status),
              !.exits     = [@ EXCEPT ![m] = status]]

(* A member that has ended keeps its first exit in the count only. *)
ExitMember(g, m, status) ==
    [g EXCEPT !.mstate    = [@ EXCEPT ![m] = "done"],
              !.remaining = IF g.mstate[m] # "done" /\ @ > 0 THEN @ - 1 ELSE @,
              !.pipe      = RecordStatus(@, m, status),
              !.exits     = [@ EXCEPT ![m] = status]]

SetMember(g, m, s) == [g EXCEPT !.mstate = [@ EXCEPT ![m] = s]]

ResumeStopped(g) ==
    [g EXCEPT !.mstate = [m \in DOMAIN @ |->
                             IF @[m] = "stopped" THEN "running" ELSE @[m]]]

NewGroup(members, count, pipefail) ==
    [members |-> members,
     mstate |-> [m \in 1..Len(members) |-> "running"],
     remaining |-> Len(members),
     pipe |-> NewPipeline(count, pipefail),
     exits |-> [m \in 1..Len(members) |-> Unfinished]]

(***************************************************************************)
(* Capacity, ids and slots.                                                *)
(***************************************************************************)
(* Mutant: a running job the user has seen is given up. *)
ReclaimableWhenSeen(t, i) == i \in KnownSlots(t) => t.slots[i].notified

(* entry_reclaimable: an entry is given up once its completion was shown.  *)
Reclaimable(t, i) ==
    i \in KnownSlots(t) => t.slots[i].state = "DONE" /\ t.slots[i].notified

HasCapacity(t) == \E i \in 1..Cap : Reclaimable(t, i)

ActiveSlots(t) == {i \in KnownSlots(t) : t.slots[i].state # "DONE"}

(* Mutant: ids do not wrap. *)
UnwrappedId(t, k) == t.nextId + k

(* next_job_id tries Cap + 1 ids from nextId on, wrapping from MaxId to 1. *)
CandidateId(t, k) == ((t.nextId - 1 + k) % MaxId) + 1

FirstFreeId(t, k) ==
    /\ CandidateId(t, k) \notin KnownIds(t)
    /\ \A j \in 0..(k - 1) : CandidateId(t, j) \in KnownIds(t)

(* available_entry takes the first slot that can be given up. *)
FirstReclaimable(t, i) ==
    /\ Reclaimable(t, i)
    /\ \A j \in 1..(i - 1) : ~Reclaimable(t, j)

(* member_in_use *)
InUse(t, members) ==
    \E m \in 1..Len(members) : members[m] \in KnownPids(t)

(* gsh_background_add_job succeeds: no member belongs to a known entry. *)
CanAdd(t, members) == ~InUse(t, members) /\ HasCapacity(t)

PutEntry(t, i, e) ==
    [t EXCEPT !.slots = [j \in KnownSlots(t) \cup {i} |->
                            IF j = i THEN e ELSE t.slots[j]]]

NewEntry(g, id, seq) ==
    [members |-> g.members, mstate |-> g.mstate, remaining |-> g.remaining,
     pipe |-> g.pipe, exits |-> g.exits, id |-> id, seq |-> seq,
     state |-> "RUNNING", notified |-> FALSE, status |-> 0]

(* Mutant: two jobs may be equally old. *)
InsertEntrySameAge(t, i, g, id) ==
    [PutEntry(t, i, NewEntry(g, id, t.nextSeq)) EXCEPT
        !.ghosts = {x \in @ : x.slot # i}, !.previous = t.current,
        !.current = id]

(* The slot found is overwritten; the new job becomes the current one. *)
InsertEntry(t, i, g, id) ==
    [PutEntry(t, i, NewEntry(g, id, t.nextSeq)) EXCEPT
        !.ghosts   = {x \in @ : x.slot # i},
        !.nextSeq  = @ + 1,
        !.previous = t.current,
        !.current  = id]

(* gsh_background_add_job.  A member in use (EEXIST) leaves the table      *)
(* alone; a full table has already spent the id.                           *)
AddJob(t, g) ==
    IF InUse(t, g.members)
    THEN t
    ELSE IF ~\E k \in 0..Cap : FirstFreeId(t, k)
    THEN [t EXCEPT !.nextId = CandidateId(t, Cap + 1)]
    ELSE LET k  == CHOOSE x \in 0..Cap : FirstFreeId(t, x)
             t1 == [t EXCEPT !.nextId = CandidateId(t, k + 1)]
         IN  IF ~\E i \in 1..Cap : FirstReclaimable(t, i)
             THEN t1
             ELSE InsertEntry(t1, CHOOSE x \in 1..Cap : FirstReclaimable(t, x),
                              g, CandidateId(t, k))

(***************************************************************************)
(* Lookups.                                                                *)
(***************************************************************************)
(* The slot in which update_member finds a pid: the first known one. *)
SlotOf(t, p, i) ==
    /\ i \in KnownSlots(t)
    /\ p \in Members(t.slots[i])
    /\ \A j \in KnownSlots(t) : j < i => p \notin Members(t.slots[j])

(* gsh_background_get and _consume search by status pid. *)
SlotOfStatusPid(t, p, i) ==
    /\ i \in KnownSlots(t)
    /\ StatusPid(t.slots[i]) = p
    /\ \A j \in KnownSlots(t) : j < i => StatusPid(t.slots[j]) # p

SlotOfId(t, id, i) ==
    /\ i \in KnownSlots(t)
    /\ t.slots[i].id = id
    /\ \A j \in KnownSlots(t) : j < i => t.slots[j].id # id

(* Mutant: a done job is still waited for. *)
IsKnown(t, p) == \E i \in KnownSlots(t) : SlotOfStatusPid(t, p, i)

(* gsh_background_get found an entry that is not done. *)
IsPending(t, p) ==
    \E i \in KnownSlots(t) :
        SlotOfStatusPid(t, p, i) /\ t.slots[i].state # "DONE"

(***************************************************************************)
(* Current and previous job.                                               *)
(***************************************************************************)
MakeCurrent(t, id) ==
    IF t.current = id
    THEN t
    ELSE [t EXCEPT !.previous = t.current, !.current = id]

Newest(t, S, i) == i \in S /\ \A j \in S : t.slots[j].seq <= t.slots[i].seq

NewestId(t, S) ==
    IF \E i \in S : Newest(t, S, i)
    THEN t.slots[CHOOSE i \in S : Newest(t, S, i)].id
    ELSE 0

(* refresh_current_jobs: the two entries created last. *)
RefreshCurrent(t) ==
    LET S == KnownSlots(t)
        c == NewestId(t, S)
    IN  [t EXCEPT !.current  = c,
                  !.previous = NewestId(t, {i \in S : t.slots[i].id # c})]

(***************************************************************************)
(* Updates.                                                                *)
(***************************************************************************)
(* An event of waitpid: [kind |-> "stop" | "continue" | "exit", status]. *)
DoneEntry(e) ==
    [e EXCEPT !.state = "DONE", !.notified = FALSE,
              !.status = IF PipelineKnown(e.pipe) THEN PipelineResult(e.pipe)
                                                  ELSE 125]

EntryAfter(e, m, ev) ==
    IF ev.kind = "stop"
    THEN LET s == SetMember(e, m, "stopped")
         IN  IF AllStopped(s)
             THEN [s EXCEPT !.state = "STOPPED", !.notified = FALSE]
             ELSE s
    ELSE IF ev.kind = "continue"
    THEN [SetMember(e, m, "running") EXCEPT !.state = "RUNNING",
                                            !.notified = FALSE]
    ELSE LET x == ExitMember(e, m, ev.status)
         IN  IF x.remaining = 0 THEN DoneEntry(x) ELSE x

(* gsh_background_update_member *)
UpdateMember(t, p, ev) ==
    IF ~\E i \in KnownSlots(t) : SlotOf(t, p, i)
    THEN t
    ELSE LET i == CHOOSE x \in KnownSlots(t) : SlotOf(t, p, x)
             e == t.slots[i]
             m == CHOOSE x \in 1..Len(e.members) : HasMember(e, p, x)
             u == PutEntry(t, i, EntryAfter(e, m, ev))
         IN  IF ev.kind = "stop" /\ AllStopped(SetMember(e, m, "stopped"))
             THEN MakeCurrent(u, e.id)
             ELSE u

(* The entries in the slots S leave the table, and `used' is trimmed.      *)
Forget(t, S) ==
    LET keep == KnownSlots(t) \ S
        left == {[slot |-> i, id |-> t.slots[i].id] :
                    i \in {k \in S : ~t.slots[k].notified}}
    IN  RefreshCurrent(
          [t EXCEPT !.slots  = [j \in keep |-> t.slots[j]],
                    !.ghosts = {x \in @ \cup left :
                                   \E j \in keep : x.slot < j}])

(* The entries that gsh_background_consume gives up for the pids P: the    *)
(* one found first for each status pid, and only when it is done.          *)
Consumed(t, P) ==
    {i \in KnownSlots(t) :
        /\ StatusPid(t.slots[i]) \in P
        /\ SlotOfStatusPid(t, StatusPid(t.slots[i]), i)
        /\ t.slots[i].state = "DONE"}

(* gsh_background_consume for each of the pids P. *)
Consume(t, P) ==
    IF Consumed(t, P) = {} THEN t ELSE Forget(t, Consumed(t, P))

(* gsh_background_consume_all_if_done, when it returns true. *)
ConsumeAll(t) ==
    [t EXCEPT !.slots = [i \in {} |-> 0], !.ghosts = {},
              !.current = 0, !.previous = 0]

(* gsh_background_remove_job *)
RemoveJob(t, id) ==
    IF \E i \in KnownSlots(t) : SlotOfId(t, id, i)
    THEN Forget(t, {CHOOSE i \in KnownSlots(t) : SlotOfId(t, id, i)})
    ELSE t

(* gsh_background_continue_job; a done job is left alone. *)
ContinueJob(t, id) ==
    IF \E i \in KnownSlots(t) : SlotOfId(t, id, i) /\ t.slots[i].state # "DONE"
    THEN LET i == CHOOSE x \in KnownSlots(t) : SlotOfId(t, id, x)
             e == ResumeStopped(t.slots[i])
         IN  MakeCurrent(PutEntry(t, i, [e EXCEPT !.state = "RUNNING",
                                                  !.notified = FALSE]), id)
    ELSE t

(* gsh_background_mark_notified *)
MarkNotified(t, S) ==
    [t EXCEPT !.slots = [i \in KnownSlots(t) |->
        IF i \in S THEN [t.slots[i] EXCEPT !.notified = TRUE] ELSE t.slots[i]]]

(***************************************************************************)
(* emit_deferred_job_notifications, at every prompt: each slot below used  *)
(* that is DONE and not notified is reported, a forgotten entry included.  *)
(* The report marks the known entry of that id, if there is one.           *)
(***************************************************************************)
Reported(t) ==
    {[slot |-> i, id |-> t.slots[i].id] :
        i \in {k \in KnownSlots(t) : /\ t.slots[k].state = "DONE"
                                     /\ ~t.slots[k].notified}}
    \cup t.ghosts

Prompt(t) ==
    MarkNotified(t, {i \in KnownSlots(t) :
                        \E r \in Reported(t) : r.id = t.slots[i].id})
=============================================================================
