-------------------------- MODULE JobControlProofs --------------------------
(***************************************************************************)
(* Theorems about the job table and the classic reactor for every value of *)
(* the constants: what the operators on the accumulator and on the table   *)
(* return, the type invariant, and the invariants that need no more than   *)
(* the type.                                                               *)
(***************************************************************************)
EXTENDS JobControl, SequenceTheorems, TLAPS

(***************************************************************************)
(* The pipeline accumulator.                                               *)
(***************************************************************************)
(* A new accumulator has a legal value. *)
LEMMA NewPipelineType ==
    ASSUME NEW count \in Nat \ {0}, NEW pipefail \in BOOLEAN
    PROVE  NewPipeline(count, pipefail) \in PipelineRecord
BY DEF NewPipeline, PipelineRecord, WaitStatus

(* gsh_pipeline_status_record keeps the accumulator legal, and never       *)
(* changes the number of commands or the option.                           *)
LEMMA RecordStatusType ==
    ASSUME NEW p \in PipelineRecord, NEW i, NEW status \in Nat
    PROVE  /\ RecordStatus(p, i, status) \in PipelineRecord
           /\ RecordStatus(p, i, status).count = p.count
           /\ RecordStatus(p, i, status).pipefail = p.pipefail
<1>1. CASE i \in 1..p.count
  <2>1. i \in Nat
    BY <1>1 DEF PipelineRecord
  <2>2. SelectsStatus(p, i, status) \in BOOLEAN
    BY DEF SelectsStatus
  <2> QED
    BY <1>1, <2>1, <2>2 DEF RecordStatus, PipelineRecord, WaitStatus
<1>2. CASE i \notin 1..p.count
  BY <1>2 DEF RecordStatus
<1> QED
  BY <1>1, <1>2

(* gsh_pipeline_status_result answers with a status. *)
LEMMA PipelineResultType ==
    ASSUME NEW p \in PipelineRecord
    PROVE  PipelineResult(p) \in Nat
BY DEF PipelineResult, PipelineRecord, WaitStatus

(* The history of a pipeline none of whose members has ended agrees with   *)
(* a new accumulator.                                                      *)
LEMMA NewPipelineAgrees ==
    ASSUME NEW count \in Nat \ {0}, NEW pipefail \in BOOLEAN,
           NEW exits, \A i \in 1..count : exits[i] = Unfinished
    PROVE  Agrees(NewPipeline(count, pipefail), exits)
<1>1. Failed(exits, count) = {}
  BY DEF Failed
<1>2. exits[count] = Unfinished
  OBVIOUS
<1> QED
  BY <1>1, <1>2 DEF Agrees, NewPipeline

(* Recording the exit of a member that had not ended keeps the accumulator *)
(* in agreement with the history, in whatever order the members end.       *)
THEOREM RecordAgrees ==
    ASSUME NEW p \in PipelineRecord, NEW n \in Nat, p.count <= n,
           NEW exits \in [1..n -> Nat \cup {Unfinished}],
           NEW i \in 1..n, exits[i] = Unfinished, NEW status \in Nat,
           Agrees(p, exits)
    PROVE  Agrees(RecordStatus(p, i, status), [exits EXCEPT ![i] = status])
<1> DEFINE new == [exits EXCEPT ![i] = status]
           q   == RecordStatus(p, i, status)
<1>1. p.count \in Nat \ {0} /\ p.pipefail \in BOOLEAN /\ p.rightmost \in Nat
  BY DEF PipelineRecord
<1>2. status # Unfinished
  BY DEF Unfinished
<1>3. \A j \in 1..n : new[j] = IF j = i THEN status ELSE exits[j]
  OBVIOUS
<1>4. CASE i \notin 1..p.count
  <2>1. q = p
    BY <1>4 DEF RecordStatus
  <2>2. \A j \in 1..p.count : new[j] = exits[j]
    BY <1>1, <1>3, <1>4
  <2>3. Failed(new, p.count) = Failed(exits, p.count)
    BY <2>2 DEF Failed
  <2>4. p.count \in 1..p.count
    BY <1>1
  <2>5. \A j \in Failed(exits, p.count) : new[j] = exits[j]
    BY <2>2 DEF Failed
  <2> HIDE DEF new, q
  <2>6. Agrees(p, new)
    BY <1>1, <2>2, <2>3, <2>4, <2>5 DEF Agrees
  <2> QED
    BY <2>1, <2>6 DEF new, q
<1>5. CASE i \in 1..p.count
  <2>1. /\ q.count = p.count
        /\ q.pipefail = p.pipefail
        /\ q.lastKnown = (p.lastKnown \/ i = p.count)
        /\ q.last = IF i = p.count THEN status ELSE p.last
        /\ q.selectedKnown = (p.selectedKnown \/ SelectsStatus(p, i, status))
        /\ q.selected = IF SelectsStatus(p, i, status) THEN status
                                                       ELSE p.selected
        /\ q.rightmost = IF SelectsStatus(p, i, status) THEN i ELSE p.rightmost
    BY <1>5 DEF RecordStatus, PipelineRecord
  <2>2. Failed(new, p.count) = IF status = 0 THEN Failed(exits, p.count)
                               ELSE Failed(exits, p.count) \cup {i}
    BY <1>1, <1>2, <1>3, <1>5 DEF Failed
  <2>3. i \notin Failed(exits, p.count)
    BY DEF Failed
  <2>4. \A j \in Failed(exits, p.count) : j \in 1..n /\ new[j] = exits[j]
    BY <1>1, <1>3, <2>3 DEF Failed
  <2>5. p.count \in 1..n /\ new[i] = status
    BY <1>1, <1>3
  <2>6. p.lastKnown \in BOOLEAN /\ p.selectedKnown \in BOOLEAN
    BY DEF PipelineRecord
  <2> HIDE DEF new, q
  <2>7. /\ q.lastKnown <=> new[q.count] # Unfinished
        /\ q.lastKnown => q.last = new[q.count]
    BY <1>2, <1>3, <2>1, <2>5, <2>6 DEF Agrees
  <2>8. q.selectedKnown <=> q.pipefail /\ Failed(new, q.count) # {}
    BY <1>1, <2>1, <2>2, <2>6 DEF Agrees, SelectsStatus
  <2>9. ASSUME q.selectedKnown
        PROVE  /\ q.rightmost \in Failed(new, q.count)
               /\ \A j \in Failed(new, q.count) : j <= q.rightmost
               /\ q.selected = new[q.rightmost]
    <3>1. CASE SelectsStatus(p, i, status)
      <4>1. /\ q.rightmost = i /\ q.selected = status
            /\ status # 0 /\ p.pipefail
            /\ ~p.selectedKnown \/ i > p.rightmost
        BY <2>1, <3>1 DEF SelectsStatus
      <4>2. \A j \in Failed(exits, p.count) : j <= i
        BY <1>1, <2>4, <4>1 DEF Agrees
      <4> QED
        BY <1>1, <2>1, <2>2, <2>5, <4>1, <4>2
    <3>2. CASE ~SelectsStatus(p, i, status)
      <4>1. /\ p.selectedKnown /\ q.rightmost = p.rightmost
            /\ q.selected = p.selected
        BY <2>1, <2>9, <3>2
      <4>2. /\ p.pipefail
            /\ p.rightmost \in Failed(exits, p.count)
            /\ \A j \in Failed(exits, p.count) : j <= p.rightmost
            /\ p.selected = exits[p.rightmost]
        BY <4>1 DEF Agrees
      <4>3. status = 0 \/ i <= p.rightmost
        BY <1>1, <3>2, <4>1, <4>2 DEF SelectsStatus
      <4> QED
        BY <2>1, <2>2, <2>4, <4>1, <4>2, <4>3
    <3> QED
      BY <3>1, <3>2
  <2> QED
    BY <2>7, <2>8, <2>9 DEF Agrees, new, q
<1> QED
  BY <1>4, <1>5

(* The answer of an accumulator that agrees with the history is the status *)
(* the shell language gives the pipeline.                                  *)
THEOREM ResultByPosition ==
    ASSUME NEW p \in PipelineRecord, NEW exits, Agrees(p, exits),
           PipelineKnown(p)
    PROVE  StatusByPosition(exits, p.count, p.pipefail, PipelineResult(p))
<1>1. p.pipefail \in BOOLEAN /\ p.selectedKnown \in BOOLEAN
  BY DEF PipelineRecord
<1>2. CASE p.pipefail /\ Failed(exits, p.count) # {}
  BY <1>1, <1>2 DEF Agrees, PipelineResult, StatusByPosition
<1>3. CASE ~(p.pipefail /\ Failed(exits, p.count) # {})
  <2>1. PipelineResult(p) = p.last
    BY <1>1, <1>3 DEF Agrees, PipelineResult
  <2> QED
    BY <1>3, <2>1 DEF Agrees, PipelineKnown, StatusByPosition
<1> QED
  BY <1>2, <1>3

(***************************************************************************)
(* Process groups.                                                         *)
(***************************************************************************)
(* A sequence stays one when an element is replaced, at any index.         *)
LEMMA SeqExcept ==
    ASSUME NEW S, NEW s \in Seq(S), NEW i, NEW e \in S
    PROVE  /\ [s EXCEPT ![i] = e] \in Seq(S)
           /\ Len([s EXCEPT ![i] = e]) = Len(s)
<1>1. CASE i \in 1..Len(s)
  BY <1>1, ExceptSeq
<1>2. CASE i \notin 1..Len(s)
  <2>1. s = [k \in 1..Len(s) |-> s[k]]
    BY LenProperties
  <2>2. [s EXCEPT ![i] = e] = s
    BY <1>2, <2>1, LenProperties
  <2> QED
    BY <2>2
<1> QED
  BY <1>1, <1>2

(* The fields shared by an entry and the foreground job are well typed.    *)
GroupOK(g) ==
    /\ g.members \in Seq(Pid)
    /\ g.mstate \in Seq(MemberState)
    /\ g.remaining \in Nat
    /\ g.pipe \in PipelineRecord
    /\ g.exits \in Seq(Nat \cup {Unfinished})
    /\ ShapeOK(g)

EntryOK(e) == e \in Entry /\ ShapeOK(e) /\ e.members # <<>>

(* Two values of the entry of one job. *)
SameEntry(e, f) ==
    /\ f.members = e.members
    /\ f.id = e.id
    /\ f.seq = e.seq
    /\ f.pipe.count = e.pipe.count

(* An entry has the fields of a group. *)
LEMMA EntryIsGroup ==
    ASSUME NEW e, EntryOK(e)
    PROVE  GroupOK(e)
BY DEF EntryOK, GroupOK, Entry

(* An exit replaces the state, the count, the accumulator and the history. *)
LEMMA ExitStates ==
    ASSUME NEW s \in Seq(MemberState), NEW m
    PROVE  /\ [s EXCEPT ![m] = "done"] \in Seq(MemberState)
           /\ Len([s EXCEPT ![m] = "done"]) = Len(s)
<1>1. "done" \in MemberState
  BY DEF MemberState
<1> QED
  BY <1>1, SeqExcept

LEMMA ExitHistory ==
    ASSUME NEW s \in Seq(Nat \cup {Unfinished}), NEW m, NEW status \in Nat
    PROVE  /\ [s EXCEPT ![m] = status] \in Seq(Nat \cup {Unfinished})
           /\ Len([s EXCEPT ![m] = status]) = Len(s)
<1>1. status \in Nat \cup {Unfinished}
  OBVIOUS
<1> QED
  BY <1>1, SeqExcept

LEMMA ExitMemberParts ==
    ASSUME NEW g, GroupOK(g), NEW m, NEW status \in Nat
    PROVE  /\ [g.mstate EXCEPT ![m] = "done"] \in Seq(MemberState)
           /\ Len([g.mstate EXCEPT ![m] = "done"]) = Len(g.members)
           /\ RecordStatus(g.pipe, m, status) \in PipelineRecord
           /\ RecordStatus(g.pipe, m, status).count = g.pipe.count
           /\ [g.exits EXCEPT ![m] = status] \in Seq(Nat \cup {Unfinished})
           /\ Len([g.exits EXCEPT ![m] = status]) = Len(g.members)
BY ExitStates, ExitHistory, RecordStatusType DEF GroupOK, ShapeOK

(* The exit of a member leaves an entry, of the same job. *)
LEMMA ExitMemberEntry ==
    ASSUME NEW e, EntryOK(e), NEW m, NEW status \in Nat
    PROVE  /\ EntryOK(ExitMember(e, m, status))
           /\ SameEntry(e, ExitMember(e, m, status))
<1> DEFINE ms == [e.mstate EXCEPT ![m] = "done"]
           ex == [e.exits EXCEPT ![m] = status]
           pp == RecordStatus(e.pipe, m, status)
           r  == IF e.mstate[m] # "done" /\ e.remaining > 0
                 THEN e.remaining - 1 ELSE e.remaining
<1>1. GroupOK(e)
  BY EntryIsGroup
<1>2. /\ ms \in Seq(MemberState) /\ Len(ms) = Len(e.members)
      /\ ex \in Seq(Nat \cup {Unfinished}) /\ Len(ex) = Len(e.members)
      /\ pp \in PipelineRecord /\ pp.count = e.pipe.count
  BY <1>1, ExitMemberParts
<1>3. r \in Nat
  BY <1>1 DEF GroupOK
<1>4. ExitMember(e, m, status) = [e EXCEPT !.mstate = ms, !.remaining = r,
                                           !.pipe = pp, !.exits = ex]
  BY DEF ExitMember
<1> HIDE DEF ms, ex, pp, r
<1> QED
  BY <1>2, <1>3, <1>4 DEF EntryOK, Entry, ShapeOK, SameEntry

(* A stop or a continuation does, too. *)
LEMMA SetMemberEntry ==
    ASSUME NEW e, EntryOK(e), NEW m, NEW s \in MemberState
    PROVE  /\ EntryOK(SetMember(e, m, s))
           /\ SameEntry(e, SetMember(e, m, s))
<1>1. [e.mstate EXCEPT ![m] = s] \in Seq(MemberState)
      /\ Len([e.mstate EXCEPT ![m] = s]) = Len(e.mstate)
  BY SeqExcept DEF EntryOK, Entry
<1> QED
  BY <1>1 DEF SetMember, EntryOK, Entry, ShapeOK, SameEntry

(* Resuming a job resumes its stopped members. *)
LEMMA ResumeStates ==
    ASSUME NEW s \in Seq(MemberState)
    PROVE  LET r == [m \in DOMAIN s |->
                        IF s[m] = "stopped" THEN "running" ELSE s[m]]
           IN  r \in Seq(MemberState) /\ Len(r) = Len(s)
<1> DEFINE r == [m \in DOMAIN s |-> IF s[m] = "stopped" THEN "running" ELSE s[m]]
<1>1. DOMAIN s = 1..Len(s) /\ Len(s) \in Nat /\ s \in [1..Len(s) -> MemberState]
  BY LenProperties
<1>2. \A m \in 1..Len(s) : r[m] \in MemberState
  BY <1>1 DEF MemberState
<1>3. r \in Seq(MemberState)
  BY <1>1, <1>2
<1> QED
  BY <1>1, <1>3

LEMMA ResumeStoppedEntry ==
    ASSUME NEW e, EntryOK(e)
    PROVE  EntryOK(ResumeStopped(e)) /\ SameEntry(e, ResumeStopped(e))
<1> DEFINE r == [m \in DOMAIN e.mstate |->
                    IF e.mstate[m] = "stopped" THEN "running" ELSE e.mstate[m]]
<1>1. r \in Seq(MemberState) /\ Len(r) = Len(e.mstate)
  BY ResumeStates DEF EntryOK, Entry
<1>2. ResumeStopped(e) = [e EXCEPT !.mstate = r]
  BY DEF ResumeStopped
<1> HIDE DEF r
<1> QED
  BY <1>1, <1>2 DEF EntryOK, Entry, ShapeOK, SameEntry

(***************************************************************************)
(* Operators on the table.                                                 *)
(***************************************************************************)
Event == [kind : {"stop", "continue", "exit"}, status : Nat]

(* u holds some of the jobs of t, and no other. *)
Keeps(t, u) ==
    /\ KnownSlots(u) \subseteq KnownSlots(t)
    /\ \A i \in KnownSlots(u) : SameEntry(t.slots[i], u.slots[i])
    /\ u.nextSeq = t.nextSeq

LEMMA KeepsTransitive ==
    ASSUME NEW t, NEW u, NEW v, Keeps(t, u), Keeps(u, v)
    PROVE  Keeps(t, v)
BY DEF Keeps, SameEntry

(* The new table has the type of a table. *)
LEMMA EmptyTableType == TableOK(EmptyTable)
BY CapAssumption, MaxIdAssumption
   DEF TableOK, EmptyTable, JobId

LEMMA TableEntry ==
    ASSUME NEW t, TableOK(t), NEW i \in KnownSlots(t)
    PROVE  EntryOK(t.slots[i]) /\ i \in 1..Cap
BY DEF TableOK, EntryOK, KnownSlots

(* An event keeps an entry one of the same job. *)
LEMMA EntryAfterType ==
    ASSUME NEW e, EntryOK(e), NEW m, NEW ev \in Event
    PROVE  EntryOK(EntryAfter(e, m, ev)) /\ SameEntry(e, EntryAfter(e, m, ev))
<1>1. CASE ev.kind = "stop"
  <2> DEFINE s == SetMember(e, m, "stopped")
  <2>1. EntryOK(s) /\ SameEntry(e, s)
    BY SetMemberEntry DEF MemberState
  <2>2. EntryAfter(e, m, ev) = s
        \/ EntryAfter(e, m, ev) = [s EXCEPT !.state = "STOPPED", !.notified = FALSE]
    BY <1>1 DEF EntryAfter
  <2> HIDE DEF s
  <2> QED
    BY <2>1, <2>2 DEF EntryOK, Entry, ShapeOK, SameEntry
<1>2. CASE ev.kind = "continue"
  <2> DEFINE s == SetMember(e, m, "running")
  <2>1. EntryOK(s) /\ SameEntry(e, s)
    BY SetMemberEntry DEF MemberState
  <2>2. EntryAfter(e, m, ev) = [s EXCEPT !.state = "RUNNING", !.notified = FALSE]
    BY <1>2 DEF EntryAfter
  <2> HIDE DEF s
  <2> QED
    BY <2>1, <2>2 DEF EntryOK, Entry, ShapeOK, SameEntry
<1>3. CASE ev.kind = "exit"
  <2> DEFINE x == ExitMember(e, m, ev.status)
             w == IF PipelineKnown(x.pipe) THEN PipelineResult(x.pipe) ELSE 125
  <2>1. EntryOK(x) /\ SameEntry(e, x)
    BY ExitMemberEntry DEF Event
  <2>2. w \in Nat
    BY <2>1, PipelineResultType DEF EntryOK, Entry
  <2>3. EntryAfter(e, m, ev) = x
        \/ EntryAfter(e, m, ev) = [x EXCEPT !.state = "DONE", !.notified = FALSE,
                                           !.status = w]
    BY <1>3 DEF EntryAfter, DoneEntry
  <2> HIDE DEF x, w
  <2> QED
    BY <2>1, <2>2, <2>3 DEF EntryOK, Entry, ShapeOK, SameEntry, WaitStatus
<1> QED
  BY <1>1, <1>2, <1>3 DEF Event

(* An entry is put in a slot; the rest of the table does not change. *)
LEMMA PutEntryType ==
    ASSUME NEW t, TableOK(t), NEW i \in 1..Cap, NEW e, EntryOK(e)
    PROVE  /\ TableOK(PutEntry(t, i, e))
           /\ KnownSlots(PutEntry(t, i, e)) = KnownSlots(t) \cup {i}
           /\ \A j \in KnownSlots(t) \cup {i} :
                 PutEntry(t, i, e).slots[j] = IF j = i THEN e ELSE t.slots[j]
           /\ PutEntry(t, i, e).nextSeq = t.nextSeq
           /\ PutEntry(t, i, e).nextId = t.nextId
           /\ PutEntry(t, i, e).current = t.current
           /\ PutEntry(t, i, e).previous = t.previous
           /\ PutEntry(t, i, e).ghosts = t.ghosts
<1> DEFINE f == [j \in KnownSlots(t) \cup {i} |-> IF j = i THEN e ELSE t.slots[j]]
           u == PutEntry(t, i, e)
<1>1. DOMAIN f = KnownSlots(t) \cup {i}
      /\ \A j \in KnownSlots(t) \cup {i} : f[j] = IF j = i THEN e ELSE t.slots[j]
  OBVIOUS
<1>2. u = [t EXCEPT !.slots = f]
  BY DEF PutEntry
<1> HIDE DEF f
<1>3. /\ u.slots = f /\ u.nextSeq = t.nextSeq /\ u.nextId = t.nextId
      /\ u.current = t.current /\ u.previous = t.previous
      /\ u.ghosts = t.ghosts /\ DOMAIN u = DOMAIN t
  BY <1>2 DEF TableOK
<1> HIDE DEF u
<1>4. KnownSlots(u) = KnownSlots(t) \cup {i}
  BY <1>1, <1>3 DEF KnownSlots
<1>5. \A j \in KnownSlots(u) : j \in 1..Cap /\ EntryOK(u.slots[j])
  BY <1>1, <1>3, <1>4, TableEntry
<1>6. TableOK(u)
  BY <1>3, <1>4, <1>5 DEF TableOK, EntryOK, KnownSlots
<1> QED
  BY <1>1, <1>3, <1>4, <1>6 DEF u

(* Replacing the entry of a job by one of the same job keeps the jobs. *)
LEMMA PutSameEntry ==
    ASSUME NEW t, TableOK(t), NEW i \in KnownSlots(t), NEW e, EntryOK(e),
           SameEntry(t.slots[i], e)
    PROVE  /\ TableOK(PutEntry(t, i, e))
           /\ Keeps(t, PutEntry(t, i, e))
           /\ KnownSlots(PutEntry(t, i, e)) = KnownSlots(t)
<1>1. i \in 1..Cap
  BY TableEntry
<1> DEFINE u == PutEntry(t, i, e)
<1>2. /\ TableOK(u) /\ KnownSlots(u) = KnownSlots(t) \cup {i}
      /\ u.nextSeq = t.nextSeq
      /\ \A j \in KnownSlots(t) \cup {i} :
            u.slots[j] = IF j = i THEN e ELSE t.slots[j]
  BY <1>1, PutEntryType
<1> HIDE DEF u
<1>3. KnownSlots(u) = KnownSlots(t)
  BY <1>2
<1>4. Keeps(t, u)
  BY <1>2, <1>3 DEF Keeps, SameEntry
<1> QED
  BY <1>2, <1>3, <1>4 DEF u

(* A table in which only the current and the previous job are others. *)
LEMMA CurrentType ==
    ASSUME NEW t, TableOK(t), NEW u, DOMAIN u = DOMAIN t,
           u.slots = t.slots, u.ghosts = t.ghosts, u.nextId = t.nextId,
           u.nextSeq = t.nextSeq, u.current \in JobId \cup {0},
           u.previous \in JobId \cup {0}
    PROVE  TableOK(u) /\ Keeps(t, u)
BY DEF TableOK, Keeps, SameEntry, KnownSlots

LEMMA MakeCurrentType ==
    ASSUME NEW t, TableOK(t), NEW id \in JobId
    PROVE  /\ TableOK(MakeCurrent(t, id))
           /\ Keeps(t, MakeCurrent(t, id))
           /\ MakeCurrent(t, id).slots = t.slots
<1>1. t.current \in JobId \cup {0}
  BY DEF TableOK
<1>2. CASE t.current = id
  BY <1>2 DEF MakeCurrent, Keeps, SameEntry
<1>3. CASE t.current # id
  <2> DEFINE u == MakeCurrent(t, id)
  <2>1. /\ DOMAIN u = DOMAIN t /\ u.slots = t.slots /\ u.ghosts = t.ghosts
        /\ u.nextId = t.nextId /\ u.nextSeq = t.nextSeq
        /\ u.current = id /\ u.previous = t.current
    BY <1>3 DEF MakeCurrent, TableOK
  <2> QED
    BY <1>1, <2>1, CurrentType
<1> QED
  BY <1>2, <1>3

LEMMA NewestIdType ==
    ASSUME NEW t, TableOK(t), NEW S \in SUBSET KnownSlots(t)
    PROVE  NewestId(t, S) \in JobId \cup {0}
<1>1. CASE \E i \in S : Newest(t, S, i)
  <2> DEFINE i == CHOOSE x \in S : Newest(t, S, x)
  <2>1. i \in S
    BY <1>1
  <2>2. t.slots[i].id \in JobId
    BY <2>1, TableEntry DEF EntryOK, Entry
  <2> QED
    BY <1>1, <2>2 DEF NewestId
<1>2. CASE ~\E i \in S : Newest(t, S, i)
  BY <1>2 DEF NewestId
<1> QED
  BY <1>1, <1>2

LEMMA RefreshCurrentType ==
    ASSUME NEW t, TableOK(t)
    PROVE  /\ TableOK(RefreshCurrent(t))
           /\ Keeps(t, RefreshCurrent(t))
           /\ RefreshCurrent(t).slots = t.slots
<1> DEFINE c == NewestId(t, KnownSlots(t))
           p == NewestId(t, {i \in KnownSlots(t) : t.slots[i].id # c})
<1>1. c \in JobId \cup {0} /\ p \in JobId \cup {0}
  BY NewestIdType
<1> DEFINE u == RefreshCurrent(t)
<1>2. u = [t EXCEPT !.current = c, !.previous = p]
  BY DEF RefreshCurrent
<1> HIDE DEF c, p
<1>3. /\ DOMAIN u = DOMAIN t /\ u.slots = t.slots /\ u.ghosts = t.ghosts
      /\ u.nextId = t.nextId /\ u.nextSeq = t.nextSeq
      /\ u.current = c /\ u.previous = p
  BY <1>2 DEF TableOK
<1> HIDE DEF u
<1> QED
  BY <1>1, <1>3, CurrentType DEF u

(* gsh_background_update_member keeps every job. *)
LEMMA UpdateMemberType ==
    ASSUME NEW t, TableOK(t), NEW p, NEW ev \in Event
    PROVE  /\ TableOK(UpdateMember(t, p, ev))
           /\ Keeps(t, UpdateMember(t, p, ev))
           /\ KnownSlots(UpdateMember(t, p, ev)) = KnownSlots(t)
<1>1. CASE ~\E i \in KnownSlots(t) : SlotOf(t, p, i)
  BY <1>1 DEF UpdateMember, Keeps, SameEntry
<1>2. CASE \E i \in KnownSlots(t) : SlotOf(t, p, i)
  <2> DEFINE i == CHOOSE x \in KnownSlots(t) : SlotOf(t, p, x)
             e == t.slots[i]
             m == CHOOSE x \in 1..Len(e.members) : HasMember(e, p, x)
             f == EntryAfter(e, m, ev)
             u == PutEntry(t, i, f)
  <2>1. i \in KnownSlots(t)
    BY <1>2
  <2>2. EntryOK(e)
    BY <2>1, TableEntry
  <2>3. EntryOK(f) /\ SameEntry(e, f)
    BY <2>2, EntryAfterType
  <2>4. UpdateMember(t, p, ev) = u \/ UpdateMember(t, p, ev) = MakeCurrent(u, e.id)
    BY <1>2 DEF UpdateMember
  <2>5. e.id \in JobId
    BY <2>2 DEF EntryOK, Entry
  <2> HIDE DEF i, m, f
  <2>6. TableOK(u) /\ Keeps(t, u) /\ KnownSlots(u) = KnownSlots(t)
    BY <2>1, <2>3, PutSameEntry
  <2> HIDE DEF u, e
  <2>7. /\ TableOK(MakeCurrent(u, e.id)) /\ Keeps(t, MakeCurrent(u, e.id))
        /\ KnownSlots(MakeCurrent(u, e.id)) = KnownSlots(t)
    BY <2>5, <2>6, MakeCurrentType, KeepsTransitive DEF KnownSlots
  <2> QED
    BY <2>4, <2>6, <2>7
<1> QED
  BY <1>1, <1>2

(* Forgetting jobs keeps the others as they are. *)
LEMMA ForgetType ==
    ASSUME NEW t, TableOK(t), NEW S \in SUBSET KnownSlots(t)
    PROVE  /\ TableOK(Forget(t, S))
           /\ Keeps(t, Forget(t, S))
           /\ KnownSlots(Forget(t, S)) = KnownSlots(t) \ S
<1> DEFINE keep == KnownSlots(t) \ S
           left == {[slot |-> i, id |-> t.slots[i].id] :
                       i \in {k \in S : ~t.slots[k].notified}}
           f    == [j \in keep |-> t.slots[j]]
           g    == {x \in t.ghosts \cup left : \E j \in keep : x.slot < j}
           u    == [t EXCEPT !.slots = f, !.ghosts = g]
<1>1. Forget(t, S) = RefreshCurrent(u)
  BY DEF Forget
<1>2. /\ DOMAIN f = keep
      /\ \A j \in keep : f[j] = t.slots[j]
  OBVIOUS
<1>3. g \subseteq [slot : 1..Cap, id : JobId]
  <2>1. \A i \in S : i \in 1..Cap /\ t.slots[i].id \in JobId
    BY TableEntry DEF EntryOK, Entry
  <2> QED
    BY <2>1 DEF TableOK
<1> HIDE DEF f, g
<1>4. /\ DOMAIN u = DOMAIN t /\ u.slots = f /\ u.ghosts = g
      /\ u.nextId = t.nextId /\ u.nextSeq = t.nextSeq
      /\ u.current = t.current /\ u.previous = t.previous
  BY DEF TableOK
<1> HIDE DEF u
<1>5. KnownSlots(u) = keep
  BY <1>2, <1>4 DEF KnownSlots
<1>6. \A j \in keep : j \in 1..Cap /\ EntryOK(u.slots[j]) /\ u.slots[j] = t.slots[j]
  BY <1>2, <1>4, TableEntry
<1>7. TableOK(u)
  BY <1>3, <1>4, <1>5, <1>6 DEF TableOK, EntryOK, KnownSlots
<1>8. Keeps(t, u)
  BY <1>4, <1>5, <1>6 DEF Keeps, SameEntry
<1>9. /\ TableOK(RefreshCurrent(u)) /\ Keeps(t, RefreshCurrent(u))
      /\ KnownSlots(RefreshCurrent(u)) = keep
  BY <1>5, <1>7, <1>8, RefreshCurrentType, KeepsTransitive DEF KnownSlots
<1> QED
  BY <1>1, <1>9

(* gsh_background_consume and gsh_background_consume_all_if_done. *)
LEMMA ConsumeType ==
    ASSUME NEW t, TableOK(t), NEW P
    PROVE  TableOK(Consume(t, P)) /\ Keeps(t, Consume(t, P))
<1>1. Consumed(t, P) \in SUBSET KnownSlots(t)
  BY DEF Consumed
<1> QED
  BY <1>1, ForgetType DEF Consume, Keeps, SameEntry

LEMMA ConsumeAllType ==
    ASSUME NEW t, TableOK(t)
    PROVE  TableOK(ConsumeAll(t)) /\ Keeps(t, ConsumeAll(t))
<1> DEFINE u == ConsumeAll(t)
           none == [i \in {} |-> 0]
<1>1. DOMAIN none = {}
  OBVIOUS
<1>2. u = [t EXCEPT !.slots = none, !.ghosts = {}, !.current = 0, !.previous = 0]
  BY DEF ConsumeAll
<1> HIDE DEF none
<1>3. /\ DOMAIN u = DOMAIN t /\ u.slots = none /\ u.ghosts = {}
      /\ u.nextId = t.nextId /\ u.nextSeq = t.nextSeq
      /\ u.current = 0 /\ u.previous = 0
  BY <1>2 DEF TableOK
<1> HIDE DEF u
<1>4. TableOK(u) /\ Keeps(t, u)
  BY <1>1, <1>3 DEF TableOK, Keeps, KnownSlots
<1> QED
  BY <1>4 DEF u

(* gsh_background_remove_job *)
LEMMA RemoveJobType ==
    ASSUME NEW t, TableOK(t), NEW id
    PROVE  TableOK(RemoveJob(t, id)) /\ Keeps(t, RemoveJob(t, id))
<1>1. CASE \E i \in KnownSlots(t) : SlotOfId(t, id, i)
  <2> DEFINE i == CHOOSE x \in KnownSlots(t) : SlotOfId(t, id, x)
  <2>1. {i} \in SUBSET KnownSlots(t)
    BY <1>1
  <2> QED
    BY <1>1, <2>1, ForgetType DEF RemoveJob
<1>2. CASE ~\E i \in KnownSlots(t) : SlotOfId(t, id, i)
  BY <1>2 DEF RemoveJob, Keeps, SameEntry
<1> QED
  BY <1>1, <1>2

(* gsh_background_continue_job *)
LEMMA ContinueJobType ==
    ASSUME NEW t, TableOK(t), NEW id \in JobId
    PROVE  /\ TableOK(ContinueJob(t, id))
           /\ Keeps(t, ContinueJob(t, id))
           /\ KnownSlots(ContinueJob(t, id)) = KnownSlots(t)
<1> DEFINE can == \E i \in KnownSlots(t) :
                      SlotOfId(t, id, i) /\ t.slots[i].state # "DONE"
<1>1. CASE ~can
  BY <1>1 DEF ContinueJob, Keeps, SameEntry
<1>2. CASE can
  <2> DEFINE i == CHOOSE x \in KnownSlots(t) : SlotOfId(t, id, x)
             e == ResumeStopped(t.slots[i])
             f == [e EXCEPT !.state = "RUNNING", !.notified = FALSE]
             u == PutEntry(t, i, f)
  <2>1. i \in KnownSlots(t) /\ i \in 1..Cap
    BY <1>2, TableEntry
  <2>2. EntryOK(e) /\ SameEntry(t.slots[i], e)
    BY <2>1, TableEntry, ResumeStoppedEntry
  <2>3. ContinueJob(t, id) = MakeCurrent(u, id)
    BY <1>2 DEF ContinueJob
  <2> HIDE DEF i, e
  <2>4. EntryOK(f) /\ SameEntry(t.slots[i], f)
    BY <2>2 DEF EntryOK, Entry, ShapeOK, SameEntry
  <2> HIDE DEF f
  <2>5. TableOK(u) /\ Keeps(t, u) /\ KnownSlots(u) = KnownSlots(t)
    BY <2>1, <2>4, PutSameEntry
  <2> HIDE DEF u
  <2> QED
    BY <2>3, <2>5, MakeCurrentType, KeepsTransitive DEF KnownSlots
<1> QED
  BY <1>1, <1>2

(* Entries changed one by one, in a table with the same slots. *)
LEMMA MapEntries ==
    ASSUME NEW t, TableOK(t), NEW f, DOMAIN f = KnownSlots(t),
           \A i \in KnownSlots(t) : EntryOK(f[i]) /\ SameEntry(t.slots[i], f[i]),
           NEW u, u = [t EXCEPT !.slots = f]
    PROVE  TableOK(u) /\ Keeps(t, u) /\ u.slots = f
<1>1. /\ DOMAIN u = DOMAIN t /\ u.slots = f /\ u.ghosts = t.ghosts
      /\ u.nextId = t.nextId /\ u.nextSeq = t.nextSeq
      /\ u.current = t.current /\ u.previous = t.previous
  BY DEF TableOK
<1>2. KnownSlots(u) = KnownSlots(t)
  BY <1>1 DEF KnownSlots
<1>3. \A i \in KnownSlots(t) : i \in 1..Cap
  BY TableEntry
<1> QED
  BY <1>1, <1>2, <1>3 DEF TableOK, Keeps, EntryOK, KnownSlots

(* gsh_background_mark_notified *)
LEMMA MarkNotifiedType ==
    ASSUME NEW t, TableOK(t), NEW S
    PROVE  /\ TableOK(MarkNotified(t, S))
           /\ Keeps(t, MarkNotified(t, S))
           /\ KnownSlots(MarkNotified(t, S)) = KnownSlots(t)
<1> DEFINE f == [i \in KnownSlots(t) |->
                    IF i \in S THEN [t.slots[i] EXCEPT !.notified = TRUE]
                               ELSE t.slots[i]]
           u == MarkNotified(t, S)
<1>1. \A i \in KnownSlots(t) : EntryOK(f[i]) /\ SameEntry(t.slots[i], f[i])
  <2> TAKE i \in KnownSlots(t)
  <2>1. EntryOK(t.slots[i])
    BY TableEntry
  <2>2. f[i] = t.slots[i] \/ f[i] = [t.slots[i] EXCEPT !.notified = TRUE]
    OBVIOUS
  <2> HIDE DEF f
  <2> QED
    BY <2>1, <2>2 DEF EntryOK, Entry, ShapeOK, SameEntry
<1>2. DOMAIN f = KnownSlots(t)
  OBVIOUS
<1>3. u = [t EXCEPT !.slots = f]
  BY DEF MarkNotified
<1> HIDE DEF f, u
<1>4. TableOK(u) /\ Keeps(t, u) /\ u.slots = f
  BY <1>1, <1>2, <1>3, MapEntries
<1> QED
  BY <1>2, <1>4 DEF u, KnownSlots

(* emit_deferred_job_notifications *)
LEMMA PromptType ==
    ASSUME NEW t, TableOK(t)
    PROVE  /\ TableOK(Prompt(t))
           /\ Keeps(t, Prompt(t))
           /\ KnownSlots(Prompt(t)) = KnownSlots(t)
BY MarkNotifiedType DEF Prompt

(***************************************************************************)
(* Adding a job.                                                           *)
(***************************************************************************)
(* An id tried by next_job_id is an id: it wraps from MaxId to 1.          *)
LEMMA CandidateIdType ==
    ASSUME NEW t, TableOK(t), NEW k \in Nat
    PROVE  CandidateId(t, k) \in JobId
<1>1. MaxId \in Nat /\ MaxId > 0
  BY CapAssumption, MaxIdAssumption
<1>2. t.nextId - 1 + k \in Nat
  BY <1>1 DEF TableOK, JobId
<1>3. \A n \in Nat : n % MaxId \in 0..(MaxId - 1)
  BY <1>1
<1> QED
  BY <1>1, <1>2, <1>3 DEF CandidateId, JobId

(* The entry of a new job. *)
LEMMA NewEntryType ==
    ASSUME NEW g, GroupOK(g), g.members # <<>>, NEW id \in JobId, NEW seq \in Nat
    PROVE  /\ EntryOK(NewEntry(g, id, seq))
           /\ NewEntry(g, id, seq).members = g.members
           /\ NewEntry(g, id, seq).mstate = g.mstate
           /\ NewEntry(g, id, seq).id = id
           /\ NewEntry(g, id, seq).seq = seq
           /\ NewEntry(g, id, seq).state = "RUNNING"
BY DEF NewEntry, EntryOK, Entry, GroupOK, ShapeOK, WaitStatus

(* u is t with a new job for the group g in slot i. *)
Adds(t, u, g, i) ==
    /\ KnownSlots(u) = KnownSlots(t) \cup {i}
    /\ \A j \in KnownSlots(t) \ {i} : SameEntry(t.slots[j], u.slots[j])
    /\ u.slots[i].members = g.members
    /\ u.slots[i].seq = t.nextSeq
    /\ u.slots[i].id \notin KnownIds(t)
    /\ u.nextSeq = t.nextSeq + 1

LEMMA InsertEntryType ==
    ASSUME NEW t, TableOK(t), NEW i \in 1..Cap, NEW g, GroupOK(g),
           g.members # <<>>, NEW id \in JobId, id \notin KnownIds(t)
    PROVE  /\ TableOK(InsertEntry(t, i, g, id))
           /\ Adds(t, InsertEntry(t, i, g, id), g, i)
<1> DEFINE e == NewEntry(g, id, t.nextSeq)
           u == PutEntry(t, i, e)
           w == InsertEntry(t, i, g, id)
           h == {x \in u.ghosts : x.slot # i}
<1>1. /\ EntryOK(e) /\ e.members = g.members /\ e.id = id
      /\ e.seq = t.nextSeq /\ e.state = "RUNNING"
  BY NewEntryType DEF TableOK
<1>2. w = [u EXCEPT !.ghosts = h, !.nextSeq = u.nextSeq + 1,
                    !.previous = t.current, !.current = id]
  BY DEF InsertEntry
<1> HIDE DEF e
<1>3. /\ TableOK(u) /\ KnownSlots(u) = KnownSlots(t) \cup {i}
      /\ \A j \in KnownSlots(t) \cup {i} :
            u.slots[j] = IF j = i THEN e ELSE t.slots[j]
      /\ u.nextSeq = t.nextSeq
  BY <1>1, PutEntryType
<1>4. h \subseteq u.ghosts
  OBVIOUS
<1> HIDE DEF u, h
<1>5. /\ DOMAIN w = DOMAIN u /\ w.slots = u.slots /\ w.ghosts = h
      /\ w.nextId = u.nextId /\ w.nextSeq = t.nextSeq + 1
      /\ w.current = id /\ w.previous = t.current
  BY <1>2, <1>3 DEF TableOK
<1> HIDE DEF w
<1>6. TableOK(w)
  BY <1>3, <1>4, <1>5 DEF TableOK
<1>7. Adds(t, w, g, i)
  BY <1>1, <1>3, <1>5 DEF Adds, KnownSlots, SameEntry
<1> QED
  BY <1>6, <1>7 DEF w

(* Only the counter of ids changes. *)
LEMMA NextIdType ==
    ASSUME NEW t, TableOK(t), NEW id \in JobId, NEW u, u = [t EXCEPT !.nextId = id]
    PROVE  /\ TableOK(u) /\ Keeps(t, u) /\ u.slots = t.slots
           /\ u.nextSeq = t.nextSeq
<1>1. /\ DOMAIN u = DOMAIN t /\ u.slots = t.slots /\ u.ghosts = t.ghosts
      /\ u.nextId = id /\ u.nextSeq = t.nextSeq
      /\ u.current = t.current /\ u.previous = t.previous
  BY DEF TableOK
<1> QED
  BY <1>1 DEF TableOK, Keeps, SameEntry, KnownSlots

(* gsh_background_add_job adds one job with an unused id, or none.         *)
LEMMA AddJobType ==
    ASSUME NEW t, TableOK(t), NEW g, GroupOK(g), g.members # <<>>
    PROVE  /\ TableOK(AddJob(t, g))
           /\ \/ Keeps(t, AddJob(t, g)) /\ AddJob(t, g).slots = t.slots
              \/ /\ ~InUse(t, g.members)
                 /\ \E i \in 1..Cap :
                       FirstReclaimable(t, i) /\ Adds(t, AddJob(t, g), g, i)
<1>1. CASE InUse(t, g.members)
  BY <1>1 DEF AddJob, Keeps, SameEntry
<1>2. CASE ~InUse(t, g.members) /\ ~\E k \in 0..Cap : FirstFreeId(t, k)
  <2> DEFINE id == CandidateId(t, Cap + 1)
  <2>1. id \in JobId
    BY CandidateIdType, CapAssumption
  <2>2. AddJob(t, g) = [t EXCEPT !.nextId = id]
    BY <1>2 DEF AddJob
  <2> HIDE DEF id
  <2> QED
    BY <2>1, <2>2, NextIdType
<1>3. CASE ~InUse(t, g.members) /\ \E k \in 0..Cap : FirstFreeId(t, k)
  <2> DEFINE k  == CHOOSE x \in 0..Cap : FirstFreeId(t, x)
             id == CandidateId(t, k)
             nx == CandidateId(t, k + 1)
             t1 == [t EXCEPT !.nextId = nx]
             i  == CHOOSE x \in 1..Cap : FirstReclaimable(t, x)
  <2>1. k \in 0..Cap /\ FirstFreeId(t, k)
    BY <1>3
  <2>2. id \in JobId /\ nx \in JobId /\ id \notin KnownIds(t)
    BY <2>1, CandidateIdType, CapAssumption DEF FirstFreeId
  <2>3. AddJob(t, g) = IF ~\E x \in 1..Cap : FirstReclaimable(t, x) THEN t1
                       ELSE InsertEntry(t1, i, g, id)
    BY <1>3 DEF AddJob
  <2> HIDE DEF k, id, nx
  <2>4. TableOK(t1) /\ Keeps(t, t1) /\ t1.slots = t.slots /\ t1.nextSeq = t.nextSeq
    BY <2>2, NextIdType
  <2> HIDE DEF t1
  <2>5. CASE ~\E x \in 1..Cap : FirstReclaimable(t, x)
    BY <2>3, <2>4, <2>5
  <2>6. CASE \E x \in 1..Cap : FirstReclaimable(t, x)
    <3>1. i \in 1..Cap /\ FirstReclaimable(t, i)
      BY <2>6
    <3> HIDE DEF i
    <3>2. id \notin KnownIds(t1)
      BY <2>2, <2>4 DEF KnownIds, KnownSlots
    <3>3. TableOK(InsertEntry(t1, i, g, id)) /\ Adds(t1, InsertEntry(t1, i, g, id), g, i)
      BY <2>2, <2>4, <3>1, <3>2, InsertEntryType
    <3>4. Adds(t, InsertEntry(t1, i, g, id), g, i)
      BY <2>4, <3>3 DEF Adds, KnownIds, KnownSlots, SameEntry
    <3> QED
      BY <1>3, <2>3, <2>6, <3>1, <3>3, <3>4
  <2> QED
    BY <2>5, <2>6
<1> QED
  BY <1>1, <1>2, <1>3

(***************************************************************************)
(* Types of the operators.                                                 *)
(***************************************************************************)
OwedOK(o) == DOMAIN o \subseteq Pid /\ \A p \in DOMAIN o : o[p] \in Nat \cup {Unfinished}

ServiceType == [active : BOOLEAN, all : BOOLEAN, targets : Seq(Pid)]

JobOK(j) == j \in Job /\ ShapeOK(j)

(* TypeOK, by variable. *)
LEMMA TypeParts ==
    TypeOK <=> /\ proc \in [Pid -> Process]
               /\ TableOK(jobs)
               /\ JobOK(fgJob)
               /\ mode \in Modes
               /\ terminal \in {Shell} \cup {<<p>> : p \in Pid}
               /\ waitFor \in WaitRequest
               /\ service \in ServiceType
               /\ list \in Seq({"compound", "wait"})
               /\ listActive \in BOOLEAN
               /\ lastStatus \in Nat
               /\ notify \in BOOLEAN
               /\ launched \in Nat
               /\ OwedOK(owed)
BY DEF TypeOK, JobOK, OwedOK, ServiceType

LEMMA OweType ==
    ASSUME OwedOK(owed), NEW p \in Pid, NEW s \in Nat \cup {Unfinished}
    PROVE  OwedOK(Owe(p, s))
BY DEF OwedOK, Owe

LEMMA ForgiveType ==
    ASSUME OwedOK(owed), NEW S
    PROVE  OwedOK(Forgive(S))
BY DEF OwedOK, Forgive

(* What a finished wait leaves is a table with some of the jobs. *)
LEMMA AfterWaitType ==
    ASSUME NEW t, TableOK(t), NEW w
    PROVE  TableOK(AfterWait(t, w)) /\ Keeps(t, AfterWait(t, w))
BY ConsumeType, ConsumeAllType DEF AfterWait

LEMMA ContinueTableType ==
    ASSUME NEW t, TableOK(t)
    PROVE  TableOK(ContinueTable(t)) /\ Keeps(t, ContinueTable(t))
<1>1. Keeps(t, t)
  BY DEF Keeps, SameEntry
<1> QED
  BY <1>1, PromptType DEF ContinueTable

LEMMA ServiceTableType ==
    ASSUME NEW t, TableOK(t)
    PROVE  TableOK(ServiceTable(t)) /\ Keeps(t, ServiceTable(t))
<1>1. Keeps(t, t)
  BY DEF Keeps, SameEntry
<1> QED
  BY <1>1, AfterWaitType DEF ServiceTable

LEMMA ServiceAfterType ==
    ASSUME service \in ServiceType, NEW t
    PROVE  ServiceAfter(t) \in ServiceType
<1>1. <<>> \in Seq(Pid)
  OBVIOUS
<1> QED
  BY <1>1 DEF ServiceAfter, NoService, ServiceType

LEMMA WaitStatusType ==
    ASSUME NEW t, TableOK(t), NEW w
    PROVE  WaitStatusOf(t, w) \in Nat
<1> DEFINE S == {i \in KnownSlots(t) : SlotOfStatusPid(t, w.targets[Len(w.targets)], i)}
<1>1. CASE S = {}
  BY <1>1 DEF WaitStatusOf
<1>2. CASE S # {}
  <2>1. (CHOOSE i \in S : TRUE) \in KnownSlots(t)
    BY <1>2
  <2>2. t.slots[CHOOSE i \in S : TRUE].status \in Nat
    BY <2>1, TableEntry DEF EntryOK, Entry, WaitStatus
  <2> QED
    BY <2>2 DEF WaitStatusOf
<1> QED
  BY <1>1, <1>2

LEMMA WaitRequestType ==
    ASSUME NEW w \in WaitRequests
    PROVE  w \in WaitRequest
<1>1. PICK s \in Waits : w = [all |-> s = <<>>, targets |-> s]
  BY DEF WaitRequests
<1>2. s \in Seq(Pid)
  BY WaitAssumption
<1>3. (s = <<>>) \in BOOLEAN
  OBVIOUS
<1> QED
  BY <1>1, <1>2, <1>3 DEF WaitRequest

(* What a child reports is an event. *)
LEMMA EventType ==
    ASSUME proc \in [Pid -> Process], NEW p \in Pid, Reportable(p)
    PROVE  /\ EventOf(p) \in Event
           /\ Taken(p) \in Process
BY DEF Process, Reportable, EventOf, Event, Taken, NoProcess, StopStatus, WaitStatus

LEMMA TakeType ==
    ASSUME proc \in [Pid -> Process], NEW p \in Pid, Take(p)
    PROVE  EventOf(p) \in Event /\ proc' \in [Pid -> Process]
BY EventType DEF Take

LEMMA AssignedType ==
    ASSUME proc \in [Pid -> Process], NEW S, NEW r \in Process
    PROVE  Assigned(S, r) \in [Pid -> Process]
BY DEF Assigned

LEMMA ResumedType ==
    ASSUME proc \in [Pid -> Process], NEW S
    PROVE  Resumed(S) \in [Pid -> Process]
BY DEF Resumed, Process, WaitStatus

LEMMA ProcessValues ==
    /\ Running \in Process
    /\ NoProcess \in Process
    /\ \A s \in Nat : Zombie(s) \in Process
    /\ Zombie(KillStatus) \in Process
BY DEF Running, NoProcess, Zombie, Process, WaitStatus, KillStatus

(***************************************************************************)
(* Types of the foreground job.                                            *)
(***************************************************************************)
LEMMA JobIsGroup ==
    ASSUME NEW j, JobOK(j)
    PROVE  GroupOK(j)
BY DEF JobOK, GroupOK, Job

LEMMA NoJobType == JobOK(NoJob)
<1>1. /\ <<>> \in Seq(Pid) /\ <<>> \in Seq(MemberState)
      /\ <<>> \in Seq(Nat \cup {Unfinished})
  OBVIOUS
<1>2. NewPipeline(1, FALSE) \in PipelineRecord
  BY DEF NewPipeline, PipelineRecord, WaitStatus
<1> QED
  BY <1>1, <1>2 DEF NoJob, JobOK, Job, ShapeOK

LEMMA JobOfType ==
    ASSUME NEW g, GroupOK(g), NEW f \in BOOLEAN, NEW s \in BOOLEAN,
           NEW x \in BOOLEAN
    PROVE  /\ JobOK(JobOf(g, f, s, x))
           /\ JobOf(g, f, s, x).members = g.members
           /\ JobOf(g, f, s, x).active
           /\ JobOf(g, f, s, x).foreground = f
           /\ JobOf(g, f, s, x).stopped = s
BY DEF GroupOK, JobOf, JobOK, Job, ShapeOK

LEMMA NewGroupType ==
    ASSUME NEW members \in Seq(Pid), NEW count \in 1..Len(members),
           NEW pipefail \in BOOLEAN
    PROVE  /\ GroupOK(NewGroup(members, count, pipefail))
           /\ NewGroup(members, count, pipefail).members = members
           /\ members # <<>>
<1> DEFINE n  == Len(members)
           ms == [m \in 1..n |-> "running"]
           ex == [m \in 1..n |-> Unfinished]
<1>1. n \in Nat /\ count \in Nat \ {0}
  OBVIOUS
<1>2. ms \in Seq(MemberState) /\ Len(ms) = n
  BY <1>1 DEF MemberState
<1>3. ex \in Seq(Nat \cup {Unfinished}) /\ Len(ex) = n
  BY <1>1
<1>4. NewPipeline(count, pipefail) \in PipelineRecord
      /\ NewPipeline(count, pipefail).count = count
  BY <1>1, NewPipelineType DEF NewPipeline
<1>5. NewGroup(members, count, pipefail) =
        [members |-> members, mstate |-> ms, remaining |-> n,
         pipe |-> NewPipeline(count, pipefail), exits |-> ex]
  BY DEF NewGroup
<1> HIDE DEF ms, ex
<1>6. members # <<>>
  OBVIOUS
<1> QED
  BY <1>1, <1>2, <1>3, <1>4, <1>5, <1>6 DEF GroupOK, ShapeOK

(* The two values of one foreground job. *)
SameJob(j, k) ==
    /\ k.members = j.members
    /\ k.active = j.active
    /\ k.foreground = j.foreground
    /\ k.stopped = j.stopped
    /\ k.txn = j.txn

LEMMA ExitMemberJob ==
    ASSUME NEW j, JobOK(j), NEW m, NEW status \in Nat
    PROVE  JobOK(ExitMember(j, m, status)) /\ SameJob(j, ExitMember(j, m, status))
<1> DEFINE ms == [j.mstate EXCEPT ![m] = "done"]
           ex == [j.exits EXCEPT ![m] = status]
           pp == RecordStatus(j.pipe, m, status)
           r  == IF j.mstate[m] # "done" /\ j.remaining > 0
                 THEN j.remaining - 1 ELSE j.remaining
<1>1. GroupOK(j)
  BY JobIsGroup
<1>2. /\ ms \in Seq(MemberState) /\ Len(ms) = Len(j.members)
      /\ ex \in Seq(Nat \cup {Unfinished}) /\ Len(ex) = Len(j.members)
      /\ pp \in PipelineRecord /\ pp.count = j.pipe.count
  BY <1>1, ExitMemberParts
<1>3. r \in Nat
  BY <1>1 DEF GroupOK
<1>4. ExitMember(j, m, status) = [j EXCEPT !.mstate = ms, !.remaining = r,
                                           !.pipe = pp, !.exits = ex]
  BY DEF ExitMember
<1> HIDE DEF ms, ex, pp, r
<1> QED
  BY <1>2, <1>3, <1>4 DEF JobOK, Job, ShapeOK, SameJob

LEMMA SetMemberJob ==
    ASSUME NEW j, JobOK(j), NEW m, NEW s \in MemberState
    PROVE  JobOK(SetMember(j, m, s)) /\ SameJob(j, SetMember(j, m, s))
<1>1. j.mstate \in Seq(MemberState)
  BY DEF JobOK, Job
<1>2. [j.mstate EXCEPT ![m] = s] \in Seq(MemberState)
      /\ Len([j.mstate EXCEPT ![m] = s]) = Len(j.mstate)
  BY <1>1, SeqExcept
<1> QED
  BY <1>2 DEF SetMember, JobOK, Job, ShapeOK, SameJob

LEMMA ResumeStoppedJob ==
    ASSUME NEW j, JobOK(j)
    PROVE  JobOK(ResumeStopped(j)) /\ SameJob(j, ResumeStopped(j))
<1> DEFINE r == [m \in DOMAIN j.mstate |->
                    IF j.mstate[m] = "stopped" THEN "running" ELSE j.mstate[m]]
<1>1. r \in Seq(MemberState) /\ Len(r) = Len(j.mstate)
  BY ResumeStates DEF JobOK, Job
<1>2. ResumeStopped(j) = [j EXCEPT !.mstate = r]
  BY DEF ResumeStopped
<1> HIDE DEF r
<1> QED
  BY <1>1, <1>2 DEF JobOK, Job, ShapeOK, SameJob

(* The entry of a job that stops in the foreground.                        *)
LEMMA RegisterStoppedType ==
    ASSUME NEW t, TableOK(t), NEW g, GroupOK(g), g.members # <<>>
    PROVE  /\ TableOK(RegisterStopped(t, g))
           /\ \/ Keeps(t, RegisterStopped(t, g))
              \/ /\ ~InUse(t, g.members)
                 /\ \E i \in 1..Cap : Adds(t, RegisterStopped(t, g), g, i)
<1>1. CASE Pgid(g) \in KnownPids(t)
  BY <1>1 DEF RegisterStopped, Keeps, SameEntry
<1>2. CASE Pgid(g) \notin KnownPids(t)
  <2> DEFINE t1 == AddJob(t, g)
             f  == [i \in KnownSlots(t1) |->
                      IF t1.slots[i].seq = t.nextSeq
                      THEN [t1.slots[i] EXCEPT !.state = "STOPPED"]
                      ELSE t1.slots[i]]
             r  == RegisterStopped(t, g)
  <2>1. r = [t1 EXCEPT !.slots = f]
    BY <1>2 DEF RegisterStopped
  <2>2. /\ TableOK(t1)
        /\ \/ Keeps(t, t1)
           \/ /\ ~InUse(t, g.members)
              /\ \E i \in 1..Cap : Adds(t, t1, g, i)
    BY AddJobType
  <2> HIDE DEF t1, r
  <2>3. DOMAIN f = KnownSlots(t1)
    OBVIOUS
  <2>4. \A i \in KnownSlots(t1) : EntryOK(f[i]) /\ SameEntry(t1.slots[i], f[i])
    <3> TAKE i \in KnownSlots(t1)
    <3>1. EntryOK(t1.slots[i])
      BY <2>2, TableEntry
    <3>2. f[i] = t1.slots[i] \/ f[i] = [t1.slots[i] EXCEPT !.state = "STOPPED"]
      OBVIOUS
    <3> HIDE DEF f
    <3> QED
      BY <3>1, <3>2 DEF EntryOK, Entry, ShapeOK, SameEntry
  <2> HIDE DEF f
  <2>5. TableOK(r) /\ Keeps(t1, r) /\ r.slots = f
    BY <2>1, <2>2, <2>3, <2>4, MapEntries
  <2>6. KnownSlots(r) = KnownSlots(t1)
    BY <2>3, <2>5 DEF KnownSlots
  <2>7. \A i \in 1..Cap : Adds(t, t1, g, i) => Adds(t, r, g, i)
    BY <2>5, <2>6 DEF Adds, Keeps, SameEntry
  <2>8. Keeps(t, t1) => Keeps(t, r)
    BY <2>5, KeepsTransitive
  <2> QED
    BY <2>2, <2>5, <2>7, <2>8 DEF r
<1> QED
  BY <1>1, <1>2

LEMMA RemoveTrackedType ==
    ASSUME NEW t, TableOK(t), NEW g
    PROVE  TableOK(RemoveTracked(t, g)) /\ Keeps(t, RemoveTracked(t, g))
<1>1. Keeps(t, t)
  BY DEF Keeps, SameEntry
<1> QED
  BY <1>1, RemoveJobType DEF RemoveTracked

LEMMA FinalStatusType ==
    ASSUME NEW g, JobOK(g)
    PROVE  FinalStatus(g) \in Nat
BY PipelineResultType DEF FinalStatus, JobOK, Job

(* The reply to an evaluator. *)
LEMMA ReplyType ==
    ASSUME service \in ServiceType, OwedOK(owed), NEW t, TableOK(t),
           ReplyToService(t)
    PROVE  /\ TableOK(jobs') /\ Keeps(t, jobs')
           /\ service' \in ServiceType
           /\ OwedOK(owed')
BY ServiceTableType, ServiceAfterType, ForgiveType DEF ReplyToService

(***************************************************************************)
(* The type invariant.                                                     *)
(***************************************************************************)
LEMMA TypeStep ==
    ASSUME proc' \in [Pid -> Process], TableOK(jobs'), JobOK(fgJob'),
           mode' \in Modes, terminal' \in {Shell} \cup {<<p>> : p \in Pid},
           waitFor' \in WaitRequest, service' \in ServiceType,
           list' \in Seq({"compound", "wait"}), listActive' \in BOOLEAN,
           lastStatus' \in Nat, notify' \in BOOLEAN, launched' \in Nat,
           OwedOK(owed')
    PROVE  TypeOK'
BY DEF TypeOK, JobOK, OwedOK, ServiceType

(* An action that only answers at the prompt. *)
LEMMA AnswerType ==
    ASSUME TypeOK, NEW s \in Nat, Answer(s)
    PROVE  TypeOK'
BY TypeParts, TypeStep, PromptType DEF Answer, idle

LEMMA InitType == Init => TypeOK
<1> SUFFICES ASSUME Init PROVE TypeOK
  OBVIOUS
<1>1. proc \in [Pid -> Process]
  BY ProcessValues DEF Init
<1>2. waitFor \in WaitRequest /\ service \in ServiceType
  BY DEF Init, NoWait, NoService, WaitRequest, ServiceType
<1>3. OwedOK(owed)
  BY DEF Init, OwedOK
<1>4. list \in Seq({"compound", "wait"})
  BY DEF Init
<1> QED
  BY <1>1, <1>2, <1>3, <1>4, TypeParts, EmptyTableType, NoJobType DEF Init, Modes

(* The children. *)
LEMMA ChildrenType ==
    ASSUME TypeOK, Children
    PROVE  TypeOK'
<1>1. ASSUME NEW p \in Pid, ProcStop(p)
      PROVE  TypeOK'
  <2>1. proc' \in [Pid -> Process]
    BY <1>1, TypeParts DEF ProcStop, Process, WaitStatus
  <2> QED
    BY <1>1, <2>1, TypeParts, TypeStep DEF ProcStop
<1>2. ASSUME NEW p \in Pid, ProcContinue(p)
      PROVE  TypeOK'
  BY <1>2, TypeParts, TypeStep, ResumedType DEF ProcContinue
<1>3. ASSUME NEW p \in Pid, NEW s \in ExitStatus \cup {KillStatus}, ProcExit(p, s)
      PROVE  TypeOK'
  <2>1. s \in Nat
    BY ExitAssumption DEF KillStatus
  <2>2. proc' \in [Pid -> Process]
    BY <1>3, <2>1, TypeParts, ProcessValues DEF ProcExit
  <2>3. OwedOK(owed')
    BY <1>3, <2>1, TypeParts, OweType DEF ProcExit
  <2> QED
    BY <1>3, <2>2, <2>3, TypeParts, TypeStep DEF ProcExit
<1> QED
  BY <1>1, <1>2, <1>3 DEF Children

(* The member lists of a launch. *)
LEMMA FreshMembersType ==
    ASSUME NEW n \in 1..MaxMembers, NEW members \in FreshMembers(n)
    PROVE  /\ members \in Seq(Pid)
           /\ Len(members) = n
           /\ n \in Nat \ {0}
           /\ \A i, j \in 1..n : i # j => members[i] # members[j]
<1>1. n \in Nat \ {0}
  BY MemberAssumption
<1>2. members \in [1..n -> Pid]
  BY DEF FreshMembers, FreePids
<1> QED
  BY <1>1, <1>2 DEF FreshMembers

LEMMA ForkType ==
    ASSUME TypeOK, NEW members \in Seq(Pid), NEW r \in Process, Fork(members, r)
    PROVE  /\ proc' \in [Pid -> Process]
           /\ launched' \in Nat
           /\ OwedOK(owed')
BY TypeParts, AssignedType, ForgiveType DEF Fork

LEMMA AbandonType ==
    ASSUME AbandonList
    PROVE  list' \in Seq({"compound", "wait"}) /\ listActive' \in BOOLEAN
<1>1. <<>> \in Seq({"compound", "wait"})
  OBVIOUS
<1> QED
  BY <1>1 DEF AbandonList

LEMMA RestOfListType ==
    ASSUME TypeOK
    PROVE  RestOfList \in Seq({"compound", "wait"})
BY TypeParts DEF RestOfList

(* The launches. *)
LEMMA LaunchBackgroundType ==
    ASSUME TypeOK, NEW p \in Pid, LaunchBackground(p)
    PROVE  TypeOK'
<1> DEFINE g == NewGroup(<<p>>, 1, FALSE)
<1>1. <<p>> \in Seq(Pid) /\ 1 \in 1..Len(<<p>>) /\ FALSE \in BOOLEAN
  OBVIOUS
<1>2. GroupOK(g) /\ g.members # <<>>
  BY <1>1, NewGroupType
<1> HIDE DEF g
<1>3. TableOK(AddJob(jobs, g))
  BY <1>2, AddJobType, TypeParts
<1>4. TableOK(jobs')
  BY <1>3, PromptType, TypeParts DEF LaunchBackground, g
<1>5. launched' \in Nat
  BY TypeParts DEF LaunchBackground
<1>6. CASE CanAdd(jobs, <<p>>)
  <2>1. proc' = Assigned({p}, Running) /\ owed' = Owe(p, Unfinished) /\ lastStatus' = 0
    BY <1>6 DEF LaunchBackground
  <2>2. proc' \in [Pid -> Process] /\ OwedOK(owed')
    BY <2>1, TypeParts, AssignedType, ProcessValues, OweType
  <2> QED
    BY <1>4, <1>5, <2>1, <2>2, TypeParts, TypeStep DEF LaunchBackground
<1>7. CASE ~CanAdd(jobs, <<p>>)
  <2>1. /\ proc' = Assigned({p}, Zombie(KillStatus)) /\ owed' = Forgive({p})
        /\ lastStatus' = 125
    BY <1>7 DEF LaunchBackground
  <2>2. proc' \in [Pid -> Process] /\ OwedOK(owed')
    BY <2>1, TypeParts, AssignedType, ProcessValues, ForgiveType
  <2> QED
    BY <1>4, <1>5, <2>1, <2>2, TypeParts, TypeStep DEF LaunchBackground
<1> QED
  BY <1>6, <1>7

LEMMA LaunchForegroundType ==
    ASSUME TypeOK, NEW n \in 1..MaxMembers, NEW members \in FreshMembers(n),
           NEW count \in 1..n, NEW pipefail \in BOOLEAN, NEW compound \in BOOLEAN,
           LaunchForeground(members, count, pipefail, compound)
    PROVE  TypeOK'
<1> DEFINE g == NewGroup(members, count, pipefail)
           j == JobOf(g, TRUE, FALSE, compound)
<1>1. members \in Seq(Pid) /\ Len(members) = n
  BY FreshMembersType
<1>2. GroupOK(g) /\ g.members = members /\ members # <<>>
  BY <1>1, NewGroupType
<1> HIDE DEF g
<1>3. JobOK(j) /\ j.members = members
  BY <1>2, JobOfType
<1> HIDE DEF j
<1>4. fgJob' = j /\ terminal' = Group(j)
  BY DEF LaunchForeground, g, j
<1>5. members[1] \in Pid
  BY <1>1, <1>2
<1>6. terminal' \in {Shell} \cup {<<p>> : p \in Pid}
  BY <1>3, <1>4, <1>5 DEF Group, Pgid
<1>7. proc' \in [Pid -> Process] /\ launched' \in Nat /\ OwedOK(owed')
  BY <1>1, ForkType, ProcessValues DEF LaunchForeground
<1>8. list' \in Seq({"compound", "wait"})
  BY RestOfListType DEF LaunchForeground
<1> QED
  BY <1>3, <1>4, <1>6, <1>7, <1>8, TypeParts, TypeStep DEF LaunchForeground, Modes

LEMMA FailedLaunchType ==
    ASSUME TypeOK, NEW n \in 1..MaxMembers, NEW members \in FreshMembers(n)
    PROVE  /\ \A count \in 1..n, pipefail, compound \in BOOLEAN :
                HandoffFails(members, count, pipefail, compound) => TypeOK'
           /\ PipelineForkFails(members) => TypeOK'
<1>1. members \in Seq(Pid) /\ Len(members) = n /\ n \in Nat \ {0}
  BY FreshMembersType
<1>2. ASSUME NEW count \in 1..n, NEW pipefail \in BOOLEAN
      PROVE  JobOK(JobOf(NewGroup(members, count, pipefail), FALSE, FALSE, FALSE))
  BY <1>1, NewGroupType, JobOfType
<1>3. ASSUME NEW count \in 1..n, NEW pipefail \in BOOLEAN,
             NEW compound \in BOOLEAN,
             HandoffFails(members, count, pipefail, compound)
      PROVE  TypeOK'
  <2>1. JobOK(fgJob')
    BY <1>2, <1>3 DEF HandoffFails
  <2>2. proc' \in [Pid -> Process] /\ launched' \in Nat /\ OwedOK(owed')
    BY <1>1, <1>3, ForkType, ProcessValues DEF HandoffFails
  <2>3. list' \in Seq({"compound", "wait"}) /\ listActive' \in BOOLEAN
    BY <1>3, AbandonType DEF HandoffFails
  <2> QED
    BY <1>3, <2>1, <2>2, <2>3, PromptType, TypeParts, TypeStep
       DEF HandoffFails, Modes
<1>4. ASSUME PipelineForkFails(members)
      PROVE  TypeOK'
  <2>1. JobOK(fgJob')
    <3>1. n \in 1..n /\ FALSE \in BOOLEAN
      BY <1>1
    <3>2. fgJob' = JobOf(NewGroup(members, n, FALSE), FALSE, FALSE, FALSE)
      BY <1>1, <1>4 DEF PipelineForkFails
    <3> QED
      BY <1>2, <3>1, <3>2
  <2>2. proc' \in [Pid -> Process] /\ launched' \in Nat /\ OwedOK(owed')
    BY <1>1, <1>4, ForkType, ProcessValues DEF PipelineForkFails
  <2> QED
    BY <1>4, <2>1, <2>2, PromptType, TypeParts, TypeStep DEF PipelineForkFails
<1> QED
  BY <1>3, <1>4

LEMMA LaunchType ==
    ASSUME TypeOK, Launch
    PROVE  TypeOK'
<1>1. ASSUME BackgroundRefused PROVE TypeOK'
  BY <1>1, AnswerType DEF BackgroundRefused
<1>2. ASSUME NEW compound \in BOOLEAN, LaunchRefused(compound) PROVE TypeOK'
  BY <1>2, AbandonType, PromptType, TypeParts, TypeStep DEF LaunchRefused, Modes
<1>3. ASSUME CompoundForkFails PROVE TypeOK'
  BY <1>3, AbandonType, PromptType, TypeParts, TypeStep DEF CompoundForkFails, Modes
<1> QED
  BY <1>1, <1>2, <1>3, LaunchBackgroundType, LaunchForegroundType,
     FailedLaunchType DEF Launch

(* fg and bg. *)
LEMMA ResumableEntry ==
    ASSUME TypeOK, NEW i \in KnownSlots(jobs)
    PROVE  /\ EntryOK(jobs.slots[i])
           /\ GroupOK(jobs.slots[i])
           /\ Pgid(jobs.slots[i]) \in Pid
           /\ jobs.slots[i].id \in JobId
<1>1. EntryOK(jobs.slots[i])
  BY TableEntry, TypeParts
<1> QED
  BY <1>1, EntryIsGroup DEF EntryOK, Entry, Pgid

LEMMA FgJobType ==
    ASSUME TypeOK, NEW i \in KnownSlots(jobs)
    PROVE  LET j == FgJob(jobs.slots[i])
           IN  JobOK(j) /\ Pgid(j) = Pgid(jobs.slots[i]) /\ j.active /\ j.foreground
<1> DEFINE e == jobs.slots[i]
           j == FgJob(e)
<1>1. GroupOK(e) /\ JobOK(fgJob)
  BY ResumableEntry, TypeParts
<1> HIDE DEF e
<1>2. CASE SameGroup(e)
  <2>1. j = [fgJob EXCEPT !.foreground = TRUE]
    BY <1>2 DEF FgJob
  <2> HIDE DEF j
  <2> QED
    BY <1>1, <1>2, <2>1 DEF JobOK, Job, ShapeOK, SameGroup, Pgid, e, j
<1>3. CASE ~SameGroup(e)
  <2> DEFINE s == e.state = "STOPPED"
  <2>1. j = JobOf(e, TRUE, s, FALSE) /\ s \in BOOLEAN
    BY <1>3 DEF FgJob
  <2> HIDE DEF j, s
  <2>2. JobOK(j) /\ j.members = e.members /\ j.active /\ j.foreground
    BY <1>1, <2>1, JobOfType, Zenon
  <2> QED
    BY <2>2 DEF Pgid, e, j
<1> QED
  BY <1>2, <1>3

LEMMA FgType ==
    ASSUME TypeOK, NEW i \in 1..Cap, Fg(i)
    PROVE  TypeOK'
<1> DEFINE e == jobs.slots[i]
           j == FgJob(e)
           k == ResumeStopped(j)
<1>1. i \in KnownSlots(jobs)
  BY DEF Fg, Resumable
<1>2. JobOK(j) /\ Pgid(j) \in Pid
  BY <1>1, FgJobType, ResumableEntry
<1>3. e.id \in JobId
  BY <1>1, ResumableEntry
<1>4. JobOK(k)
  BY <1>2, ResumeStoppedJob
<1>5. /\ terminal' = Group(j) /\ mode' = "FOREGROUND"
      /\ IF j.stopped
         THEN /\ proc' = Resumed(Unreaped(j))
              /\ fgJob' = [k EXCEPT !.stopped = FALSE]
              /\ jobs' = ContinueJob(jobs, e.id)
         ELSE fgJob' = j /\ UNCHANGED <<proc, jobs>>
  BY DEF Fg
<1> HIDE DEF e, j, k
<1>6. JobOK([k EXCEPT !.stopped = FALSE])
  BY <1>4 DEF JobOK, Job, ShapeOK
<1>7. TableOK(jobs') /\ JobOK(fgJob') /\ proc' \in [Pid -> Process]
  BY <1>2, <1>3, <1>5, <1>6, ContinueJobType, ResumedType, TypeParts
<1>8. terminal' \in {Shell} \cup {<<p>> : p \in Pid}
  BY <1>2, <1>5 DEF Group
<1> QED
  BY <1>5, <1>7, <1>8, TypeParts, TypeStep DEF Fg, Modes

LEMMA FgHandoffFailsType ==
    ASSUME TypeOK, NEW i \in 1..Cap, FgHandoffFails(i)
    PROVE  TypeOK'
<1>1. JobOK(fgJob')
  BY NoJobType, TypeParts DEF FgHandoffFails
<1> QED
  BY <1>1, PromptType, TypeParts, TypeStep DEF FgHandoffFails

LEMMA BgJobType ==
    ASSUME TypeOK
    PROVE  JobOK(BgJob) /\ ~BgJob.foreground
<1> DEFINE k == ResumeStopped(fgJob)
<1>1. JobOK(k)
  BY ResumeStoppedJob, TypeParts
<1> HIDE DEF k
<1>2. JobOK([k EXCEPT !.stopped = FALSE, !.foreground = FALSE])
      /\ ~[k EXCEPT !.stopped = FALSE, !.foreground = FALSE].foreground
  BY <1>1 DEF JobOK, Job, ShapeOK
<1>3. ~NoJob.foreground
  BY DEF NoJob
<1> QED
  BY <1>2, <1>3, NoJobType DEF BgJob, k

LEMMA BgType ==
    ASSUME TypeOK, NEW i \in 1..Cap, Bg(i)
    PROVE  TypeOK'
<1>1. i \in KnownSlots(jobs)
  BY DEF Bg
<1>2. jobs.slots[i].id \in JobId
  BY <1>1, ResumableEntry
<1>3. TableOK(jobs')
  BY <1>2, ContinueJobType, PromptType, TypeParts DEF Bg
<1>4. JobOK(fgJob')
  BY BgJobType, TypeParts DEF Bg
<1>5. proc' \in [Pid -> Process]
  BY ResumedType, TypeParts DEF Bg
<1> QED
  BY <1>3, <1>4, <1>5, TypeParts, TypeStep DEF Bg

(* wait, of the reactor and of an evaluator. *)
LEMMA BeginWaitType ==
    ASSUME TypeOK, NEW w \in WaitRequests, BeginWait(w)
    PROVE  TypeOK'
<1>1. list' \in Seq({"compound", "wait"})
  BY RestOfListType DEF BeginWait
<1>2. CASE WaitSatisfied(jobs, w)
  <2>1. /\ jobs' = ContinueTable(AfterWait(jobs, w))
        /\ lastStatus' = WaitStatusOf(jobs, w)
        /\ owed' = Forgive(Answered(w))
        /\ mode' = ContinueMode
        /\ waitFor' = waitFor
    BY <1>2 DEF BeginWait
  <2>2. TableOK(jobs')
    BY <2>1, AfterWaitType, ContinueTableType, TypeParts
  <2>3. lastStatus' \in Nat /\ OwedOK(owed') /\ mode' \in Modes
    BY <2>1, WaitStatusType, ForgiveType, TypeParts DEF ContinueMode, Modes
  <2> QED
    BY <1>1, <2>1, <2>2, <2>3, TypeParts, TypeStep DEF BeginWait
<1>3. CASE ~WaitSatisfied(jobs, w)
  <2>1. /\ waitFor' = w /\ mode' = "WAIT"
        /\ UNCHANGED <<jobs, lastStatus, owed>>
    BY <1>3 DEF BeginWait
  <2> QED
    BY <1>1, <2>1, WaitRequestType, TypeParts, TypeStep DEF BeginWait, Modes
<1> QED
  BY <1>2, <1>3

LEMMA ServiceWaitType ==
    ASSUME TypeOK, NEW w \in WaitRequests, ServiceWait(w)
    PROVE  TypeOK'
<1>1. CASE WaitSatisfied(jobs, w)
  <2>1. /\ jobs' = AfterWait(jobs, w) /\ owed' = Forgive(Answered(w))
        /\ service' = service
    BY <1>1 DEF ServiceWait
  <2>2. TableOK(jobs') /\ OwedOK(owed')
    BY <2>1, AfterWaitType, ForgiveType, TypeParts
  <2> QED
    BY <2>1, <2>2, TypeParts, TypeStep DEF ServiceWait
<1>2. CASE ~WaitSatisfied(jobs, w)
  <2>1. /\ service' = [active |-> TRUE, all |-> w.all, targets |-> w.targets]
        /\ UNCHANGED <<jobs, owed>>
    BY <1>2 DEF ServiceWait
  <2>2. service' \in ServiceType
    BY <2>1, WaitRequestType DEF WaitRequest, ServiceType
  <2> QED
    BY <2>1, <2>2, TypeParts, TypeStep DEF ServiceWait
<1> QED
  BY <1>1, <1>2

LEMMA JobsType ==
    ASSUME TypeOK, NEW S, Jobs(S)
    PROVE  TypeOK'
<1>1. TableOK(MarkNotified(jobs, S))
  BY MarkNotifiedType, TypeParts
<1>2. TableOK(jobs') /\ lastStatus' \in Nat
  BY <1>1, PromptType, TypeParts DEF Jobs
<1>3. UNCHANGED idle
  BY DEF Jobs
<1> QED
  BY <1>2, <1>3, TypeParts, TypeStep DEF idle

LEMMA BuiltinType ==
    ASSUME TypeOK, Builtin
    PROVE  TypeOK'
<1>1. ASSUME FgRefused PROVE TypeOK'
  BY <1>1, AnswerType DEF FgRefused
<1>2. ASSUME BgRefused PROVE TypeOK'
  BY <1>2, AnswerType DEF BgRefused
<1>3. ASSUME SetNotify PROVE TypeOK'
  BY <1>3, PromptType, TypeParts, TypeStep DEF SetNotify
<1> QED
  BY <1>1, <1>2, <1>3, JobsType, FgType, FgHandoffFailsType, BgType,
     BeginWaitType, ServiceWaitType DEF Builtin

(* Lists and Ctrl-C. *)
LEMMA ListStepType ==
    ASSUME TypeOK, ListStep
    PROVE  TypeOK'
<1>1. ASSUME NEW l \in Lists, SubmitList(l) PROVE TypeOK'
  BY <1>1, ListAssumption, TypeParts, TypeStep DEF SubmitList, Modes
<1>2. ASSUME SubmitSwallowed PROVE TypeOK'
  <2>1. <<>> \in Seq({"compound", "wait"})
    OBVIOUS
  <2>2. \/ list' = list /\ lastStatus' = lastStatus
        \/ list' = <<>> /\ lastStatus' = 125
    BY <1>2 DEF SubmitSwallowed
  <2>3. list' \in Seq({"compound", "wait"})
    BY <2>1, <2>2, TypeParts, Zenon
  <2>4. lastStatus' \in Nat
    BY <2>2, TypeParts
  <2> QED
    BY <1>2, <2>3, <2>4, TypeParts, TypeStep DEF SubmitSwallowed, Modes
<1>3. ASSUME EndList PROVE TypeOK'
  BY <1>3, PromptType, TypeParts, TypeStep DEF EndList, Modes
<1> QED
  BY <1>1, <1>2, <1>3 DEF ListStep

LEMMA InterruptType ==
    ASSUME TypeOK, Interrupt
    PROVE  TypeOK'
<1>1. ASSUME InterruptWait PROVE TypeOK'
  <2>1. waitFor' \in WaitRequest
    BY <1>1 DEF InterruptWait, NoWait, WaitRequest
  <2> QED
    BY <1>1, <2>1, AbandonType, PromptType, TypeParts, TypeStep
       DEF InterruptWait, Modes
<1>2. ASSUME InterruptDispatch PROVE TypeOK'
  BY <1>2, PromptType, TypeParts, TypeStep DEF InterruptDispatch, Modes
<1> QED
  BY <1>1, <1>2 DEF Interrupt

(* The branch of reap_children for the foreground job. *)
LEMMA InForegroundMembers ==
    ASSUME TypeOK, NEW p, InForeground(p)
    PROVE  fgJob.active /\ fgJob.members # <<>>
BY TypeParts DEF InForeground, Members, JobOK, Job

LEMMA ForegroundStopType ==
    ASSUME TypeOK, NEW p \in Pid, InForeground(p), Take(p), ForegroundStop(p),
           UNCHANGED <<waitFor, notify, launched>>
    PROVE  TypeOK'
<1> DEFINE t == UpdateMember(jobs, p, EventOf(p))
           g == SetMember(fgJob, MemberIndex(fgJob, p), "stopped")
           r == RegisterStopped(t, g)
           s == [g EXCEPT !.stopped = TRUE, !.foreground = FALSE]
<1>1. EventOf(p) \in Event /\ proc' \in [Pid -> Process]
  BY TakeType, TypeParts
<1>2. TableOK(t)
  BY <1>1, UpdateMemberType, TypeParts
<1>3. JobOK(g) /\ g.members # <<>>
  BY SetMemberJob, InForegroundMembers, TypeParts DEF MemberState, SameJob
<1>4. UNCHANGED <<list, listActive>>
      /\ IF NewlyStopped(g)
         THEN /\ fgJob' = s
              /\ lastStatus' = StopStatus
              /\ IF fgJob.foreground
                 THEN /\ ReplyToService(Prompt(r))
                      /\ mode' = "EDITOR"
                      /\ terminal' = Shell
                 ELSE ReplyToService(r) /\ UNCHANGED <<mode, terminal>>
         ELSE /\ fgJob' = g
              /\ ReplyToService(t)
              /\ UNCHANGED <<mode, terminal, lastStatus>>
  BY DEF ForegroundStop
<1> HIDE DEF t, g
<1>5. JobOK(s)
  BY <1>3 DEF JobOK, Job, ShapeOK
<1>6. TableOK(r) /\ TableOK(Prompt(r))
  BY <1>2, <1>3, JobIsGroup, RegisterStoppedType, PromptType
<1> HIDE DEF r, s
<1>7. \/ ReplyToService(t) \/ ReplyToService(r) \/ ReplyToService(Prompt(r))
  BY <1>4
<1>8. TableOK(jobs') /\ service' \in ServiceType /\ OwedOK(owed')
  BY <1>2, <1>6, <1>7, ReplyType, TypeParts
<1>9. /\ JobOK(fgJob') /\ lastStatus' \in Nat /\ mode' \in Modes
      /\ terminal' \in {Shell} \cup {<<q>> : q \in Pid}
  BY <1>3, <1>4, <1>5, TypeParts DEF StopStatus, Modes
<1> QED
  BY <1>1, <1>4, <1>8, <1>9, TypeParts, TypeStep

LEMMA ForegroundContinueType ==
    ASSUME TypeOK, NEW p \in Pid, Take(p), ForegroundContinue(p),
           UNCHANGED <<waitFor, notify, launched>>
    PROVE  TypeOK'
<1> DEFINE g == SetMember(fgJob, MemberIndex(fgJob, p), "running")
<1>1. EventOf(p) \in Event /\ proc' \in [Pid -> Process]
  BY TakeType, TypeParts
<1>2. JobOK(g)
  BY SetMemberJob, TypeParts DEF MemberState
<1>3. fgJob' = [g EXCEPT !.stopped = FALSE]
  BY DEF ForegroundContinue
<1> HIDE DEF g
<1>4. JobOK(fgJob')
  BY <1>2, <1>3 DEF JobOK, Job, ShapeOK
<1>5. TableOK(jobs') /\ service' \in ServiceType /\ OwedOK(owed')
  BY <1>1, UpdateMemberType, ReplyType, TypeParts DEF ForegroundContinue
<1> QED
  BY <1>1, <1>4, <1>5, TypeParts, TypeStep DEF ForegroundContinue

LEMMA ForegroundExitType ==
    ASSUME TypeOK, NEW p \in Pid, Take(p), ForegroundExit(p),
           UNCHANGED <<waitFor, notify, launched>>
    PROVE  TypeOK'
<1>1. EventOf(p) \in Event /\ proc' \in [Pid -> Process] /\ EventOf(p).status \in Nat
  BY TakeType, TypeParts DEF Event
<1>2. JobOK(fgJob')
  BY <1>1, ExitMemberJob, TypeParts DEF ForegroundExit
<1>3. TableOK(jobs') /\ service' \in ServiceType /\ OwedOK(owed')
  BY <1>1, UpdateMemberType, ReplyType, TypeParts DEF ForegroundExit
<1> QED
  BY <1>1, <1>2, <1>3, TypeParts, TypeStep DEF ForegroundExit

LEMMA FinishForegroundType ==
    ASSUME TypeOK, NEW p \in Pid, Take(p), FinishForeground(p),
           UNCHANGED <<waitFor, notify, launched>>
    PROVE  TypeOK'
<1> DEFINE t == UpdateMember(jobs, p, EventOf(p))
           g == ExitMember(fgJob, MemberIndex(fgJob, p), EventOf(p).status)
           r == ContinueTable(RemoveTracked(t, g))
<1>1. EventOf(p) \in Event /\ proc' \in [Pid -> Process] /\ EventOf(p).status \in Nat
  BY TakeType, TypeParts DEF Event
<1>2. TableOK(t) /\ TableOK(r)
  BY <1>1, UpdateMemberType, RemoveTrackedType, ContinueTableType, TypeParts
<1>3. FinalStatus(g) \in Nat
  BY <1>1, ExitMemberJob, FinalStatusType, TypeParts
<1>4. /\ fgJob' = NoJob
      /\ lastStatus' = FinalStatus(g) \/ lastStatus' = 125
      /\ \/ /\ jobs' = r /\ mode' = ContinueMode /\ terminal' = Shell
            /\ owed' = Forgive(Members(g))
         \/ jobs' = t /\ UNCHANGED <<mode, terminal, owed>>
      /\ service' = NoService \/ service' = service
      /\ UNCHANGED <<list, listActive>>
  BY DEF FinishForeground
<1> HIDE DEF t, g, r
<1>5. TableOK(jobs') /\ OwedOK(owed') /\ mode' \in Modes
      /\ terminal' \in {Shell} \cup {<<q>> : q \in Pid}
  BY <1>2, <1>4, ForgiveType, TypeParts DEF ContinueMode, Modes
<1>6. service' \in ServiceType
  <2>1. NoService \in ServiceType
    BY DEF NoService, ServiceType
  <2> QED
    BY <1>4, <2>1, TypeParts
<1> QED
  BY <1>1, <1>3, <1>4, <1>5, <1>6, NoJobType, TypeParts, TypeStep

(* The branch for a job of the table, and for any other child.             *)
LEMMA NoticedType ==
    ASSUME TypeOK, NEW p \in Pid, EventOf(p) \in Event
    PROVE  TableOK(Noticed(p)) /\ Keeps(jobs, Noticed(p))
BY UpdateMemberType, MarkNotifiedType, KeepsTransitive, TypeParts DEF Noticed

LEMMA ReapBackgroundType ==
    ASSUME TypeOK, NEW p \in Pid, ReapBackground(p)
    PROVE  TypeOK'
<1> DEFINE t == Noticed(p)
           r == ContinueTable(AfterWait(t, waitFor))
<1>1. EventOf(p) \in Event /\ proc' \in [Pid -> Process]
  BY TakeType, TypeParts DEF ReapBackground
<1>2. TableOK(t) /\ TableOK(r)
  BY <1>1, NoticedType, AfterWaitType, ContinueTableType
<1> HIDE DEF t, r
<1>3. UNCHANGED <<fgJob, terminal, list, listActive, notify, launched>>
  BY DEF ReapBackground
<1>4. CASE mode = "WAIT" /\ WaitSatisfied(t, waitFor)
  <2>1. /\ jobs' = ServiceTable(r) /\ service' = ServiceAfter(r)
        /\ owed' = Forgive(Answered(waitFor) \cup ServiceAnswer(r))
        /\ waitFor' = NoWait /\ mode' = ContinueMode
        /\ lastStatus' = WaitStatusOf(t, waitFor)
    BY <1>4 DEF ReapBackground, t, r
  <2>2. /\ TableOK(jobs') /\ service' \in ServiceType /\ OwedOK(owed')
        /\ lastStatus' \in Nat
    BY <1>2, <2>1, ServiceTableType, ServiceAfterType, ForgiveType,
       WaitStatusType, TypeParts
  <2>3. waitFor' \in WaitRequest /\ mode' \in Modes
    BY <2>1 DEF NoWait, WaitRequest, ContinueMode, Modes
  <2> QED
    BY <1>1, <1>3, <2>2, <2>3, TypeParts, TypeStep
<1>5. CASE ~(mode = "WAIT" /\ WaitSatisfied(t, waitFor))
  <2>1. ReplyToService(t) /\ UNCHANGED <<waitFor, mode, lastStatus>>
    BY <1>5 DEF ReapBackground, t
  <2> QED
    BY <1>1, <1>2, <1>3, <2>1, ReplyType, TypeParts, TypeStep
<1> QED
  BY <1>4, <1>5

LEMMA ReapUnknownType ==
    ASSUME TypeOK, NEW p \in Pid, ReapUnknown(p)
    PROVE  TypeOK'
BY TakeType, ReplyType, TypeParts, TypeStep DEF ReapUnknown

LEMMA ReapType ==
    ASSUME TypeOK, NEW p \in Pid, Reap(p)
    PROVE  TypeOK'
<1>1. ASSUME ReapForeground(p) PROVE TypeOK'
  BY <1>1, ForegroundStopType, ForegroundContinueType, ForegroundExitType,
     FinishForegroundType DEF ReapForeground
<1> QED
  BY <1>1, ReapBackgroundType, ReapUnknownType DEF Reap

LEMMA NextType ==
    ASSUME TypeOK, [Next]_vars
    PROVE  TypeOK'
<1>1. ASSUME UNCHANGED vars PROVE TypeOK'
  BY <1>1, TypeParts, TypeStep DEF vars
<1> QED
  BY <1>1, ChildrenType, LaunchType, BuiltinType, ListStepType, InterruptType,
     ReapType DEF Next

(* Type correctness: every table, job and status the reactor holds is well *)
(* formed in every reachable state, for any number of processes, slots and *)
(* ids.                                                                    *)
THEOREM TypeCorrect == Spec => []TypeOK
BY InitType, NextType, PTL DEF Spec

(***************************************************************************)
(* The owner of the terminal.                                              *)
(***************************************************************************)
(* An action that touches neither the mode, nor the job, nor the terminal. *)
LEMMA TerminalSame ==
    ASSUME TerminalOwnership, UNCHANGED <<mode, fgJob, terminal>>
    PROVE  TerminalOwnership'
BY DEF TerminalOwnership, Group, Pgid

(* An action after which the shell owns the terminal.                      *)
LEMMA TerminalBack ==
    ASSUME terminal' = Shell, mode' # "FOREGROUND",
           ~(fgJob'.active /\ fgJob'.foreground)
    PROVE  TerminalOwnership'
BY DEF TerminalOwnership

(* An action of the shell while it owns the terminal, that keeps it.       *)
LEMMA TerminalKept ==
    ASSUME TerminalOwnership, mode # "FOREGROUND", mode' # "FOREGROUND",
           terminal' = terminal,
           fgJob' = fgJob \/ ~fgJob'.foreground
    PROVE  TerminalOwnership'
BY DEF TerminalOwnership

LEMMA TerminalLaunch ==
    ASSUME TypeOK, TerminalOwnership, Launch
    PROVE  TerminalOwnership'
<1>1. ASSUME BackgroundRefused PROVE TerminalOwnership'
  BY <1>1, TerminalSame DEF BackgroundRefused, Answer, idle
<1>2. ASSUME NEW p \in Pid, LaunchBackground(p) PROVE TerminalOwnership'
  BY <1>2, TerminalSame DEF LaunchBackground
<1>3. ASSUME NEW compound \in BOOLEAN, LaunchRefused(compound)
      PROVE  TerminalOwnership'
  BY <1>3, TerminalKept DEF LaunchRefused, AtLaunch, AtEditor
<1>4. ASSUME NEW n \in 1..MaxMembers, NEW members \in FreshMembers(n),
             PipelineForkFails(members)
      PROVE  TerminalOwnership'
  <2>1. ~fgJob'.foreground
    BY <1>4 DEF PipelineForkFails, JobOf
  <2> QED
    BY <1>4, <2>1, TerminalKept DEF PipelineForkFails, AtEditor
<1>5. ASSUME NEW n \in 1..MaxMembers, NEW members \in FreshMembers(n),
             NEW count \in 1..n, NEW pipefail \in BOOLEAN,
             NEW compound \in BOOLEAN,
             LaunchForeground(members, count, pipefail, compound)
      PROVE  TerminalOwnership'
  <2>1. /\ fgJob'.active /\ fgJob'.foreground
        /\ mode' = "FOREGROUND" /\ terminal' = Group(fgJob')
    BY <1>5 DEF LaunchForeground, JobOf
  <2> QED
    BY <2>1 DEF TerminalOwnership, Group, Pgid
<1>6. ASSUME NEW n \in 1..MaxMembers, NEW members \in FreshMembers(n),
             NEW count \in 1..n, NEW pipefail \in BOOLEAN,
             NEW compound \in BOOLEAN,
             HandoffFails(members, count, pipefail, compound)
      PROVE  TerminalOwnership'
  <2>1. ~fgJob'.foreground
    BY <1>6 DEF HandoffFails, JobOf
  <2> QED
    BY <1>6, <2>1, TerminalKept DEF HandoffFails, AtLaunch, AtEditor
<1>7. ASSUME CompoundForkFails PROVE TerminalOwnership'
  BY <1>7, TerminalKept DEF CompoundForkFails, AtLaunch, AtEditor
<1> QED
  BY <1>1, <1>2, <1>3, <1>4, <1>5, <1>6, <1>7 DEF Launch

LEMMA TerminalFg ==
    ASSUME TypeOK, NEW i \in 1..Cap, Fg(i)
    PROVE  TerminalOwnership'
<1> DEFINE e == jobs.slots[i]
           j == FgJob(e)
           k == ResumeStopped(j)
<1>1. i \in KnownSlots(jobs)
  BY DEF Fg, Resumable
<1>2. JobOK(j) /\ j.active /\ j.foreground
  BY <1>1, FgJobType
<1>3. JobOK(k) /\ SameJob(j, k)
  BY <1>2, ResumeStoppedJob
<1>4. /\ terminal' = Group(j) /\ mode' = "FOREGROUND"
      /\ fgJob' = j \/ fgJob' = [k EXCEPT !.stopped = FALSE]
  BY DEF Fg
<1> HIDE DEF j, k
<1>5. fgJob'.active /\ fgJob'.foreground /\ fgJob'.members = j.members
  BY <1>2, <1>3, <1>4 DEF JobOK, Job, SameJob
<1> QED
  BY <1>4, <1>5 DEF TerminalOwnership, Group, Pgid

LEMMA TerminalBuiltin ==
    ASSUME TypeOK, TerminalOwnership, Builtin
    PROVE  TerminalOwnership'
<1>1. ASSUME FgRefused \/ BgRefused \/ SetNotify
      PROVE  TerminalOwnership'
  BY <1>1, TerminalSame DEF FgRefused, BgRefused, SetNotify, Answer, idle
<1>6. ASSUME NEW S, Jobs(S) PROVE TerminalOwnership'
  BY <1>6, TerminalSame DEF Jobs, idle
<1>2. ASSUME NEW i \in 1..Cap, FgHandoffFails(i)
      PROVE  TerminalOwnership'
  <2>1. fgJob' = fgJob \/ ~fgJob'.foreground
    BY <1>2 DEF FgHandoffFails, NoJob
  <2> QED
    BY <1>2, <2>1, TerminalKept DEF FgHandoffFails, AtEditor
<1>3. ASSUME NEW i \in 1..Cap, Bg(i)
      PROVE  TerminalOwnership'
  <2>1. fgJob' = fgJob \/ ~fgJob'.foreground
    BY <1>3, BgJobType DEF Bg
  <2> QED
    BY <1>3, <2>1, TerminalKept DEF Bg, AtEditor
<1>4. ASSUME NEW w \in WaitRequests, BeginWait(w)
      PROVE  TerminalOwnership'
  BY <1>4, TerminalKept DEF BeginWait, AtEditor, ContinueMode
<1>5. ASSUME NEW w \in WaitRequests, ServiceWait(w)
      PROVE  TerminalOwnership'
  BY <1>5, TerminalSame DEF ServiceWait
<1> QED
  BY <1>1, <1>2, <1>3, <1>4, <1>5, <1>6, TerminalFg DEF Builtin

LEMMA TerminalReap ==
    ASSUME TypeOK, TerminalOwnership, NEW p \in Pid, Reap(p)
    PROVE  TerminalOwnership'
<1>1. ASSUME InForeground(p), Take(p), ForegroundStop(p)
      PROVE  TerminalOwnership'
  <2> DEFINE g == SetMember(fgJob, MemberIndex(fgJob, p), "stopped")
             s == [g EXCEPT !.stopped = TRUE, !.foreground = FALSE]
  <2>1. JobOK(g) /\ SameJob(fgJob, g)
    BY SetMemberJob, TypeParts DEF MemberState
  <2>2. IF NewlyStopped(g)
        THEN /\ fgJob' = s
             /\ IF fgJob.foreground
                THEN mode' = "EDITOR" /\ terminal' = Shell
                ELSE UNCHANGED <<mode, terminal>>
        ELSE fgJob' = g /\ UNCHANGED <<mode, terminal>>
    BY <1>1 DEF ForegroundStop
  <2> HIDE DEF g
  <2>3. ~s.foreground
    BY <2>1 DEF JobOK, Job
  <2> HIDE DEF s
  <2>4. CASE NewlyStopped(g)
    BY <2>2, <2>3, <2>4 DEF TerminalOwnership
  <2>5. CASE ~NewlyStopped(g)
    BY <2>1, <2>2, <2>5 DEF TerminalOwnership, Group, Pgid, SameJob
  <2> QED
    BY <2>4, <2>5
<1>2. ASSUME ForegroundContinue(p)
      PROVE  TerminalOwnership'
  <2> DEFINE g == SetMember(fgJob, MemberIndex(fgJob, p), "running")
  <2>1. JobOK(g) /\ SameJob(fgJob, g)
    BY SetMemberJob, TypeParts DEF MemberState
  <2>2. fgJob' = [g EXCEPT !.stopped = FALSE] /\ UNCHANGED <<mode, terminal>>
    BY <1>2 DEF ForegroundContinue
  <2> HIDE DEF g
  <2>3. /\ fgJob'.active = g.active /\ fgJob'.foreground = g.foreground
        /\ fgJob'.members = g.members
    BY <2>1, <2>2 DEF JobOK, Job
  <2> QED
    BY <2>1, <2>2, <2>3 DEF TerminalOwnership, Group, Pgid, SameJob
<1>3. ASSUME Take(p), ForegroundExit(p)
      PROVE  TerminalOwnership'
  <2>1. EventOf(p).status \in Nat
    BY <1>3, TakeType, TypeParts DEF Event
  <2>2. SameJob(fgJob, fgJob') /\ UNCHANGED <<mode, terminal>>
    BY <1>3, <2>1, ExitMemberJob, TypeParts DEF ForegroundExit
  <2> QED
    BY <2>2 DEF TerminalOwnership, Group, Pgid, SameJob
<1>4. ASSUME InForeground(p), FinishForeground(p)
      PROVE  TerminalOwnership'
  <2>1. /\ fgJob' = NoJob
        /\ IF fgJob.foreground
           THEN mode' = ContinueMode /\ terminal' = Shell
           ELSE UNCHANGED <<mode, terminal>>
    BY <1>4 DEF FinishForeground
  <2>2. ~NoJob.active /\ ContinueMode # "FOREGROUND"
    BY DEF NoJob, ContinueMode
  <2> QED
    BY <2>1, <2>2 DEF TerminalOwnership
<1>5. ASSUME ReapBackground(p)
      PROVE  TerminalOwnership'
  <2>1. UNCHANGED <<fgJob, terminal>>
    BY <1>5 DEF ReapBackground
  <2>2. mode' = mode \/ (mode = "WAIT" /\ mode' = ContinueMode)
    BY <1>5, Zenon DEF ReapBackground
  <2>3. ContinueMode # "FOREGROUND"
    BY DEF ContinueMode
  <2>4. CASE mode' = mode
    BY <2>1, <2>4, TerminalSame
  <2>5. CASE mode = "WAIT" /\ mode' = ContinueMode
    BY <2>1, <2>3, <2>5, TerminalKept
  <2> QED
    BY <2>2, <2>4, <2>5
<1>6. ASSUME ReapUnknown(p)
      PROVE  TerminalOwnership'
  BY <1>6, TerminalSame DEF ReapUnknown
<1> QED
  BY <1>1, <1>2, <1>3, <1>4, <1>5, <1>6 DEF Reap, ReapForeground

LEMMA TerminalNext ==
    ASSUME TypeOK, TerminalOwnership, [Next]_vars
    PROVE  TerminalOwnership'
<1>1. ASSUME Children PROVE TerminalOwnership'
  BY <1>1, TerminalSame DEF Children, ProcStop, ProcContinue, ProcExit
<1>2. ASSUME ListStep PROVE TerminalOwnership'
  BY <1>2, TerminalKept
     DEF ListStep, SubmitList, SubmitSwallowed, EndList, AtEditor
<1>3. ASSUME Interrupt PROVE TerminalOwnership'
  BY <1>3, TerminalKept DEF Interrupt, InterruptWait, InterruptDispatch
<1>4. ASSUME UNCHANGED vars PROVE TerminalOwnership'
  BY <1>4, TerminalSame DEF vars
<1> QED
  BY <1>1, <1>2, <1>3, <1>4, TerminalLaunch, TerminalBuiltin, TerminalReap DEF Next

(* The terminal belongs to the foreground job exactly while there is one,  *)
(* in every reachable state and for every value of the constants, whatever *)
(* fork, handoff, stop, exit or interrupt came in between.                 *)
THEOREM TerminalSafe == Spec => []TerminalOwnership
<1>1. Init => TerminalOwnership
  BY DEF Init, TerminalOwnership, NoJob
<1> QED
  BY <1>1, TerminalNext, TypeCorrect, PTL DEF Spec

(***************************************************************************)
(* Distinct jobs.                                                          *)
(***************************************************************************)
Injective(s) == \A m, n \in 1..Len(s) : m # n => s[m] # s[n]

(* DistinctJobs of a table, and every job older than the next one.         *)
DistinctTable(t) ==
    /\ \A i, j \in KnownSlots(t) :
          i # j => /\ t.slots[i].id # t.slots[j].id
                   /\ t.slots[i].seq # t.slots[j].seq
                   /\ Members(t.slots[i]) \cap Members(t.slots[j]) = {}
    /\ \A i \in KnownSlots(t) :
          Injective(t.slots[i].members) /\ t.slots[i].seq < t.nextSeq

(* The inductive invariant: a foreground job lists no process twice, so    *)
(* that the entry it stops with does not either.                           *)
DistinctInv == DistinctTable(jobs) /\ Injective(fgJob.members)

(* A table with some of the jobs of a table of distinct jobs. *)
LEMMA KeepsDistinct ==
    ASSUME NEW t, DistinctTable(t), NEW u, Keeps(t, u)
    PROVE  DistinctTable(u)
<1>1. \A i \in KnownSlots(u) : /\ i \in KnownSlots(t)
                               /\ u.slots[i].id = t.slots[i].id
                               /\ u.slots[i].seq = t.slots[i].seq
                               /\ u.slots[i].members = t.slots[i].members
                               /\ Members(u.slots[i]) = Members(t.slots[i])
  BY DEF Keeps, SameEntry, Members
<1>2. u.nextSeq = t.nextSeq
  BY DEF Keeps
<1> QED
  BY <1>1, <1>2 DEF DistinctTable

(* A new job of processes that no known job has.                           *)
LEMMA AddsDistinct ==
    ASSUME NEW t, TableOK(t), DistinctTable(t), NEW g, Injective(g.members),
           ~InUse(t, g.members), NEW i \in 1..Cap, NEW u, Adds(t, u, g, i)
    PROVE  DistinctTable(u)
<1>1. \A j \in KnownSlots(u) \ {i} :
          /\ j \in KnownSlots(t)
          /\ u.slots[j].id = t.slots[j].id /\ u.slots[j].id \in KnownIds(t)
          /\ u.slots[j].seq = t.slots[j].seq /\ u.slots[j].seq \in Nat
          /\ u.slots[j].members = t.slots[j].members
          /\ Members(u.slots[j]) = Members(t.slots[j])
  <2> TAKE j \in KnownSlots(u) \ {i}
  <2>1. j \in KnownSlots(t) /\ SameEntry(t.slots[j], u.slots[j])
    BY DEF Adds
  <2>2. EntryOK(t.slots[j])
    BY <2>1, TableEntry
  <2>3. /\ u.slots[j].id = t.slots[j].id
        /\ u.slots[j].seq = t.slots[j].seq
        /\ u.slots[j].members = t.slots[j].members
    BY <2>1 DEF SameEntry
  <2>4. u.slots[j].id \in KnownIds(t)
    BY <2>1, <2>3 DEF KnownIds
  <2>5. u.slots[j].seq \in Nat
    BY <2>2, <2>3 DEF EntryOK, Entry
  <2> QED
    BY <2>1, <2>3, <2>4, <2>5 DEF Members
<1>2. /\ u.slots[i].members = g.members /\ u.slots[i].seq = t.nextSeq
      /\ u.slots[i].id \notin KnownIds(t) /\ u.nextSeq = t.nextSeq + 1
      /\ t.nextSeq \in Nat
  BY DEF Adds, TableOK
<1>3. \A j \in KnownSlots(t) : Members(t.slots[j]) \cap Members(g) = {}
  BY DEF InUse, KnownPids, Members
<1>4. Members(u.slots[i]) = Members(g)
  BY <1>2 DEF Members
<1>5. \A j \in KnownSlots(u) :
          Injective(u.slots[j].members) /\ u.slots[j].seq < u.nextSeq
  <2> TAKE j \in KnownSlots(u)
  <2>1. CASE j = i
    BY <1>2, <2>1
  <2>2. CASE j # i
    <3>1. u.slots[j].seq < t.nextSeq /\ Injective(u.slots[j].members)
      BY <1>1, <2>2 DEF DistinctTable
    <3> QED
      BY <1>1, <1>2, <2>2, <3>1
  <2> QED
    BY <2>1, <2>2
<1>6. ASSUME NEW j \in KnownSlots(u), NEW k \in KnownSlots(u), j # k
      PROVE  /\ u.slots[j].id # u.slots[k].id
             /\ u.slots[j].seq # u.slots[k].seq
             /\ Members(u.slots[j]) \cap Members(u.slots[k]) = {}
  <2>1. CASE j = i
    <3>1. u.slots[k].seq < t.nextSeq
      BY <1>1, <1>6, <2>1 DEF DistinctTable
    <3>2. Members(u.slots[j]) \cap Members(u.slots[k]) = {}
      BY <1>1, <1>3, <1>4, <1>6, <2>1
    <3> QED
      BY <1>1, <1>2, <1>6, <2>1, <3>1, <3>2
  <2>2. CASE k = i
    <3>1. u.slots[j].seq < t.nextSeq
      BY <1>1, <1>6, <2>2 DEF DistinctTable
    <3>2. Members(u.slots[j]) \cap Members(u.slots[k]) = {}
      BY <1>1, <1>3, <1>4, <1>6, <2>2
    <3>3. u.slots[j].id # u.slots[k].id
      BY <1>1, <1>2, <1>6, <2>2
    <3>4. u.slots[j].seq # u.slots[k].seq
      BY <1>1, <1>2, <1>6, <2>2, <3>1
    <3> QED
      BY <3>2, <3>3, <3>4
  <2>3. CASE j # i /\ k # i
    BY <1>1, <1>6, <2>3 DEF DistinctTable
  <2> QED
    BY <2>1, <2>2, <2>3
<1> QED
  BY <1>5, <1>6 DEF DistinctTable

LEMMA AddJobDistinct ==
    ASSUME NEW t, TableOK(t), DistinctTable(t), NEW g, GroupOK(g),
           g.members # <<>>, Injective(g.members)
    PROVE  DistinctTable(AddJob(t, g))
BY AddJobType, KeepsDistinct, AddsDistinct

LEMMA RegisterDistinct ==
    ASSUME NEW t, TableOK(t), DistinctTable(t), NEW g, GroupOK(g),
           g.members # <<>>, Injective(g.members)
    PROVE  DistinctTable(RegisterStopped(t, g))
BY RegisterStoppedType, KeepsDistinct, AddsDistinct

(* Most actions keep some of the jobs, and the processes of the foreground *)
(* job.                                                                    *)
LEMMA DistinctKept ==
    ASSUME DistinctInv, jobs' = jobs \/ Keeps(jobs, jobs'),
           fgJob' = fgJob \/ Injective(fgJob'.members)
    PROVE  DistinctInv'
<1>1. DistinctTable(jobs')
  <2>1. CASE jobs' = jobs
    BY <2>1 DEF DistinctInv
  <2>2. CASE Keeps(jobs, jobs')
    BY <2>2, KeepsDistinct DEF DistinctInv
  <2> QED
    BY <2>1, <2>2
<1>2. Injective(fgJob'.members)
  BY DEF DistinctInv
<1> QED
  BY <1>1, <1>2 DEF DistinctInv

LEMMA NoJobInjective == Injective(NoJob.members)
BY DEF NoJob, Injective

LEMMA PromptKeeps ==
    ASSUME TypeOK
    PROVE  Keeps(jobs, Prompt(jobs))
BY PromptType, TypeParts

LEMMA DistinctLaunch ==
    ASSUME TypeOK, DistinctInv, Launch
    PROVE  DistinctInv'
<1>1. ASSUME BackgroundRefused PROVE DistinctInv'
  BY <1>1, DistinctKept, PromptKeeps DEF BackgroundRefused, Answer, idle
<1>2. ASSUME NEW p \in Pid, LaunchBackground(p) PROVE DistinctInv'
  <2> DEFINE g == NewGroup(<<p>>, 1, FALSE)
  <2>1. <<p>> \in Seq(Pid) /\ 1 \in 1..Len(<<p>>) /\ Len(<<p>>) = 1
    OBVIOUS
  <2>2. GroupOK(g) /\ g.members = <<p>> /\ g.members # <<>>
    BY <2>1, NewGroupType
  <2>3. Injective(<<p>>)
    BY <2>1 DEF Injective
  <2>4. jobs' = Prompt(AddJob(jobs, g)) \/ jobs' = Prompt(jobs)
    BY <1>2 DEF LaunchBackground
  <2> HIDE DEF g
  <2>5. Injective(g.members)
    BY <2>2, <2>3
  <2>6. TableOK(AddJob(jobs, g)) /\ DistinctTable(AddJob(jobs, g))
    BY <2>2, <2>5, AddJobType, AddJobDistinct, TypeParts DEF DistinctInv
  <2>7. DistinctTable(jobs')
    BY <2>4, <2>6, PromptType, KeepsDistinct, TypeParts DEF DistinctInv
  <2>8. fgJob' = fgJob
    BY <1>2 DEF LaunchBackground
  <2> QED
    BY <2>7, <2>8 DEF DistinctInv, Injective
<1>3. ASSUME NEW compound \in BOOLEAN, LaunchRefused(compound)
      PROVE  DistinctInv'
  BY <1>3, DistinctKept, PromptKeeps DEF LaunchRefused
<1>4. ASSUME CompoundForkFails PROVE DistinctInv'
  BY <1>4, DistinctKept, PromptKeeps DEF CompoundForkFails
<1>5. ASSUME NEW n \in 1..MaxMembers, NEW members \in FreshMembers(n)
      PROVE  Injective(members)
  BY FreshMembersType DEF Injective
<1>6. ASSUME NEW n \in 1..MaxMembers, NEW members \in FreshMembers(n),
             PipelineForkFails(members)
      PROVE  DistinctInv'
  <2>1. fgJob'.members = members
    BY <1>6 DEF PipelineForkFails, JobOf, NewGroup
  <2> QED
    BY <1>5, <1>6, <2>1, DistinctKept, PromptKeeps DEF PipelineForkFails
<1>7. ASSUME NEW n \in 1..MaxMembers, NEW members \in FreshMembers(n),
             NEW count \in 1..n, NEW pipefail \in BOOLEAN,
             NEW compound \in BOOLEAN,
             \/ LaunchForeground(members, count, pipefail, compound)
             \/ HandoffFails(members, count, pipefail, compound)
      PROVE  DistinctInv'
  <2>1. fgJob'.members = members
    BY <1>7 DEF LaunchForeground, HandoffFails, JobOf, NewGroup
  <2>2. jobs' = jobs \/ Keeps(jobs, jobs')
    BY <1>7, PromptKeeps DEF LaunchForeground, HandoffFails
  <2> QED
    BY <1>5, <2>1, <2>2, DistinctKept
<1> QED
  BY <1>1, <1>2, <1>3, <1>4, <1>6, <1>7 DEF Launch

LEMMA DistinctFg ==
    ASSUME TypeOK, DistinctInv, NEW i \in 1..Cap, Fg(i)
    PROVE  DistinctInv'
<1> DEFINE e == jobs.slots[i]
           j == FgJob(e)
           k == ResumeStopped(j)
<1>1. i \in KnownSlots(jobs)
  BY DEF Fg, Resumable
<1>2. JobOK(j) /\ e.id \in JobId /\ GroupOK(e)
  BY <1>1, FgJobType, ResumableEntry
<1>3. j.members = e.members \/ j.members = fgJob.members
  <2>1. CASE SameGroup(e)
    BY <2>1, TypeParts DEF FgJob, JobOK, Job
  <2>2. CASE ~SameGroup(e)
    BY <2>2 DEF FgJob, JobOf
  <2> QED
    BY <2>1, <2>2
<1>4. Injective(e.members)
  BY <1>1 DEF DistinctInv, DistinctTable
<1>5. Injective(j.members)
  BY <1>3, <1>4 DEF DistinctInv
<1>6. JobOK(k) /\ k.members = j.members
  BY <1>2, ResumeStoppedJob DEF SameJob
<1>7. IF j.stopped
      THEN fgJob' = [k EXCEPT !.stopped = FALSE] /\ jobs' = ContinueJob(jobs, e.id)
      ELSE fgJob' = j /\ UNCHANGED <<proc, jobs>>
  BY DEF Fg
<1> HIDE DEF e, j, k
<1>8. fgJob'.members = j.members
  BY <1>6, <1>7 DEF JobOK, Job
<1>9. jobs' = jobs \/ Keeps(jobs, jobs')
  BY <1>2, <1>7, ContinueJobType, TypeParts
<1> QED
  BY <1>5, <1>8, <1>9, DistinctKept

LEMMA DistinctBuiltin ==
    ASSUME TypeOK, DistinctInv, Builtin
    PROVE  DistinctInv'
<1>1. ASSUME FgRefused \/ BgRefused \/ SetNotify
      PROVE  DistinctInv'
  BY <1>1, DistinctKept, PromptKeeps
     DEF FgRefused, BgRefused, SetNotify, Answer, idle
<1>2. ASSUME NEW S, Jobs(S) PROVE DistinctInv'
  <2> DEFINE t == MarkNotified(jobs, S)
  <2>1. TableOK(t) /\ Keeps(jobs, t)
    BY MarkNotifiedType, TypeParts
  <2>2. fgJob' = fgJob /\ (jobs' = t \/ jobs' = Prompt(t))
    BY <1>2 DEF Jobs, idle
  <2> HIDE DEF t
  <2>3. Keeps(jobs, jobs')
    BY <2>1, <2>2, PromptType, KeepsTransitive
  <2> QED
    BY <2>2, <2>3, DistinctKept
<1>3. ASSUME NEW i \in 1..Cap, FgHandoffFails(i)
      PROVE  DistinctInv'
  BY <1>3, DistinctKept, PromptKeeps, NoJobInjective DEF FgHandoffFails
<1>4. ASSUME NEW i \in 1..Cap, Bg(i)
      PROVE  DistinctInv'
  <2>1. jobs.slots[i].id \in JobId
    BY <1>4, ResumableEntry DEF Bg
  <2>2. Keeps(jobs, jobs')
    BY <1>4, <2>1, ContinueJobType, PromptType, KeepsTransitive, TypeParts DEF Bg
  <2> DEFINE k == ResumeStopped(fgJob)
  <2>3. JobOK(k) /\ k.members = fgJob.members
    BY ResumeStoppedJob, TypeParts DEF SameJob
  <2>4. \/ fgJob' = fgJob \/ fgJob' = NoJob
        \/ fgJob' = [k EXCEPT !.stopped = FALSE, !.foreground = FALSE]
    BY <1>4 DEF Bg, BgJob
  <2> HIDE DEF k
  <2>5. \/ fgJob' = fgJob \/ fgJob' = NoJob \/ fgJob'.members = fgJob.members
    BY <2>3, <2>4 DEF JobOK, Job
  <2>6. fgJob' = fgJob \/ Injective(fgJob'.members)
    BY <2>5, NoJobInjective DEF DistinctInv
  <2> QED
    BY <2>2, <2>6, DistinctKept
<1>5. ASSUME NEW w \in WaitRequests, BeginWait(w) \/ ServiceWait(w)
      PROVE  DistinctInv'
  <2>1. TableOK(AfterWait(jobs, w)) /\ Keeps(jobs, AfterWait(jobs, w))
    BY AfterWaitType, TypeParts
  <2>2. \/ jobs' = jobs \/ jobs' = AfterWait(jobs, w)
        \/ jobs' = ContinueTable(AfterWait(jobs, w))
    BY <1>5 DEF BeginWait, ServiceWait
  <2>3. jobs' = jobs \/ Keeps(jobs, jobs')
    BY <2>1, <2>2, ContinueTableType, KeepsTransitive
  <2>4. fgJob' = fgJob
    BY <1>5 DEF BeginWait, ServiceWait
  <2> QED
    BY <2>3, <2>4, DistinctKept
<1> QED
  BY <1>1, <1>2, <1>3, <1>4, <1>5, DistinctFg DEF Builtin

LEMMA DistinctStop ==
    ASSUME TypeOK, DistinctInv, NEW p \in Pid, InForeground(p), Take(p),
           ForegroundStop(p)
    PROVE  DistinctInv'
<1> DEFINE t == UpdateMember(jobs, p, EventOf(p))
           g == SetMember(fgJob, MemberIndex(fgJob, p), "stopped")
           r == RegisterStopped(t, g)
           s == [g EXCEPT !.stopped = TRUE, !.foreground = FALSE]
<1>1. TableOK(t) /\ Keeps(jobs, t)
  BY TakeType, UpdateMemberType, TypeParts
<1>2. JobOK(g) /\ g.members = fgJob.members /\ g.members # <<>>
  BY SetMemberJob, InForegroundMembers, TypeParts DEF MemberState, SameJob
<1>3. /\ fgJob' = s \/ fgJob' = g
      /\ \/ ReplyToService(t) \/ ReplyToService(r) \/ ReplyToService(Prompt(r))
  BY DEF ForegroundStop
<1> HIDE DEF t, g
<1>4. DistinctTable(t) /\ Injective(g.members)
  BY <1>1, <1>2, KeepsDistinct DEF DistinctInv
<1>5. TableOK(r) /\ DistinctTable(r)
  BY <1>1, <1>2, <1>4, JobIsGroup, RegisterStoppedType, RegisterDistinct
<1> HIDE DEF r
<1>6. TableOK(Prompt(r)) /\ DistinctTable(Prompt(r))
  BY <1>5, PromptType, KeepsDistinct
<1>7. DistinctTable(jobs')
  BY <1>1, <1>3, <1>4, <1>5, <1>6, ReplyType, KeepsDistinct, TypeParts
<1>8. fgJob'.members = g.members
  BY <1>2, <1>3 DEF JobOK, Job
<1> QED
  BY <1>4, <1>7, <1>8 DEF DistinctInv, Injective

LEMMA DistinctReap ==
    ASSUME TypeOK, DistinctInv, NEW p \in Pid, Reap(p)
    PROVE  DistinctInv'
<1>1. EventOf(p) \in Event /\ EventOf(p).status \in Nat
  BY TakeType, TypeParts
     DEF Reap, ReapForeground, ReapBackground, ReapUnknown, Event
<1> DEFINE t == UpdateMember(jobs, p, EventOf(p))
<1>2. TableOK(t) /\ Keeps(jobs, t)
  BY <1>1, UpdateMemberType, TypeParts
<1>3. ASSUME ForegroundContinue(p) PROVE DistinctInv'
  <2> DEFINE g == SetMember(fgJob, MemberIndex(fgJob, p), "running")
  <2>1. JobOK(g) /\ g.members = fgJob.members
    BY SetMemberJob, TypeParts DEF MemberState, SameJob
  <2>2. fgJob' = [g EXCEPT !.stopped = FALSE] /\ ReplyToService(t)
    BY <1>3 DEF ForegroundContinue
  <2> HIDE DEF g, t
  <2>3. fgJob'.members = fgJob.members
    BY <2>1, <2>2 DEF JobOK, Job
  <2>4. Keeps(jobs, jobs')
    BY <1>2, <2>2, ReplyType, KeepsTransitive, TypeParts
  <2> QED
    BY <2>3, <2>4, DistinctKept DEF DistinctInv
<1>4. ASSUME ForegroundExit(p) PROVE DistinctInv'
  <2>1. fgJob'.members = fgJob.members
    BY <1>1, <1>4, ExitMemberJob, TypeParts DEF ForegroundExit, SameJob
  <2>2. ReplyToService(t)
    BY <1>4 DEF ForegroundExit
  <2> HIDE DEF t
  <2>3. Keeps(jobs, jobs')
    BY <1>2, <2>2, ReplyType, KeepsTransitive, TypeParts
  <2> QED
    BY <2>1, <2>3, DistinctKept DEF DistinctInv
<1>5. ASSUME FinishForeground(p) PROVE DistinctInv'
  <2> DEFINE g == ExitMember(fgJob, MemberIndex(fgJob, p), EventOf(p).status)
             r == RemoveTracked(t, g)
  <2>1. fgJob' = NoJob /\ (jobs' = t \/ jobs' = ContinueTable(r))
    BY <1>5 DEF FinishForeground
  <2> HIDE DEF t, g
  <2>2. TableOK(r) /\ Keeps(jobs, r)
    BY <1>2, RemoveTrackedType, KeepsTransitive
  <2> HIDE DEF r
  <2>3. Keeps(jobs, jobs')
    BY <1>2, <2>1, <2>2, ContinueTableType, KeepsTransitive
  <2> QED
    BY <2>1, <2>3, DistinctKept, NoJobInjective
<1>6. ASSUME ReapBackground(p) PROVE DistinctInv'
  <2> DEFINE u == Noticed(p)
             a == AfterWait(u, waitFor)
             r == ContinueTable(a)
  <2>1. TableOK(u) /\ Keeps(jobs, u)
    BY <1>1, NoticedType
  <2>2. fgJob' = fgJob /\ (jobs' = ServiceTable(r) \/ ReplyToService(u))
    BY <1>6 DEF ReapBackground
  <2> HIDE DEF u
  <2>3. TableOK(a) /\ Keeps(jobs, a)
    BY <2>1, AfterWaitType, KeepsTransitive
  <2> HIDE DEF a
  <2>4. TableOK(r) /\ Keeps(jobs, r)
    BY <2>3, ContinueTableType, KeepsTransitive
  <2> HIDE DEF r
  <2>5. Keeps(jobs, jobs')
    BY <2>1, <2>2, <2>4, ServiceTableType, ReplyType, KeepsTransitive, TypeParts
  <2> QED
    BY <2>2, <2>5, DistinctKept
<1>7. ASSUME ReapUnknown(p) PROVE DistinctInv'
  BY <1>7, ReplyType, DistinctKept, TypeParts DEF ReapUnknown
<1> QED
  BY <1>3, <1>4, <1>5, <1>6, <1>7, DistinctStop DEF Reap, ReapForeground

LEMMA DistinctNext ==
    ASSUME TypeOK, DistinctInv, [Next]_vars
    PROVE  DistinctInv'
<1>1. ASSUME Children PROVE DistinctInv'
  BY <1>1, DistinctKept DEF Children, ProcStop, ProcContinue, ProcExit
<1>2. ASSUME ListStep PROVE DistinctInv'
  BY <1>2, DistinctKept, PromptKeeps
     DEF ListStep, SubmitList, SubmitSwallowed, EndList
<1>3. ASSUME Interrupt PROVE DistinctInv'
  BY <1>3, DistinctKept, PromptKeeps DEF Interrupt, InterruptWait, InterruptDispatch
<1>4. ASSUME UNCHANGED vars PROVE DistinctInv'
  BY <1>4, DistinctKept DEF vars
<1> QED
  BY <1>1, <1>2, <1>3, <1>4, DistinctLaunch, DistinctBuiltin, DistinctReap DEF Next

(* No two known jobs share an id, an age or a process, for any number of   *)
(* slots, ids and processes, though ids wrap and process ids come back.    *)
THEOREM DistinctAlways == Spec => []DistinctJobs
<1>1. Init => DistinctInv
  <2>1. ASSUME Init PROVE DistinctTable(jobs) /\ Injective(fgJob.members)
    BY <2>1, NoJobInjective DEF Init, EmptyTable, DistinctTable, KnownSlots
  <2> QED
    BY <2>1 DEF DistinctInv
<1>2. DistinctInv => DistinctJobs
  BY DEF DistinctInv, DistinctTable, DistinctJobs, Injective
<1> QED
  BY <1>1, <1>2, DistinctNext, TypeCorrect, PTL DEF Spec

=============================================================================
