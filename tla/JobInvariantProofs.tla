------------------------- MODULE JobInvariantProofs -------------------------
(***************************************************************************)
(* The invariants of JobControl that relate the children, the job table    *)
(* and the foreground job, for every value of the constants.               *)
(***************************************************************************)
EXTENDS JobControlProofs, NaturalMinimum

(***************************************************************************)
(* A process group.                                                        *)
(***************************************************************************)
(* What the code keeps true of an entry and of the foreground job.         *)
Sound(g) ==
    /\ Injective(g.members)
    /\ Counted(g)
    /\ \A m \in 1..Len(g.members) :
          g.exits[m] # Unfinished <=> g.mstate[m] = "done"
    /\ Agrees(g.pipe, g.exits)

(* h is g after a stop or a continuation of member m, after its exit, and  *)
(* after a SIGCONT to the group.                                           *)
Moved(g, h, m, s) ==
    /\ h.members = g.members
    /\ h.mstate = [g.mstate EXCEPT ![m] = s]
    /\ h.remaining = g.remaining
    /\ h.pipe = g.pipe
    /\ h.exits = g.exits

Ended(g, h, m, status) ==
    /\ h.members = g.members
    /\ h.mstate = [g.mstate EXCEPT ![m] = "done"]
    /\ h.remaining = IF g.mstate[m] # "done" /\ g.remaining > 0
                     THEN g.remaining - 1 ELSE g.remaining
    /\ h.pipe = RecordStatus(g.pipe, m, status)
    /\ h.exits = [g.exits EXCEPT ![m] = status]

Woken(g, h) ==
    /\ h.members = g.members
    /\ h.mstate = [m \in DOMAIN g.mstate |->
                      IF g.mstate[m] = "stopped" THEN "running" ELSE g.mstate[m]]
    /\ h.remaining = g.remaining
    /\ h.pipe = g.pipe
    /\ h.exits = g.exits

Copies(g, h) ==
    /\ h.members = g.members
    /\ h.mstate = g.mstate
    /\ h.remaining = g.remaining
    /\ h.pipe = g.pipe
    /\ h.exits = g.exits

(* The members still to end. *)
Left(g) == {m \in 1..Len(g.members) : g.mstate[m] # "done"}

LEMMA LeftFinite ==
    ASSUME NEW g, GroupOK(g)
    PROVE  /\ IsFiniteSet(Left(g))
           /\ Cardinality(Left(g)) \in Nat
           /\ Cardinality(Left(g)) = 0 <=> Left(g) = {}
           /\ Counted(g) <=> g.remaining = Cardinality(Left(g))
<1>1. Len(g.members) \in Nat
  BY DEF GroupOK
<1>2. IsFiniteSet(1..Len(g.members))
  BY <1>1, FS_Interval
<1>3. Left(g) \subseteq 1..Len(g.members)
  BY DEF Left
<1>4. IsFiniteSet(Left(g))
  BY <1>2, <1>3, FS_Subset
<1> QED
  BY <1>4, FS_CardinalityType, FS_EmptySet DEF Counted, Left

(* No member is left exactly when the count is zero. *)
LEMMA NoneLeft ==
    ASSUME NEW g, GroupOK(g), Sound(g)
    PROVE  g.remaining = 0 <=>
               \A m \in 1..Len(g.members) : g.mstate[m] = "done"
<1>1. g.remaining = 0 <=> Left(g) = {}
  BY LeftFinite DEF Sound
<1> QED
  BY <1>1 DEF Left

(* The arrays of a group have one element for each member. *)
LEMMA GroupArrays ==
    ASSUME NEW g, GroupOK(g)
    PROVE  LET n == Len(g.members)
           IN  /\ n \in Nat
               /\ g.members \in [1..n -> Pid]
               /\ g.mstate \in [1..n -> MemberState]
               /\ DOMAIN g.mstate = 1..n
               /\ g.exits \in [1..n -> Nat \cup {Unfinished}]
               /\ g.pipe \in PipelineRecord
               /\ g.members # <<>> => g.pipe.count \in 1..n
<1>1. /\ Len(g.mstate) = Len(g.members) /\ Len(g.exits) = Len(g.members)
      /\ Len(g.members) \in Nat
  BY DEF GroupOK, ShapeOK
<1>2. g.members # <<>> => g.pipe.count \in 1..Len(g.members)
  BY <1>1 DEF GroupOK, ShapeOK, PipelineRecord
<1> QED
  BY <1>1, <1>2 DEF GroupOK

LEMMA MembersPids ==
    ASSUME NEW g, GroupOK(g)
    PROVE  Members(g) \subseteq Pid
BY GroupArrays DEF Members

(* A stop or a continuation of a member that has not ended. *)
LEMMA MovedSound ==
    ASSUME NEW g, GroupOK(g), Sound(g), NEW h, GroupOK(h),
           NEW m \in 1..Len(g.members), g.mstate[m] # "done",
           NEW s \in {"stopped", "running"}, Moved(g, h, m, s)
    PROVE  /\ Sound(h)
           /\ h.mstate[m] = s
           /\ \A k \in 1..Len(g.members) : k # m => h.mstate[k] = g.mstate[k]
<1>1. \A k \in 1..Len(g.members) :
          h.mstate[k] = IF k = m THEN s ELSE g.mstate[k]
  BY GroupArrays DEF Moved
<1>2. Left(h) = Left(g)
  BY <1>1 DEF Left, Moved
<1>3. Counted(h)
  BY <1>2, LeftFinite DEF Sound, Moved
<1> QED
  BY <1>1, <1>3 DEF Sound, Moved

(* The exit of a member that has not ended. *)
LEMMA EndedSound ==
    ASSUME NEW g, GroupOK(g), Sound(g), NEW h, GroupOK(h),
           NEW m \in 1..Len(g.members), g.mstate[m] # "done",
           NEW status \in Nat, Ended(g, h, m, status)
    PROVE  /\ Sound(h)
           /\ h.mstate[m] = "done"
           /\ \A k \in 1..Len(g.members) : k # m => h.mstate[k] = g.mstate[k]
<1> DEFINE n == Len(g.members)
<1>1. /\ n \in Nat /\ g.members # <<>>
      /\ g.exits \in [1..n -> Nat \cup {Unfinished}]
      /\ g.pipe \in PipelineRecord /\ g.pipe.count <= n
  BY GroupArrays
<1>2. \A k \in 1..n :
          /\ h.mstate[k] = IF k = m THEN "done" ELSE g.mstate[k]
          /\ h.exits[k] = IF k = m THEN status ELSE g.exits[k]
  BY GroupArrays DEF Ended
<1>3. Left(h) = Left(g) \ {m} /\ m \in Left(g)
  BY <1>2 DEF Left, Ended
<1>4. Cardinality(Left(h)) = Cardinality(Left(g)) - 1
  BY <1>3, LeftFinite, FS_RemoveElement
<1>5. g.remaining = Cardinality(Left(g)) /\ g.remaining > 0
  BY <1>3, LeftFinite DEF Sound
<1>6. h.remaining = g.remaining - 1
  BY <1>5 DEF Ended
<1>7. Counted(h)
  BY <1>4, <1>5, <1>6, LeftFinite
<1>8. g.exits[m] = Unfinished
  BY DEF Sound
<1>9. Agrees(h.pipe, h.exits)
  <2>1. m \in 1..n
    OBVIOUS
  <2>2. Agrees(g.pipe, g.exits)
    BY DEF Sound
  <2> HIDE DEF n
  <2>3. Agrees(RecordStatus(g.pipe, m, status), [g.exits EXCEPT ![m] = status])
    BY <1>1, <1>8, <2>1, <2>2, RecordAgrees
  <2> QED
    BY <2>3 DEF Ended
<1>10. status # Unfinished
  BY DEF Unfinished
<1> QED
  BY <1>2, <1>7, <1>9, <1>10 DEF Sound, Ended

LEMMA WokenSound ==
    ASSUME NEW g, GroupOK(g), Sound(g), NEW h, GroupOK(h), Woken(g, h)
    PROVE  /\ Sound(h)
           /\ \A k \in 1..Len(g.members) :
                 h.mstate[k] = "done" <=> g.mstate[k] = "done"
<1>1. \A k \in 1..Len(g.members) :
          h.mstate[k] = IF g.mstate[k] = "stopped" THEN "running" ELSE g.mstate[k]
  BY GroupArrays DEF Woken
<1>2. Left(h) = Left(g)
  BY <1>1 DEF Left, Woken
<1>3. Counted(h)
  BY <1>2, LeftFinite DEF Sound, Woken
<1> QED
  BY <1>1, <1>3 DEF Sound, Woken

LEMMA CopiesSound ==
    ASSUME NEW g, NEW h, Copies(g, h)
    PROVE  /\ Sound(h) <=> Sound(g)
           /\ Runs(h) <=> Runs(g)
           /\ Members(h) = Members(g)
           /\ Pgid(h) = Pgid(g)
           /\ Unreaped(h) = Unreaped(g)
BY DEF Copies, Sound, Runs, Counted, Members, Pgid, Unreaped

(* A group that has just been forked. *)
LEMMA NewGroupSound ==
    ASSUME NEW members \in Seq(Pid), NEW count \in 1..Len(members),
           NEW pipefail \in BOOLEAN, Injective(members)
    PROVE  LET g == NewGroup(members, count, pipefail)
           IN  /\ Sound(g)
               /\ g.remaining # 0
               /\ \A m \in 1..Len(members) : g.mstate[m] # "done"
<1> DEFINE g == NewGroup(members, count, pipefail)
           n == Len(members)
<1>1. GroupOK(g) /\ g.members = members /\ n \in Nat /\ n # 0
  BY NewGroupType
<1>2. /\ g.remaining = n
      /\ \A m \in 1..n : g.mstate[m] = "running" /\ g.exits[m] = Unfinished
      /\ g.pipe = NewPipeline(count, pipefail)
  BY DEF NewGroup
<1> HIDE DEF g
<1>3. Left(g) = 1..n
  BY <1>1, <1>2 DEF Left
<1>4. Cardinality(1..n) = n
  BY <1>1, FS_Interval
<1>5. Counted(g)
  BY <1>1, <1>2, <1>3, <1>4, LeftFinite
<1>6. Agrees(g.pipe, g.exits)
  BY <1>2, NewPipelineAgrees
<1> QED
  BY <1>1, <1>2, <1>5, <1>6 DEF Sound, g

(***************************************************************************)
(* Entries and the foreground job.                                         *)
(***************************************************************************)
SoundEntry(e) ==
    /\ Sound(e)
    /\ e.state = "DONE" <=> e.remaining = 0
    /\ e.state = "STOPPED" => ~Runs(e)
    /\ e.state = "DONE" =>
          StatusByPosition(e.exits, e.pipe.count, e.pipe.pipefail, e.status)

LEMMA EntrySteps ==
    ASSUME NEW e, EntryOK(e), NEW m
    PROVE  /\ \A s \in MemberState : Moved(e, SetMember(e, m, s), m, s)
           /\ \A s \in MemberState : SetMember(e, m, s).state = e.state
           /\ \A n \in Nat : Ended(e, ExitMember(e, m, n), m, n)
           /\ \A n \in Nat : ExitMember(e, m, n).state = e.state
           /\ Woken(e, ResumeStopped(e))
<1>1. \A s \in MemberState : /\ Moved(e, SetMember(e, m, s), m, s)
                             /\ SetMember(e, m, s).state = e.state
  BY DEF SetMember, Moved, EntryOK, Entry
<1>2. \A n \in Nat : /\ Ended(e, ExitMember(e, m, n), m, n)
                     /\ ExitMember(e, m, n).state = e.state
  BY DEF ExitMember, Ended, EntryOK, Entry
<1>3. Woken(e, ResumeStopped(e))
  BY DEF ResumeStopped, Woken, EntryOK, Entry
<1> QED
  BY <1>1, <1>2, <1>3

LEMMA JobSteps ==
    ASSUME NEW j, JobOK(j), NEW m
    PROVE  /\ \A s \in MemberState : Moved(j, SetMember(j, m, s), m, s)
           /\ \A n \in Nat : Ended(j, ExitMember(j, m, n), m, n)
           /\ Woken(j, ResumeStopped(j))
<1>1. \A s \in MemberState : Moved(j, SetMember(j, m, s), m, s)
  BY DEF SetMember, Moved, JobOK, Job
<1>2. \A n \in Nat : Ended(j, ExitMember(j, m, n), m, n)
  BY DEF ExitMember, Ended, JobOK, Job
<1>3. Woken(j, ResumeStopped(j))
  BY DEF ResumeStopped, Woken, JobOK, Job
<1> QED
  BY <1>1, <1>2, <1>3

(* A group all of whose remaining members are stopped runs no member.      *)
LEMMA AllStoppedRuns ==
    ASSUME NEW g, GroupOK(g)
    PROVE  AllStopped(g) <=> g.remaining # 0 /\ ~Runs(g)
BY DEF AllStopped, Runs, GroupOK, ShapeOK

(* The position of a process in a group that lists it once. *)
LEMMA MemberAt ==
    ASSUME NEW g, GroupOK(g), Injective(g.members), NEW p \in Members(g)
    PROVE  /\ MemberIndex(g, p) \in 1..Len(g.members)
           /\ g.members[MemberIndex(g, p)] = p
           /\ \A k \in 1..Len(g.members) :
                 k # MemberIndex(g, p) => g.members[k] # p
<1>1. PICK x \in 1..Len(g.members) : g.members[x] = p
  BY DEF Members
<1>2. HasMember(g, p, x)
  <2>1. \A k \in 1..(x - 1) : k \in 1..Len(g.members) /\ k # x
    BY <1>1, GroupArrays
  <2> QED
    BY <1>1, <2>1 DEF HasMember, Injective
<1>3. HasMember(g, p, MemberIndex(g, p)) /\ MemberIndex(g, p) \in 1..Len(g.members)
  BY <1>2 DEF MemberIndex
<1> QED
  BY <1>3 DEF HasMember, Injective

(* Two groups of the same processes agree on the position. *)
LEMMA SameIndex ==
    ASSUME NEW g, GroupOK(g), Injective(g.members), NEW h, GroupOK(h),
           h.members = g.members, NEW p \in Members(g)
    PROVE  MemberIndex(h, p) = MemberIndex(g, p)
<1>1. p \in Members(h)
  BY DEF Members
<1>2. g.members[MemberIndex(h, p)] = p /\ MemberIndex(h, p) \in 1..Len(g.members)
  BY <1>1, MemberAt
<1> QED
  BY <1>2, MemberAt

(* A member that stops, continues or exits leaves its entry sound, and     *)
(* the entry is done exactly when no member is left.                       *)
LEMMA EntryAfterSound ==
    ASSUME NEW e, EntryOK(e), SoundEntry(e), NEW m \in 1..Len(e.members),
           e.mstate[m] # "done", NEW ev \in Event, NEW f, f = EntryAfter(e, m, ev)
    PROVE  /\ EntryOK(f) /\ SoundEntry(f) /\ f.members = e.members
           /\ ev.kind = "stop" =>
                 /\ Moved(e, f, m, "stopped")
                 /\ f.state = IF ~Runs(f) THEN "STOPPED" ELSE e.state
           /\ ev.kind = "continue" =>
                 Moved(e, f, m, "running") /\ f.state = "RUNNING"
           /\ ev.kind = "exit" =>
                 /\ Ended(e, f, m, ev.status)
                 /\ f.state = IF f.remaining = 0 THEN "DONE" ELSE e.state
<1>1. EntryOK(f) /\ SameEntry(e, f) /\ GroupOK(e) /\ GroupOK(f)
  BY EntryAfterType, EntryIsGroup
<1>2. e.remaining # 0 /\ e.state # "DONE"
  BY <1>1, NoneLeft DEF SoundEntry
<1>3. CASE ev.kind = "stop"
  <2> DEFINE s == SetMember(e, m, "stopped")
  <2>1. /\ EntryOK(s) /\ Moved(e, s, m, "stopped") /\ s.state = e.state
        /\ GroupOK(s)
    BY SetMemberEntry, EntrySteps, EntryIsGroup DEF MemberState
  <2>2. f = IF AllStopped(s) THEN [s EXCEPT !.state = "STOPPED", !.notified = FALSE]
                             ELSE s
    BY <1>3 DEF EntryAfter
  <2> HIDE DEF s
  <2>3. /\ Moved(e, f, m, "stopped")
        /\ f.state = IF AllStopped(s) THEN "STOPPED" ELSE e.state
        /\ Runs(f) <=> Runs(s)
    BY <2>1, <2>2 DEF Moved, EntryOK, Entry, Runs
  <2>4. Sound(f)
    BY <1>1, <2>3, MovedSound DEF SoundEntry
  <2>5. AllStopped(s) <=> ~Runs(f)
    BY <1>2, <2>1, <2>3, AllStoppedRuns DEF Moved
  <2>6. e.state = "STOPPED" => ~Runs(f)
    <3>1. \A k \in 1..Len(e.members) :
              f.mstate[k] = IF k = m THEN "stopped" ELSE e.mstate[k]
      BY <1>1, <2>3, GroupArrays DEF Moved
    <3> QED
      BY <1>1, <3>1 DEF SoundEntry, Runs, SameEntry
  <2>7. f.remaining # 0
    BY <1>2, <2>3 DEF Moved
  <2> QED
    BY <1>1, <1>2, <1>3, <2>3, <2>4, <2>5, <2>6, <2>7 DEF SoundEntry, SameEntry
<1>4. CASE ev.kind = "continue"
  <2> DEFINE s == SetMember(e, m, "running")
  <2>1. EntryOK(s) /\ Moved(e, s, m, "running")
    BY SetMemberEntry, EntrySteps DEF MemberState
  <2>2. f = [s EXCEPT !.state = "RUNNING", !.notified = FALSE]
    BY <1>4 DEF EntryAfter
  <2> HIDE DEF s
  <2>3. Moved(e, f, m, "running") /\ f.state = "RUNNING"
    BY <2>1, <2>2 DEF Moved, EntryOK, Entry
  <2>4. Sound(f)
    BY <1>1, <2>3, MovedSound DEF SoundEntry
  <2> QED
    BY <1>1, <1>2, <1>4, <2>3, <2>4 DEF SoundEntry, SameEntry, Moved
<1>5. CASE ev.kind = "exit"
  <2> DEFINE x == ExitMember(e, m, ev.status)
             w == IF PipelineKnown(x.pipe) THEN PipelineResult(x.pipe) ELSE 125
  <2>1. ev.status \in Nat
    BY DEF Event
  <2>2. EntryOK(x) /\ Ended(e, x, m, ev.status) /\ x.state = e.state
    BY <2>1, ExitMemberEntry, EntrySteps
  <2>3. f = IF x.remaining = 0
            THEN [x EXCEPT !.state = "DONE", !.notified = FALSE, !.status = w]
            ELSE x
    BY <1>5 DEF EntryAfter, DoneEntry
  <2> HIDE DEF x, w
  <2>4. /\ Ended(e, f, m, ev.status)
        /\ f.state = IF f.remaining = 0 THEN "DONE" ELSE e.state
        /\ f.remaining = 0 => f.status = w
        /\ f.pipe = x.pipe
    BY <2>2, <2>3 DEF Ended, EntryOK, Entry
  <2>5. Sound(f)
    BY <1>1, <2>1, <2>4, EndedSound DEF SoundEntry
  <2>6. e.state = "STOPPED" => ~Runs(f)
    <3>1. \A k \in 1..Len(e.members) :
              f.mstate[k] = IF k = m THEN "done" ELSE e.mstate[k]
      BY <1>1, <2>4, GroupArrays DEF Ended
    <3> QED
      BY <1>1, <3>1 DEF SoundEntry, Runs, SameEntry
  <2>7. ASSUME f.remaining = 0
        PROVE  StatusByPosition(f.exits, f.pipe.count, f.pipe.pipefail, f.status)
    <3>1. f.pipe \in PipelineRecord /\ f.pipe.count \in 1..Len(f.members)
      BY <1>1, GroupArrays DEF EntryOK
    <3>2. f.exits[f.pipe.count] # Unfinished
      BY <1>1, <2>5, <2>7, <3>1, NoneLeft DEF Sound
    <3>3. Agrees(f.pipe, f.exits) /\ PipelineKnown(f.pipe)
      BY <2>5, <3>2 DEF Sound, Agrees, PipelineKnown
    <3>4. f.status = PipelineResult(f.pipe)
      BY <2>4, <2>7, <3>3 DEF w
    <3> QED
      BY <3>1, <3>3, <3>4, ResultByPosition
  <2> QED
    BY <1>1, <1>2, <1>5, <2>4, <2>5, <2>6, <2>7 DEF SoundEntry, SameEntry
<1> QED
  BY <1>3, <1>4, <1>5 DEF Event

(***************************************************************************)
(* The table.                                                              *)
(***************************************************************************)
(* No two known jobs share a process: an event concerns one entry at most. *)
LEMMA UpdateUnknown ==
    ASSUME NEW t, NEW p, p \notin KnownPids(t), NEW ev
    PROVE  UpdateMember(t, p, ev) = t
BY DEF UpdateMember, SlotOf, KnownPids

LEMMA UpdateKnown ==
    ASSUME NEW t, TableOK(t), DistinctTable(t), NEW i \in KnownSlots(t),
           NEW p \in Members(t.slots[i]), NEW ev \in Event,
           NEW u, u = UpdateMember(t, p, ev)
    PROVE  /\ TableOK(u) /\ Keeps(t, u) /\ KnownSlots(u) = KnownSlots(t)
           /\ u.slots[i] = EntryAfter(t.slots[i], MemberIndex(t.slots[i], p), ev)
           /\ \A k \in KnownSlots(t) : k # i => u.slots[k] = t.slots[k]
<1>1. TableOK(u) /\ Keeps(t, u) /\ KnownSlots(u) = KnownSlots(t)
  BY UpdateMemberType
<1>2. \A k \in KnownSlots(t) : k # i => p \notin Members(t.slots[k])
  BY DEF DistinctTable
<1>3. SlotOf(t, p, i)
  <2>1. \A k \in KnownSlots(t) : k < i => k # i
    BY TableEntry, CapAssumption
  <2> QED
    BY <1>2, <2>1 DEF SlotOf
<1>4. \A k \in KnownSlots(t) : SlotOf(t, p, k) => k = i
  BY <1>2 DEF SlotOf
<1>5. (CHOOSE x \in KnownSlots(t) : SlotOf(t, p, x)) = i
  BY <1>3, <1>4
<1> DEFINE e == t.slots[i]
           m == MemberIndex(e, p)
           f == EntryAfter(e, m, ev)
           w == PutEntry(t, i, f)
<1>6. u = w \/ u = MakeCurrent(w, e.id)
  BY <1>3, <1>5 DEF UpdateMember, MemberIndex
<1>7. EntryOK(e) /\ i \in 1..Cap
  BY TableEntry
<1>8. EntryOK(f) /\ e.id \in JobId
  BY <1>7, EntryAfterType DEF EntryOK, Entry
<1> HIDE DEF f, m
<1>9. /\ TableOK(w)
      /\ \A k \in KnownSlots(t) \cup {i} : w.slots[k] = IF k = i THEN f ELSE t.slots[k]
  BY <1>7, <1>8, PutEntryType
<1> HIDE DEF w
<1>10. u.slots = w.slots
  BY <1>6, <1>8, <1>9, MakeCurrentType
<1> QED
  BY <1>1, <1>9, <1>10 DEF f, m

(* u is t without some jobs that are done; of the others nothing but the   *)
(* notice changes.  It is what a prompt, a wait and jobs do to the table.  *)
SameRun(e, f) ==
    /\ Copies(e, f)
    /\ f.id = e.id
    /\ f.state = e.state
    /\ f.status = e.status
    /\ e.notified => f.notified

Trims(t, u) ==
    /\ KnownSlots(u) \subseteq KnownSlots(t)
    /\ \A i \in KnownSlots(u) : SameRun(t.slots[i], u.slots[i])
    /\ \A i \in KnownSlots(t) \ KnownSlots(u) : t.slots[i].state = "DONE"

LEMMA TrimsItself == ASSUME NEW t PROVE Trims(t, t)
BY DEF Trims, SameRun, Copies

LEMMA TrimsTransitive ==
    ASSUME NEW t, NEW u, NEW v, Trims(t, u), Trims(u, v)
    PROVE  Trims(t, v)
<1>1. \A i \in KnownSlots(t) \ KnownSlots(v) : t.slots[i].state = "DONE"
  BY DEF Trims, SameRun
<1>2. \A i \in KnownSlots(v) :
          SameRun(t.slots[i], u.slots[i]) /\ SameRun(u.slots[i], v.slots[i])
  BY DEF Trims
<1>3. \A i \in KnownSlots(v) : SameRun(t.slots[i], v.slots[i])
  BY <1>2 DEF SameRun, Copies
<1> QED
  BY <1>1, <1>3 DEF Trims

LEMMA TrimsMark ==
    ASSUME NEW t, TableOK(t), NEW S
    PROVE  Trims(t, MarkNotified(t, S))
<1> DEFINE f == [i \in KnownSlots(t) |->
                    IF i \in S THEN [t.slots[i] EXCEPT !.notified = TRUE]
                               ELSE t.slots[i]]
           u == MarkNotified(t, S)
<1>1. u.slots = f
  BY DEF MarkNotified, TableOK
<1>2. \A i \in KnownSlots(t) : SameRun(t.slots[i], f[i])
  <2> TAKE i \in KnownSlots(t)
  <2>1. EntryOK(t.slots[i])
    BY TableEntry
  <2> QED
    BY <2>1 DEF SameRun, Copies, EntryOK, Entry
<1>3. DOMAIN f = KnownSlots(t)
  OBVIOUS
<1> HIDE DEF f, u
<1>4. KnownSlots(u) = KnownSlots(t)
  BY <1>1, <1>3 DEF KnownSlots
<1> QED
  BY <1>1, <1>2, <1>4 DEF Trims, u

LEMMA TrimsPrompt ==
    ASSUME NEW t, TableOK(t)
    PROVE  Trims(t, Prompt(t))
BY TrimsMark DEF Prompt

(* The entries that stay are those of before. *)
LEMMA ForgetSlots ==
    ASSUME NEW t, TableOK(t), NEW S \in SUBSET KnownSlots(t)
    PROVE  \A k \in KnownSlots(t) \ S : Forget(t, S).slots[k] = t.slots[k]
<1> DEFINE keep == KnownSlots(t) \ S
           left == {[slot |-> i, id |-> t.slots[i].id] :
                       i \in {k \in S : ~t.slots[k].notified}}
           f    == [j \in keep |-> t.slots[j]]
           g    == {x \in t.ghosts \cup left : \E j \in keep : x.slot < j}
           u    == [t EXCEPT !.slots = f, !.ghosts = g]
<1>1. Forget(t, S) = RefreshCurrent(u)
  BY DEF Forget
<1>2. \A k \in keep : f[k] = t.slots[k]
  OBVIOUS
<1> HIDE DEF f, g
<1>3. u.slots = f
  BY DEF TableOK
<1>4. RefreshCurrent(u).slots = u.slots
  <2>1. {"slots", "current", "previous"} \subseteq DOMAIN u
    BY DEF TableOK
  <2> HIDE DEF u
  <2> QED
    BY <2>1 DEF RefreshCurrent
<1> QED
  BY <1>1, <1>2, <1>3, <1>4

LEMMA TrimsForget ==
    ASSUME NEW t, TableOK(t), NEW S \in SUBSET KnownSlots(t),
           \A i \in S : t.slots[i].state = "DONE"
    PROVE  Trims(t, Forget(t, S))
<1>1. KnownSlots(Forget(t, S)) = KnownSlots(t) \ S
  BY ForgetType
<1> QED
  BY <1>1, ForgetSlots DEF Trims, SameRun, Copies

(* A wait that is satisfied consumes jobs that are done. *)
LEMMA TrimsAfterWait ==
    ASSUME NEW t, TableOK(t), NEW w, WaitSatisfied(t, w)
    PROVE  Trims(t, AfterWait(t, w))
<1>1. CASE w.all
  <2>1. AfterWait(t, w) = ConsumeAll(t) /\ ActiveSlots(t) = {}
    BY <1>1 DEF AfterWait, WaitSatisfied
  <2>2. KnownSlots(ConsumeAll(t)) = {}
    BY DEF ConsumeAll, KnownSlots, TableOK
  <2> QED
    BY <2>1, <2>2 DEF Trims, ActiveSlots
<1>2. CASE ~w.all
  <2> DEFINE S == Consumed(t, Targets(w))
  <2>1. S \in SUBSET KnownSlots(t) /\ \A i \in S : t.slots[i].state = "DONE"
    BY DEF Consumed
  <2>2. AfterWait(t, w) = IF S = {} THEN t ELSE Forget(t, S)
    BY <1>2 DEF AfterWait, Consume
  <2> HIDE DEF S
  <2> QED
    BY <2>1, <2>2, TrimsForget, TrimsItself
<1> QED
  BY <1>1, <1>2

LEMMA TrimsContinue ==
    ASSUME NEW t, TableOK(t)
    PROVE  Trims(t, ContinueTable(t))
BY TrimsPrompt, TrimsItself DEF ContinueTable

LEMMA TrimsService ==
    ASSUME NEW t, TableOK(t)
    PROVE  Trims(t, ServiceTable(t))
BY TrimsAfterWait, TrimsItself DEF ServiceTable, ServiceDone

LEMMA TrimsRemoveTracked ==
    ASSUME NEW t, TableOK(t), DistinctTable(t), NEW g,
           \A i \in KnownSlots(t) :
               Pgid(g) \in Members(t.slots[i]) => t.slots[i].state = "DONE"
    PROVE  Trims(t, RemoveTracked(t, g))
<1>1. CASE ~\E i \in KnownSlots(t) : SlotOf(t, Pgid(g), i)
  BY <1>1, TrimsItself DEF RemoveTracked
<1>2. CASE \E i \in KnownSlots(t) : SlotOf(t, Pgid(g), i)
  <2> DEFINE i == CHOOSE x \in KnownSlots(t) : SlotOf(t, Pgid(g), x)
             id == t.slots[i].id
             k == CHOOSE x \in KnownSlots(t) : SlotOfId(t, id, x)
  <2>1. i \in KnownSlots(t) /\ SlotOf(t, Pgid(g), i)
    BY <1>2
  <2>2. t.slots[i].state = "DONE"
    BY <2>1 DEF SlotOf
  <2>3. RemoveTracked(t, g) = RemoveJob(t, id)
    BY <1>2 DEF RemoveTracked
  <2> HIDE DEF i
  <2>4. CASE ~\E x \in KnownSlots(t) : SlotOfId(t, id, x)
    BY <2>3, <2>4, TrimsItself DEF RemoveJob
  <2>5. CASE \E x \in KnownSlots(t) : SlotOfId(t, id, x)
    <3>1. k \in KnownSlots(t) /\ t.slots[k].id = id
      BY <2>5 DEF SlotOfId
    <3>2. k = i
      BY <2>1, <3>1 DEF DistinctTable
    <3>3. RemoveTracked(t, g) = Forget(t, {k})
      BY <2>3, <2>5 DEF RemoveJob
    <3> HIDE DEF k
    <3> QED
      BY <2>1, <2>2, <3>2, <3>3, TrimsForget
  <2> QED
    BY <2>4, <2>5
<1> QED
  BY <1>1, <1>2

(***************************************************************************)
(* Adding a job succeeds when there is room.                               *)
(***************************************************************************)
LEMMA FirstReclaimableExists ==
    ASSUME NEW t, HasCapacity(t)
    PROVE  \E i \in 1..Cap : FirstReclaimable(t, i)
<1> DEFINE S == {i \in 1..Cap : Reclaimable(t, i)}
<1>1. S # {} /\ S \in SUBSET Nat
  BY CapAssumption DEF HasCapacity
<1>2. PICK i \in S : \A k \in S : i <= k
  <2> HIDE DEF S
  <2> QED
    BY <1>1, LeastNatural
<1>3. \A k \in 1..(i - 1) : k \in 1..Cap /\ ~(i <= k)
  BY <1>2, CapAssumption
<1> QED
  BY <1>2, <1>3 DEF FirstReclaimable

(* The Cap + 1 ids tried are distinct, as there are more ids than slots.   *)
LEMMA CandidatesDistinct ==
    ASSUME NEW t, TableOK(t), NEW i \in 0..Cap, NEW k \in 0..Cap,
           CandidateId(t, i) = CandidateId(t, k)
    PROVE  i = k
<1> DEFINE b == t.nextId - 1
<1>1. /\ MaxId \in Nat /\ Cap \in Nat /\ Cap < MaxId /\ MaxId > 0
      /\ b \in 0..(MaxId - 1) /\ i \in Nat /\ k \in Nat /\ i <= Cap /\ k <= Cap
  BY CapAssumption, MaxIdAssumption DEF TableOK, JobId
<1>2. (b + i) % MaxId = (b + k) % MaxId
  <2>1. (b + i) % MaxId \in Int /\ (b + k) % MaxId \in Int
    BY <1>1
  <2>2. ((b + i) % MaxId) + 1 = ((b + k) % MaxId) + 1
    BY DEF CandidateId
  <2> QED
    BY <2>1, <2>2
<1> HIDE DEF b
<1>3. \A x \in Nat : x < 2 * MaxId =>
          x % MaxId = IF x < MaxId THEN x ELSE x - MaxId
  <2> SUFFICES ASSUME NEW x \in Nat, x < 2 * MaxId
               PROVE  x % MaxId = IF x < MaxId THEN x ELSE x - MaxId
    OBVIOUS
  <2>1. CASE x < MaxId
    BY <1>1, <2>1
  <2>2. CASE ~(x < MaxId)
    BY <1>1, <2>2
  <2> QED
    BY <2>1, <2>2
<1>4. /\ b + i \in Nat /\ b + i < 2 * MaxId
      /\ b + k \in Nat /\ b + k < 2 * MaxId
  BY <1>1
<1> QED
  BY <1>1, <1>2, <1>3, <1>4

(* The known ids are no more than the slots. *)
LEMMA KnownIdsBounded ==
    ASSUME NEW t, TableOK(t)
    PROVE  /\ IsFiniteSet(KnownIds(t))
           /\ Cardinality(KnownIds(t)) <= Cap
<1> DEFINE f == [i \in KnownSlots(t) |-> t.slots[i].id]
<1>1. KnownSlots(t) \subseteq 1..Cap
  BY DEF TableOK, KnownSlots
<1>2. /\ IsFiniteSet(1..Cap) /\ Cardinality(1..Cap) = Cap
  BY CapAssumption, FS_Interval
<1>3. /\ IsFiniteSet(KnownSlots(t)) /\ Cardinality(KnownSlots(t)) <= Cap
      /\ Cardinality(KnownSlots(t)) \in Nat
  BY <1>1, <1>2, FS_Subset, FS_CardinalityType
<1>4. f \in Surjection(KnownSlots(t), KnownIds(t))
  BY DEF Surjection, KnownIds
<1>5. /\ IsFiniteSet(KnownIds(t))
      /\ Cardinality(KnownIds(t)) <= Cardinality(KnownSlots(t))
  BY <1>3, <1>4, FS_Surjection
<1> QED
  BY <1>3, <1>5, FS_CardinalityType, CapAssumption

LEMMA FirstFreeIdExists ==
    ASSUME NEW t, TableOK(t)
    PROVE  \E k \in 0..Cap : FirstFreeId(t, k)
<1> DEFINE S == {k \in 0..Cap : CandidateId(t, k) \notin KnownIds(t)}
           f == [k \in 0..Cap |-> CandidateId(t, k)]
<1>1. IsFiniteSet(0..Cap) /\ Cardinality(0..Cap) = Cap + 1
  BY CapAssumption, FS_Interval
<1>2. S # {}
  <2> SUFFICES ASSUME S = {} PROVE FALSE
    OBVIOUS
  <2>1. f \in [0..Cap -> KnownIds(t)]
    OBVIOUS
  <2>2. \A i, k \in 0..Cap : f[i] = f[k] => i = k
    BY CandidatesDistinct
  <2>3. Cardinality(KnownIds(t)) < Cardinality(0..Cap)
    BY <1>1, KnownIdsBounded, FS_CardinalityType, CapAssumption
  <2> DEFINE D == 0..Cap
             T == KnownIds(t)
  <2>4. /\ IsFiniteSet(D) /\ IsFiniteSet(T) /\ f \in [D -> T]
        /\ Cardinality(T) < Cardinality(D)
    BY <1>1, <2>1, <2>3, KnownIdsBounded
  <2> HIDE DEF D, T, f, S
  <2>5. \E i, k \in D : i # k /\ f[i] = f[k]
    BY <2>4, FS_PigeonHole
  <2> QED
    BY <2>2, <2>5 DEF D
<1>3. S \in SUBSET Nat
  BY CapAssumption
<1>4. PICK k \in S : \A i \in S : k <= i
  <2> HIDE DEF S
  <2> QED
    BY <1>2, <1>3, LeastNatural
<1>5. \A i \in 0..(k - 1) : i \in 0..Cap /\ ~(k <= i)
  BY <1>4, CapAssumption
<1> QED
  BY <1>4, <1>5 DEF FirstFreeId

(* u is t with an entry in state s for the group g, in a slot i that was   *)
(* free or given up.                                                       *)
PutsJob(t, u, g, i, s) ==
    /\ i \in 1..Cap
    /\ Reclaimable(t, i)
    /\ KnownSlots(u) = KnownSlots(t) \cup {i}
    /\ Copies(g, u.slots[i])
    /\ u.slots[i].state = s
    /\ \A k \in KnownSlots(t) \ {i} : u.slots[k] = t.slots[k]

LEMMA AddJobSucceeds ==
    ASSUME NEW t, TableOK(t), NEW g, GroupOK(g), g.members # <<>>,
           ~InUse(t, g.members), HasCapacity(t)
    PROVE  \E i \in 1..Cap :
              /\ PutsJob(t, AddJob(t, g), g, i, "RUNNING")
              /\ AddJob(t, g).slots[i].seq = t.nextSeq
<1> DEFINE k  == CHOOSE x \in 0..Cap : FirstFreeId(t, x)
           id == CandidateId(t, k)
           nx == CandidateId(t, k + 1)
           t1 == [t EXCEPT !.nextId = nx]
           i  == CHOOSE x \in 1..Cap : FirstReclaimable(t, x)
           e  == NewEntry(g, id, t.nextSeq)
           u  == PutEntry(t1, i, e)
           w  == InsertEntry(t1, i, g, id)
<1>1. k \in 0..Cap /\ k \in Nat /\ k + 1 \in Nat
  BY FirstFreeIdExists, CapAssumption
<1>2. id \in JobId /\ nx \in JobId
  BY <1>1, CandidateIdType
<1>3. i \in 1..Cap /\ Reclaimable(t, i)
  BY FirstReclaimableExists DEF FirstReclaimable
<1>4. AddJob(t, g) = w
  BY FirstFreeIdExists, FirstReclaimableExists DEF AddJob
<1> HIDE DEF k, id, nx, i
<1>5. TableOK(t1) /\ t1.slots = t.slots /\ t1.nextSeq = t.nextSeq
  BY <1>2, NextIdType
<1> HIDE DEF t1
<1>6. /\ EntryOK(e) /\ e.seq = t.nextSeq /\ e.state = "RUNNING" /\ Copies(g, e)
  BY <1>2, NewEntryType DEF TableOK, Copies, NewEntry
<1>7. w = [u EXCEPT !.ghosts = {x \in @ : x.slot # i}, !.nextSeq = @ + 1,
                    !.previous = t1.current, !.current = id]
  BY <1>5 DEF InsertEntry
<1> HIDE DEF e
<1>8. /\ TableOK(u)
      /\ KnownSlots(u) = KnownSlots(t1) \cup {i}
      /\ \A x \in KnownSlots(t1) \cup {i} :
            u.slots[x] = IF x = i THEN e ELSE t1.slots[x]
  BY <1>3, <1>5, <1>6, PutEntryType
<1> HIDE DEF u
<1>9. w.slots = u.slots
  BY <1>7, <1>8 DEF TableOK
<1>10. KnownSlots(w) = KnownSlots(t) \cup {i} /\ KnownSlots(t1) = KnownSlots(t)
  BY <1>5, <1>8, <1>9 DEF KnownSlots
<1> QED
  BY <1>3, <1>4, <1>5, <1>6, <1>8, <1>9, <1>10 DEF PutsJob

LEMMA RegisterSucceeds ==
    ASSUME NEW t, TableOK(t), DistinctTable(t), NEW g, GroupOK(g),
           g.members # <<>>, ~InUse(t, g.members), HasCapacity(t),
           Pgid(g) \notin KnownPids(t)
    PROVE  \E i \in 1..Cap : PutsJob(t, RegisterStopped(t, g), g, i, "STOPPED")
<1> DEFINE t1 == AddJob(t, g)
           f  == [i \in KnownSlots(t1) |->
                    IF t1.slots[i].seq = t.nextSeq
                    THEN [t1.slots[i] EXCEPT !.state = "STOPPED"]
                    ELSE t1.slots[i]]
           r  == RegisterStopped(t, g)
<1>1. r = [t1 EXCEPT !.slots = f]
  BY DEF RegisterStopped
<1>2. TableOK(t1)
  BY AddJobType
<1>3. PICK i \in 1..Cap : /\ PutsJob(t, t1, g, i, "RUNNING")
                          /\ t1.slots[i].seq = t.nextSeq
  BY AddJobSucceeds
<1> HIDE DEF t1, r
<1>4. i \in KnownSlots(t1) /\ EntryOK(t1.slots[i])
  BY <1>2, <1>3, TableEntry DEF PutsJob
<1>5. f[i] = [t1.slots[i] EXCEPT !.state = "STOPPED"]
  BY <1>3, <1>4
<1>6. ASSUME NEW k \in KnownSlots(t) \ {i}
      PROVE  f[k] = t.slots[k]
  <2>1. k \in KnownSlots(t1) /\ t1.slots[k] = t.slots[k]
    BY <1>3, <1>6 DEF PutsJob
  <2>2. t.slots[k].seq < t.nextSeq /\ t.slots[k].seq \in Nat /\ t.nextSeq \in Nat
    BY <1>6, TableEntry DEF DistinctTable, EntryOK, Entry, TableOK
  <2>3. t1.slots[k].seq # t.nextSeq
    BY <2>1, <2>2
  <2> QED
    BY <2>1, <2>3
<1>7. DOMAIN f = KnownSlots(t1)
  OBVIOUS
<1> HIDE DEF f
<1>8. r.slots = f
  BY <1>1, <1>2 DEF TableOK
<1>9. f[i].state = "STOPPED" /\ Copies(g, f[i])
  BY <1>3, <1>4, <1>5 DEF PutsJob, Copies, EntryOK, Entry
<1>10. KnownSlots(r) = KnownSlots(t) \cup {i}
  BY <1>3, <1>7, <1>8 DEF PutsJob, KnownSlots
<1>11. PutsJob(t, r, g, i, "STOPPED")
  BY <1>3, <1>6, <1>8, <1>9, <1>10 DEF PutsJob
<1> QED
  BY <1>11 DEF r

(***************************************************************************)
(* The invariant, of the children pr, the table t and the foreground job j.*)
(***************************************************************************)
Living(pr, p) == pr[p].life \in {"running", "stopped"}

(* A member that was reaped is gone: its pid is not that of a child. *)
Gone(pr, g) ==
    \A m \in 1..Len(g.members) : g.mstate[m] = "done" => pr[g.members[m]] = NoProcess

(* An entry is another group than the foreground job, or a copy of it. *)
Apart(j, e) == Members(j) \cap Members(e) = {}

Mirrors(j, e) == Copies(j, e) /\ (j.stopped <=> e.state = "STOPPED")

(* A foreground job without an entry never stopped: it runs in the         *)
(* foreground with a slot kept for it, or its start failed and its         *)
(* processes were killed.                                                  *)
Registered(pr, t, j) ==
    (\A i \in KnownSlots(t) : Apart(j, t.slots[i])) =>
        /\ ~j.stopped
        /\ IF j.foreground
           THEN HasCapacity(t)
           ELSE \A p \in Members(j) : /\ pr[p].life \in {"zombie", "free"}
                                      /\ pr[p].event = "none"

TableInv(pr, t) ==
    \A i \in KnownSlots(t) : SoundEntry(t.slots[i]) /\ Gone(pr, t.slots[i])

CurrentInv(pr, t, j) ==
    /\ Sound(j) /\ Gone(pr, j)
    /\ j.members # <<>> /\ j.remaining # 0
    /\ j.stopped => ~Runs(j)
    /\ \A i \in KnownSlots(t) : Apart(j, t.slots[i]) \/ Mirrors(j, t.slots[i])
    /\ Registered(pr, t, j)

OwnedInv(pr, t, j) ==
    \A p \in Pid : Living(pr, p) => (j.active /\ p \in Members(j)) \/ p \in KnownPids(t)

JobsInv(pr, t, j) ==
    TableInv(pr, t) /\ (j.active => CurrentInv(pr, t, j)) /\ OwnedInv(pr, t, j)

(* No member of a job that is done lives. *)
LEMMA DoneDead ==
    ASSUME NEW pr, NEW t, TableOK(t), TableInv(pr, t), NEW i \in KnownSlots(t),
           t.slots[i].state = "DONE", NEW p \in Members(t.slots[i])
    PROVE  pr[p] = NoProcess /\ ~Living(pr, p)
<1> DEFINE e == t.slots[i]
<1>1. GroupOK(e) /\ SoundEntry(e) /\ Gone(pr, e)
  BY TableEntry, EntryIsGroup DEF TableInv
<1>2. PICK m \in 1..Len(e.members) : p = e.members[m]
  BY DEF Members
<1>3. e.mstate[m] = "done"
  BY <1>1, <1>2, NoneLeft DEF SoundEntry
<1>4. pr[p] = NoProcess
  BY <1>1, <1>2, <1>3 DEF Gone
<1> QED
  BY <1>4 DEF Living, NoProcess

(* A copy of the foreground job is not done. *)
LEMMA MirrorNotDone ==
    ASSUME NEW pr, NEW t, TableInv(pr, t), NEW j, CurrentInv(pr, t, j),
           NEW i \in KnownSlots(t), t.slots[i].state = "DONE"
    PROVE  Apart(j, t.slots[i])
BY DEF TableInv, SoundEntry, CurrentInv, Mirrors, Copies

(* Members of a copy. *)
LEMMA SameRunEntry ==
    ASSUME NEW e, NEW f, SameRun(e, f)
    PROVE  /\ SoundEntry(f) <=> SoundEntry(e)
           /\ \A pr : Gone(pr, f) <=> Gone(pr, e)
           /\ \A j : Apart(j, f) <=> Apart(j, e)
           /\ \A j : Mirrors(j, f) <=> Mirrors(j, e)
           /\ Members(f) = Members(e)
<1>1. Members(f) = Members(e)
  BY DEF SameRun, Copies, Members
<1>2. Sound(f) <=> Sound(e)
  BY CopiesSound DEF SameRun
<1>3. Runs(f) <=> Runs(e)
  BY CopiesSound DEF SameRun
<1> QED
  BY <1>1, <1>2, <1>3 DEF SameRun, SoundEntry, Gone, Apart, Mirrors, Copies

LEMMA TrimsJobs ==
    ASSUME NEW pr, NEW t, TableOK(t), NEW u, Trims(t, u), NEW j,
           JobsInv(pr, t, j)
    PROVE  JobsInv(pr, u, j)
<1>1. \A i \in KnownSlots(u) :
          i \in KnownSlots(t) /\ SameRun(t.slots[i], u.slots[i])
  BY DEF Trims
<1>2. TableInv(pr, u)
  BY <1>1, SameRunEntry DEF JobsInv, TableInv
<1>3. ASSUME j.active PROVE CurrentInv(pr, u, j)
  <2>1. CurrentInv(pr, t, j) /\ TableInv(pr, t)
    BY <1>3 DEF JobsInv
  <2>2. \A i \in KnownSlots(u) : Apart(j, u.slots[i]) \/ Mirrors(j, u.slots[i])
    BY <1>1, <2>1, SameRunEntry DEF CurrentInv
  <2>3. ASSUME \A i \in KnownSlots(u) : Apart(j, u.slots[i])
        PROVE  \A i \in KnownSlots(t) : Apart(j, t.slots[i])
    <3> TAKE i \in KnownSlots(t)
    <3>1. CASE i \in KnownSlots(u)
      BY <1>1, <2>3, <3>1, SameRunEntry
    <3>2. CASE i \notin KnownSlots(u)
      BY <2>1, <3>2, MirrorNotDone DEF Trims
    <3> QED
      BY <3>1, <3>2
  <2>4. HasCapacity(t) => HasCapacity(u)
    <3>1. \A i \in 1..Cap : Reclaimable(t, i) => Reclaimable(u, i)
      BY <1>1 DEF Reclaimable, SameRun
    <3> QED
      BY <3>1 DEF HasCapacity
  <2>5. Registered(pr, u, j)
    BY <2>1, <2>3, <2>4 DEF CurrentInv, Registered
  <2> QED
    BY <2>1, <2>2, <2>5 DEF CurrentInv
<1>4. OwnedInv(pr, u, j)
  <2> SUFFICES ASSUME NEW p \in Pid, Living(pr, p)
               PROVE  (j.active /\ p \in Members(j)) \/ p \in KnownPids(u)
    BY DEF OwnedInv
  <2>1. CASE j.active /\ p \in Members(j)
    BY <2>1
  <2>2. CASE p \in KnownPids(t)
    <3>1. PICK i \in KnownSlots(t) : p \in Members(t.slots[i])
      BY <2>2 DEF KnownPids
    <3>2. i \in KnownSlots(u)
      BY <3>1, DoneDead DEF Trims, JobsInv
    <3>3. p \in Members(u.slots[i])
      BY <1>1, <3>1, <3>2, SameRunEntry
    <3> QED
      BY <3>2, <3>3 DEF KnownPids
  <2> QED
    BY <2>1, <2>2 DEF JobsInv, OwnedInv
<1> QED
  BY <1>2, <1>3, <1>4 DEF JobsInv

(* Living processes change: they stop, continue or end.                    *)
LivesOn(pr, qr) ==
    /\ \A p \in Pid : qr[p] # pr[p] => Living(pr, p)
    /\ \A p \in Pid : Living(qr, p) => Living(pr, p)

LEMMA LivesOnJobs ==
    ASSUME NEW pr, NEW qr, LivesOn(pr, qr), NEW t, TableOK(t), NEW j, JobOK(j),
           JobsInv(pr, t, j)
    PROVE  JobsInv(qr, t, j)
<1>1. \A p \in Pid : pr[p] = NoProcess => qr[p] = pr[p]
  BY DEF LivesOn, Living, NoProcess
<1>2. ASSUME NEW g, GroupOK(g), Gone(pr, g) PROVE Gone(qr, g)
  BY <1>1, <1>2, GroupArrays DEF Gone
<1>3. \A p \in Pid : pr[p].life \in {"zombie", "free"} => qr[p] = pr[p]
  BY DEF LivesOn, Living
<1>4. Registered(pr, t, j) => Registered(qr, t, j)
  BY <1>3, MembersPids, JobIsGroup DEF Registered
<1>5. CurrentInv(pr, t, j) => CurrentInv(qr, t, j)
  BY <1>2, <1>4, JobIsGroup DEF CurrentInv
<1>6. TableInv(qr, t)
  BY <1>2, TableEntry, EntryIsGroup DEF JobsInv, TableInv
<1> QED
  BY <1>5, <1>6 DEF JobsInv, OwnedInv, LivesOn

(***************************************************************************)
(* An event of waitpid.                                                    *)
(***************************************************************************)
(* The event ev of process p is taken: p was a child, and is none once its *)
(* exit is taken.                                                          *)
Takes(pr, qr, p, ev) ==
    /\ pr[p] # NoProcess
    /\ ev.kind = "exit" => qr[p] = NoProcess
    /\ ev.kind # "exit" => pr[p].event # "none"
    /\ Living(qr, p) => Living(pr, p)
    /\ \A q \in Pid : q # p => qr[q] = pr[q]

LEMMA TakeTakes ==
    ASSUME TypeOK, NEW p \in Pid, Take(p)
    PROVE  Takes(proc, proc', p, EventOf(p)) /\ EventOf(p) \in Event
<1>1. proc \in [Pid -> Process] /\ EventOf(p) \in Event
  BY TakeType, TypeParts
<1>2. proc' = [proc EXCEPT ![p] = Taken(p)] /\ Reportable(p)
  BY DEF Take
<1>3. proc[p] \in Process
  BY <1>1
<1>4. proc[p] # NoProcess
  BY <1>2 DEF Reportable, NoProcess
<1>5. proc'[p] = Taken(p) /\ \A q \in Pid : q # p => proc'[q] = proc[q]
  BY <1>1, <1>2
<1>6. EventOf(p).kind = "exit" <=> proc[p].life = "zombie"
  BY <1>2, <1>3 DEF EventOf, Process, Reportable
<1>7. CASE proc[p].life = "zombie"
  BY <1>1, <1>4, <1>5, <1>6, <1>7 DEF Takes, Taken, Living, NoProcess
<1>8. CASE proc[p].life # "zombie"
  <2>1. Taken(p).life = proc[p].life
    BY <1>3, <1>8 DEF Taken, Process
  <2>2. proc[p].event # "none"
    BY <1>2, <1>8 DEF Reportable
  <2> QED
    BY <1>1, <1>4, <1>5, <1>6, <1>8, <2>1, <2>2 DEF Takes, Living
<1> QED
  BY <1>7, <1>8

(* A member whose event is taken has not been recorded as ended, and none  *)
(* of the others changes.                                                  *)
LEMMA MemberLeft ==
    ASSUME NEW g, GroupOK(g), Sound(g), NEW pr, Gone(pr, g),
           NEW p \in Members(g), pr[p] # NoProcess
    PROVE  /\ g.mstate[MemberIndex(g, p)] # "done"
           /\ MemberIndex(g, p) \in 1..Len(g.members)
           /\ g.remaining # 0
<1>1. Injective(g.members)
  BY DEF Sound
<1>2. /\ MemberIndex(g, p) \in 1..Len(g.members)
      /\ g.members[MemberIndex(g, p)] = p
  BY <1>1, MemberAt
<1>3. g.mstate[MemberIndex(g, p)] # "done"
  BY <1>2 DEF Gone
<1> QED
  BY <1>2, <1>3, NoneLeft

LEMMA GoneStep ==
    ASSUME NEW g, GroupOK(g), Sound(g), NEW pr, Gone(pr, g),
           NEW p \in Members(g), NEW h, h.members = g.members,
           \A k \in 1..Len(g.members) :
               k # MemberIndex(g, p) => h.mstate[k] = g.mstate[k],
           NEW ev, NEW qr, Takes(pr, qr, p, ev),
           h.mstate[MemberIndex(g, p)] = "done" => ev.kind = "exit"
    PROVE  Gone(qr, h)
<1> DEFINE x == MemberIndex(g, p)
<1>1. Injective(g.members)
  BY DEF Sound
<1>2. g.members[x] = p /\ \A k \in 1..Len(g.members) : k # x => g.members[k] # p
  BY <1>1, MemberAt
<1> HIDE DEF x
<1> SUFFICES ASSUME NEW k \in 1..Len(g.members), h.mstate[k] = "done"
             PROVE  qr[g.members[k]] = NoProcess
  BY DEF Gone
<1>3. CASE k = x
  BY <1>2, <1>3 DEF Takes, x
<1>4. CASE k # x
  <2>1. pr[g.members[k]] = NoProcess
    BY <1>4 DEF Gone, x
  <2>2. g.members[k] \in Pid
    BY GroupArrays
  <2> QED
    BY <1>2, <1>4, <2>1, <2>2 DEF Takes
<1> QED
  BY <1>3, <1>4

(* A group without the process does not notice. *)
LEMMA GoneOther ==
    ASSUME NEW g, GroupOK(g), NEW pr, Gone(pr, g), NEW p, p \notin Members(g),
           NEW ev, NEW qr, Takes(pr, qr, p, ev)
    PROVE  Gone(qr, g)
BY GroupArrays DEF Gone, Takes, Members

(* The entries after an event, gsh_background_update_member.               *)
LEMMA TableReaped ==
    ASSUME NEW pr, NEW t, TableOK(t), DistinctTable(t), TableInv(pr, t),
           NEW p, NEW ev \in Event, NEW qr, Takes(pr, qr, p, ev),
           NEW u, u = UpdateMember(t, p, ev)
    PROVE  /\ TableInv(qr, u)
           /\ KnownSlots(u) = KnownSlots(t)
           /\ \A i \in KnownSlots(t) : u.slots[i].members = t.slots[i].members
           /\ HasCapacity(t) => HasCapacity(u)
<1>1. CASE p \notin KnownPids(t)
  <2>1. u = t
    BY <1>1, UpdateUnknown
  <2>2. \A i \in KnownSlots(t) : p \notin Members(t.slots[i])
    BY <1>1 DEF KnownPids
  <2>3. TableInv(qr, t)
    BY <2>2, GoneOther, TableEntry, EntryIsGroup DEF TableInv
  <2> QED
    BY <2>1, <2>3
<1>2. CASE p \in KnownPids(t)
  <2>1. PICK i \in KnownSlots(t) : p \in Members(t.slots[i])
    BY <1>2 DEF KnownPids
  <2> DEFINE e == t.slots[i]
             x == MemberIndex(e, p)
             f == u.slots[i]
  <2>2. /\ TableOK(u) /\ KnownSlots(u) = KnownSlots(t)
        /\ f = EntryAfter(e, x, ev)
        /\ \A k \in KnownSlots(t) : k # i => u.slots[k] = t.slots[k]
    BY <2>1, UpdateKnown
  <2>3. EntryOK(e) /\ GroupOK(e) /\ SoundEntry(e) /\ Sound(e) /\ Gone(pr, e)
    BY TableEntry, EntryIsGroup DEF TableInv, SoundEntry
  <2>4. e.mstate[x] # "done" /\ x \in 1..Len(e.members) /\ e.remaining # 0
    BY <2>1, <2>3, MemberLeft DEF Takes
  <2>5. /\ EntryOK(f) /\ SoundEntry(f) /\ f.members = e.members
        /\ ev.kind = "stop" => Moved(e, f, x, "stopped")
        /\ ev.kind = "continue" => Moved(e, f, x, "running")
        /\ ev.kind = "exit" => Ended(e, f, x, ev.status)
    BY <2>2, <2>3, <2>4, EntryAfterSound
  <2>6. GroupOK(f)
    BY <2>5, EntryIsGroup
  <2>7. /\ \A k \in 1..Len(e.members) : k # x => f.mstate[k] = e.mstate[k]
        /\ f.mstate[x] = "done" => ev.kind = "exit"
    <3>1. CASE ev.kind = "exit"
      BY <2>3, <2>4, <2>5, <2>6, <3>1, EndedSound DEF Event
    <3>2. CASE ev.kind = "stop"
      BY <2>3, <2>4, <2>5, <2>6, <3>2, MovedSound
    <3>3. CASE ev.kind = "continue"
      BY <2>3, <2>4, <2>5, <2>6, <3>3, MovedSound
    <3> QED
      BY <3>1, <3>2, <3>3 DEF Event
  <2> HIDE DEF e, x, f
  <2>8. Gone(qr, f)
    BY <2>1, <2>3, <2>5, <2>7, GoneStep DEF x, e
  <2>9. TableInv(qr, u)
    <3> SUFFICES ASSUME NEW k \in KnownSlots(u)
                 PROVE  SoundEntry(u.slots[k]) /\ Gone(qr, u.slots[k])
      BY DEF TableInv
    <3>1. CASE k = i
      BY <2>5, <2>8, <3>1 DEF f
    <3>2. CASE k # i
      <4>1. u.slots[k] = t.slots[k] /\ p \notin Members(t.slots[k])
        BY <2>1, <2>2, <3>2 DEF DistinctTable, e
      <4>2. SoundEntry(t.slots[k]) /\ Gone(pr, t.slots[k]) /\ GroupOK(t.slots[k])
        BY <2>2, TableEntry, EntryIsGroup DEF TableInv
      <4> QED
        BY <4>1, <4>2, GoneOther
    <3> QED
      BY <3>1, <3>2
  <2>10. \A k \in 1..Cap : Reclaimable(t, k) => Reclaimable(u, k)
    <3>1. t.slots[i].state # "DONE"
      BY <2>3, <2>4 DEF SoundEntry, e
    <3> QED
      BY <2>2, <3>1 DEF Reclaimable
  <2> QED
    BY <2>2, <2>5, <2>9, <2>10 DEF HasCapacity, f, e
<1> QED
  BY <1>1, <1>2

LEMMA SameMembers ==
    ASSUME NEW g, NEW h, h.members = g.members
    PROVE  Members(h) = Members(g)
BY DEF Members

(* The processes of the jobs are the same ones. *)
LEMMA SamePids ==
    ASSUME NEW t, NEW u, KnownSlots(u) = KnownSlots(t),
           \A i \in KnownSlots(t) : u.slots[i].members = t.slots[i].members
    PROVE  KnownPids(u) = KnownPids(t)
BY SameMembers DEF KnownPids

(* A child that is not the foreground job's. *)
LEMMA OtherReaped ==
    ASSUME NEW pr, NEW t, TableOK(t), DistinctTable(t), NEW j, JobOK(j),
           JobsInv(pr, t, j), NEW p, ~(j.active /\ p \in Members(j)),
           NEW ev \in Event, NEW qr, Takes(pr, qr, p, ev),
           NEW u, u = UpdateMember(t, p, ev)
    PROVE  JobsInv(qr, u, j)
<1>1. /\ TableInv(qr, u)
      /\ KnownSlots(u) = KnownSlots(t)
      /\ \A i \in KnownSlots(t) : u.slots[i].members = t.slots[i].members
      /\ HasCapacity(t) => HasCapacity(u)
  BY TableReaped DEF JobsInv
<1>2. OwnedInv(qr, u, j)
  BY <1>1, SamePids DEF JobsInv, OwnedInv, Takes, Living
<1>3. ASSUME j.active PROVE CurrentInv(qr, u, j)
  <2>1. CurrentInv(pr, t, j) /\ p \notin Members(j)
    BY <1>3 DEF JobsInv
  <2>2. Gone(qr, j)
    BY <2>1, GoneOther, JobIsGroup DEF CurrentInv
  <2>3. \A i \in KnownSlots(t) : Apart(j, u.slots[i]) <=> Apart(j, t.slots[i])
    BY <1>1, SameMembers DEF Apart
  <2>4. ASSUME NEW i \in KnownSlots(t)
        PROVE  Apart(j, u.slots[i]) \/ Mirrors(j, u.slots[i])
    <3>1. CASE Apart(j, t.slots[i])
      BY <2>3, <3>1
    <3>2. CASE Mirrors(j, t.slots[i])
      <4>1. p \notin Members(t.slots[i])
        BY <2>1, <3>2, CopiesSound DEF Mirrors
      <4>2. u.slots[i] = t.slots[i]
        <5>1. CASE p \notin KnownPids(t)
          BY <5>1, UpdateUnknown
        <5>2. CASE p \in KnownPids(t)
          <6>1. PICK k \in KnownSlots(t) : p \in Members(t.slots[k])
            BY <5>2 DEF KnownPids
          <6> QED
            BY <4>1, <6>1, UpdateKnown
        <5> QED
          BY <5>1, <5>2
      <4> QED
        BY <3>2, <4>2
    <3> QED
      BY <2>1, <3>1, <3>2 DEF CurrentInv
  <2>5. \A q \in Members(j) : qr[q] = pr[q]
    BY <2>1, MembersPids, JobIsGroup DEF Takes
  <2>6. Registered(qr, u, j)
    BY <1>1, <2>1, <2>3, <2>5 DEF CurrentInv, Registered
  <2> QED
    BY <1>1, <2>1, <2>2, <2>4, <2>6 DEF CurrentInv
<1> QED
  BY <1>1, <1>2, <1>3 DEF JobsInv

(* The entries of the foreground job j are those of k after the step.      *)
StillMirrors(t, u, j, k) ==
    \A i \in KnownSlots(t) : Mirrors(j, t.slots[i]) => Mirrors(k, u.slots[i])

Reaped(qr, t, u, j, k, ev) ==
    /\ TableInv(qr, u)
    /\ k.active => OwnedInv(qr, u, k)
    /\ \A i \in KnownSlots(u) : Apart(k, u.slots[i]) \/ Mirrors(k, u.slots[i])
    /\ (\A i \in KnownSlots(u) : Apart(k, u.slots[i])) =>
          /\ u = t
          /\ \A i \in KnownSlots(t) : Apart(j, t.slots[i])
          /\ ~j.stopped
          /\ j.foreground => HasCapacity(t)
          /\ ~j.foreground => ev.kind = "exit"

(* A child of the foreground job j, which becomes k: all but what there is *)
(* to prove of k itself.                                                   *)
LEMMA CurrentReaped ==
    ASSUME NEW pr, NEW t, TableOK(t), DistinctTable(t), NEW j, j.active,
           JobsInv(pr, t, j), NEW p \in Members(j),
           NEW ev \in Event, NEW qr, Takes(pr, qr, p, ev),
           NEW u, u = UpdateMember(t, p, ev), NEW k, k.members = j.members,
           StillMirrors(t, u, j, k)
    PROVE  Reaped(qr, t, u, j, k, ev)
<1>1. /\ TableInv(qr, u)
      /\ KnownSlots(u) = KnownSlots(t)
      /\ \A i \in KnownSlots(t) : u.slots[i].members = t.slots[i].members
  BY TableReaped DEF JobsInv
<1>2. CurrentInv(pr, t, j)
  BY DEF JobsInv
<1>3. Members(k) = Members(j)
  BY SameMembers
<1>4. \A i \in KnownSlots(t) : Apart(k, u.slots[i]) <=> Apart(j, t.slots[i])
  BY <1>1, <1>3, SameMembers DEF Apart
<1>5. k.active => OwnedInv(qr, u, k)
  BY <1>1, <1>3, SamePids DEF JobsInv, OwnedInv, Takes, Living
<1>6. \A i \in KnownSlots(u) : Apart(k, u.slots[i]) \/ Mirrors(k, u.slots[i])
  BY <1>1, <1>2, <1>4 DEF CurrentInv, StillMirrors
<1>7. ASSUME \A i \in KnownSlots(u) : Apart(k, u.slots[i])
      PROVE  /\ u = t
             /\ \A i \in KnownSlots(t) : Apart(j, t.slots[i])
             /\ ~j.stopped
             /\ j.foreground => HasCapacity(t)
             /\ ~j.foreground => ev.kind = "exit"
  <2>1. \A i \in KnownSlots(t) : Apart(j, t.slots[i])
    BY <1>1, <1>4, <1>7
  <2>2. p \notin KnownPids(t)
    BY <2>1 DEF KnownPids, Apart
  <2>3. u = t
    BY <2>2, UpdateUnknown
  <2>4. /\ ~j.stopped
        /\ j.foreground => HasCapacity(t)
        /\ ~j.foreground => pr[p].event = "none"
    BY <1>2, <2>1 DEF CurrentInv, Registered
  <2> QED
    BY <2>1, <2>2, <2>3, <2>4 DEF Takes
<1> QED
  BY <1>1, <1>5, <1>6, <1>7 DEF Reaped

(* The entry that mirrors the foreground job sees the same event.          *)
LEMMA MirrorReaped ==
    ASSUME NEW pr, NEW t, TableOK(t), DistinctTable(t), TableInv(pr, t),
           NEW j, JobOK(j), NEW i \in KnownSlots(t), Mirrors(j, t.slots[i]),
           NEW p \in Members(j), NEW ev \in Event, NEW qr, Takes(pr, qr, p, ev),
           NEW u, u = UpdateMember(t, p, ev)
    PROVE  LET f == u.slots[i]
               x == MemberIndex(j, p)
           IN  /\ \A k : ev.kind = "stop" /\ Moved(j, k, x, "stopped") => Copies(k, f)
               /\ \A k : ev.kind = "continue" /\ Moved(j, k, x, "running")
                            => Copies(k, f)
               /\ \A k : ev.kind = "exit" /\ Ended(j, k, x, ev.status)
                            => Copies(k, f)
               /\ ev.kind = "stop" =>
                     (f.state = "STOPPED" <=> ~Runs(f) \/ j.stopped)
               /\ ev.kind = "continue" => f.state = "RUNNING"
               /\ ev.kind = "exit" /\ f.remaining # 0 =>
                     (f.state = "STOPPED" <=> j.stopped)
               /\ ev.kind = "exit" /\ f.remaining = 0 => f.state = "DONE"
<1> DEFINE e == t.slots[i]
           f == u.slots[i]
           x == MemberIndex(j, p)
<1>1. EntryOK(e) /\ GroupOK(e) /\ SoundEntry(e) /\ Sound(e) /\ Gone(pr, e)
  BY TableEntry, EntryIsGroup DEF TableInv, SoundEntry
<1>2. Copies(j, e) /\ Members(e) = Members(j) /\ e.members = j.members
  BY CopiesSound DEF Mirrors, Copies
<1>3. MemberIndex(e, p) = x
  <2>1. Injective(j.members) /\ GroupOK(j)
    BY <1>1, <1>2, JobIsGroup DEF Sound
  <2> QED
    BY <1>1, <1>2, <2>1, SameIndex
<1>4. f = EntryAfter(e, x, ev)
  BY <1>2, <1>3, UpdateKnown
<1>5. e.mstate[x] # "done" /\ x \in 1..Len(e.members)
  BY <1>1, <1>2, <1>3, MemberLeft DEF Takes
<1>6. /\ ev.kind = "stop" =>
            /\ Moved(e, f, x, "stopped")
            /\ f.state = IF ~Runs(f) THEN "STOPPED" ELSE e.state
      /\ ev.kind = "continue" => Moved(e, f, x, "running") /\ f.state = "RUNNING"
      /\ ev.kind = "exit" =>
            /\ Ended(e, f, x, ev.status)
            /\ f.state = IF f.remaining = 0 THEN "DONE" ELSE e.state
  BY <1>1, <1>4, <1>5, EntryAfterSound
<1>7. j.stopped <=> e.state = "STOPPED"
  BY DEF Mirrors
<1> HIDE DEF e, f, x
<1>8. /\ \A k : ev.kind = "stop" /\ Moved(j, k, x, "stopped") => Copies(k, f)
      /\ \A k : ev.kind = "continue" /\ Moved(j, k, x, "running") => Copies(k, f)
  BY <1>2, <1>6 DEF Moved, Copies
<1>9. \A k : ev.kind = "exit" /\ Ended(j, k, x, ev.status) => Copies(k, f)
  BY <1>2, <1>6 DEF Ended, Copies
<1> QED
  BY <1>6, <1>7, <1>8, <1>9 DEF f, x

(* An entry put in the table. *)
LEMMA PutsTable ==
    ASSUME NEW pr, NEW t, TableInv(pr, t), NEW g, Sound(g), Gone(pr, g),
           g.remaining # 0, NEW s \in {"RUNNING", "STOPPED"},
           s = "STOPPED" => ~Runs(g), NEW i, NEW u, PutsJob(t, u, g, i, s)
    PROVE  TableInv(pr, u)
<1> SUFFICES ASSUME NEW k \in KnownSlots(u)
             PROVE  SoundEntry(u.slots[k]) /\ Gone(pr, u.slots[k])
  BY DEF TableInv
<1>1. CASE k = i
  <2> DEFINE f == u.slots[i]
  <2>1. Copies(g, f) /\ f.state = s
    BY DEF PutsJob
  <2> HIDE DEF f
  <2>2. Sound(f) /\ (Runs(f) <=> Runs(g)) /\ f.remaining # 0
    BY <2>1, CopiesSound DEF Copies
  <2>3. Gone(pr, f)
    BY <2>1 DEF Gone, Copies
  <2> QED
    BY <1>1, <2>1, <2>2, <2>3 DEF SoundEntry, f
<1>2. CASE k # i
  BY <1>2 DEF PutsJob, TableInv
<1> QED
  BY <1>1, <1>2

(* The slot that was given up held a job whose processes are gone.         *)
LEMMA PutsPids ==
    ASSUME NEW pr, NEW t, TableOK(t), TableInv(pr, t), NEW g, NEW i, NEW s,
           NEW u, PutsJob(t, u, g, i, s)
    PROVE  /\ \A p \in KnownPids(t) : Living(pr, p) => p \in KnownPids(u)
           /\ Members(g) \subseteq KnownPids(u)
<1>1. ASSUME NEW p \in KnownPids(t), Living(pr, p) PROVE p \in KnownPids(u)
  <2>1. PICK k \in KnownSlots(t) : p \in Members(t.slots[k])
    BY DEF KnownPids
  <2>2. k # i
    BY <1>1, <2>1, DoneDead DEF PutsJob, Reclaimable
  <2>3. k \in KnownSlots(u) /\ u.slots[k] = t.slots[k]
    BY <2>1, <2>2 DEF PutsJob
  <2> QED
    BY <2>1, <2>3 DEF KnownPids
<1>2. Members(u.slots[i]) = Members(g) /\ i \in KnownSlots(u)
  BY CopiesSound DEF PutsJob
<1> QED
  BY <1>1, <1>2 DEF KnownPids

LEMMA JobsStop ==
    ASSUME TypeOK, DistinctInv, JobsInv(proc, jobs, fgJob),
           NEW p \in Pid, InForeground(p), Take(p), ForegroundStop(p)
    PROVE  JobsInv(proc', jobs', fgJob')
<1> DEFINE ev == EventOf(p)
           x  == MemberIndex(fgJob, p)
           g  == SetMember(fgJob, x, "stopped")
           u  == UpdateMember(jobs, p, ev)
           r  == RegisterStopped(u, g)
           k  == fgJob'
           new == NewlyStopped(g)
<1>1. /\ TableOK(jobs) /\ JobOK(fgJob) /\ GroupOK(fgJob)
      /\ DistinctTable(jobs) /\ fgJob.active /\ p \in Members(fgJob)
  BY TypeParts, JobIsGroup DEF DistinctInv, InForeground
<1>2. Takes(proc, proc', p, ev) /\ ev \in Event /\ ev.kind = "stop"
  BY TakeTakes DEF ForegroundStop
<1>3. CurrentInv(proc, jobs, fgJob) /\ TableInv(proc, jobs)
  BY <1>1 DEF JobsInv
<1>4. JobOK(g) /\ SameJob(fgJob, g) /\ Moved(fgJob, g, x, "stopped") /\ GroupOK(g)
  BY <1>1, SetMemberJob, JobSteps, JobIsGroup DEF MemberState
<1>5. k = IF new THEN [g EXCEPT !.stopped = TRUE, !.foreground = FALSE] ELSE g
  BY DEF ForegroundStop
<1>6. fgJob.mstate[x] # "done" /\ x \in 1..Len(fgJob.members)
  BY <1>1, <1>2, <1>3, MemberLeft DEF Takes, CurrentInv
<1>7. /\ Sound(g) /\ g.mstate[x] = "stopped"
      /\ \A m \in 1..Len(fgJob.members) : m # x => g.mstate[m] = fgJob.mstate[m]
  BY <1>1, <1>3, <1>4, <1>6, MovedSound DEF CurrentInv
<1>8. IF new
      THEN IF fgJob.foreground THEN ReplyToService(Prompt(r)) ELSE ReplyToService(r)
      ELSE ReplyToService(u)
  BY DEF ForegroundStop
<1>9. new <=> AllStopped(g) /\ ~fgJob.stopped
  BY DEF NewlyStopped
<1> HIDE DEF ev, x, g, u, r, new
<1>10. /\ Copies(g, k) /\ k.active /\ k.members = fgJob.members
       /\ Moved(fgJob, k, x, "stopped")
       /\ k.stopped = (fgJob.stopped \/ new)
       /\ ~new => k.foreground = fgJob.foreground
  BY <1>1, <1>4, <1>5 DEF Copies, Moved, SameJob, JobOK, Job
<1>11. Gone(proc', k)
  <2>1. /\ \A m \in 1..Len(fgJob.members) : m # x => k.mstate[m] = fgJob.mstate[m]
        /\ k.mstate[x] # "done"
    BY <1>7, <1>10 DEF Copies
  <2> HIDE DEF k
  <2> QED
    BY <1>1, <1>2, <1>3, <1>10, <2>1, GoneStep DEF CurrentInv, x
<1>12. Sound(k) /\ k.members # <<>> /\ k.remaining # 0 /\ (Runs(k) <=> Runs(g))
  BY <1>3, <1>7, <1>10, CopiesSound DEF CurrentInv, Moved
<1>13. AllStopped(g) <=> ~Runs(g)
  BY <1>4, <1>10, <1>12, AllStoppedRuns DEF Copies
<1>14. k.stopped => ~Runs(k)
  <2>1. Runs(g) => Runs(fgJob)
    BY <1>4, <1>7 DEF Runs, Moved
  <2> QED
    BY <1>3, <1>9, <1>10, <1>12, <1>13, <2>1 DEF CurrentInv
<1>15. StillMirrors(jobs, u, fgJob, k)
  <2> SUFFICES ASSUME NEW i \in KnownSlots(jobs), Mirrors(fgJob, jobs.slots[i])
               PROVE  Mirrors(k, u.slots[i])
    BY DEF StillMirrors
  <2> DEFINE f == u.slots[i]
  <2>1. /\ Moved(fgJob, k, x, "stopped") => Copies(k, f)
        /\ f.state = "STOPPED" <=> ~Runs(f) \/ fgJob.stopped
    BY <1>1, <1>2, <1>3, MirrorReaped DEF u, x
  <2>2. Copies(k, f) /\ (Runs(f) <=> Runs(k))
    BY <1>10, <2>1, CopiesSound
  <2> QED
    BY <1>9, <1>10, <1>12, <1>13, <2>1, <2>2 DEF Mirrors
<1>16. /\ TableInv(proc', u)
       /\ OwnedInv(proc', u, k)
       /\ \A i \in KnownSlots(u) : Apart(k, u.slots[i]) \/ Mirrors(k, u.slots[i])
       /\ (\A i \in KnownSlots(u) : Apart(k, u.slots[i])) =>
             /\ u = jobs
             /\ \A i \in KnownSlots(jobs) : Apart(fgJob, jobs.slots[i])
             /\ ~fgJob.stopped /\ fgJob.foreground /\ HasCapacity(jobs)
  <2>1. u = UpdateMember(jobs, p, ev) /\ k.members = fgJob.members /\ k.active
    BY <1>10 DEF u
  <2> HIDE DEF k
  <2>2. Reaped(proc', jobs, u, fgJob, k, ev)
    BY <1>1, <1>2, <1>15, <2>1, CurrentReaped
  <2> QED
    BY <1>2, <2>1, <2>2 DEF Reaped
<1>17. TableOK(u) /\ TableOK(r)
  BY <1>1, <1>2, <1>4, <1>10, <1>12, UpdateMemberType, RegisterStoppedType DEF u, r, Moved
<1> HIDE DEF k
<1>18. ASSUME ~new \/ \E i \in KnownSlots(u) : ~Apart(k, u.slots[i])
       PROVE  JobsInv(proc', u, k)
  <2>1. Registered(proc', u, k)
    BY <1>10, <1>16, <1>18 DEF Registered
  <2> QED
    BY <1>11, <1>12, <1>14, <1>16, <2>1 DEF JobsInv, CurrentInv
<1>19. CASE ~new
  BY <1>8, <1>17, <1>18, <1>19, TrimsService, TrimsJobs DEF ReplyToService, k
<1>20. CASE new
  <2>1. JobsInv(proc', r, k)
    <3>1. CASE \E i \in KnownSlots(u) : ~Apart(k, u.slots[i])
      <4>1. PICK i \in KnownSlots(u) : Mirrors(k, u.slots[i])
        BY <1>16, <3>1
      <4>2. Pgid(g) = u.slots[i].members[1] /\ u.slots[i].members # <<>>
        BY <1>4, <1>10, <1>12, <4>1 DEF Mirrors, Copies, Pgid
      <4>3. Pgid(g) \in Members(u.slots[i])
        <5>1. EntryOK(u.slots[i])
          BY <1>17, TableEntry
        <5>2. u.slots[i].members \in Seq(Pid)
          BY <5>1 DEF EntryOK, Entry
        <5>3. 1 \in 1..Len(u.slots[i].members)
          BY <4>2, <5>2
        <5> QED
          BY <4>2, <5>3 DEF Members
      <4>4. r = u
        BY <4>3 DEF r, RegisterStopped, KnownPids
      <4> QED
        BY <1>18, <3>1, <4>4
    <3>2. CASE \A i \in KnownSlots(u) : Apart(k, u.slots[i])
      <4>1. /\ u = jobs /\ HasCapacity(jobs)
            /\ \A i \in KnownSlots(jobs) : Apart(fgJob, jobs.slots[i])
        BY <1>16, <3>2
      <4>2. Members(g) = Members(fgJob) /\ g.members # <<>> /\ g.members \in Seq(Pid)
        BY <1>4, <1>10, <1>12, SameMembers DEF Moved, GroupOK
      <4>3. \A q \in Members(g) : q \notin KnownPids(jobs)
        BY <4>1, <4>2 DEF Apart, KnownPids
      <4>4. ~InUse(jobs, g.members) /\ Pgid(g) \notin KnownPids(jobs)
        <5>1. 1 \in 1..Len(g.members)
          BY <4>2
        <5> QED
          BY <4>3, <5>1 DEF InUse, Members, Pgid
      <4>5. PICK i \in 1..Cap : PutsJob(jobs, r, g, i, "STOPPED")
        BY <1>1, <1>4, <4>1, <4>2, <4>4, RegisterSucceeds DEF r
      <4>6. Gone(proc', g) /\ g.remaining # 0
        BY <1>10, <1>11, <1>12 DEF Gone, Copies
      <4>7. TableInv(proc', r)
        BY <1>7, <1>9, <1>13, <1>16, <1>20, <4>1, <4>5, <4>6, PutsTable
      <4>8. OwnedInv(proc', r, k)
        BY <1>1, <1>16, <4>1, <4>5, PutsPids DEF OwnedInv
      <4>9. Mirrors(k, r.slots[i]) /\ i \in KnownSlots(r)
        BY <1>10, <1>20, <4>5 DEF Mirrors, PutsJob, Copies
      <4>10. \A n \in KnownSlots(r) : Apart(k, r.slots[n]) \/ Mirrors(k, r.slots[n])
        <5>1. \A n \in KnownSlots(r) : n # i => r.slots[n] = u.slots[n] /\ n \in KnownSlots(u)
          BY <4>1, <4>5 DEF PutsJob
        <5> QED
          BY <3>2, <4>9, <5>1
      <4>11. ~Apart(k, r.slots[i])
        <5>1. Members(k) = Members(g) /\ Members(r.slots[i]) = Members(g)
          BY <1>10, <4>5, CopiesSound DEF PutsJob
        <5>2. p \in Members(g)
          BY <1>1, <4>2
        <5> QED
          BY <5>1, <5>2 DEF Apart
      <4>12. Registered(proc', r, k)
        BY <4>9, <4>11 DEF Registered
      <4> QED
        BY <1>11, <1>12, <1>14, <4>7, <4>8, <4>10, <4>12 DEF JobsInv, CurrentInv
    <3> QED
      BY <3>1, <3>2
  <2>2. TableOK(Prompt(r)) /\ Trims(r, Prompt(r))
    BY <1>17, PromptType, TrimsPrompt
  <2>3. JobsInv(proc', Prompt(r), k)
    BY <1>17, <2>1, <2>2, TrimsJobs
  <2> QED
    BY <1>8, <1>17, <1>20, <2>1, <2>2, <2>3, TrimsService, TrimsJobs
       DEF ReplyToService, k
<1> QED
  BY <1>19, <1>20

LEMMA JobsContinue ==
    ASSUME TypeOK, DistinctInv, JobsInv(proc, jobs, fgJob),
           NEW p \in Pid, InForeground(p), Take(p), ForegroundContinue(p)
    PROVE  JobsInv(proc', jobs', fgJob')
<1> DEFINE ev == EventOf(p)
           x  == MemberIndex(fgJob, p)
           g  == SetMember(fgJob, x, "running")
           u  == UpdateMember(jobs, p, ev)
           k  == fgJob'
<1>1. /\ TableOK(jobs) /\ JobOK(fgJob) /\ GroupOK(fgJob)
      /\ DistinctTable(jobs) /\ fgJob.active /\ p \in Members(fgJob)
  BY TypeParts, JobIsGroup DEF DistinctInv, InForeground
<1>2. Takes(proc, proc', p, ev) /\ ev \in Event /\ ev.kind = "continue"
  BY TakeTakes DEF ForegroundContinue
<1>3. CurrentInv(proc, jobs, fgJob) /\ TableInv(proc, jobs)
  BY <1>1 DEF JobsInv
<1>4. JobOK(g) /\ SameJob(fgJob, g) /\ Moved(fgJob, g, x, "running") /\ GroupOK(g)
  BY <1>1, SetMemberJob, JobSteps, JobIsGroup DEF MemberState
<1>5. k = [g EXCEPT !.stopped = FALSE] /\ ReplyToService(u)
  BY DEF ForegroundContinue
<1>6. fgJob.mstate[x] # "done" /\ x \in 1..Len(fgJob.members)
  BY <1>1, <1>2, <1>3, MemberLeft DEF Takes, CurrentInv
<1>7. /\ Sound(g) /\ g.mstate[x] = "running"
      /\ \A m \in 1..Len(fgJob.members) : m # x => g.mstate[m] = fgJob.mstate[m]
  BY <1>1, <1>3, <1>4, <1>6, MovedSound DEF CurrentInv
<1> HIDE DEF ev, x, g, u
<1>8. /\ Copies(g, k) /\ k.active /\ k.members = fgJob.members
      /\ Moved(fgJob, k, x, "running")
      /\ ~k.stopped /\ k.foreground = fgJob.foreground
  BY <1>1, <1>4, <1>5 DEF Copies, Moved, SameJob, JobOK, Job
<1> HIDE DEF k
<1>9. Gone(proc', k)
  <2>1. /\ \A m \in 1..Len(fgJob.members) : m # x => k.mstate[m] = fgJob.mstate[m]
        /\ k.mstate[x] # "done"
    BY <1>7, <1>8 DEF Copies
  <2> QED
    BY <1>1, <1>2, <1>3, <1>8, <2>1, GoneStep DEF CurrentInv, x
<1>10. Sound(k) /\ k.members # <<>> /\ k.remaining # 0
  BY <1>3, <1>7, <1>8, CopiesSound DEF CurrentInv, Moved
<1>11. StillMirrors(jobs, u, fgJob, k)
  <2> SUFFICES ASSUME NEW i \in KnownSlots(jobs), Mirrors(fgJob, jobs.slots[i])
               PROVE  Mirrors(k, u.slots[i])
    BY DEF StillMirrors
  <2>1. /\ Moved(fgJob, k, x, "running") => Copies(k, u.slots[i])
        /\ u.slots[i].state = "RUNNING"
    BY <1>1, <1>2, <1>3, MirrorReaped DEF u, x
  <2> QED
    BY <1>8, <2>1 DEF Mirrors
<1>12. /\ TableInv(proc', u)
       /\ OwnedInv(proc', u, k)
       /\ \A i \in KnownSlots(u) : Apart(k, u.slots[i]) \/ Mirrors(k, u.slots[i])
       /\ (\A i \in KnownSlots(u) : Apart(k, u.slots[i])) =>
             u = jobs /\ fgJob.foreground /\ HasCapacity(jobs)
  <2>1. u = UpdateMember(jobs, p, ev) /\ k.members = fgJob.members /\ k.active
    BY <1>8 DEF u
  <2>2. Reaped(proc', jobs, u, fgJob, k, ev)
    BY <1>1, <1>2, <1>11, <2>1, CurrentReaped
  <2> QED
    BY <1>2, <2>1, <2>2 DEF Reaped
<1>13. Registered(proc', u, k)
  BY <1>8, <1>12 DEF Registered
<1>14. JobsInv(proc', u, k)
  BY <1>8, <1>9, <1>10, <1>12, <1>13 DEF JobsInv, CurrentInv
<1>15. TableOK(u)
  BY <1>1, <1>2, UpdateMemberType DEF u
<1> QED
  BY <1>5, <1>14, <1>15, TrimsService, TrimsJobs DEF ReplyToService, k

(* The foreground job after an exit that is recorded. *)
LEMMA CurrentExit ==
    ASSUME TypeOK, DistinctInv, JobsInv(proc, jobs, fgJob),
           NEW p \in Pid, InForeground(p), Take(p), EventOf(p).kind = "exit",
           NEW g, g = ExitMember(fgJob, MemberIndex(fgJob, p), EventOf(p).status)
    PROVE  /\ JobOK(g) /\ SameJob(fgJob, g)
           /\ Ended(fgJob, g, MemberIndex(fgJob, p), EventOf(p).status)
           /\ Sound(g) /\ Gone(proc', g)
           /\ Runs(g) => Runs(fgJob)
<1> DEFINE ev == EventOf(p)
           x  == MemberIndex(fgJob, p)
<1>1. JobOK(fgJob) /\ GroupOK(fgJob) /\ fgJob.active /\ p \in Members(fgJob)
  BY TypeParts, JobIsGroup DEF InForeground
<1>2. /\ Takes(proc, proc', p, ev) /\ ev \in Event /\ ev.status \in Nat
      /\ ev.kind = "exit"
  BY TakeTakes DEF Event
<1>3. CurrentInv(proc, jobs, fgJob)
  BY <1>1 DEF JobsInv
<1>4. JobOK(g) /\ SameJob(fgJob, g) /\ Ended(fgJob, g, x, ev.status) /\ GroupOK(g)
  BY <1>1, <1>2, ExitMemberJob, JobSteps, JobIsGroup
<1>5. fgJob.mstate[x] # "done" /\ x \in 1..Len(fgJob.members)
  BY <1>1, <1>2, <1>3, MemberLeft DEF Takes, CurrentInv
<1>6. /\ Sound(g) /\ g.mstate[x] = "done"
      /\ \A m \in 1..Len(fgJob.members) : m # x => g.mstate[m] = fgJob.mstate[m]
  BY <1>1, <1>2, <1>3, <1>4, <1>5, EndedSound DEF CurrentInv
<1>7. Gone(proc', g)
  <2>1. g.members = fgJob.members /\ Gone(proc, fgJob) /\ Sound(fgJob)
    BY <1>3, <1>4 DEF CurrentInv, Ended
  <2> HIDE DEF ev, x
  <2> QED
    BY <1>1, <1>2, <1>6, <2>1, GoneStep DEF x
<1>8. Runs(g) => Runs(fgJob)
  BY <1>4, <1>6 DEF Runs, Ended
<1> QED
  BY <1>4, <1>6, <1>7, <1>8

LEMMA JobsExit ==
    ASSUME TypeOK, DistinctInv, JobsInv(proc, jobs, fgJob),
           NEW p \in Pid, InForeground(p), Take(p), ForegroundExit(p)
    PROVE  JobsInv(proc', jobs', fgJob')
<1> DEFINE ev == EventOf(p)
           x  == MemberIndex(fgJob, p)
           g  == ExitMember(fgJob, x, ev.status)
           u  == UpdateMember(jobs, p, ev)
<1>1. /\ TableOK(jobs) /\ JobOK(fgJob) /\ DistinctTable(jobs)
      /\ fgJob.active /\ p \in Members(fgJob)
  BY TypeParts DEF DistinctInv, InForeground
<1>2. Takes(proc, proc', p, ev) /\ ev \in Event /\ ev.kind = "exit"
  BY TakeTakes DEF ForegroundExit
<1>3. CurrentInv(proc, jobs, fgJob) /\ TableInv(proc, jobs)
  BY <1>1 DEF JobsInv
<1>4. fgJob' = g /\ g.remaining # 0 /\ ReplyToService(u)
  BY DEF ForegroundExit
<1>5. /\ JobOK(g) /\ SameJob(fgJob, g) /\ Ended(fgJob, g, x, ev.status)
      /\ Sound(g) /\ Gone(proc', g) /\ (Runs(g) => Runs(fgJob))
  BY <1>2, CurrentExit
<1> HIDE DEF ev, x, g, u
<1>6. /\ g.members # <<>> /\ (g.stopped => ~Runs(g)) /\ Members(g) = Members(fgJob)
      /\ g.active
  BY <1>1, <1>3, <1>5, SameMembers DEF CurrentInv, SameJob
<1>7. StillMirrors(jobs, u, fgJob, g)
  <2> SUFFICES ASSUME NEW i \in KnownSlots(jobs), Mirrors(fgJob, jobs.slots[i])
               PROVE  Mirrors(g, u.slots[i])
    BY DEF StillMirrors
  <2>1. /\ Ended(fgJob, g, x, ev.status) => Copies(g, u.slots[i])
        /\ u.slots[i].remaining # 0 =>
              (u.slots[i].state = "STOPPED" <=> fgJob.stopped)
    BY <1>1, <1>2, <1>3, MirrorReaped DEF u, x
  <2> QED
    BY <1>4, <1>5, <2>1 DEF Mirrors, Copies, SameJob
<1>8. /\ TableInv(proc', u)
      /\ OwnedInv(proc', u, g)
      /\ \A i \in KnownSlots(u) : Apart(g, u.slots[i]) \/ Mirrors(g, u.slots[i])
      /\ (\A i \in KnownSlots(u) : Apart(g, u.slots[i])) =>
            /\ u = jobs
            /\ \A i \in KnownSlots(jobs) : Apart(fgJob, jobs.slots[i])
            /\ ~fgJob.stopped
            /\ fgJob.foreground => HasCapacity(jobs)
  <2>1. u = UpdateMember(jobs, p, ev) /\ g.members = fgJob.members /\ g.active
    BY <1>5, <1>6 DEF u, SameJob
  <2>2. Reaped(proc', jobs, u, fgJob, g, ev)
    BY <1>1, <1>2, <1>7, <2>1, CurrentReaped
  <2> QED
    BY <2>1, <2>2 DEF Reaped
<1>9. ASSUME \A i \in KnownSlots(u) : Apart(g, u.slots[i]), ~g.foreground,
             NEW q \in Members(g)
      PROVE  proc'[q].life \in {"zombie", "free"} /\ proc'[q].event = "none"
  <2>1. proc[q].life \in {"zombie", "free"} /\ proc[q].event = "none"
    BY <1>3, <1>5, <1>6, <1>8, <1>9 DEF CurrentInv, Registered, SameJob
  <2>2. CASE q = p
    BY <1>2, <2>2 DEF Takes, NoProcess
  <2>3. CASE q # p
    <3>1. q \in Pid
      BY <1>5, <1>9, MembersPids, JobIsGroup
    <3> QED
      BY <1>2, <2>1, <2>3, <3>1 DEF Takes
  <2> QED
    BY <2>2, <2>3
<1>10. Registered(proc', u, g)
  BY <1>5, <1>8, <1>9 DEF Registered, SameJob
<1>11. JobsInv(proc', u, g)
  BY <1>4, <1>5, <1>6, <1>8, <1>10 DEF JobsInv, CurrentInv
<1>12. TableOK(u)
  BY <1>1, <1>2, UpdateMemberType DEF u
<1> QED
  BY <1>4, <1>11, <1>12, TrimsService, TrimsJobs DEF ReplyToService

LEMMA JobsFinish ==
    ASSUME TypeOK, DistinctInv, JobsInv(proc, jobs, fgJob),
           NEW p \in Pid, InForeground(p), Take(p), FinishForeground(p)
    PROVE  JobsInv(proc', jobs', fgJob')
<1> DEFINE ev == EventOf(p)
           x  == MemberIndex(fgJob, p)
           g  == ExitMember(fgJob, x, ev.status)
           u  == UpdateMember(jobs, p, ev)
           r  == RemoveTracked(u, g)
<1>1. /\ TableOK(jobs) /\ JobOK(fgJob) /\ DistinctTable(jobs)
      /\ fgJob.active /\ p \in Members(fgJob)
  BY TypeParts DEF DistinctInv, InForeground
<1>2. Takes(proc, proc', p, ev) /\ ev \in Event /\ ev.kind = "exit"
  BY TakeTakes DEF FinishForeground
<1>3. CurrentInv(proc, jobs, fgJob) /\ TableInv(proc, jobs)
  BY <1>1 DEF JobsInv
<1>4. /\ fgJob' = NoJob /\ g.remaining = 0
      /\ jobs' = u \/ jobs' = ContinueTable(r)
  BY DEF FinishForeground
<1>5. /\ JobOK(g) /\ SameJob(fgJob, g) /\ Ended(fgJob, g, x, ev.status)
      /\ Sound(g) /\ Gone(proc', g)
  BY <1>2, CurrentExit
<1>6. /\ TableInv(proc', u)
      /\ KnownSlots(u) = KnownSlots(jobs)
      /\ \A i \in KnownSlots(jobs) : u.slots[i].members = jobs.slots[i].members
  BY <1>1, <1>2, <1>3, TableReaped
<1>7. TableOK(u) /\ DistinctTable(u)
  BY <1>1, <1>2, UpdateMemberType, KeepsDistinct
<1> HIDE DEF ev, x, g, u, r
<1>8. \A q \in Members(fgJob) : ~Living(proc', q)
  <2> TAKE q \in Members(fgJob)
  <2>1. PICK m \in 1..Len(g.members) : q = g.members[m]
    BY <1>5 DEF SameJob, Members
  <2>2. g.mstate[m] = "done"
    BY <1>4, <1>5, <2>1, NoneLeft, JobIsGroup
  <2> QED
    BY <1>5, <2>1, <2>2 DEF Gone, Living, NoProcess
<1>9. OwnedInv(proc', u, NoJob)
  <2>1. KnownPids(u) = KnownPids(jobs)
    BY <1>6, SamePids
  <2> QED
    BY <1>2, <1>8, <2>1 DEF JobsInv, OwnedInv, Takes, Living
<1>10. JobsInv(proc', u, NoJob)
  BY <1>6, <1>9 DEF JobsInv, NoJob
<1>11. \A i \in KnownSlots(u) :
           Pgid(g) \in Members(u.slots[i]) => u.slots[i].state = "DONE"
  <2> SUFFICES ASSUME NEW i \in KnownSlots(u), Pgid(g) \in Members(u.slots[i])
               PROVE  u.slots[i].state = "DONE"
    OBVIOUS
  <2>1. Pgid(g) \in Members(fgJob)
    <3>1. g.members = fgJob.members /\ fgJob.members # <<>> /\ fgJob.members \in Seq(Pid)
      BY <1>1, <1>3, <1>5 DEF CurrentInv, SameJob, JobOK, Job
    <3> QED
      BY <3>1 DEF Pgid, Members
  <2>2. Pgid(g) \in Members(jobs.slots[i])
    BY <1>6, SameMembers
  <2>3. Mirrors(fgJob, jobs.slots[i])
    BY <1>3, <1>6, <2>1, <2>2 DEF CurrentInv, Apart
  <2>4. /\ Ended(fgJob, g, x, ev.status) => Copies(g, u.slots[i])
        /\ u.slots[i].remaining = 0 => u.slots[i].state = "DONE"
    BY <1>1, <1>2, <1>3, <1>6, <2>3, MirrorReaped DEF u, x
  <2> QED
    BY <1>4, <1>5, <2>4 DEF Copies
<1>12. TableOK(r) /\ Trims(u, r)
  BY <1>7, <1>11, RemoveTrackedType, TrimsRemoveTracked DEF r
<1>13. JobsInv(proc', r, NoJob)
  BY <1>7, <1>10, <1>12, TrimsJobs
<1>14. JobsInv(proc', ContinueTable(r), NoJob)
  BY <1>12, <1>13, TrimsContinue, TrimsJobs
<1> QED
  BY <1>4, <1>10, <1>14

(* A child in the table, and one that no table knows.                      *)
LEMMA JobsBackground ==
    ASSUME TypeOK, DistinctInv, JobsInv(proc, jobs, fgJob),
           NEW p \in Pid, ReapBackground(p)
    PROVE  JobsInv(proc', jobs', fgJob')
<1> DEFINE ev == EventOf(p)
           u  == UpdateMember(jobs, p, ev)
           t  == Noticed(p)
           a  == AfterWait(t, waitFor)
           r  == ContinueTable(a)
<1>1. TableOK(jobs) /\ DistinctTable(jobs) /\ JobOK(fgJob)
  BY TypeParts DEF DistinctInv
<1>2. Take(p) /\ ~InForeground(p)
  BY DEF ReapBackground
<1>3. Takes(proc, proc', p, ev) /\ ev \in Event
  BY <1>2, TakeTakes
<1>4. JobsInv(proc', u, fgJob)
  BY <1>1, <1>2, <1>3, OtherReaped DEF InForeground
<1>5. TableOK(u) /\ TableOK(t)
  BY <1>1, <1>3, UpdateMemberType, NoticedType
<1>6. Trims(u, t)
  BY <1>5, TrimsMark DEF Noticed
<1>7. fgJob' = fgJob
  BY DEF ReapBackground
<1>8. IF mode = "WAIT" /\ WaitSatisfied(t, waitFor)
      THEN jobs' = ServiceTable(r) ELSE ReplyToService(t)
  BY DEF ReapBackground
<1> HIDE DEF u, t
<1>9. JobsInv(proc', t, fgJob)
  BY <1>4, <1>5, <1>6, TrimsJobs
<1>10. CASE mode = "WAIT" /\ WaitSatisfied(t, waitFor)
  <2>1. TableOK(a) /\ Trims(t, a)
    BY <1>5, <1>10, AfterWaitType, TrimsAfterWait
  <2> HIDE DEF a
  <2>2. TableOK(r) /\ Trims(a, r)
    BY <2>1, ContinueTableType, TrimsContinue
  <2> HIDE DEF r
  <2>3. JobsInv(proc', r, fgJob)
    BY <1>5, <1>9, <2>1, <2>2, TrimsJobs
  <2> QED
    BY <1>7, <1>8, <1>10, <2>2, <2>3, TrimsService, TrimsJobs
<1>11. CASE ~(mode = "WAIT" /\ WaitSatisfied(t, waitFor))
  BY <1>5, <1>7, <1>8, <1>9, <1>11, TrimsService, TrimsJobs DEF ReplyToService
<1> QED
  BY <1>10, <1>11

LEMMA JobsUnknown ==
    ASSUME TypeOK, DistinctInv, JobsInv(proc, jobs, fgJob),
           NEW p \in Pid, ReapUnknown(p)
    PROVE  JobsInv(proc', jobs', fgJob')
<1>1. TableOK(jobs) /\ DistinctTable(jobs) /\ JobOK(fgJob)
  BY TypeParts DEF DistinctInv
<1>2. Take(p) /\ ~InForeground(p) /\ p \notin KnownPids(jobs)
  BY DEF ReapUnknown
<1>3. Takes(proc, proc', p, EventOf(p)) /\ EventOf(p) \in Event
  BY <1>2, TakeTakes
<1>4. UpdateMember(jobs, p, EventOf(p)) = jobs
  BY <1>2, UpdateUnknown
<1>5. JobsInv(proc', jobs, fgJob)
  BY <1>1, <1>2, <1>3, <1>4, OtherReaped DEF InForeground
<1>6. fgJob' = fgJob /\ ReplyToService(jobs)
  BY DEF ReapUnknown
<1> QED
  BY <1>1, <1>5, <1>6, TrimsService, TrimsJobs DEF ReplyToService

LEMMA JobsReap ==
    ASSUME TypeOK, DistinctInv, JobsInv(proc, jobs, fgJob),
           NEW p \in Pid, Reap(p)
    PROVE  JobsInv(proc', jobs', fgJob')
BY JobsStop, JobsContinue, JobsExit, JobsFinish, JobsBackground, JobsUnknown
   DEF Reap, ReapForeground

(***************************************************************************)
(* The children run on their own.                                          *)
(***************************************************************************)
LEMMA ResumedLives ==
    ASSUME proc \in [Pid -> Process], NEW S
    PROVE  LivesOn(proc, Resumed(S))
BY DEF LivesOn, Resumed, Living

LEMMA JobsChildren ==
    ASSUME TypeOK, JobsInv(proc, jobs, fgJob), Children
    PROVE  JobsInv(proc', jobs', fgJob')
<1>1. TableOK(jobs) /\ JobOK(fgJob) /\ proc \in [Pid -> Process]
  BY TypeParts
<1>2. LivesOn(proc, proc') /\ jobs' = jobs /\ fgJob' = fgJob
  <2>1. ASSUME NEW p \in Pid, ProcStop(p)
        PROVE  LivesOn(proc, proc') /\ jobs' = jobs /\ fgJob' = fgJob
    BY <1>1, <2>1 DEF ProcStop, LivesOn, Living
  <2>2. ASSUME NEW p \in Pid, ProcContinue(p)
        PROVE  LivesOn(proc, proc') /\ jobs' = jobs /\ fgJob' = fgJob
    BY <1>1, <2>2, ResumedLives DEF ProcContinue
  <2>3. ASSUME NEW p \in Pid, NEW s, ProcExit(p, s)
        PROVE  LivesOn(proc, proc') /\ jobs' = jobs /\ fgJob' = fgJob
    BY <1>1, <2>3 DEF ProcExit, LivesOn, Living, Zombie
  <2> QED
    BY <2>1, <2>2, <2>3 DEF Children
<1> QED
  BY <1>1, <1>2, LivesOnJobs

(***************************************************************************)
(* Forks.  The pids the kernel gives out are those of no job.              *)
(***************************************************************************)
(* The processes S of no job of the table change. *)
LEMMA StrangersTable ==
    ASSUME NEW pr, NEW t, TableOK(t), TableInv(pr, t), NEW S,
           S \cap KnownPids(t) = {},
           NEW qr, \A q \in Pid : q \notin S => qr[q] = pr[q]
    PROVE  TableInv(qr, t)
<1> SUFFICES ASSUME NEW i \in KnownSlots(t)
             PROVE  SoundEntry(t.slots[i]) /\ Gone(qr, t.slots[i])
  BY DEF TableInv
<1>1. SoundEntry(t.slots[i]) /\ Gone(pr, t.slots[i]) /\ GroupOK(t.slots[i])
  BY TableEntry, EntryIsGroup DEF TableInv
<1>2. \A m \in 1..Len(t.slots[i].members) :
          /\ t.slots[i].members[m] \in Pid
          /\ t.slots[i].members[m] \notin S
  BY <1>1, GroupArrays DEF KnownPids, Members
<1> QED
  BY <1>1, <1>2 DEF Gone

(* A foreground job that has just been forked: it has the terminal and a   *)
(* slot is left for it, or it was killed.                                  *)
LEMMA JobsLaunched ==
    ASSUME NEW pr, NEW t, TableOK(t), TableInv(pr, t), OwnedInv(pr, t, NoJob),
           NEW j, Sound(j), j.active, ~j.stopped, j.members # <<>>,
           j.remaining # 0, \A m \in 1..Len(j.members) : j.mstate[m] # "done",
           Members(j) \subseteq Pid, Members(j) \cap KnownPids(t) = {},
           j.foreground => HasCapacity(t),
           NEW r, ~j.foreground => r = Zombie(KillStatus),
           NEW qr,
           \A q \in Pid : qr[q] = IF q \in Members(j) THEN r ELSE pr[q]
    PROVE  JobsInv(qr, t, j)
<1>1. Gone(qr, j)
  BY DEF Gone
<1>2. TableInv(qr, t)
  <2> DEFINE S == Members(j)
  <2>1. S \cap KnownPids(t) = {} /\ \A q \in Pid : q \notin S => qr[q] = pr[q]
    OBVIOUS
  <2> HIDE DEF S
  <2> QED
    BY <2>1, StrangersTable
<1>3. \A i \in KnownSlots(t) : Apart(j, t.slots[i])
  <2>1. \A i \in KnownSlots(t) : Members(t.slots[i]) \subseteq KnownPids(t)
    BY DEF KnownPids
  <2> QED
    BY <2>1 DEF Apart
<1>4. Registered(qr, t, j)
  BY DEF Registered, Zombie
<1>5. OwnedInv(qr, t, j)
  BY DEF OwnedInv, NoJob, Living
<1> QED
  BY <1>1, <1>2, <1>3, <1>4, <1>5 DEF JobsInv, CurrentInv

(* Without reuse, the members of a launch belong to no job.                *)
LEMMA FreshPids ==
    ASSUME ~PidReuse, NEW p \in FreePids
    PROVE  p \in Pid /\ p \notin KnownPids(jobs) /\ ~InForeground(p)
BY DEF FreePids, InForeground

LEMMA JobsForeground ==
    ASSUME ~PidReuse, TypeOK, JobsInv(proc, jobs, fgJob), ~fgJob.active,
           NEW n \in 1..MaxMembers, NEW members \in FreshMembers(n),
           NEW count \in 1..n, NEW pipefail \in BOOLEAN,
           NEW f \in BOOLEAN, NEW x \in BOOLEAN, f => HasCapacity(jobs),
           NEW r, ~f => r = Zombie(KillStatus),
           proc' = Assigned({members[i] : i \in DOMAIN members}, r),
           fgJob' = JobOf(NewGroup(members, count, pipefail), f, FALSE, x),
           jobs' = jobs \/ jobs' = Prompt(jobs)
    PROVE  JobsInv(proc', jobs', fgJob')
<1> DEFINE S == {members[i] : i \in DOMAIN members}
<1>1. TableOK(jobs) /\ proc \in [Pid -> Process]
  BY TypeParts
<1>2. /\ members \in Seq(Pid) /\ Len(members) = n /\ count \in 1..Len(members)
      /\ Injective(members)
  BY FreshMembersType DEF Injective
<1>3. S \subseteq Pid /\ S \cap KnownPids(jobs) = {}
  <2>1. \A i \in DOMAIN members : members[i] \in FreePids
    BY <1>2 DEF FreshMembers
  <2> QED
    BY <2>1, FreshPids
<1>4. TableInv(proc, jobs) /\ OwnedInv(proc, jobs, NoJob)
  BY DEF JobsInv, OwnedInv
<1>5. \A q \in Pid : proc'[q] = IF q \in S THEN r ELSE proc[q]
  BY DEF Assigned
<1> DEFINE g == NewGroup(members, count, pipefail)
           j == JobOf(g, f, FALSE, x)
<1>6. /\ GroupOK(g) /\ g.members = members /\ members # <<>>
      /\ Sound(g) /\ g.remaining # 0
      /\ \A m \in 1..Len(members) : g.mstate[m] # "done"
  BY <1>2, NewGroupType, NewGroupSound
<1> HIDE DEF g
<1>7. Copies(g, j) /\ j.active /\ j.foreground = f /\ ~j.stopped /\ fgJob' = j
  BY DEF JobOf, Copies, g
<1> HIDE DEF j
<1>8. /\ Sound(j) /\ j.members = members /\ j.remaining # 0
      /\ \A m \in 1..Len(j.members) : j.mstate[m] # "done"
  BY <1>6, <1>7, CopiesSound DEF Copies
<1>9. Members(j) = S
  <2>1. DOMAIN members = 1..Len(members)
    BY <1>2
  <2> QED
    BY <1>8, <2>1 DEF Members
<1> HIDE DEF S
<1>10. JobsInv(proc', jobs, j)
  BY <1>1, <1>3, <1>4, <1>5, <1>6, <1>7, <1>8, <1>9, JobsLaunched, ZenonT(60)
<1> QED
  BY <1>1, <1>7, <1>10, TrimsPrompt, TrimsJobs

(* A background job: its entry takes a free slot, or that of a job that is *)
(* done and was shown.                                                     *)
LEMMA AddedCurrent ==
    ASSUME NEW pr, NEW t, NEW j, JobOK(j), TableInv(pr, t), CurrentInv(pr, t, j),
           ~j.foreground, NEW p \in Pid, p \notin Members(j),
           NEW qr, \A q \in Pid : q # p => qr[q] = pr[q],
           NEW g, Members(g) = {p}, NEW i, NEW u, PutsJob(t, u, g, i, "RUNNING")
    PROVE  CurrentInv(qr, u, j)
<1>1. Gone(qr, j)
  BY GroupArrays, JobIsGroup DEF CurrentInv, Gone, Members
<1>2. Apart(j, u.slots[i])
  <2>1. Members(u.slots[i]) = {p}
    BY CopiesSound DEF PutsJob
  <2> QED
    BY <2>1 DEF Apart
<1>3. \A k \in KnownSlots(u) : Apart(j, u.slots[k]) \/ Mirrors(j, u.slots[k])
  BY <1>2 DEF PutsJob, CurrentInv
<1>4. ASSUME \A k \in KnownSlots(u) : Apart(j, u.slots[k])
      PROVE  \A k \in KnownSlots(t) : Apart(j, t.slots[k])
  <2> TAKE k \in KnownSlots(t)
  <2>1. CASE k = i
    BY <2>1, MirrorNotDone DEF PutsJob, Reclaimable
  <2>2. CASE k # i
    BY <1>4, <2>2 DEF PutsJob
  <2> QED
    BY <2>1, <2>2
<1>5. Registered(qr, u, j)
  <2>1. Members(j) \subseteq Pid
    BY MembersPids, JobIsGroup
  <2> QED
    BY <1>4, <2>1 DEF CurrentInv, Registered
<1> QED
  BY <1>1, <1>3, <1>5 DEF CurrentInv

LEMMA JobsLaunchBackground ==
    ASSUME ~PidReuse, TypeOK, TerminalOwnership, JobsInv(proc, jobs, fgJob),
           NEW p \in Pid, LaunchBackground(p)
    PROVE  JobsInv(proc', jobs', fgJob')
<1> DEFINE g == NewGroup(<<p>>, 1, FALSE)
           u == AddJob(jobs, g)
<1>1. TableOK(jobs) /\ JobOK(fgJob) /\ proc \in [Pid -> Process]
  BY TypeParts
<1>2. /\ p \notin KnownPids(jobs) /\ ~InForeground(p) /\ HasCapacity(jobs)
      /\ mode = "EDITOR" /\ fgJob' = fgJob
  BY FreshPids DEF LaunchBackground, AtEditor
<1>3. <<p>> \in Seq(Pid) /\ 1 \in 1..Len(<<p>>) /\ Injective(<<p>>)
  BY DEF Injective
<1>4. /\ GroupOK(g) /\ g.members = <<p>> /\ g.members # <<>>
      /\ Sound(g) /\ g.remaining # 0
      /\ \A m \in 1..Len(g.members) : g.mstate[m] # "done"
  BY <1>3, NewGroupType, NewGroupSound, ZenonT(60)
<1>5. ~InUse(jobs, <<p>>)
  BY <1>2 DEF InUse
<1>6. proc' = Assigned({p}, Running) /\ jobs' = Prompt(u)
  BY <1>2, <1>5 DEF LaunchBackground, CanAdd
<1> HIDE DEF g
<1>7. PICK i \in 1..Cap : PutsJob(jobs, u, g, i, "RUNNING")
  BY <1>1, <1>2, <1>4, <1>5, AddJobSucceeds
<1>8. TableOK(u)
  BY <1>1, <1>4, AddJobType
<1> HIDE DEF u
<1>9. \A q \in Pid : q # p => proc'[q] = proc[q]
  BY <1>6 DEF Assigned
<1>10. TableInv(proc', jobs)
  <2>1. {p} \cap KnownPids(jobs) = {} /\ \A q \in Pid : q \notin {p} => proc'[q] = proc[q]
    BY <1>2, <1>9
  <2>2. TableInv(proc, jobs)
    BY DEF JobsInv
  <2> QED
    BY <1>1, <2>1, <2>2, StrangersTable
<1>11. Members(g) = {p}
  BY <1>4 DEF Members
<1>12. TableInv(proc', u)
  BY <1>4, <1>7, <1>10, PutsTable DEF Gone
<1>13. OwnedInv(proc', u, fgJob)
  BY <1>1, <1>7, <1>9, <1>10, <1>11, PutsPids DEF JobsInv, OwnedInv, Living
<1>14. ASSUME fgJob.active PROVE CurrentInv(proc', u, fgJob)
  <2>1. ~fgJob.foreground /\ p \notin Members(fgJob)
    BY <1>2, <1>14 DEF TerminalOwnership, InForeground
  <2>2. CurrentInv(proc, jobs, fgJob) /\ TableInv(proc, jobs)
    BY <1>14 DEF JobsInv
  <2> QED
    BY <1>1, <1>7, <1>9, <1>11, <2>1, <2>2, AddedCurrent
<1>15. JobsInv(proc', u, fgJob)
  BY <1>12, <1>13, <1>14 DEF JobsInv
<1> QED
  BY <1>2, <1>6, <1>8, <1>15, TrimsPrompt, TrimsJobs

LEMMA JobsLaunch ==
    ASSUME ~PidReuse, TypeOK, TerminalOwnership, JobsInv(proc, jobs, fgJob), Launch
    PROVE  JobsInv(proc', jobs', fgJob')
<1>1. ASSUME \/ BackgroundRefused \/ CompoundForkFails
             \/ \E compound \in BOOLEAN : LaunchRefused(compound)
      PROVE  JobsInv(proc', jobs', fgJob')
  <2>1. proc' = proc /\ fgJob' = fgJob /\ jobs' = Prompt(jobs)
    BY <1>1 DEF BackgroundRefused, Answer, idle, CompoundForkFails, LaunchRefused
  <2> QED
    BY <2>1, TypeParts, TrimsPrompt, TrimsJobs
<1>2. ASSUME NEW n \in 1..MaxMembers, NEW members \in FreshMembers(n),
             PipelineForkFails(members)
      PROVE  JobsInv(proc', jobs', fgJob')
  <2>1. Len(members) = n /\ n \in 1..n
    BY FreshMembersType
  <2>2. /\ ~fgJob.active
        /\ proc' = Assigned({members[i] : i \in DOMAIN members}, Zombie(KillStatus))
        /\ fgJob' = JobOf(NewGroup(members, n, FALSE), FALSE, FALSE, FALSE)
        /\ jobs' = Prompt(jobs)
    BY <1>2, <2>1 DEF PipelineForkFails, CanStart, Fork
  <2> QED
    BY <2>1, <2>2, JobsForeground
<1>3. ASSUME NEW n \in 1..MaxMembers, NEW members \in FreshMembers(n),
             NEW count \in 1..n, NEW pipefail \in BOOLEAN,
             NEW compound \in BOOLEAN,
             LaunchForeground(members, count, pipefail, compound)
      PROVE  JobsInv(proc', jobs', fgJob')
  <2>1. /\ ~fgJob.active /\ HasCapacity(jobs)
        /\ proc' = Assigned({members[i] : i \in DOMAIN members}, Running)
        /\ fgJob' = JobOf(NewGroup(members, count, pipefail), TRUE, FALSE, compound)
        /\ jobs' = jobs
    BY <1>3 DEF LaunchForeground, CanStart, Fork
  <2> QED
    BY <2>1, JobsForeground
<1>4. ASSUME NEW n \in 1..MaxMembers, NEW members \in FreshMembers(n),
             NEW count \in 1..n, NEW pipefail \in BOOLEAN,
             NEW compound \in BOOLEAN,
             HandoffFails(members, count, pipefail, compound)
      PROVE  JobsInv(proc', jobs', fgJob')
  <2>1. /\ ~fgJob.active
        /\ proc' = Assigned({members[i] : i \in DOMAIN members}, Zombie(KillStatus))
        /\ fgJob' = JobOf(NewGroup(members, count, pipefail), FALSE, FALSE, FALSE)
        /\ jobs' = Prompt(jobs)
    BY <1>4 DEF HandoffFails, CanStart, Fork
  <2> QED
    BY <2>1, JobsForeground
<1> QED
  BY <1>1, <1>2, <1>3, <1>4, JobsLaunchBackground DEF Launch

(***************************************************************************)
(* fg, bg and the other builtins.                                          *)
(***************************************************************************)
(* The foreground job's entry is a copy of it. *)
LEMMA SameGroupMirrors ==
    ASSUME TypeOK, JobsInv(proc, jobs, fgJob), NEW i \in KnownSlots(jobs)
    PROVE  /\ SameGroup(jobs.slots[i]) => Mirrors(fgJob, jobs.slots[i])
           /\ fgJob.active /\ ~SameGroup(jobs.slots[i]) => Apart(fgJob, jobs.slots[i])
<1> SUFFICES ASSUME fgJob.active
             PROVE  /\ SameGroup(jobs.slots[i]) => Mirrors(fgJob, jobs.slots[i])
                    /\ ~SameGroup(jobs.slots[i]) => Apart(fgJob, jobs.slots[i])
  BY DEF SameGroup
<1>1. /\ Apart(fgJob, jobs.slots[i]) \/ Mirrors(fgJob, jobs.slots[i])
      /\ fgJob.members # <<>>
  BY DEF JobsInv, CurrentInv
<1>2. fgJob.members \in Seq(Pid)
  BY TypeParts DEF JobOK, Job
<1>3. jobs.slots[i].members \in Seq(Pid) /\ jobs.slots[i].members # <<>>
  BY TableEntry, TypeParts DEF EntryOK, Entry
<1>4. /\ Pgid(fgJob) \in Members(fgJob)
      /\ Pgid(jobs.slots[i]) \in Members(jobs.slots[i])
  BY <1>1, <1>2, <1>3 DEF Pgid, Members
<1>5. SameGroup(jobs.slots[i]) => ~Apart(fgJob, jobs.slots[i])
  BY <1>4 DEF SameGroup, Apart
<1>6. Mirrors(fgJob, jobs.slots[i]) => SameGroup(jobs.slots[i])
  BY DEF Mirrors, Copies, SameGroup, Pgid
<1> QED
  BY <1>1, <1>5, <1>6

(* At the prompt the foreground job may be dropped: it has an entry, or    *)
(* none of its processes lives.                                            *)
LEMMA JobsDropped ==
    ASSUME TypeOK, TerminalOwnership, mode = "EDITOR", JobsInv(proc, jobs, fgJob)
    PROVE  JobsInv(proc, jobs, NoJob)
<1>1. ASSUME NEW p \in Pid, Living(proc, p), fgJob.active, p \in Members(fgJob)
      PROVE  p \in KnownPids(jobs)
  <2>1. ~fgJob.foreground
    BY <1>1 DEF TerminalOwnership
  <2>2. CurrentInv(proc, jobs, fgJob)
    BY <1>1 DEF JobsInv
  <2>3. ~\A i \in KnownSlots(jobs) : Apart(fgJob, jobs.slots[i])
    BY <1>1, <2>1, <2>2 DEF CurrentInv, Registered, Living
  <2>4. PICK i \in KnownSlots(jobs) : Mirrors(fgJob, jobs.slots[i])
    BY <2>2, <2>3 DEF CurrentInv
  <2>5. p \in Members(jobs.slots[i])
    BY <1>1, <2>4, CopiesSound DEF Mirrors
  <2> QED
    BY <2>5 DEF KnownPids
<1> QED
  BY <1>1 DEF JobsInv, OwnedInv, NoJob

(* A foreground job taken from an entry. *)
LEMMA JobsAdopted ==
    ASSUME NEW pr, NEW t, TableOK(t), DistinctTable(t), JobsInv(pr, t, NoJob),
           NEW i \in KnownSlots(t), t.slots[i].state # "DONE",
           NEW j, Mirrors(j, t.slots[i])
    PROVE  JobsInv(pr, t, j)
<1> DEFINE e == t.slots[i]
<1>1. SoundEntry(e) /\ Gone(pr, e) /\ EntryOK(e)
  BY TableEntry DEF JobsInv, TableInv
<1>2. Copies(j, e) /\ Sound(j) /\ (Runs(j) <=> Runs(e)) /\ Members(j) = Members(e)
  BY <1>1, CopiesSound DEF Mirrors, SoundEntry
<1>3. /\ Gone(pr, j) /\ j.members # <<>> /\ j.remaining # 0
      /\ j.stopped => ~Runs(j)
  BY <1>1, <1>2 DEF Gone, Copies, Mirrors, EntryOK, SoundEntry
<1>4. \A k \in KnownSlots(t) : Apart(j, t.slots[k]) \/ Mirrors(j, t.slots[k])
  BY <1>2 DEF Apart, DistinctTable
<1>5. ~Apart(j, e)
  <2>1. Pgid(e) \in Members(e)
    BY <1>1 DEF EntryOK, Entry, Pgid, Members
  <2> QED
    BY <1>2, <2>1 DEF Apart
<1>6. Registered(pr, t, j)
  BY <1>5 DEF Registered
<1>7. TableInv(pr, t) /\ OwnedInv(pr, t, j)
  BY DEF JobsInv, OwnedInv, NoJob
<1> QED
  BY <1>2, <1>3, <1>4, <1>6, <1>7 DEF JobsInv, CurrentInv

(* gsh_background_continue_job of a job that is not done.                  *)
LEMMA ContinueKnown ==
    ASSUME NEW t, TableOK(t), DistinctTable(t), NEW i \in KnownSlots(t),
           t.slots[i].state # "DONE",
           NEW u, u = ContinueJob(t, t.slots[i].id)
    PROVE  /\ TableOK(u) /\ DistinctTable(u) /\ KnownSlots(u) = KnownSlots(t)
           /\ Woken(t.slots[i], u.slots[i])
           /\ u.slots[i].state = "RUNNING"
           /\ \A k \in KnownSlots(t) : k # i => u.slots[k] = t.slots[k]
<1> DEFINE e  == t.slots[i]
           id == e.id
           h  == ResumeStopped(e)
           f  == [h EXCEPT !.state = "RUNNING", !.notified = FALSE]
           w  == PutEntry(t, i, f)
<1>1. EntryOK(e) /\ i \in 1..Cap /\ id \in JobId
  BY TableEntry DEF EntryOK, Entry
<1>2. TableOK(u) /\ DistinctTable(u) /\ KnownSlots(u) = KnownSlots(t)
  BY <1>1, ContinueJobType, KeepsDistinct
<1>3. \A k \in KnownSlots(t) : t.slots[k].id = id => k = i
  BY DEF DistinctTable
<1>4. SlotOfId(t, id, i)
  <2>1. \A k \in KnownSlots(t) : k < i => k # i
    BY TableEntry, CapAssumption
  <2> QED
    BY <1>3, <2>1 DEF SlotOfId
<1>5. (CHOOSE k \in KnownSlots(t) : SlotOfId(t, id, k)) = i
  BY <1>3, <1>4 DEF SlotOfId
<1>6. u = MakeCurrent(w, id)
  BY <1>4, <1>5 DEF ContinueJob
<1>7. EntryOK(h) /\ Woken(e, h)
  BY <1>1, ResumeStoppedEntry, EntrySteps
<1> HIDE DEF h
<1>8. EntryOK(f) /\ Woken(e, f) /\ f.state = "RUNNING"
  BY <1>7 DEF EntryOK, Entry, ShapeOK, Woken
<1> HIDE DEF f
<1>9. /\ TableOK(w)
      /\ \A k \in KnownSlots(t) \cup {i} : w.slots[k] = IF k = i THEN f ELSE t.slots[k]
  BY <1>1, <1>8, PutEntryType
<1> HIDE DEF w
<1>10. u.slots = w.slots
  BY <1>1, <1>6, <1>9, MakeCurrentType
<1> QED
  BY <1>2, <1>8, <1>9, <1>10

(* The table's job is continued and is not the foreground job.             *)
LEMMA JobsContinued ==
    ASSUME NEW pr, NEW t, TableOK(t), DistinctTable(t), NEW j, JobsInv(pr, t, j),
           NEW i \in KnownSlots(t), t.slots[i].state # "DONE",
           j.active => Apart(j, t.slots[i]),
           NEW u, u = ContinueJob(t, t.slots[i].id)
    PROVE  JobsInv(pr, u, j)
<1> DEFINE e == t.slots[i]
           f == u.slots[i]
<1>1. /\ TableOK(u) /\ KnownSlots(u) = KnownSlots(t)
      /\ Woken(e, f) /\ f.state = "RUNNING"
      /\ \A k \in KnownSlots(t) : k # i => u.slots[k] = t.slots[k]
  BY ContinueKnown
<1>2. GroupOK(e) /\ GroupOK(f) /\ SoundEntry(e) /\ Gone(pr, e)
  BY <1>1, TableEntry, EntryIsGroup DEF JobsInv, TableInv
<1> HIDE DEF e, f
<1>3. SoundEntry(f) /\ Gone(pr, f)
  <2>1. /\ Sound(f) /\ f.members = e.members /\ f.remaining = e.remaining
        /\ \A k \in 1..Len(e.members) : f.mstate[k] = "done" <=> e.mstate[k] = "done"
    BY <1>1, <1>2, WokenSound DEF SoundEntry, Woken
  <2>2. e.remaining # 0
    BY <1>2 DEF SoundEntry, e
  <2> QED
    BY <1>1, <1>2, <2>1, <2>2 DEF SoundEntry, Gone
<1>4. TableInv(pr, u)
  BY <1>1, <1>3 DEF JobsInv, TableInv, f
<1>5. \A k \in KnownSlots(t) : u.slots[k].members = t.slots[k].members
  BY <1>1 DEF Woken, e, f
<1>6. \A k \in KnownSlots(t) : Apart(j, u.slots[k]) <=> Apart(j, t.slots[k])
  BY <1>5, SameMembers DEF Apart
<1>7. OwnedInv(pr, u, j)
  BY <1>1, <1>5, SamePids DEF JobsInv, OwnedInv
<1>8. \A k \in 1..Cap : Reclaimable(t, k) => Reclaimable(u, k)
  BY <1>1 DEF Reclaimable, e
<1>9. ASSUME j.active PROVE CurrentInv(pr, u, j)
  <2>1. CurrentInv(pr, t, j)
    BY <1>9 DEF JobsInv
  <2>2. \A k \in KnownSlots(u) : Apart(j, u.slots[k]) \/ Mirrors(j, u.slots[k])
    BY <1>1, <1>6, <1>9, <2>1 DEF CurrentInv
  <2>3. Registered(pr, u, j)
    BY <1>1, <1>6, <1>8, <2>1 DEF CurrentInv, Registered, HasCapacity
  <2> QED
    BY <2>1, <2>2, <2>3 DEF CurrentInv
<1> QED
  BY <1>4, <1>7, <1>9 DEF JobsInv

(* The foreground job and its entry are continued together.                *)
LEMMA JobsResumed ==
    ASSUME NEW t, TableOK(t), DistinctTable(t), JobsInv(proc, t, NoJob),
           proc \in [Pid -> Process], NEW S,
           NEW i \in KnownSlots(t), t.slots[i].state # "DONE",
           NEW j, Mirrors(j, t.slots[i]), NEW k, Woken(j, k), ~k.stopped,
           NEW u, u = ContinueJob(t, t.slots[i].id)
    PROVE  JobsInv(Resumed(S), u, k)
<1>1. /\ TableOK(u) /\ DistinctTable(u) /\ KnownSlots(u) = KnownSlots(t)
      /\ Woken(t.slots[i], u.slots[i]) /\ u.slots[i].state = "RUNNING"
  BY ContinueKnown
<1>2. JobsInv(proc, u, NoJob)
  <2>1. ~NoJob.active
    BY DEF NoJob
  <2> QED
    BY <2>1, JobsContinued
<1>3. JobsInv(Resumed(S), u, NoJob)
  BY <1>1, <1>2, ResumedLives, LivesOnJobs, NoJobType
<1>4. Mirrors(k, u.slots[i])
  BY <1>1 DEF Mirrors, Copies, Woken
<1> QED
  BY <1>1, <1>3, <1>4, JobsAdopted

LEMMA JobsFg ==
    ASSUME TypeOK, DistinctInv, TerminalOwnership, JobsInv(proc, jobs, fgJob),
           NEW i \in 1..Cap, Fg(i)
    PROVE  JobsInv(proc', jobs', fgJob')
<1> DEFINE e == jobs.slots[i]
           j == FgJob(e)
           k == [ResumeStopped(j) EXCEPT !.stopped = FALSE]
<1>1. i \in KnownSlots(jobs) /\ e.state # "DONE" /\ mode = "EDITOR"
  BY DEF Fg, Resumable, AtEditor
<1>2. /\ TableOK(jobs) /\ DistinctTable(jobs) /\ proc \in [Pid -> Process]
      /\ JobOK(fgJob)
  BY TypeParts DEF DistinctInv
<1>3. JobsInv(proc, jobs, NoJob)
  BY <1>1, JobsDropped
<1>4. JobOK(j)
  BY <1>1, FgJobType
<1>5. Mirrors(j, e)
  <2>1. CASE SameGroup(e)
    <3>1. Mirrors(fgJob, e)
      BY <1>1, <2>1, SameGroupMirrors
    <3>2. j = [fgJob EXCEPT !.foreground = TRUE]
      BY <2>1 DEF FgJob
    <3> HIDE DEF j, e
    <3> QED
      BY <1>2, <3>1, <3>2 DEF Mirrors, Copies, JobOK, Job
  <2>2. CASE ~SameGroup(e)
    <3>1. j = JobOf(e, TRUE, e.state = "STOPPED", FALSE)
      BY <2>2 DEF FgJob
    <3> HIDE DEF j, e
    <3> QED
      BY <3>1 DEF Mirrors, Copies, JobOf
  <2> QED
    BY <2>1, <2>2
<1>6. JobOK(ResumeStopped(j)) /\ Woken(j, ResumeStopped(j))
  BY <1>4, ResumeStoppedJob, JobSteps
<1>7. Woken(j, k) /\ ~k.stopped
  <2> DEFINE h == ResumeStopped(j)
  <2>1. JobOK(h) /\ Woken(j, h)
    BY <1>6
  <2> HIDE DEF h
  <2>2. Woken(j, [h EXCEPT !.stopped = FALSE]) /\ ~[h EXCEPT !.stopped = FALSE].stopped
    BY <2>1 DEF Woken, JobOK, Job
  <2> QED
    BY <2>2 DEF h
<1>8. IF j.stopped
      THEN /\ proc' = Resumed(Unreaped(j)) /\ fgJob' = k
           /\ jobs' = ContinueJob(jobs, e.id)
      ELSE fgJob' = j /\ proc' = proc /\ jobs' = jobs
  BY DEF Fg
<1> HIDE DEF j, k
<1>9. CASE j.stopped
  BY <1>1, <1>2, <1>3, <1>5, <1>7, <1>8, <1>9, JobsResumed
<1>10. CASE ~j.stopped
  BY <1>1, <1>2, <1>3, <1>5, <1>8, <1>10, JobsAdopted
<1> QED
  BY <1>9, <1>10

LEMMA JobsFgHandoffFails ==
    ASSUME TypeOK, TerminalOwnership, JobsInv(proc, jobs, fgJob),
           NEW i \in 1..Cap, FgHandoffFails(i)
    PROVE  JobsInv(proc', jobs', fgJob')
<1>1. /\ mode = "EDITOR" /\ proc' = proc /\ jobs' = Prompt(jobs)
      /\ fgJob' = fgJob \/ fgJob' = NoJob
  BY DEF FgHandoffFails, AtEditor
<1>2. JobsInv(proc, jobs, fgJob')
  BY <1>1, JobsDropped
<1> QED
  BY <1>1, <1>2, TypeParts, TrimsPrompt, TrimsJobs

LEMMA JobsBg ==
    ASSUME TypeOK, DistinctInv, TerminalOwnership, JobsInv(proc, jobs, fgJob),
           NEW i \in 1..Cap, Bg(i)
    PROVE  JobsInv(proc', jobs', fgJob')
<1> DEFINE e == jobs.slots[i]
           u == ContinueJob(jobs, e.id)
           S == Unreaped(e)
           k == [ResumeStopped(fgJob) EXCEPT !.stopped = FALSE, !.foreground = FALSE]
<1>1. /\ i \in KnownSlots(jobs) /\ e.state # "DONE" /\ mode = "EDITOR"
      /\ proc' = Resumed(S) /\ jobs' = Prompt(u)
      /\ fgJob' = IF SameGroup(e) THEN BgJob ELSE fgJob
  BY DEF Bg, AtEditor
<1>2. /\ TableOK(jobs) /\ DistinctTable(jobs) /\ proc \in [Pid -> Process]
      /\ JobOK(fgJob)
  BY TypeParts DEF DistinctInv
<1>3. JobsInv(proc, jobs, NoJob)
  BY <1>1, JobsDropped
<1>4. TableOK(u)
  BY <1>1, <1>2, ContinueKnown
<1>5. JobsInv(Resumed(S), u, fgJob')
  <2>1. CASE SameGroup(e) /\ fgJob.txn
    <3>1. fgJob' = k
      BY <1>1, <2>1 DEF BgJob
    <3> DEFINE h == ResumeStopped(fgJob)
    <3>2. JobOK(h) /\ Woken(fgJob, h)
      BY <1>2, ResumeStoppedJob, JobSteps
    <3>3. k = [h EXCEPT !.stopped = FALSE, !.foreground = FALSE]
      OBVIOUS
    <3> HIDE DEF h, k
    <3>4. Woken(fgJob, k) /\ ~k.stopped
      BY <3>2, <3>3 DEF Woken, JobOK, Job
    <3>5. Mirrors(fgJob, e)
      BY <1>1, <2>1, SameGroupMirrors
    <3> QED
      BY <1>1, <1>2, <1>3, <3>1, <3>4, <3>5, JobsResumed
  <2>2. CASE SameGroup(e) /\ ~fgJob.txn
    <3>1. fgJob' = NoJob /\ ~NoJob.active
      BY <1>1, <2>2 DEF BgJob, NoJob
    <3>2. JobsInv(proc, u, NoJob)
      BY <1>1, <1>2, <1>3, <3>1, JobsContinued
    <3> QED
      BY <1>2, <1>4, <3>1, <3>2, ResumedLives, LivesOnJobs, NoJobType
  <2>3. CASE ~SameGroup(e)
    <3>1. fgJob.active => Apart(fgJob, e)
      BY <1>1, <2>3, SameGroupMirrors
    <3>2. JobsInv(proc, u, fgJob)
      BY <1>1, <1>2, <3>1, JobsContinued
    <3> QED
      BY <1>1, <1>2, <1>4, <2>3, <3>2, ResumedLives, LivesOnJobs
  <2> QED
    BY <2>1, <2>2, <2>3
<1> HIDE DEF u, S
<1> QED
  BY <1>1, <1>4, <1>5, TrimsPrompt, TrimsJobs

(* The other builtins leave the children and the foreground job alone, and *)
(* trim the table.                                                         *)
LEMMA JobsTrimmed ==
    ASSUME TypeOK, JobsInv(proc, jobs, fgJob), proc' = proc, fgJob' = fgJob,
           Trims(jobs, jobs')
    PROVE  JobsInv(proc', jobs', fgJob')
BY TypeParts, TrimsJobs

LEMMA WaitTrims ==
    ASSUME TypeOK, NEW w, WaitSatisfied(jobs, w)
    PROVE  /\ Trims(jobs, AfterWait(jobs, w))
           /\ Trims(jobs, ContinueTable(AfterWait(jobs, w)))
<1> DEFINE a == AfterWait(jobs, w)
<1>1. TableOK(a) /\ Trims(jobs, a)
  BY TypeParts, AfterWaitType, TrimsAfterWait
<1> HIDE DEF a
<1>2. Trims(a, ContinueTable(a))
  BY <1>1, TrimsContinue
<1> QED
  BY <1>1, <1>2, TrimsTransitive DEF a

LEMMA JobsBuiltin ==
    ASSUME TypeOK, DistinctInv, TerminalOwnership, JobsInv(proc, jobs, fgJob), Builtin
    PROVE  JobsInv(proc', jobs', fgJob')
<1>1. TableOK(jobs)
  BY TypeParts
<1>2. ASSUME FgRefused \/ BgRefused \/ SetNotify
      PROVE  JobsInv(proc', jobs', fgJob')
  <2>1. proc' = proc /\ fgJob' = fgJob /\ jobs' = Prompt(jobs)
    BY <1>2 DEF FgRefused, BgRefused, SetNotify, Answer, idle
  <2> QED
    BY <1>1, <2>1, TrimsPrompt, JobsTrimmed
<1>3. ASSUME NEW S, Jobs(S) PROVE JobsInv(proc', jobs', fgJob')
  <2> DEFINE u == MarkNotified(jobs, S)
  <2>1. TableOK(u) /\ Trims(jobs, u)
    BY <1>1, MarkNotifiedType, TrimsMark
  <2>2. proc' = proc /\ fgJob' = fgJob /\ (jobs' = Prompt(u) \/ jobs' = u)
    BY <1>3 DEF Jobs, idle
  <2> HIDE DEF u
  <2>3. Trims(u, Prompt(u))
    BY <2>1, TrimsPrompt
  <2>4. Trims(jobs, jobs')
    BY <2>1, <2>2, <2>3, TrimsTransitive
  <2> QED
    BY <2>2, <2>4, JobsTrimmed
<1>4. ASSUME NEW w, BeginWait(w) PROVE JobsInv(proc', jobs', fgJob')
  <2>1. /\ proc' = proc /\ fgJob' = fgJob
        /\ \/ WaitSatisfied(jobs, w) /\ jobs' = ContinueTable(AfterWait(jobs, w))
           \/ jobs' = jobs
    BY <1>4 DEF BeginWait
  <2> QED
    BY <2>1, WaitTrims, TrimsItself, JobsTrimmed
<1>5. ASSUME NEW w, ServiceWait(w) PROVE JobsInv(proc', jobs', fgJob')
  <2>1. /\ proc' = proc /\ fgJob' = fgJob
        /\ \/ WaitSatisfied(jobs, w) /\ jobs' = AfterWait(jobs, w)
           \/ jobs' = jobs
    BY <1>5 DEF ServiceWait
  <2> QED
    BY <2>1, WaitTrims, TrimsItself, JobsTrimmed
<1> QED
  BY <1>2, <1>3, <1>4, <1>5, JobsFg, JobsFgHandoffFails, JobsBg DEF Builtin

LEMMA JobsList ==
    ASSUME TypeOK, JobsInv(proc, jobs, fgJob), ListStep \/ Interrupt
    PROVE  JobsInv(proc', jobs', fgJob')
<1>1. proc' = proc /\ fgJob' = fgJob /\ (jobs' = jobs \/ jobs' = Prompt(jobs))
  BY DEF ListStep, Interrupt, SubmitList, SubmitSwallowed, EndList, InterruptWait,
         InterruptDispatch
<1> QED
  BY <1>1, TypeParts, TrimsPrompt, TrimsItself, JobsTrimmed

(***************************************************************************)
(* The theorems.                                                           *)
(***************************************************************************)
LEMMA JobsInit == Init => JobsInv(proc, jobs, fgJob)
BY DEF Init, JobsInv, TableInv, OwnedInv, EmptyTable, KnownSlots, NoJob, Living, NoProcess

LEMMA JobsNext ==
    ASSUME ~PidReuse, TypeOK, DistinctInv, TerminalOwnership,
           JobsInv(proc, jobs, fgJob), [Next]_vars
    PROVE  JobsInv(proc, jobs, fgJob)'
<1>1. CASE UNCHANGED vars
  BY <1>1 DEF vars, JobsInv, TableInv, CurrentInv, OwnedInv
<1>2. CASE Next
  <2>1. JobsInv(proc', jobs', fgJob')
    BY <1>2, JobsChildren, JobsLaunch, JobsBuiltin, JobsList, JobsReap DEF Next
  <2> QED
    BY <2>1
<1> QED
  BY <1>1, <1>2

(* The invariant of the jobs, and those it rests on. *)
JobControlInv ==
    TypeOK /\ DistinctInv /\ TerminalOwnership /\ JobsInv(proc, jobs, fgJob)

(* While the kernel gives out no pid the shell still remembers, the jobs   *)
(* keep their invariant, for any number of children, slots and ids.        *)
THEOREM JobControlInvariant ==
    ASSUME ~PidReuse
    PROVE  Spec => []JobControlInv
<1>1. Init => JobControlInv
  <2>1. Init => DistinctInv
    BY NoJobInjective DEF Init, EmptyTable, DistinctTable, KnownSlots, DistinctInv
  <2>2. Init => TerminalOwnership
    BY DEF Init, TerminalOwnership, NoJob
  <2> QED
    BY <2>1, <2>2, InitType, JobsInit DEF JobControlInv
<1>2. JobControlInv /\ [Next]_vars => JobControlInv'
  BY NextType, DistinctNext, TerminalNext, JobsNext DEF JobControlInv
<1> QED
  BY <1>1, <1>2, PTL DEF Spec

(* The status of a pipeline is that of its commands by position, however   *)
(* its members ended and wherever the job was kept meanwhile.              *)
THEOREM StatusIsByPosition ==
    ASSUME ~PidReuse
    PROVE  Spec => []PipelineByPosition
<1>1. JobControlInv => PipelineByPosition
  BY DEF JobControlInv, JobsInv, TableInv, CurrentInv, SoundEntry, Sound,
         PipelineByPosition
<1> QED
  BY <1>1, JobControlInvariant, PTL

(* The count of members still to end is exact, a job is done when it is    *)
(* zero and is stopped only while none of its members runs.                *)
THEOREM CountsAreExact ==
    ASSUME ~PidReuse
    PROVE  Spec => []CountsAgree
<1>1. JobControlInv => CountsAgree
  BY DEF JobControlInv, JobsInv, TableInv, CurrentInv, SoundEntry, Sound, CountsAgree
<1> QED
  BY <1>1, JobControlInvariant, PTL

(* The foreground job and its entry in the table, which separate code      *)
(* updates, are equal in every field they share.                           *)
THEOREM CopiesAgree ==
    ASSUME ~PidReuse
    PROVE  Spec => []CurrentMirrorsTable
<1>1. JobControlInv => CurrentMirrorsTable
  <2> SUFFICES ASSUME JobControlInv, NEW i \in KnownSlots(jobs),
                      SameGroup(jobs.slots[i])
               PROVE  /\ fgJob.members = jobs.slots[i].members
                      /\ fgJob.mstate = jobs.slots[i].mstate
                      /\ fgJob.remaining = jobs.slots[i].remaining
                      /\ fgJob.pipe = jobs.slots[i].pipe
                      /\ fgJob.stopped <=> jobs.slots[i].state = "STOPPED"
    BY DEF CurrentMirrorsTable
  <2>1. Mirrors(fgJob, jobs.slots[i])
    BY SameGroupMirrors DEF JobControlInv
  <2> QED
    BY <2>1 DEF Mirrors, Copies
<1> QED
  BY <1>1, JobControlInvariant, PTL

(* A stopped foreground job has an entry: the slot checked when it started *)
(* was still there when it stopped.                                        *)
THEOREM StopsAreRegistered ==
    ASSUME ~PidReuse
    PROVE  Spec => []StoppedJobRegistered
<1>1. JobControlInv => StoppedJobRegistered
  <2> SUFFICES ASSUME JobControlInv, fgJob.active, fgJob.stopped
               PROVE  \E i \in KnownSlots(jobs) : SameGroup(jobs.slots[i])
    BY DEF StoppedJobRegistered
  <2>1. PICK i \in KnownSlots(jobs) : ~Apart(fgJob, jobs.slots[i])
    BY DEF JobControlInv, JobsInv, CurrentInv, Registered
  <2> QED
    BY <2>1, SameGroupMirrors DEF JobControlInv
<1> QED
  BY <1>1, JobControlInvariant, PTL

(* Every child that lives is a member of the foreground job or of a job of *)
(* the table: none is dropped, reclaimed or consumed while it lives.       *)
THEOREM ChildrenAreKnown ==
    ASSUME ~PidReuse
    PROVE  Spec => []NoForgottenChild
<1>1. JobControlInv => NoForgottenChild
  BY DEF JobControlInv, JobsInv, OwnedInv, NoForgottenChild, Living, Alive, InForeground
<1> QED
  BY <1>1, JobControlInvariant, PTL

(***************************************************************************)
(* The wait of an evaluator.                                               *)
(***************************************************************************)
(* Every job of t that is not done is still pending in u. *)
StillPending(t, u) ==
    \A i \in ActiveSlots(t) : /\ i \in ActiveSlots(u)
                              /\ StatusPid(u.slots[i]) = StatusPid(t.slots[i])

LEMMA TrimsPending ==
    ASSUME NEW t, NEW u, Trims(t, u)
    PROVE  StillPending(t, u)
BY DEF Trims, SameRun, Copies, StillPending, ActiveSlots, StatusPid

LEMMA StatusPidMember ==
    ASSUME NEW e, EntryOK(e)
    PROVE  StatusPid(e) \in Members(e)
<1>1. e.pipe.count \in Nat \ {0} /\ e.pipe.count <= Len(e.members) /\ Len(e.members) \in Nat
  BY DEF EntryOK, Entry, ShapeOK, PipelineRecord
<1>2. e.pipe.count \in 1..Len(e.members)
  BY <1>1
<1> QED
  BY <1>2 DEF StatusPid, Members

(* A wait that is not satisfied stays so while its jobs are pending.       *)
LEMMA WaitStaysPending ==
    ASSUME NEW t, NEW u, TableOK(u), DistinctTable(u), StillPending(t, u),
           NEW w, ~WaitSatisfied(t, w)
    PROVE  ~WaitSatisfied(u, w)
<1>1. CASE w.all
  BY <1>1 DEF WaitSatisfied, StillPending
<1>2. CASE ~w.all
  <2>1. PICK p \in Targets(w) : IsPending(t, p)
    BY <1>2 DEF WaitSatisfied
  <2>2. PICK i \in KnownSlots(t) : SlotOfStatusPid(t, p, i) /\ t.slots[i].state # "DONE"
    BY <2>1 DEF IsPending
  <2>3. /\ i \in KnownSlots(u) /\ u.slots[i].state # "DONE"
        /\ StatusPid(u.slots[i]) = p
    BY <2>2 DEF StillPending, ActiveSlots, SlotOfStatusPid
  <2>4. ASSUME NEW k \in KnownSlots(u), k < i PROVE StatusPid(u.slots[k]) # p
    <3>1. /\ StatusPid(u.slots[k]) \in Members(u.slots[k])
          /\ p \in Members(u.slots[i])
      BY <2>3, StatusPidMember, TableEntry
    <3>2. k # i
      BY <2>3, <2>4, TableEntry, CapAssumption
    <3> QED
      BY <2>3, <3>1, <3>2 DEF DistinctTable
  <2>5. IsPending(u, p)
    BY <2>3, <2>4 DEF IsPending, SlotOfStatusPid
  <2> QED
    BY <1>2, <2>1, <2>5 DEF WaitSatisfied
<1> QED
  BY <1>1, <1>2

LEMMA PutPending ==
    ASSUME NEW t, NEW u, NEW g, NEW i, NEW s, PutsJob(t, u, g, i, s)
    PROVE  StillPending(t, u)
BY DEF PutsJob, Reclaimable, StillPending, ActiveSlots

LEMMA ContinuePending ==
    ASSUME NEW t, TableOK(t), DistinctTable(t), NEW i \in KnownSlots(t),
           t.slots[i].state # "DONE"
    PROVE  StillPending(t, ContinueJob(t, t.slots[i].id))
<1> DEFINE u == ContinueJob(t, t.slots[i].id)
<1>1. /\ KnownSlots(u) = KnownSlots(t)
      /\ Woken(t.slots[i], u.slots[i])
      /\ u.slots[i].state = "RUNNING"
      /\ \A k \in KnownSlots(t) : k # i => u.slots[k] = t.slots[k]
  BY ContinueKnown
<1> HIDE DEF u
<1>2. StillPending(t, u)
  BY <1>1 DEF StillPending, ActiveSlots, StatusPid, Woken
<1> QED
  BY <1>2 DEF u

(* The evaluator stays, and so do the jobs it waits for.                   *)
LEMMA ServiceKept ==
    ASSUME TypeOK', DistinctInv', ServiceAnswered, service' = service,
           service.active => StillPending(jobs, jobs') /\ fgJob'.active /\ fgJob'.txn
    PROVE  ServiceAnswered'
<1>1. TableOK(jobs') /\ DistinctTable(jobs')
  BY TypeParts DEF DistinctInv, TypeOK
<1>2. ASSUME service.active PROVE ~WaitSatisfied(jobs', service)
  BY <1>1, <1>2, WaitStaysPending DEF ServiceAnswered
<1>3. service'.active => /\ fgJob'.active /\ fgJob'.txn
                         /\ ~WaitSatisfied(jobs', service')
  BY <1>2
<1> QED
  BY <1>3 DEF ServiceAnswered

(* The last call of reap_children for a child.                             *)
LEMMA ServiceReplied ==
    ASSUME ServiceAnswered, NEW t, jobs' = ServiceTable(t),
           service' = ServiceAfter(t),
           service.active => fgJob'.active /\ fgJob'.txn
    PROVE  ServiceAnswered'
<1>1. CASE ServiceDone(t)
  BY <1>1 DEF ServiceAfter, NoService, ServiceAnswered
<1>2. CASE ~ServiceDone(t)
  <2>1. service' = service /\ jobs' = t
    BY <1>2 DEF ServiceAfter, ServiceTable
  <2>2. service.active => ~WaitSatisfied(t, service)
    BY <1>2 DEF ServiceDone
  <2>3. service'.active => /\ fgJob'.active /\ fgJob'.txn
                           /\ ~WaitSatisfied(jobs', service')
    BY <2>1, <2>2
  <2> QED
    BY <2>3 DEF ServiceAnswered
<1> QED
  BY <1>1, <1>2

LEMMA ServiceLaunch ==
    ASSUME TypeOK, TypeOK', DistinctInv', ServiceAnswered, Launch
    PROVE  ServiceAnswered'
<1>1. TableOK(jobs)
  BY TypeParts
<1>2. ASSUME \/ BackgroundRefused \/ CompoundForkFails
             \/ \E compound \in BOOLEAN : LaunchRefused(compound)
      PROVE  ServiceAnswered'
  <2>1. service' = service /\ fgJob' = fgJob /\ jobs' = Prompt(jobs)
    BY <1>2 DEF BackgroundRefused, Answer, idle, CompoundForkFails, LaunchRefused
  <2> QED
    BY <1>1, <2>1, TrimsPrompt, TrimsPending, ServiceKept DEF ServiceAnswered
<1>3. ASSUME NEW members, \/ PipelineForkFails(members)
                          \/ \E count, pipefail, compound :
                                \/ LaunchForeground(members, count, pipefail, compound)
                                \/ HandoffFails(members, count, pipefail, compound)
      PROVE  ServiceAnswered'
  <2>1. service' = service /\ ~fgJob.active
    BY <1>3 DEF PipelineForkFails, LaunchForeground, HandoffFails, CanStart
  <2> QED
    BY <2>1, ServiceKept DEF ServiceAnswered
<1>4. ASSUME NEW p \in Pid, LaunchBackground(p) PROVE ServiceAnswered'
  <2> DEFINE g == NewGroup(<<p>>, 1, FALSE)
             u == AddJob(jobs, g)
  <2>1. <<p>> \in Seq(Pid) /\ 1 \in 1..Len(<<p>>)
    OBVIOUS
  <2>2. GroupOK(g) /\ g.members = <<p>> /\ g.members # <<>>
    BY <2>1, NewGroupType
  <2>3. /\ HasCapacity(jobs) /\ service' = service /\ fgJob' = fgJob
        /\ jobs' = IF CanAdd(jobs, <<p>>) THEN Prompt(u) ELSE Prompt(jobs)
    BY <1>4 DEF LaunchBackground
  <2> HIDE DEF g
  <2>4. TableOK(u)
    BY <1>1, <2>2, AddJobType
  <2>5. CASE CanAdd(jobs, <<p>>)
    <3>1. PICK i \in 1..Cap : PutsJob(jobs, u, g, i, "RUNNING")
      BY <1>1, <2>2, <2>3, <2>5, AddJobSucceeds DEF CanAdd
    <3> HIDE DEF u
    <3>2. StillPending(jobs, u) /\ StillPending(u, Prompt(u))
      BY <2>4, <3>1, PutPending, TrimsPrompt, TrimsPending
    <3>3. StillPending(jobs, jobs')
      BY <2>3, <2>5, <3>2 DEF StillPending
    <3> QED
      BY <2>3, <3>3, ServiceKept DEF ServiceAnswered
  <2>6. CASE ~CanAdd(jobs, <<p>>)
    BY <1>1, <2>3, <2>6, TrimsPrompt, TrimsPending, ServiceKept DEF ServiceAnswered
  <2> QED
    BY <2>5, <2>6
<1> QED
  BY <1>2, <1>3, <1>4 DEF Launch

LEMMA ServiceFg ==
    ASSUME TypeOK, DistinctInv, TypeOK', DistinctInv', ServiceAnswered,
           NEW i \in 1..Cap, Fg(i) \/ FgHandoffFails(i)
    PROVE  ServiceAnswered'
<1> DEFINE e == jobs.slots[i]
<1>1. /\ service' = service /\ i \in KnownSlots(jobs) /\ e.state # "DONE"
      /\ ~Blocked(i)
  BY DEF Fg, FgHandoffFails, Resumable
<1>2. /\ TableOK(jobs) /\ DistinctTable(jobs) /\ JobOK(fgJob)
  BY TypeParts DEF DistinctInv
<1>3. \/ jobs' = jobs \/ jobs' = Prompt(jobs)
      \/ jobs' = ContinueJob(jobs, e.id)
  BY DEF Fg, FgHandoffFails
<1>4. StillPending(jobs, jobs')
  BY <1>1, <1>2, <1>3, TrimsItself, TrimsPrompt, TrimsPending, ContinuePending
<1>5. ASSUME service.active PROVE fgJob'.active /\ fgJob'.txn
  <2>1. fgJob.active /\ fgJob.txn /\ SameGroup(e)
    BY <1>1, <1>5 DEF ServiceAnswered, Blocked
  <2> DEFINE j == FgJob(e)
             k == ResumeStopped(j)
  <2>2. j = [fgJob EXCEPT !.foreground = TRUE]
    BY <2>1 DEF FgJob
  <2> HIDE DEF j
  <2>3. JobOK(j) /\ j.active /\ j.txn
    BY <1>2, <2>1, <2>2 DEF JobOK, Job, ShapeOK
  <2>4. JobOK(k) /\ k.active /\ k.txn
    BY <2>3, ResumeStoppedJob DEF SameJob
  <2>5. \/ fgJob' = [k EXCEPT !.stopped = FALSE] \/ fgJob' = j \/ fgJob' = fgJob
    BY <2>1 DEF Fg, FgHandoffFails, j
  <2> HIDE DEF k
  <2> QED
    BY <2>1, <2>3, <2>4, <2>5 DEF JobOK, Job
<1> QED
  BY <1>1, <1>4, <1>5, ServiceKept

LEMMA ServiceBg ==
    ASSUME TypeOK, DistinctInv, TypeOK', DistinctInv', ServiceAnswered,
           NEW i \in 1..Cap, Bg(i)
    PROVE  ServiceAnswered'
<1> DEFINE e == jobs.slots[i]
           u == ContinueJob(jobs, e.id)
           k == ResumeStopped(fgJob)
<1>1. /\ service' = service /\ i \in KnownSlots(jobs) /\ e.state # "DONE"
      /\ jobs' = Prompt(u)
      /\ fgJob' = IF SameGroup(e) THEN BgJob ELSE fgJob
  BY DEF Bg
<1>2. /\ TableOK(jobs) /\ DistinctTable(jobs) /\ JobOK(fgJob)
  BY TypeParts DEF DistinctInv
<1>3. StillPending(jobs, u) /\ TableOK(u)
  BY <1>1, <1>2, ContinuePending, ContinueKnown
<1> HIDE DEF u
<1>4. StillPending(jobs, jobs')
  BY <1>1, <1>3, TrimsPrompt, TrimsPending DEF StillPending
<1>5. ASSUME service.active PROVE fgJob'.active /\ fgJob'.txn
  <2>1. fgJob.active /\ fgJob.txn
    BY <1>5 DEF ServiceAnswered
  <2>2. JobOK(k) /\ k.active /\ k.txn
    BY <1>2, <2>1, ResumeStoppedJob DEF SameJob
  <2>3. fgJob' = fgJob \/ fgJob' = [k EXCEPT !.stopped = FALSE, !.foreground = FALSE]
    BY <1>1, <2>1 DEF BgJob
  <2> HIDE DEF k
  <2> QED
    BY <2>1, <2>2, <2>3 DEF JobOK, Job
<1> QED
  BY <1>1, <1>4, <1>5, ServiceKept

LEMMA ServiceBuiltin ==
    ASSUME TypeOK, DistinctInv, TypeOK', DistinctInv', ServiceAnswered, Builtin
    PROVE  ServiceAnswered'
<1>1. TableOK(jobs)
  BY TypeParts
<1>2. ASSUME FgRefused \/ BgRefused \/ SetNotify PROVE ServiceAnswered'
  <2>1. service' = service /\ fgJob' = fgJob /\ jobs' = Prompt(jobs)
    BY <1>2 DEF FgRefused, BgRefused, SetNotify, Answer, idle
  <2> QED
    BY <1>1, <2>1, TrimsPrompt, TrimsPending, ServiceKept DEF ServiceAnswered
<1>3. ASSUME NEW S, Jobs(S) PROVE ServiceAnswered'
  <2> DEFINE u == MarkNotified(jobs, S)
  <2>1. TableOK(u) /\ Trims(jobs, u)
    BY <1>1, MarkNotifiedType, TrimsMark
  <2>2. service' = service /\ fgJob' = fgJob /\ (jobs' = Prompt(u) \/ jobs' = u)
    BY <1>3 DEF Jobs, idle
  <2> HIDE DEF u
  <2>3. Trims(jobs, jobs')
    BY <2>1, <2>2, TrimsPrompt, TrimsTransitive
  <2> QED
    BY <2>2, <2>3, TrimsPending, ServiceKept DEF ServiceAnswered
<1>4. ASSUME NEW w, BeginWait(w) PROVE ServiceAnswered'
  <2>1. /\ service' = service /\ fgJob' = fgJob
        /\ \/ WaitSatisfied(jobs, w) /\ jobs' = ContinueTable(AfterWait(jobs, w))
           \/ jobs' = jobs
    BY <1>4 DEF BeginWait
  <2>2. Trims(jobs, jobs')
    BY <2>1, WaitTrims, TrimsItself
  <2> QED
    BY <2>1, <2>2, TrimsPending, ServiceKept DEF ServiceAnswered
<1>5. ASSUME NEW w, ServiceWait(w) PROVE ServiceAnswered'
  <2>1. fgJob' = fgJob /\ fgJob.active /\ fgJob.txn /\ ~service.active
    BY <1>5 DEF ServiceWait, EvaluatorRuns
  <2>2. CASE WaitSatisfied(jobs, w)
    BY <1>5, <2>1, <2>2 DEF ServiceWait, ServiceAnswered
  <2>3. CASE ~WaitSatisfied(jobs, w)
    <3> DEFINE s == [active |-> TRUE, all |-> w.all, targets |-> w.targets]
    <3>1. service' = s /\ jobs' = jobs
      BY <1>5, <2>3 DEF ServiceWait
    <3>2. ~WaitSatisfied(jobs, s)
      BY <2>3 DEF WaitSatisfied, Targets
    <3> HIDE DEF s
    <3> QED
      BY <2>1, <3>1, <3>2 DEF ServiceAnswered
  <2> QED
    BY <2>2, <2>3
<1> QED
  BY <1>2, <1>3, <1>4, <1>5, ServiceFg, ServiceBg DEF Builtin

LEMMA ServiceReap ==
    ASSUME TypeOK, DistinctInv, ServiceAnswered, NEW p \in Pid, Reap(p)
    PROVE  ServiceAnswered'
<1>1. TableOK(jobs) /\ JobOK(fgJob)
  BY TypeParts
<1>2. ASSUME ReapForeground(p), ~FinishForeground(p) PROVE ServiceAnswered'
  <2> DEFINE x == MemberIndex(fgJob, p)
             h == SetMember(fgJob, x, "stopped")
             c == SetMember(fgJob, x, "running")
             g == ExitMember(fgJob, x, EventOf(p).status)
  <2>1. EventOf(p) \in Event /\ fgJob.active
    BY <1>2, TakeTakes DEF ReapForeground, InForeground
  <2>2. /\ JobOK(h) /\ SameJob(fgJob, h)
        /\ JobOK(c) /\ SameJob(fgJob, c)
        /\ JobOK(g) /\ SameJob(fgJob, g)
    BY <1>1, <2>1, SetMemberJob, ExitMemberJob DEF MemberState, Event
  <2>3. /\ \/ fgJob' = [h EXCEPT !.stopped = TRUE, !.foreground = FALSE]
           \/ fgJob' = h
           \/ fgJob' = [c EXCEPT !.stopped = FALSE]
           \/ fgJob' = g
        /\ \E t : ReplyToService(t)
    BY <1>2 DEF ReapForeground, ForegroundStop, ForegroundContinue, ForegroundExit
  <2> HIDE DEF h, c, g
  <2>4. fgJob'.active /\ (fgJob.txn => fgJob'.txn)
    BY <2>1, <2>2, <2>3 DEF JobOK, Job, SameJob
  <2> QED
    BY <2>3, <2>4, ServiceReplied DEF ReplyToService, ServiceAnswered
<1>3. ASSUME FinishForeground(p) PROVE ServiceAnswered'
  BY <1>3 DEF FinishForeground, ServiceAnswered, NoService
<1>4. ASSUME ReapBackground(p) PROVE ServiceAnswered'
  <2>1. fgJob' = fgJob /\ \E t : jobs' = ServiceTable(t) /\ service' = ServiceAfter(t)
    BY <1>4 DEF ReapBackground, ReplyToService
  <2> QED
    BY <2>1, ServiceReplied DEF ServiceAnswered
<1>5. ASSUME ReapUnknown(p) PROVE ServiceAnswered'
  BY <1>5, ServiceReplied DEF ReapUnknown, ReplyToService, ServiceAnswered
<1> QED
  BY <1>2, <1>3, <1>4, <1>5 DEF Reap

LEMMA ServiceNext ==
    ASSUME TypeOK, DistinctInv, ServiceAnswered, [Next]_vars
    PROVE  ServiceAnswered'
<1>1. TypeOK' /\ DistinctInv' /\ TableOK(jobs)
  BY NextType, DistinctNext, TypeParts
<1>2. ASSUME \/ Children \/ ListStep \/ Interrupt \/ UNCHANGED vars
      PROVE  ServiceAnswered'
  <2>1. /\ service' = service /\ fgJob' = fgJob
        /\ jobs' = jobs \/ jobs' = Prompt(jobs)
    BY <1>2 DEF Children, ProcStop, ProcContinue, ProcExit, ListStep, SubmitList,
                SubmitSwallowed, EndList, Interrupt, InterruptWait,
                InterruptDispatch, vars
  <2> QED
    BY <1>1, <2>1, TrimsItself, TrimsPrompt, TrimsPending, ServiceKept
       DEF ServiceAnswered
<1> QED
  BY <1>1, <1>2, ServiceLaunch, ServiceBuiltin, ServiceReap DEF Next

(* The wait of an evaluator is answered with the event that satisfies it,  *)
(* whichever branch of reap_children saw it, and ends with the evaluator;  *)
(* nothing is assumed of the pids.                                         *)
THEOREM ServiceIsAnswered == Spec => []ServiceAnswered
<1> DEFINE Inv == TypeOK /\ DistinctInv /\ ServiceAnswered
<1>1. Init => Inv
  <2>1. Init => DistinctInv
    BY NoJobInjective DEF Init, EmptyTable, DistinctTable, KnownSlots, DistinctInv
  <2>2. Init => ServiceAnswered
    BY DEF Init, ServiceAnswered, NoService
  <2> QED
    BY <2>1, <2>2, InitType
<1>2. Inv /\ [Next]_vars => Inv'
  BY NextType, DistinctNext, ServiceNext
<1> QED
  BY <1>1, <1>2, PTL DEF Spec

=============================================================================
