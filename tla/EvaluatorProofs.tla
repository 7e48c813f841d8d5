-------------------------- MODULE EvaluatorProofs --------------------------
(***************************************************************************)
(* Theorems about NativeMachine, for every script and every nesting.  The  *)
(* trap stores: each operation of a store keeps what it promises, and no   *)
(* step of the evaluator, of its subshells or of the signal handler breaks *)
(* it.  The frames: the depths that the evaluator counts are the numbers   *)
(* of frames on its stack.                                                 *)
(***************************************************************************)
EXTENDS NativeMachine, NaturalMinimum, FiniteSetTheorems, SequenceTheorems, TLAPS

(***************************************************************************)
(* One store.                                                              *)
(***************************************************************************)
Acting(t) == {c \in Conditions : HasAction(t, c)}

Sound(t) == t \in TrapStore /\ StoreOK(t)

LEMMA ActingFinite ==
    ASSUME NEW t
    PROVE  /\ IsFiniteSet(Acting(t))
           /\ Cardinality(Acting(t)) \in Nat
           /\ Cardinality(Acting(t)) = 0 <=> Acting(t) = {}
<1>1. Acting(t) \subseteq Conditions
  BY DEF Acting
<1>2. IsFiniteSet(Acting(t))
  BY <1>1, ConditionsAssumption, FS_Subset
<1> QED
  BY <1>2, FS_CardinalityType, FS_EmptySet

LEMMA CountIsActing ==
    ASSUME NEW t
    PROVE  StoreOK(t) <=>
             /\ t.count = Cardinality(Acting(t))
             /\ Caught(t) # {} => HavePending(t)
             /\ t.snapshot # NoSnapshot => t.count = 0
BY DEF StoreOK, Acting

(* Whoever is caught has an action. *)
LEMMA CaughtCounts ==
    ASSUME NEW t, t \in TrapStore, t.count = Cardinality(Acting(t)), Caught(t) # {}
    PROVE  t.count # 0
<1>1. PICK c \in Caught(t) : TRUE
  OBVIOUS
<1>2. c \in Acting(t)
  BY <1>1 DEF Caught, Acting, TrapStore
<1> QED
  BY <1>2, ActingFinite

LEMMA NewSound ==
    ASSUME NEW ignored
    PROVE  Sound(NewStore(ignored))
<1> DEFINE t == NewStore(ignored)
<1>1. t \in TrapStore
  BY DEF NewStore, TrapStore, Entries, States
<1>2. Acting(t) = {}
  BY DEF Acting, HasAction, NewStore
<1>3. Cardinality(Acting(t)) = 0
  BY <1>2, ActingFinite
<1>4. Caught(t) = {} /\ t.count = 0
  BY DEF Caught, NewStore
<1> QED
  BY <1>1, <1>3, <1>4, CountIsActing DEF Sound

LEMMA ArriveSound ==
    ASSUME NEW t, Sound(t), NEW c \in Conditions, HasAction(t, c)
    PROVE  /\ Sound(Arrive(t, c))
           /\ Arrive(t, c).entries = t.entries
           /\ Arrive(t, c).snapshot = t.snapshot
<1> DEFINE u == Arrive(t, c)
<1>1. u \in TrapStore /\ u.entries = t.entries /\ u.snapshot = t.snapshot
      /\ u.count = t.count /\ u.any = TRUE
  BY DEF Arrive, Sound, TrapStore
<1>2. Acting(u) = Acting(t)
  BY <1>1 DEF Acting, HasAction
<1>3. t.count = Cardinality(Acting(t)) /\ t.snapshot # NoSnapshot => t.count = 0
  BY CountIsActing DEF Sound
<1>4. c \in Acting(t)
  BY DEF Acting
<1>5. t.count # 0
  BY <1>3, <1>4, ActingFinite, CountIsActing DEF Sound
<1>6. HavePending(u)
  BY <1>1, <1>5 DEF HavePending
<1> HIDE DEF u
<1>7. StoreOK(u)
  BY <1>1, <1>2, <1>3, <1>5, <1>6, CountIsActing DEF Sound
<1> QED
  BY <1>1, <1>7 DEF u, Sound

LEMMA TakeSound ==
    ASSUME NEW t, Sound(t)
    PROVE  /\ Sound(AfterTake(t))
           /\ AfterTake(t).entries = t.entries
           /\ AfterTake(t).snapshot = t.snapshot
<1> DEFINE u == AfterTake(t)
<1>1. u \in TrapStore /\ u.entries = t.entries /\ u.snapshot = t.snapshot
      /\ u.count = t.count
  BY DEF AfterTake, Sound, TrapStore
<1>2. Acting(u) = Acting(t)
  BY <1>1 DEF Acting, HasAction
<1>3. /\ t.count = Cardinality(Acting(t))
      /\ Caught(t) # {} => HavePending(t)
      /\ t.snapshot # NoSnapshot => t.count = 0
  BY CountIsActing DEF Sound
<1>4. Caught(u) # {} => HavePending(u)
  <2>1. CASE Caught(t) = {}
    <3>1. u.pending = t.pending
      BY <2>1 DEF AfterTake, Sound, TrapStore
    <3>2. Caught(u) = Caught(t)
      BY <1>1, <3>1 DEF Caught, HasAction
    <3> QED
      BY <2>1, <3>2
  <2>2. CASE Caught(t) # {}
    <3>1. /\ u.pending = t.pending \ {TakenCondition(t)}
          /\ u.any = (Caught(t) # {TakenCondition(t)})
      BY <2>2 DEF AfterTake, Sound, TrapStore
    <3>2. Caught(u) = Caught(t) \ {TakenCondition(t)}
      BY <1>1, <3>1 DEF Caught, HasAction
    <3>3. Caught(u) # {} => u.any
      BY <3>1, <3>2
    <3>4. t.count # 0
      BY <1>3, <2>2 DEF HavePending
    <3> QED
      BY <1>1, <3>3, <3>4 DEF HavePending
  <2> QED
    BY <2>1, <2>2
<1> HIDE DEF u
<1>5. StoreOK(u)
  BY <1>1, <1>2, <1>3, <1>4, CountIsActing
<1> QED
  BY <1>1, <1>5 DEF u, Sound

(* The state a condition is set to is one of three. *)
LEMMA AskedStates ==
    ASSUME NEW a
    PROVE  AskedState(a) \in States
BY DEF AskedState, States

LEMMA DiscardSound ==
    ASSUME NEW t, Sound(t)
    PROVE  /\ Sound(DiscardSnapshot(t))
           /\ DiscardSnapshot(t).snapshot = NoSnapshot
<1> DEFINE u == DiscardSnapshot(t)
<1>1. /\ t.count = Cardinality(Acting(t))
      /\ Caught(t) # {} => HavePending(t)
      /\ t.snapshot # NoSnapshot => t.count = 0
  BY CountIsActing DEF Sound
<1>2. /\ u \in TrapStore /\ u.entries = t.entries /\ u.count = t.count
      /\ u.pending = t.pending /\ u.any = t.any /\ u.snapshot = NoSnapshot
  BY <1>1 DEF DiscardSnapshot, Sound, TrapStore
<1>3. Acting(u) = Acting(t) /\ Caught(u) = Caught(t)
  BY <1>2 DEF Acting, HasAction, Caught
<1>4. HavePending(u) = HavePending(t)
  BY <1>2 DEF HavePending
<1> HIDE DEF u
<1>5. StoreOK(u)
  BY <1>1, <1>2, <1>3, <1>4, CountIsActing
<1> QED
  BY <1>2, <1>5 DEF u, Sound

(* Putting an action in place of a state, of another action or back moves  *)
(* the count with the set of the conditions that have one.                 *)
LEMMA CommitSound ==
    ASSUME NEW t, Sound(t), t.snapshot = NoSnapshot,
           NEW c \in Conditions, NEW s \in States, c \notin t.pending
    PROVE  /\ Sound(CommitEntry(t, c, s))
           /\ CommitEntry(t, c, s).snapshot = NoSnapshot
<1> DEFINE u == CommitEntry(t, c, s)
           new == IF s = "ACTION" THEN 1 ELSE 0
           old == IF HasAction(t, c) THEN 1 ELSE 0
           rest == Acting(t) \ {c}
<1>1. /\ t.count = Cardinality(Acting(t))
      /\ Caught(t) # {} => HavePending(t)
  BY CountIsActing DEF Sound
<1>2. /\ u.entries = [t.entries EXCEPT ![c] = s]
      /\ u.count = t.count - old + new
      /\ u.snapshot = NoSnapshot /\ u.pending = t.pending /\ u.any = t.any
      /\ t.count \in Nat
  BY DEF CommitEntry, Sound, TrapStore
<1>3. u.entries \in Entries
  BY <1>2 DEF Sound, TrapStore, Entries
<1>4. IsFiniteSet(rest) /\ Cardinality(rest) \in Nat /\ c \notin rest
  BY ActingFinite, FS_Subset, FS_CardinalityType
<1>5. t.count = Cardinality(rest) + old
  <2>1. CASE HasAction(t, c)
    <3>1. c \in Acting(t)
      BY <2>1 DEF Acting
    <3>2. Cardinality(rest) = Cardinality(Acting(t)) - 1
      BY <3>1, ActingFinite, FS_RemoveElement
    <3> QED
      BY <1>1, <1>2, <1>4, <2>1, <3>2
  <2>2. CASE ~HasAction(t, c)
    <3>1. rest = Acting(t)
      BY <2>2 DEF Acting
    <3> QED
      BY <1>1, <1>4, <2>2, <3>1
  <2> QED
    BY <2>1, <2>2
<1>6. Acting(u) = IF s = "ACTION" THEN rest \cup {c} ELSE rest
  BY <1>2 DEF Acting, HasAction, Sound, TrapStore, Entries
<1>7. Cardinality(Acting(u)) = Cardinality(rest) + new
  <2>1. CASE s = "ACTION"
    BY <1>4, <1>6, <2>1, FS_AddElement
  <2>2. CASE s # "ACTION"
    BY <1>4, <1>6, <2>2
  <2> QED
    BY <2>1, <2>2
<1>8. u.count = Cardinality(Acting(u)) /\ u.count \in Nat
  BY <1>2, <1>4, <1>5, <1>7
<1>9. u = [t EXCEPT !.entries = u.entries, !.count = u.count]
  BY <1>2 DEF CommitEntry, Sound, TrapStore
<1>10. t \in TrapStore /\ t.pending \in SUBSET Conditions
  BY DEF Sound, TrapStore
<1>11. u \in TrapStore
  <2> HIDE DEF u
  <2>1. \A E \in Entries, n \in Nat :
           [t EXCEPT !.entries = E, !.count = n] \in TrapStore
    BY <1>10 DEF TrapStore
  <2> QED
    BY <1>3, <1>8, <1>9, <2>1
<1>12. Caught(u) \subseteq Caught(t)
  BY <1>2, <1>10 DEF Caught, HasAction, Sound, TrapStore, Entries
<1> HIDE DEF u
<1>13. Caught(u) # {} => HavePending(u)
  BY <1>1, <1>2, <1>8, <1>11, <1>12, CaughtCounts DEF HavePending
<1>14. StoreOK(u)
  BY <1>2, <1>8, <1>13, CountIsActing
<1> QED
  BY <1>2, <1>11, <1>14 DEF u, Sound

LEMMA ConfigureSound ==
    ASSUME NEW t, Sound(t), NEW c \in Conditions, NEW a
    PROVE  /\ Sound(Configure(t, c, a))
           /\ Configure(t, c, a).snapshot = NoSnapshot
<1> DEFINE d == DiscardSnapshot(t)
           e == [d EXCEPT !.pending = @ \ {c}]
<1>1. Sound(d) /\ d.snapshot = NoSnapshot
  BY DiscardSound
<1> HIDE DEF d
<1>2. /\ e \in TrapStore /\ e.entries = d.entries /\ e.count = d.count
      /\ e.snapshot = NoSnapshot /\ e.any = d.any /\ e.pending = d.pending \ {c}
  BY <1>1 DEF Sound, TrapStore
<1>3. Acting(e) = Acting(d) /\ Caught(e) \subseteq Caught(d)
  BY <1>2 DEF Acting, Caught, HasAction
<1>4. HavePending(e) = HavePending(d)
  BY <1>2 DEF HavePending
<1> HIDE DEF e
<1>5. Sound(e)
  BY <1>1, <1>2, <1>3, <1>4, CountIsActing DEF Sound
<1>6. Sound(CommitEntry(e, c, AskedState(a)))
      /\ CommitEntry(e, c, AskedState(a)).snapshot = NoSnapshot
  BY <1>2, <1>5, AskedStates, CommitSound
<1> QED
  BY <1>1, <1>6 DEF Configure, d, e

LEMMA SubshellSound ==
    ASSUME NEW t, Sound(t)
    PROVE  /\ Sound(EnterSubshell(t))
           /\ EnterSubshell(t).snapshot = t.entries
<1> DEFINE u == EnterSubshell(t)
<1>1. /\ u \in TrapStore /\ u.count = 0 /\ u.pending = {} /\ u.any = FALSE
      /\ u.snapshot = t.entries
      /\ u.entries = [c \in Conditions |->
                        IF HasAction(t, c) THEN "DEFAULT" ELSE t.entries[c]]
  BY DEF EnterSubshell, Sound, TrapStore, Entries, States
<1>2. Acting(u) = {} /\ Caught(u) = {}
  BY <1>1 DEF Acting, Caught, HasAction
<1> HIDE DEF u
<1>3. StoreOK(u)
  BY <1>1, <1>2, ActingFinite, CountIsActing
<1> QED
  BY <1>1, <1>3 DEF u, Sound

(***************************************************************************)
(* What a process has, and what the operators of a step leave of it: a     *)
(* push, a completion and a frame that is left change other fields.        *)
(***************************************************************************)
HasStore(c) == "traps" \in DOMAIN c

SameStore(c, d) == HasStore(d) /\ d.traps = c.traps

(* Pending signals may have been looked for. *)
Keeps(c, d) ==
    /\ HasStore(d)
    /\ d.traps \in {c.traps, AfterTake(c.traps)}

LEMMA PushSame ==
    ASSUME NEW c, HasStore(c), NEW tasks
    PROVE  SameStore(c, Push(c, tasks)) /\ SameStore(c, Explain(Push(c, tasks)))
BY DEF Push, Explain, HasStore, SameStore

LEMMA SettleSame ==
    ASSUME NEW c, HasStore(c), NEW suppressed
    PROVE  SameStore(c, Settle(c, suppressed))
BY DEF Settle, HasStore, SameStore

LEMMA EndSame ==
    ASSUME NEW c, HasStore(c), NEW saved, NEW status
    PROVE  /\ SameStore(c, EndPending(c, saved))
           /\ SameStore(c, EndExit(c, saved, status))
           /\ SameStore(c, LeaveAction(c, saved))
           /\ SameStore(c, EnterSource(c))
BY DEF EndPending, EndExit, LeaveAction, EnterSource, HasStore, SameStore

LEMMA CompleteKeeps ==
    ASSUME NEW c, HasStore(c), NEW suppressed
    PROVE  Keeps(c, Complete(c, suppressed))
<1> DEFINE taken == [c EXCEPT !.traps = AfterTake(@)]
           saved == SavedTrap(c, TakenCondition(c.traps))
           entered == [EnterSource(taken) EXCEPT !.ev.last = c.status]
           failed == [taken EXCEPT !.ev.fatal = TRUE]
<1>1. HasStore(taken) /\ taken.traps = AfterTake(c.traps)
  BY DEF HasStore
<1>2. CASE ~TrapDue(c)
  BY <1>2, SettleSame DEF Complete, Keeps, SameStore
<1>3. CASE TrapDue(c) /\ Caught(c.traps) = {}
  <2>1. Complete(c, suppressed) = Settle(taken, suppressed)
    BY <1>3 DEF Complete
  <2> HIDE DEF taken
  <2> QED
    BY <1>1, <2>1, SettleSame DEF Keeps, SameStore
<1>4. CASE TrapDue(c) /\ Caught(c.traps) # {} /\ CanEnterSource(c.ev)
  <2>1. Complete(c, suppressed) = Push(entered, ActionTasks(saved, suppressed))
    BY <1>4 DEF Complete
  <2>2. SameStore(taken, entered)
    BY <1>1 DEF EnterSource, HasStore, SameStore
  <2> HIDE DEF taken, entered, saved
  <2>3. SameStore(entered, Push(entered, ActionTasks(saved, suppressed)))
    BY <2>2, PushSame DEF SameStore
  <2> QED
    BY <1>1, <2>1, <2>2, <2>3 DEF Keeps, SameStore
<1>5. CASE TrapDue(c) /\ Caught(c.traps) # {} /\ ~CanEnterSource(c.ev)
  <2>1. Complete(c, suppressed) = Settle(EndPending(failed, saved), suppressed)
    BY <1>5 DEF Complete
  <2>2. SameStore(taken, failed)
    BY <1>1 DEF HasStore, SameStore
  <2> HIDE DEF taken, failed, saved
  <2>3. SameStore(failed, EndPending(failed, saved))
    BY <2>2, EndSame DEF SameStore
  <2>4. SameStore(EndPending(failed, saved),
                  Settle(EndPending(failed, saved), suppressed))
    BY <2>3, SettleSame DEF SameStore
  <2> QED
    BY <1>1, <2>1, <2>2, <2>3, <2>4 DEF Keeps, SameStore
<1> QED
  BY <1>2, <1>3, <1>4, <1>5

LEMMA FinishTrapKeeps ==
    ASSUME NEW c, HasStore(c), NEW task
    PROVE  Keeps(c, FinishTrap(c, task))
<1> DEFINE left == LeaveAction(c, task.saved)
           pending == EndPending(left, task.saved)
           ended == EndExit(left, task.saved, left.status)
<1>1. SameStore(c, left)
  BY EndSame
<1>2. FinishTrap(c, task) \in {Complete(pending, task.suppressed),
                              Complete(ended, task.suppressed), ended}
  BY DEF FinishTrap
<1> HIDE DEF left
<1>3. SameStore(left, pending) /\ SameStore(left, ended)
  BY <1>1, EndSame DEF SameStore
<1> HIDE DEF pending, ended
<1>4. Keeps(pending, Complete(pending, task.suppressed))
      /\ Keeps(ended, Complete(ended, task.suppressed))
  BY <1>3, CompleteKeeps DEF SameStore
<1> QED
  BY <1>1, <1>2, <1>3, <1>4 DEF Keeps, SameStore

LEMMA ReleaseSame ==
    ASSUME NEW c, HasStore(c), NEW task
    PROVE  /\ SameStore(c, ReleaseText(c, task))
           /\ SameStore(c, Consume(c))
           /\ SameStore(c, Refused(c, task))
           /\ SameStore(c, Explain(Refused(c, task)))
<1>1. SameStore(c, ReleaseText(c, task)) /\ SameStore(c, Consume(c))
  BY DEF ReleaseText, Consume, HasStore, SameStore
<1> DEFINE d == [c EXCEPT !.status = 125]
<1>2. SameStore(c, d)
  BY DEF HasStore, SameStore
<1> HIDE DEF d
<1>3. \A tasks : /\ SameStore(d, Push(d, tasks))
                 /\ SameStore(d, Explain(Push(d, tasks)))
  BY <1>2, PushSame DEF SameStore
<1> QED
  BY <1>1, <1>2, <1>3 DEF Refused, SameStore, d

LEMMA FinishForSame ==
    ASSUME NEW c, HasStore(c), NEW task
    PROVE  SameStore(c, FinishFor(c, task)) /\ SameStore(c, ForItem(c, task))
<1> DEFINE r == ReleaseText(c, task)
           left == [r EXCEPT !.ev.loops = @ - 1, !.status = task.result]
<1>1. SameStore(c, r)
  BY ReleaseSame
<1> HIDE DEF r
<1>2. SameStore(r, left)
  BY <1>1 DEF SameStore, HasStore
<1> HIDE DEF left
<1>3. \A tasks : SameStore(left, Push(left, tasks)) /\ SameStore(c, Push(c, tasks))
  BY <1>2, PushSame DEF SameStore
<1>4. SameStore(c, FinishFor(c, task))
  BY <1>1, <1>2, <1>3 DEF FinishFor, SameStore, r, left
<1> QED
  BY <1>3, <1>4 DEF ForItem

LEMMA FinishWhileSame ==
    ASSUME NEW c, HasStore(c), NEW task
    PROVE  SameStore(c, FinishWhile(c, task)) /\ SameStore(c, Condition(c, task))
<1> DEFINE left == [c EXCEPT !.ev.loops = @ - 1,
                             !.status = CASE c.ev.exiting -> c.ev.exitStatus
                                          [] ~c.ev.exiting /\ c.ev.returning ->
                                               c.ev.returnStatus
                                          [] OTHER -> task.result]
<1>1. SameStore(c, left)
  BY DEF SameStore, HasStore
<1>2. FinishWhile(c, task) = Push(left, <<[task EXCEPT !.kind = "COMPLETE"]>>)
  BY DEF FinishWhile
<1> HIDE DEF left
<1>3. \A tasks : SameStore(left, Push(left, tasks)) /\ SameStore(c, Push(c, tasks))
  BY <1>1, PushSame DEF SameStore
<1> QED
  BY <1>1, <1>2, <1>3 DEF Condition, SameStore

LEMMA CaseStepSame ==
    ASSUME NEW c, HasStore(c), NEW task
    PROVE  SameStore(c, CaseStep(c, task))
<1> DEFINE first == CHOOSE i \in Matching(task) : \A j \in Matching(task) : i <= j
           back(t) == ReleaseText([c EXCEPT !.status = t.result], t)
           ended(t) == Push(back(t),
                            <<[t EXCEPT !.kind = "COMPLETE", !.text = FALSE]>>)
<1>1. ASSUME NEW t PROVE SameStore(c, ended(t))
  <2> DEFINE d == [c EXCEPT !.status = t.result]
  <2>1. SameStore(c, d)
    BY DEF SameStore, HasStore
  <2> HIDE DEF d
  <2>2. SameStore(d, ReleaseText(d, t))
    BY <2>1, ReleaseSame DEF SameStore
  <2>3. \A tasks : SameStore(ReleaseText(d, t), Push(ReleaseText(d, t), tasks))
    BY <2>2, PushSame DEF SameStore
  <2> QED
    BY <2>1, <2>2, <2>3 DEF SameStore, d
<1>2. \A tasks : SameStore(c, Push(c, tasks))
  BY PushSame
<1>3. \/ \E tasks : CaseStep(c, task) = Push(c, tasks)
      \/ \E t : CaseStep(c, task) = ended(t)
  BY DEF CaseStep
<1> HIDE DEF ended
<1> QED
  BY <1>1, <1>2, <1>3

LEMMA LeaveSame ==
    ASSUME NEW c, HasStore(c), NEW saved
    PROVE  /\ SameStore(c, LeaveFunction(c, saved))
           /\ SameStore(c, LeaveSource(c, saved))
           /\ SameStore(c, EnterFunction(c))
           /\ SameStore(c, BeginExit(c))
           /\ SameStore(c, Fail(c))
BY DEF LeaveFunction, LeaveSource, EnterFunction, BeginExit, Fail, SameStore,
       HasStore

LEMMA EndsKeeps ==
    ASSUME NEW c, HasStore(c), NEW status
    PROVE  Keeps(c, Ends(c, status))
<1> DEFINE d == [c EXCEPT !.status = status]
<1>1. SameStore(c, d)
  BY DEF SameStore, HasStore
<1>2. Ends(c, status) = Complete(d, Suppressed(Top))
  BY DEF Ends
<1> HIDE DEF d
<1> QED
  BY <1>1, <1>2, CompleteKeeps DEF SameStore, Keeps

(***************************************************************************)
(* The processes.                                                          *)
(***************************************************************************)
ProcessOK(c) == HasStore(c) /\ Sound(c.traps)

WaiterOK(p) == "run" \in DOMAIN p /\ ProcessOK(p.run)

(* The snapshot of a subshell has every action of the process with store   *)
(* up that started it.                                                     *)
Lists(up, t) ==
    t.snapshot # NoSnapshot =>
        \A c \in Conditions : HasAction(up, c) => t.snapshot[c] = "ACTION"

IsSeq(s) == \E S : s \in Seq(S)

(* TrapsOK speaks of the innermost pair of processes; when a subshell ends *)
(* the pair below it becomes the innermost one, so that every pair of the  *)
(* chain must be kept.                                                     *)
TrapsInv ==
    /\ ProcessOK(run)
    /\ IsSeq(parents)
    /\ \A i \in 1..Len(parents) : WaiterOK(parents[i])
    /\ \A i \in 1..Len(parents) : i > 1 =>
          Lists(parents[i - 1].run.traps, parents[i].run.traps)
    /\ Len(parents) > 0 => Lists(parents[Len(parents)].run.traps, run.traps)

LEMMA SeqLen ==
    ASSUME NEW s, IsSeq(s)
    PROVE  /\ Len(s) \in Nat /\ DOMAIN s = 1..Len(s)
           /\ s = <<>> <=> Len(s) = 0
<1> PICK S : s \in Seq(S)
  BY DEF IsSeq
<1> QED
  OBVIOUS

LEMMA SeqAppend ==
    ASSUME NEW s, IsSeq(s), NEW x
    PROVE  /\ IsSeq(Append(s, x))
           /\ Len(Append(s, x)) = Len(s) + 1
           /\ Append(s, x)[Len(s) + 1] = x
           /\ \A i \in 1..Len(s) : Append(s, x)[i] = s[i]
<1> PICK S : s \in Seq(S)
  BY DEF IsSeq
<1>1. s \in Seq(S \cup {x}) /\ x \in S \cup {x}
  OBVIOUS
<1> QED
  BY <1>1 DEF IsSeq

LEMMA SeqFront ==
    ASSUME NEW s, IsSeq(s), Len(s) > 0
    PROVE  /\ IsSeq(Front(s))
           /\ Len(Front(s)) = Len(s) - 1
           /\ \A i \in 1..(Len(s) - 1) : Front(s)[i] = s[i]
           /\ Last(s) = s[Len(s)]
<1> PICK S : s \in Seq(S)
  BY DEF IsSeq
<1>1. Front(s) = SubSeq(s, 1, Len(s) - 1) /\ Last(s) = s[Len(s)]
  BY DEF Front, Last
<1> DEFINE m == Len(s) - 1
<1>2. m \in Nat /\ m \in Int /\ 1 \in Int /\ \A i \in 1..m : s[i] \in S
  OBVIOUS
<1> HIDE DEF m
<1>3. /\ SubSeq(s, 1, m) \in Seq(S)
      /\ Len(SubSeq(s, 1, m)) = IF 1 <= m THEN m - 1 + 1 ELSE 0
      /\ \A i \in 1..m - 1 + 1 : SubSeq(s, 1, m)[i] = s[1 + i - 1]
  BY <1>2, SubSeqProperties
<1>4. /\ Len(SubSeq(s, 1, m)) = m
      /\ \A i \in 1..m : SubSeq(s, 1, m)[i] = s[i]
  <2>1. m - 1 + 1 = m /\ \A i \in 1..m : 1 + i - 1 = i
    BY <1>2
  <2> QED
    BY <1>2, <1>3, <2>1
<1> QED
  BY <1>1, <1>3, <1>4 DEF IsSeq, m

LEMMA SeqExcept ==
    ASSUME IsSeq(parents), NEW i \in 1..Len(parents), NEW x,
           parents' = [parents EXCEPT ![i] = x]
    PROVE  /\ IsSeq(parents')
           /\ Len(parents') = Len(parents)
           /\ parents'[i] = x
           /\ \A j \in 1..Len(parents) : j # i => parents'[j] = parents[j]
<1> PICK S : parents \in Seq(S)
  BY DEF IsSeq
<1>1. parents \in Seq(S \cup {x}) /\ x \in S \cup {x}
  OBVIOUS
<1>2. parents' \in Seq(S \cup {x})
  BY <1>1
<1> QED
  BY <1>1, <1>2 DEF IsSeq

(* A store that differs in what is pending is listed, and lists, alike.    *)
LEMMA ListsAlike ==
    ASSUME NEW t, NEW u, NEW v, u.entries = t.entries, u.snapshot = t.snapshot
    PROVE  /\ Lists(v, t) => Lists(v, u)
           /\ Lists(t, v) => Lists(u, v)
BY DEF Lists, HasAction

LEMMA KeepsSound ==
    ASSUME NEW c, ProcessOK(c), NEW d, Keeps(c, d)
    PROVE  /\ ProcessOK(d)
           /\ d.traps.entries = c.traps.entries
           /\ d.traps.snapshot = c.traps.snapshot
BY TakeSound DEF ProcessOK, Keeps

(***************************************************************************)
(* The steps.                                                              *)
(***************************************************************************)
LEMMA PoppedSame ==
    ASSUME HasStore(run)
    PROVE  SameStore(run, Popped)
BY DEF Popped, SameStore, HasStore

(* A step of the process that executes whose store is kept. *)
LEMMA RunKeeps ==
    ASSUME TrapsInv, Keeps(run, run'), UNCHANGED parents
    PROVE  TrapsInv'
<1>1. /\ ProcessOK(run')
      /\ run'.traps.entries = run.traps.entries
      /\ run'.traps.snapshot = run.traps.snapshot
  BY KeepsSound DEF TrapsInv
<1>2. \A v : Lists(v, run.traps) => Lists(v, run'.traps)
  BY <1>1, ListsAlike
<1> QED
  BY <1>1, <1>2 DEF TrapsInv

(* What is done to the process under the task that was taken. *)
LEMMA SameKeeps ==
    ASSUME NEW c, NEW d, NEW e, SameStore(c, d), Keeps(d, e)
    PROVE  Keeps(c, e)
BY DEF SameStore, Keeps

LEMMA SameTwice ==
    ASSUME NEW c, NEW d, NEW e, SameStore(c, d), SameStore(d, e)
    PROVE  SameStore(c, e)
BY DEF SameStore

LEMMA SameIsKept ==
    ASSUME NEW c, NEW d, SameStore(c, d)
    PROVE  Keeps(c, d) /\ HasStore(d)
BY DEF SameStore, Keeps

(* Sequences, negation, conditions. *)
SequenceStep ==
    \/ PassNode \/ StartSequence \/ StepSequence
    \/ StartPipeline \/ StepNegate \/ StepComplete \/ StartIf \/ StepIf

LEMMA PoppedOps ==
    ASSUME HasStore(run)
    PROVE  /\ HasStore(Popped)
           /\ \A tasks : /\ Keeps(run, Push(Popped, tasks))
                         /\ Keeps(run, Explain(Push(Popped, tasks)))
           /\ \A suppressed : Keeps(run, Complete(Popped, suppressed))
           /\ \A status, suppressed :
                 Keeps(run, Complete([Popped EXCEPT !.status = status], suppressed))
           /\ \A status, tasks :
                 Keeps(run, Push([Popped EXCEPT !.status = status], tasks))
           /\ \A tasks, more : Keeps(run, Push(Push(Popped, tasks), more))
<1> DEFINE d(status) == [Popped EXCEPT !.status = status]
<1>1. SameStore(run, Popped) /\ HasStore(Popped)
  BY PoppedSame, SameIsKept
<1>2. \A status : SameStore(run, d(status)) /\ HasStore(d(status))
  BY <1>1 DEF SameStore, HasStore
<1> HIDE DEF d
<1>3. \A tasks : /\ SameStore(run, Push(Popped, tasks))
                 /\ SameStore(run, Explain(Push(Popped, tasks)))
  BY <1>1, PushSame, SameTwice
<1>4. \A suppressed : Keeps(run, Complete(Popped, suppressed))
  BY <1>1, CompleteKeeps, SameKeeps
<1>5. \A status, suppressed : Keeps(run, Complete(d(status), suppressed))
  BY <1>2, CompleteKeeps, SameKeeps
<1>6. \A status, tasks : SameStore(run, Push(d(status), tasks))
  BY <1>2, PushSame, SameTwice
<1>7. \A tasks, more : SameStore(run, Push(Push(Popped, tasks), more))
  BY <1>3, PushSame, SameTwice, SameIsKept
<1>8. /\ \A tasks : /\ Keeps(run, Push(Popped, tasks))
                    /\ Keeps(run, Explain(Push(Popped, tasks)))
      /\ \A status, tasks : Keeps(run, Push(d(status), tasks))
      /\ \A tasks, more : Keeps(run, Push(Push(Popped, tasks), more))
  BY <1>3, <1>6, <1>7, SameIsKept
<1> QED
  BY <1>1, <1>4, <1>5, <1>8 DEF d

LEMMA SequenceKeeps ==
    ASSUME HasStore(run), SequenceStep
    PROVE  Keeps(run, run') /\ UNCHANGED parents
<1>1. CASE PassNode
  BY <1>1, PoppedOps DEF PassNode, Keep
<1>2. CASE StartSequence
  BY <1>2, PoppedOps DEF StartSequence, Keep
<1>3. CASE StepSequence
  BY <1>3, PoppedOps DEF StepSequence, Keep
<1>4. CASE StartPipeline
  BY <1>4, PoppedOps DEF StartPipeline, Keep
<1>5. CASE StepNegate
  <2>1. run' = Complete([Popped EXCEPT !.status = Flip(Popped.status)], Top.suppressed)
    BY <1>5 DEF StepNegate
  <2> QED
    BY <1>5, <2>1, PoppedOps DEF StepNegate, Keep
<1>6. CASE StepComplete
  BY <1>6, PoppedOps DEF StepComplete, Keep
<1>7. CASE StartIf
  BY <1>7, PoppedOps DEF StartIf, Keep
<1>8. CASE StepIf
  BY <1>8, PoppedOps DEF StepIf, Keep
<1> QED
  BY <1>1, <1>2, <1>3, <1>4, <1>5, <1>6, <1>7, <1>8 DEF SequenceStep

(* The case command. *)
CaseCommandStep == StartCase \/ StepCase \/ FailCase \/ StepCaseAfter

LEMMA CaseKeeps ==
    ASSUME HasStore(run), CaseCommandStep
    PROVE  Keeps(run, run') /\ UNCHANGED parents
<1>0. SameStore(run, Popped) /\ HasStore(Popped)
  BY PoppedSame, SameIsKept
<1>1. CASE StartCase
  <2> DEFINE d == [Popped EXCEPT !.ev.texts = @ + 1]
  <2>1. SameStore(run, d) /\ HasStore(d)
    BY <1>0 DEF SameStore, HasStore
  <2>2. \/ \E tasks : run' = Explain(Push(d, tasks))
        \/ run' = Explain(Refused(Popped, Top))
    BY <1>1 DEF StartCase
  <2> HIDE DEF d
  <2>3. SameStore(run, run')
    BY <1>0, <2>1, <2>2, PushSame, ReleaseSame, SameTwice
  <2> QED
    BY <1>1, <2>3, SameIsKept DEF StartCase
<1>2. CASE StepCase
  BY <1>0, <1>2, CaseStepSame, SameTwice, SameIsKept DEF StepCase, Keep
<1>3. CASE FailCase
  <2>1. SameStore(run, ReleaseText(Popped, Top))
    BY <1>0, ReleaseSame, SameTwice
  <2>2. SameStore(run, [ReleaseText(Popped, Top) EXCEPT !.status = 125])
    BY <2>1 DEF SameStore, HasStore
  <2> QED
    BY <1>3, <2>2, SameIsKept DEF FailCase
<1>4. CASE StepCaseAfter
  <2>1. \/ \E tasks : run' = Push(ReleaseText(Popped, Top), tasks)
        \/ \E task : run' = CaseStep(Popped, task)
    BY <1>4 DEF StepCaseAfter
  <2>2. SameStore(run, ReleaseText(Popped, Top))
        /\ HasStore(ReleaseText(Popped, Top))
    BY <1>0, ReleaseSame, SameTwice, SameIsKept
  <2>3. SameStore(run, run')
    BY <1>0, <2>1, <2>2, CaseStepSame, PushSame, SameTwice
  <2> QED
    BY <1>4, <2>3, SameIsKept DEF StepCaseAfter, Keep
<1> QED
  BY <1>1, <1>2, <1>3, <1>4 DEF CaseCommandStep

(* The loops. *)
LoopStep ==
    \/ StartFor \/ StepFor \/ FailFor \/ StepForAfter
    \/ StartWhile \/ StepCondition \/ StepBody

LEMMA LoopKeeps ==
    ASSUME HasStore(run), LoopStep
    PROVE  Keeps(run, run') /\ UNCHANGED parents
<1>0. SameStore(run, Popped) /\ HasStore(Popped)
  BY PoppedSame, SameIsKept
<1>a. SameStore(run, Consume(Popped)) /\ HasStore(Consume(Popped))
  BY <1>0, ReleaseSame, SameTwice, SameIsKept
<1>b. \A c \in {Popped, Consume(Popped)} : \A task :
         /\ SameStore(run, FinishFor(c, task))
         /\ SameStore(run, ForItem(c, task))
         /\ SameStore(run, FinishWhile(c, task))
         /\ SameStore(run, Condition(c, task))
  BY <1>0, <1>a, FinishForSame, FinishWhileSame, SameTwice
<1>1. CASE StartFor
  <2> DEFINE d(n) == [Popped EXCEPT !.ev.loops = @ + 1, !.ev.texts = @ + n]
  <2>1. \A n : SameStore(run, d(n)) /\ HasStore(d(n))
    BY <1>0 DEF SameStore, HasStore
  <2>2. \/ \E n, tasks : run' = Explain(Push(d(n), tasks))
        \/ run' = Explain(Refused(Popped, Top))
    BY <1>1 DEF StartFor
  <2> HIDE DEF d
  <2>3. SameStore(run, run')
    BY <1>0, <2>1, <2>2, PushSame, ReleaseSame, SameTwice
  <2> QED
    BY <1>1, <2>3, SameIsKept DEF StartFor
<1>2. CASE StepFor
  BY <1>2, <1>b, SameIsKept DEF StepFor, Keep
<1>3. CASE FailFor
  BY <1>3, <1>b, SameIsKept DEF FailFor
<1>4. CASE StepForAfter
  BY <1>4, <1>b, SameIsKept DEF StepForAfter, Keep
<1>5. CASE StartWhile
  <2> DEFINE d == [Popped EXCEPT !.ev.loops = @ + 1]
             task == Task("WHILE", Top.node, Top.suppressed)
             c == Condition(d, task)
  <2>1. SameStore(run, d) /\ HasStore(d)
    BY <1>0 DEF SameStore, HasStore
  <2>2. run' \in {c, Explain([c EXCEPT !.ev.loops = run.ev.loops])}
    BY <1>5 DEF StartWhile
  <2> HIDE DEF d, task
  <2>3. SameStore(run, c)
    BY <2>1, FinishWhileSame, SameTwice
  <2> HIDE DEF c
  <2>4. SameStore(run, Explain([c EXCEPT !.ev.loops = run.ev.loops]))
    BY <2>3 DEF Explain, SameStore, HasStore
  <2> QED
    BY <1>5, <2>2, <2>3, <2>4, SameIsKept DEF StartWhile, Keep
<1>6. CASE StepCondition
  <2>1. \A tasks : SameStore(run, Push(Popped, tasks))
    BY <1>0, PushSame, SameTwice
  <2> QED
    BY <1>6, <2>1, <1>b, SameIsKept DEF StepCondition, Keep
<1>7. CASE StepBody
  BY <1>7, <1>b, SameIsKept DEF StepBody, Keep
<1> QED
  BY <1>1, <1>2, <1>3, <1>4, <1>5, <1>6, <1>7 DEF LoopStep

(* Simple commands, functions and sourced text. *)
CommandStep ==
    \/ RunCommand \/ RunCounter \/ RunSet \/ RunSpecialFailure
    \/ RunExit \/ RunReturn \/ RunLoopControl \/ AsyncParent

FrameStep ==
    \/ CallFunction \/ FinishFunction \/ RunSource \/ FinishSource
    \/ FinishAction \/ FinishChild \/ FailFork

LEMMA CommandKeeps ==
    ASSUME HasStore(run), CommandStep
    PROVE  Keeps(run, run') /\ UNCHANGED parents
<1>0. SameStore(run, Popped) /\ HasStore(Popped)
  BY PoppedSame, SameIsKept
<1>a. \A c, status : SameStore(run, c) => Keeps(run, Ends(c, status))
  BY EndsKeeps, SameIsKept, SameKeeps
<1>1. CASE RunCommand
  BY <1>0, <1>1, <1>a DEF RunCommand
<1>2. CASE RunCounter
  <2>1. SameStore(run, [Popped EXCEPT !.ev.value = @ + 1])
    BY <1>0 DEF SameStore, HasStore
  <2> QED
    BY <1>2, <1>a, <2>1 DEF RunCounter, Keep
<1>3. CASE RunSet
  <2>1. SameStore(run, [Popped EXCEPT !.ev.errexit = Command.on])
    BY <1>0 DEF SameStore, HasStore
  <2> QED
    BY <1>3, <1>a, <2>1 DEF RunSet, Keep
<1>4. CASE RunSpecialFailure
  <2>1. SameStore(run, [Popped EXCEPT !.ev.fatal = TRUE])
    BY <1>0 DEF SameStore, HasStore
  <2> QED
    BY <1>4, <1>a, <2>1 DEF RunSpecialFailure, Keep
<1>5. CASE RunExit
  <2> DEFINE d(status) == [Popped EXCEPT !.ev.exiting = TRUE,
                                         !.ev.exitStatus = status]
  <2>1. \A status : SameStore(run, d(status))
    BY <1>0 DEF SameStore, HasStore
  <2>2. \E status : run' = Ends(d(status), status)
    BY <1>5 DEF RunExit
  <2> HIDE DEF d
  <2> QED
    BY <1>5, <1>a, <2>1, <2>2 DEF RunExit, Keep
<1>6. CASE RunReturn
  <2> DEFINE d == [Popped EXCEPT !.ev.returning = TRUE,
                                 !.ev.returnStatus = Told(Command.status)]
  <2>1. SameStore(run, d)
    BY <1>0 DEF SameStore, HasStore
  <2>2. run' \in {Ends(Popped, Told(1)), Ends(d, Told(Command.status))}
    BY <1>6 DEF RunReturn
  <2> HIDE DEF d
  <2> QED
    BY <1>0, <1>6, <1>a, <2>1, <2>2 DEF RunReturn, Keep
<1>7. CASE RunLoopControl
  <2> DEFINE d == [Popped EXCEPT
                     !.ev.control = Command.op,
                     !.ev.levels = IF Command.count < run.ev.loops
                                   THEN Command.count ELSE run.ev.loops]
  <2>1. SameStore(run, d)
    BY <1>0 DEF SameStore, HasStore
  <2>2. run' \in {Ends(Popped, Told(1)), Ends(d, Told(0))}
    BY <1>7 DEF RunLoopControl
  <2> HIDE DEF d
  <2> QED
    BY <1>0, <1>7, <1>a, <2>1, <2>2 DEF RunLoopControl, Keep
<1>8. CASE AsyncParent
  BY <1>0, <1>8, <1>a DEF AsyncParent, Keep
<1> QED
  BY <1>1, <1>2, <1>3, <1>4, <1>5, <1>6, <1>7, <1>8 DEF CommandStep

LEMMA FrameKeeps ==
    ASSUME HasStore(run), FrameStep
    PROVE  Keeps(run, run') /\ UNCHANGED parents
<1>0. SameStore(run, Popped) /\ HasStore(Popped)
  BY PoppedSame, SameIsKept
<1>a. \A c, status : SameStore(run, c) => Keeps(run, Ends(c, status))
  BY EndsKeeps, SameIsKept, SameKeeps
<1>b. \A c, tasks : SameStore(run, c) => Keeps(run, Explain(Push(c, tasks)))
  BY PushSame, SameIsKept, SameTwice
<1>c. \A c, suppressed : SameStore(run, c) => Keeps(run, Complete(c, suppressed))
  BY CompleteKeeps, SameIsKept, SameKeeps
<1>1. CASE CallFunction
  <2>1. SameStore(run, EnterFunction(Popped))
    BY <1>0, LeaveSame, SameTwice
  <2> QED
    BY <1>0, <1>1, <1>a, <1>b, <2>1 DEF CallFunction, Keep
<1>2. CASE FinishFunction
  <2>1. SameStore(run, LeaveFunction(Popped, Top.saved))
    BY <1>0, LeaveSame, SameTwice
  <2> QED
    BY <1>2, <1>c, <2>1 DEF FinishFunction, Keep
<1>3. CASE RunSource
  <2> DEFINE entered(n) == [EnterSource(Popped) EXCEPT !.ev.dots = @ + n]
             failed == [Popped EXCEPT !.ev.fatal = TRUE]
  <2>1. SameStore(run, EnterSource(Popped))
    BY <1>0, EndSame, SameTwice
  <2>2. \A n : SameStore(run, entered(n))
    BY <2>1 DEF SameStore, HasStore
  <2>3. SameStore(run, failed)
    BY <1>0 DEF SameStore, HasStore
  <2>4. \/ run' = Ends(failed, 125)
        \/ \E n, tasks : run' = Explain(Push(entered(n), tasks))
    BY <1>3 DEF RunSource
  <2> HIDE DEF entered, failed
  <2>5. Keeps(run, run')
    BY <1>a, <1>b, <2>2, <2>3, <2>4
  <2> QED
    BY <1>3, <2>5 DEF RunSource, Keep
<1>4. CASE FinishSource
  <2>1. SameStore(run, LeaveSource(Popped, Top.saved))
    BY <1>0, LeaveSame, SameTwice
  <2> QED
    BY <1>4, <1>c, <2>1 DEF FinishSource, Keep
<1>5. CASE FinishAction
  BY <1>0, <1>5, FinishTrapKeeps, SameKeeps DEF FinishAction, Keep
<1>6. CASE FinishChild
  BY <1>0, <1>6, LeaveSame, SameTwice, SameIsKept DEF FinishChild, Keep
<1>7. CASE FailFork
  BY <1>0, <1>7, LeaveSame, SameTwice, SameIsKept DEF FailFork
<1> QED
  BY <1>1, <1>2, <1>3, <1>4, <1>5, <1>6, <1>7 DEF FrameStep

(* The action of EXIT and the next command of the script. *)
LEMMA BoundaryKeeps ==
    ASSUME HasStore(run), RunExitAction \/ ReadCommand
    PROVE  Keeps(run, run') /\ UNCHANGED parents
<1>1. CASE RunExitAction
  <2> DEFINE begun == [BeginExit(run) EXCEPT !.stack = <<>>, !.live = TRUE,
                                             !.base = Held(run.ev)]
             failed == [begun EXCEPT !.ev.fatal = TRUE]
             saved == SavedTrap(run, 0)
  <2>1. SameStore(run, BeginExit(run))
    BY LeaveSame
  <2>2. SameStore(run, begun)
    BY <2>1 DEF SameStore, HasStore
  <2>3. SameStore(run, failed)
    BY <2>2 DEF SameStore, HasStore
  <2>4. run' \in {Push(EnterSource(begun), ActionTasks(saved, FALSE)),
                  EndExit(failed, saved, 125)}
    BY <1>1 DEF RunExitAction
  <2> HIDE DEF begun, failed, saved
  <2>5. SameStore(run, EnterSource(begun)) /\ HasStore(EnterSource(begun))
    BY <2>2, EndSame, SameTwice, SameIsKept
  <2>6. SameStore(run, run')
    BY <2>2, <2>3, <2>4, <2>5, EndSame, PushSame, SameTwice, SameIsKept
  <2> QED
    BY <1>1, <2>6, SameIsKept DEF RunExitAction, Keep
<1>2. CASE ReadCommand
  BY <1>2 DEF ReadCommand, NewRun, Keeps, HasStore
<1> QED
  BY <1>1, <1>2

(* A trap of its own makes a subshell forget those it had on entry. *)
LEMMA RunTrapInv ==
    ASSUME TrapsInv, RunTrap
    PROVE  TrapsInv'
<1> DEFINE t == Configure(run.traps, Command.condition, Command.action)
           d == [Popped EXCEPT !.traps = t]
<1>0. HasStore(run) /\ SameStore(run, Popped) /\ HasStore(Popped)
  BY PoppedSame, SameIsKept DEF TrapsInv, ProcessOK
<1>1. Sound(t) /\ t.snapshot = NoSnapshot
  BY ConfigureSound DEF RunTrap, TrapsInv, ProcessOK
<1>2. HasStore(d) /\ d.traps = t
  BY <1>0 DEF HasStore
<1>3. run' = Ends(d, Told(0)) /\ UNCHANGED parents
  BY <1>0 DEF RunTrap, Keep, SameStore
<1> HIDE DEF t, d
<1>4. Keeps(d, run')
  BY <1>2, <1>3, EndsKeeps
<1>5. ProcessOK(d)
  BY <1>1, <1>2 DEF ProcessOK
<1>6. ProcessOK(run') /\ run'.traps.snapshot = NoSnapshot
  BY <1>1, <1>2, <1>4, <1>5, KeepsSound
<1> QED
  BY <1>3, <1>6 DEF TrapsInv, Lists

LEMMA ForkSound ==
    ASSUME NEW c, ProcessOK(c), NEW d, SameStore(c, d)
    PROVE  /\ ProcessOK(d)
           /\ \A ev, stack :
                 /\ ProcessOK(Fork(c, ev, stack))
                 /\ Lists(d.traps, Fork(c, ev, stack).traps)
           /\ \A stage, suppressed :
                 /\ ProcessOK(StageRun(c, stage, suppressed))
                 /\ Lists(d.traps, StageRun(c, stage, suppressed).traps)
<1>1. ProcessOK(d) /\ d.traps = c.traps
  BY DEF SameStore, ProcessOK
<1>2. /\ Sound(EnterSubshell(c.traps))
      /\ EnterSubshell(c.traps).snapshot = c.traps.entries
  BY SubshellSound DEF ProcessOK
<1>3. Lists(d.traps, EnterSubshell(c.traps))
  BY <1>1, <1>2 DEF Lists, HasAction
<1>4. \A ev, stack : /\ HasStore(Fork(c, ev, stack))
                     /\ Fork(c, ev, stack).traps = EnterSubshell(c.traps)
  BY DEF Fork, NewRun, HasStore
<1>5. ASSUME NEW stage, NEW suppressed
      PROVE  /\ HasStore(StageRun(c, stage, suppressed))
             /\ StageRun(c, stage, suppressed).traps = EnterSubshell(c.traps)
  <2> DEFINE ev == [c.ev EXCEPT !.returning = FALSE, !.exiting = FALSE,
                                !.fatal = FALSE]
             forked == Fork(c, ev, <<>>)
             called == EnterFunction(forked)
             tasks == FunctionTasks("CHILD_FINISH", ev, stage.cmd.name, FALSE,
                                    suppressed)
  <2>1. StageRun(c, stage, suppressed) \in
          {[called EXCEPT !.stack = tasks],
           [forked EXCEPT !.status = stage.cmd.status]}
    BY DEF StageRun
  <2>2. HasStore(forked) /\ forked.traps = EnterSubshell(c.traps)
    BY <1>4
  <2> HIDE DEF ev, forked, tasks
  <2>3. SameStore(forked, called)
    BY <2>2, LeaveSame
  <2> HIDE DEF called
  <2> QED
    BY <2>1, <2>2, <2>3 DEF SameStore, HasStore
<1> QED
  BY <1>1, <1>2, <1>3, <1>4, <1>5 DEF ProcessOK

(* The shell waits for a subshell or for the stages of a pipeline. *)
LEMMA StartChildInv ==
    ASSUME TrapsInv, StartSubshell \/ StartStages
    PROVE  TrapsInv'
<1>0. ProcessOK(run) /\ SameStore(run, Popped)
  BY PoppedSame DEF TrapsInv, ProcessOK
<1>1. PICK stages : parents' = Append(parents, Waiting(stages))
  BY DEF StartSubshell, StartStages
<1> DEFINE w == Waiting(stages)
           n == Len(parents)
<1>2. "run" \in DOMAIN w /\ w.run = Popped
  BY DEF Waiting
<1>3. WaiterOK(w) /\ w.run.traps = run.traps
  BY <1>0, <1>2, ForkSound DEF WaiterOK, SameStore
<1>4. ProcessOK(run') /\ Lists(w.run.traps, run'.traps)
  BY <1>0, <1>2, ForkSound DEF StartSubshell, StartStages
<1> HIDE DEF w
<1>5. /\ IsSeq(parents) /\ n \in Nat
      /\ IsSeq(parents') /\ Len(parents') = n + 1
      /\ parents'[n + 1] = w
      /\ \A i \in 1..n : parents'[i] = parents[i]
  BY <1>1, SeqAppend, SeqLen DEF TrapsInv, w
<1>6. \A i \in 1..Len(parents') : WaiterOK(parents'[i])
  BY <1>3, <1>5 DEF TrapsInv
<1>7. \A i \in 1..Len(parents') : i > 1 =>
         Lists(parents'[i - 1].run.traps, parents'[i].run.traps)
  <2> SUFFICES ASSUME NEW i \in 1..(n + 1), i > 1
               PROVE  Lists(parents'[i - 1].run.traps, parents'[i].run.traps)
    BY <1>5
  <2>1. CASE i = n + 1
    <3>1. parents'[i - 1] = parents[n] /\ n > 0
      BY <1>5, <2>1
    <3> QED
      BY <1>3, <1>5, <2>1, <3>1 DEF TrapsInv
  <2>2. CASE i \in 1..n
    BY <1>5, <2>2 DEF TrapsInv
  <2> QED
    BY <1>5, <2>1, <2>2
<1> QED
  BY <1>4, <1>5, <1>6, <1>7 DEF TrapsInv

(* The child of an asynchronous list has no process that waits for it. *)
LEMMA AsyncChildInv ==
    ASSUME TrapsInv, AsyncChild
    PROVE  TrapsInv'
<1>1. ProcessOK(run')
  BY ForkSound, PoppedSame DEF AsyncChild, TrapsInv, ProcessOK
<1>2. parents' = <<>>
  BY DEF AsyncChild
<1>3. IsSeq(parents') /\ Len(parents') = 0
  <2>1. <<>> \in Seq({})
    OBVIOUS
  <2> QED
    BY <1>2, <2>1 DEF IsSeq
<1> QED
  BY <1>1, <1>3 DEF TrapsInv

(* A child is gone: the next stage is forked, or the shell goes on. *)
LEMMA ResumeInv ==
    ASSUME TrapsInv, Resume
    PROVE  TrapsInv'
<1> DEFINE n == Len(parents)
           p == parents[n]
<1>1. /\ IsSeq(parents) /\ n \in Nat /\ n > 0
      /\ Last(parents) = p
      /\ IsSeq(Front(parents)) /\ Len(Front(parents)) = n - 1
      /\ \A i \in 1..(n - 1) : Front(parents)[i] = parents[i]
  BY SeqLen, SeqFront DEF TrapsInv, Resume
<1>2. WaiterOK(p) /\ ProcessOK(p.run) /\ "run" \in DOMAIN p
  BY <1>1 DEF TrapsInv, WaiterOK
<1>3. CASE p.stages # <<>>
  <2> DEFINE q == [p EXCEPT !.stages = Tail(@)]
  <2>1. /\ run' = StageRun(p.run, Head(p.stages), p.suppressed)
        /\ parents' = Append(Front(parents), q)
    BY <1>1, <1>3 DEF Resume
  <2>2. WaiterOK(q) /\ q.run = p.run
    BY <1>2 DEF WaiterOK
  <2> HIDE DEF q
  <2>3. SameStore(p.run, p.run)
    BY <1>2 DEF SameStore, ProcessOK
  <2>4. ProcessOK(run') /\ Lists(q.run.traps, run'.traps)
    BY <1>2, <2>1, <2>2, <2>3, ForkSound
  <2>5. /\ IsSeq(parents') /\ Len(parents') = n
        /\ parents'[n] = q
        /\ \A i \in 1..(n - 1) : parents'[i] = parents[i]
    BY <1>1, <2>1, SeqAppend
  <2>6. \A i \in 1..n : /\ WaiterOK(parents'[i])
                         /\ parents'[i].run = parents[i].run
    BY <1>1, <2>2, <2>5 DEF TrapsInv
  <2> HIDE DEF n, p
  <2>7. \A i \in 1..n : i > 1 =>
           Lists(parents'[i - 1].run.traps, parents'[i].run.traps)
    <3> SUFFICES ASSUME NEW i \in 1..n, i > 1
                 PROVE  Lists(parents'[i - 1].run.traps, parents'[i].run.traps)
      OBVIOUS
    <3>1. i - 1 \in 1..n
      BY <1>1
    <3> QED
      BY <2>6, <3>1 DEF TrapsInv, n
  <2> QED
    BY <2>4, <2>5, <2>6, <2>7 DEF TrapsInv
<1>4. CASE p.stages = <<>>
  <2> DEFINE c == [p.run EXCEPT !.status = Negated(p.neg, run.status)]
  <2>1. run' = Complete(c, p.suppressed) /\ parents' = Front(parents)
    BY <1>1, <1>4 DEF Resume
  <2>2. HasStore(c) /\ c.traps = p.run.traps
    BY <1>2 DEF HasStore, ProcessOK
  <2> HIDE DEF c
  <2>3. Keeps(p.run, run')
    BY <2>1, <2>2, CompleteKeeps DEF Keeps
  <2>4. /\ ProcessOK(run')
        /\ run'.traps.entries = p.run.traps.entries
        /\ run'.traps.snapshot = p.run.traps.snapshot
    BY <1>2, <2>3, KeepsSound
  <2>5. /\ IsSeq(parents') /\ Len(parents') = n - 1
        /\ \A i \in 1..(n - 1) : parents'[i] = parents[i]
    BY <1>1, <2>1
  <2>6. \A i \in 1..(n - 1) : WaiterOK(parents'[i])
    BY <1>1, <2>5 DEF TrapsInv
  <2>7. \A i \in 1..(n - 1) : i > 1 =>
           Lists(parents'[i - 1].run.traps, parents'[i].run.traps)
    BY <1>1, <2>5 DEF TrapsInv
  <2>8. n - 1 > 0 => Lists(parents'[n - 1].run.traps, run'.traps)
    <3> SUFFICES ASSUME n - 1 > 0
                 PROVE  Lists(parents'[n - 1].run.traps, run'.traps)
      OBVIOUS
    <3>1. n \in 1..n /\ n > 1 /\ n - 1 \in 1..(n - 1)
      BY <1>1
    <3>2. Lists(parents[n - 1].run.traps, p.run.traps)
      BY <3>1 DEF TrapsInv
    <3>3. parents'[n - 1] = parents[n - 1]
      BY <2>5, <3>1
    <3> QED
      BY <2>4, <3>2, <3>3, ListsAlike
  <2> QED
    BY <2>4, <2>5, <2>6, <2>7, <2>8 DEF TrapsInv
<1> QED
  BY <1>3, <1>4

(* A signal is reported to the process that runs or to one that waits. *)
LEMMA SignalInv ==
    ASSUME TrapsInv, Signal
    PROVE  TrapsInv'
<1>1. PICK c \in Conditions \ {0} :
         \/ /\ HasAction(run.traps, c)
            /\ run' = [run EXCEPT !.traps = Arrive(@, c)]
            /\ UNCHANGED parents
         \/ \E i \in DOMAIN parents :
              /\ HasAction(parents[i].run.traps, c)
              /\ parents' = [parents EXCEPT ![i].run.traps = Arrive(@, c)]
              /\ UNCHANGED run
  BY DEF Signal
<1>2. CASE /\ HasAction(run.traps, c)
           /\ run' = [run EXCEPT !.traps = Arrive(@, c)]
           /\ UNCHANGED parents
  <2>1. HasStore(run') /\ run'.traps = Arrive(run.traps, c)
    BY <1>2 DEF TrapsInv, ProcessOK, HasStore
  <2>2. /\ Sound(run'.traps)
        /\ run'.traps.entries = run.traps.entries
        /\ run'.traps.snapshot = run.traps.snapshot
    BY <1>2, <2>1, ArriveSound DEF TrapsInv, ProcessOK
  <2>3. \A v : Lists(v, run.traps) => Lists(v, run'.traps)
    BY <2>2, ListsAlike
  <2> QED
    BY <1>2, <2>1, <2>2, <2>3 DEF TrapsInv, ProcessOK
<1>3. ASSUME NEW i \in DOMAIN parents,
             HasAction(parents[i].run.traps, c),
             parents' = [parents EXCEPT ![i].run.traps = Arrive(@, c)],
             UNCHANGED run
      PROVE  TrapsInv'
  <2> DEFINE n == Len(parents)
             p == parents[i]
             t == Arrive(p.run.traps, c)
             q == [p EXCEPT !.run.traps = t]
  <2>1. IsSeq(parents) /\ n \in Nat /\ i \in 1..n
    BY SeqLen DEF TrapsInv
  <2>2. WaiterOK(p)
    BY <2>1 DEF TrapsInv
  <2>3. /\ Sound(t) /\ t.entries = p.run.traps.entries
        /\ t.snapshot = p.run.traps.snapshot
    BY <1>3, <2>2, ArriveSound DEF WaiterOK, ProcessOK
  <2>4. parents' = [parents EXCEPT ![i] = q]
    BY <1>3
  <2> HIDE DEF t
  <2>5. WaiterOK(q) /\ q.run.traps = t
    BY <2>2, <2>3 DEF WaiterOK, ProcessOK, HasStore
  <2> HIDE DEF q
  <2>6. /\ IsSeq(parents') /\ Len(parents') = n
        /\ parents'[i] = q
        /\ \A j \in 1..n : j # i => parents'[j] = parents[j]
    <3> HIDE DEF p
    <3> QED
      BY <2>1, <2>4, SeqExcept
  <2>7. \A j \in 1..n :
           /\ WaiterOK(parents'[j])
           /\ parents'[j].run.traps.entries = parents[j].run.traps.entries
           /\ parents'[j].run.traps.snapshot = parents[j].run.traps.snapshot
    <3> SUFFICES ASSUME NEW j \in 1..n
                 PROVE  /\ WaiterOK(parents'[j])
                        /\ parents'[j].run.traps.entries
                              = parents[j].run.traps.entries
                        /\ parents'[j].run.traps.snapshot
                              = parents[j].run.traps.snapshot
      OBVIOUS
    <3>1. CASE j = i
      BY <2>3, <2>5, <2>6, <3>1
    <3>2. CASE j # i
      BY <2>6, <3>2 DEF TrapsInv
    <3> QED
      BY <3>1, <3>2
  <2> HIDE DEF p, n
  <2>8. \A j \in 1..n : \A v :
           /\ Lists(v, parents[j].run.traps) => Lists(v, parents'[j].run.traps)
           /\ Lists(parents[j].run.traps, v) => Lists(parents'[j].run.traps, v)
    BY <2>7, ListsAlike
  <2>9. \A j \in 1..n : j > 1 =>
           Lists(parents'[j - 1].run.traps, parents'[j].run.traps)
    <3> SUFFICES ASSUME NEW j \in 1..n, j > 1
                 PROVE  Lists(parents'[j - 1].run.traps, parents'[j].run.traps)
      OBVIOUS
    <3>1. j - 1 \in 1..n
      BY <2>1
    <3>2. Lists(parents[j - 1].run.traps, parents[j].run.traps)
      BY DEF TrapsInv, n
    <3> QED
      BY <2>8, <3>1, <3>2
  <2>10. n > 0 => Lists(parents'[n].run.traps, run'.traps)
    <3>1. n > 0 => n \in 1..n
      BY <2>1
    <3>2. n > 0 => Lists(parents[n].run.traps, run'.traps)
      BY <1>3 DEF TrapsInv, n
    <3> QED
      BY <2>8, <3>1, <3>2
  <2> QED
    BY <1>3, <2>6, <2>7, <2>9, <2>10 DEF TrapsInv
<1> QED
  BY <1>1, <1>2, <1>3

LEMMA TrapsInit ==
    ASSUME Init
    PROVE  TrapsInv
<1>1. ProcessOK(run)
  BY NewSound DEF Init, NewRun, ProcessOK, HasStore
<1>2. IsSeq(parents) /\ Len(parents) = 0
  <2>1. <<>> \in Seq({})
    OBVIOUS
  <2> QED
    BY <2>1 DEF IsSeq, Init
<1> QED
  BY <1>1, <1>2 DEF TrapsInv

LEMMA TrapsStep ==
    ASSUME TrapsInv, [Next]_vars
    PROVE  TrapsInv'
<1>0. HasStore(run)
  BY DEF TrapsInv, ProcessOK
<1>1. CASE SequenceStep
  BY <1>0, <1>1, SequenceKeeps, RunKeeps
<1>2. CASE CaseCommandStep
  BY <1>0, <1>2, CaseKeeps, RunKeeps
<1>3. CASE LoopStep
  BY <1>0, <1>3, LoopKeeps, RunKeeps
<1>4. CASE CommandStep
  BY <1>0, <1>4, CommandKeeps, RunKeeps
<1>5. CASE FrameStep
  BY <1>0, <1>5, FrameKeeps, RunKeeps
<1>6. CASE RunExitAction \/ ReadCommand
  BY <1>0, <1>6, BoundaryKeeps, RunKeeps
<1>7. CASE RunTrap
  BY <1>7, RunTrapInv
<1>8. CASE StartSubshell \/ StartStages
  BY <1>8, StartChildInv
<1>9. CASE AsyncChild
  BY <1>9, AsyncChildInv
<1>10. CASE Resume
  BY <1>10, ResumeInv
<1>11. CASE Signal
  BY <1>11, SignalInv
<1>12. CASE UNCHANGED vars
  BY <1>12 DEF vars, TrapsInv
<1>13. CASE Step
  BY <1>13, <1>1, <1>2, <1>3, <1>4, <1>5, <1>6, <1>7, <1>8, <1>9, <1>10
     DEF Step, SequenceStep, CaseCommandStep, LoopStep, CommandStep, FrameStep
<1> QED
  BY <1>11, <1>12, <1>13 DEF Next, Ended

(* Every pair of processes of the chain is kept: the inductive invariant.  *)
THEOREM TrapsInvariant == Spec => []TrapsInv
<1>1. Init => TrapsInv
  BY TrapsInit
<1>2. TrapsInv /\ [Next]_vars => TrapsInv'
  BY TrapsStep
<1> QED
  BY <1>1, <1>2, PTL DEF Spec

(* A signal that has an action and was reported is found at the next       *)
(* boundary, nothing without an action is, and a subshell that has not set *)
(* a trap lists those of the process that started it, whatever the script  *)
(* nests and whenever signals arrive (shell_traps.c:407-554).              *)
THEOREM TrapsAreKept == Spec => []TrapsOK
<1>1. TrapsInv => TrapsOK
  <2> SUFFICES ASSUME TrapsInv PROVE TrapsOK
    OBVIOUS
  <2>1. Len(parents) \in Nat /\ DOMAIN parents = 1..Len(parents)
        /\ (parents # <<>> => Len(parents) > 0)
    BY SeqLen DEF TrapsInv
  <2>2. StoreOK(run.traps)
    BY DEF TrapsInv, ProcessOK, Sound
  <2>3. \A i \in DOMAIN parents : StoreOK(parents[i].run.traps)
    BY <2>1 DEF TrapsInv, WaiterOK, ProcessOK, Sound
  <2>4. parents # <<>> => Lists(Last(parents).run.traps, run.traps)
    BY <2>1, SeqFront DEF TrapsInv
  <2> QED
    BY <2>2, <2>3, <2>4 DEF TrapsOK, Lists, QueryState
<1> QED
  BY <1>1, TrapsInvariant, PTL


(***************************************************************************)
(* The stack of a process.  A level is what the evaluator has counted; a   *)
(* task stands on the level below it and adds to it.                       *)
(***************************************************************************)
TaskFields == {"kind", "node", "suppressed", "cursor", "tested", "through",
               "result", "text", "frames", "waiting", "saved"}

Levels == [functions : Nat, slots : Nat, texts : Nat, loops : Nat, dots : Nat]

Over(l, t) ==
    [functions |-> l.functions + (IF IsFunction(t) THEN 1 ELSE 0),
     slots |-> l.slots + (IF IsSlot(t) THEN 1 ELSE 0),
     texts |-> l.texts + (IF HasText(t) THEN 1 ELSE 0),
     loops |-> IF IsFunction(t) THEN 0
               ELSE l.loops + (IF IsLoop(t) THEN 1 ELSE 0),
     dots |-> l.dots + (IF IsDot(t) THEN 1 ELSE 0)]

SavedKinds == {"function", "source", "trap"}

(* A frame remembers the level it has to bring back, and only the commands *)
(* that hold items have a text.                                            *)
Fits(t, l) ==
    /\ DOMAIN t = TaskFields
    /\ t.kind \in {"FUNCTION_FINISH", "CHILD_FINISH"}
         <=> t.saved.kind = "function"
    /\ t.kind = "SOURCE_FINISH" <=> t.saved.kind = "source"
    /\ t.kind = "TRAP_FINISH" <=> t.saved.kind = "trap"
    /\ t.saved.kind = "function" => t.saved.loops = l.loops /\ t.saved.levels = 0
    /\ t.saved.kind \in {"source", "trap"} => t.saved.slot = l.slots + 1
    /\ t.saved.kind = "source" => t.saved.dots = l.dots /\ t.saved.dot \in BOOLEAN
    /\ t.text \in BOOLEAN
    /\ t.text => t.kind \in {"CASE", "CASE_AFTER", "FOR", "FOR_AFTER"}

IsExit(t) == t.kind = "TRAP_FINISH" /\ t.saved.condition = 0

(* The levels of a stack that begins at base. *)
Climbs(h, stack, base) ==
    /\ h[0] = base
    /\ \A i \in 1..Len(stack) :
          /\ h[i] = Over(h[i - 1], stack[i])
          /\ Fits(stack[i], h[i - 1])
          /\ h[i - 1] \in Levels
          /\ IsExit(stack[i]) => i = 1

(* The frame of a for loop is on top while the loop picks an item, never   *)
(* below.                                                                  *)
Calm(stack) == \A i \in 1..Len(stack) : stack[i].kind # "FOR"

Standing(stack, base, l) ==
    /\ IsSeq(stack)
    /\ base \in Levels /\ l \in Levels
    /\ \E h : Climbs(h, stack, base) /\ h[Len(stack)] = l

LEMMA OverIsLevel ==
    ASSUME NEW l \in Levels, NEW t
    PROVE  Over(l, t) \in Levels
BY DEF Levels, Over

LEMMA SameLevel ==
    ASSUME NEW l \in Levels, NEW m \in Levels,
           l.functions = m.functions, l.slots = m.slots, l.texts = m.texts,
           l.loops = m.loops, l.dots = m.dots
    PROVE  l = m
BY DEF Levels

LEMMA EmptyStands ==
    ASSUME NEW base \in Levels
    PROVE  Standing(<<>>, base, base) /\ Calm(<<>>)
<1> DEFINE h == [i \in 0..0 |-> base]
<1>1. h[0] = base
  OBVIOUS
<1>2. IsSeq(<<>>) /\ Len(<<>>) = 0
  <2>1. <<>> \in Seq({})
    OBVIOUS
  <2> QED
    BY <2>1 DEF IsSeq
<1> HIDE DEF h
<1> QED
  BY <1>1, <1>2 DEF Standing, Climbs, Calm

LEMMA PushStands ==
    ASSUME NEW stack, NEW base, NEW l, Standing(stack, base, l),
           NEW t, Fits(t, l), IsExit(t) => stack = <<>>
    PROVE  Standing(Append(stack, t), base, Over(l, t))
<1> DEFINE n == Len(stack)
           s == Append(stack, t)
<1>1. PICK h : Climbs(h, stack, base) /\ h[n] = l
  BY DEF Standing
<1> DEFINE g == [i \in 0..n + 1 |-> IF i = n + 1 THEN Over(l, t) ELSE h[i]]
<1>2. /\ IsSeq(s) /\ Len(s) = n + 1 /\ s[n + 1] = t /\ n \in Nat
      /\ \A i \in 1..n : s[i] = stack[i]
      /\ stack = <<>> => n = 0
  BY SeqAppend, SeqLen DEF Standing
<1>3. g[n + 1] = Over(l, t) /\ \A i \in 0..n : g[i] = h[i]
  BY <1>2
<1> HIDE DEF g, s
<1>4. Climbs(g, s, base)
  <2>1. g[0] = base
    BY <1>1, <1>2, <1>3 DEF Climbs
  <2>2. ASSUME NEW i \in 1..n
        PROVE  /\ g[i] = Over(g[i - 1], s[i])
               /\ Fits(s[i], g[i - 1])
               /\ g[i - 1] \in Levels
               /\ IsExit(s[i]) => i = 1
    <3>1. i - 1 \in 0..n /\ i \in 0..n
      BY <1>2
    <3>2. g[i] = h[i] /\ g[i - 1] = h[i - 1] /\ s[i] = stack[i]
      BY <1>2, <1>3, <3>1
    <3> QED
      BY <1>1, <3>2 DEF Climbs
  <2>3. /\ g[n + 1] = Over(g[n], s[n + 1])
        /\ Fits(s[n + 1], g[n])
        /\ g[n] \in Levels
        /\ IsExit(s[n + 1]) => n + 1 = 1
    BY <1>1, <1>2, <1>3 DEF Standing
  <2>4. ASSUME NEW i \in 1..n + 1
        PROVE  /\ g[i] = Over(g[i - 1], s[i])
               /\ Fits(s[i], g[i - 1])
               /\ g[i - 1] \in Levels
               /\ IsExit(s[i]) => i = 1
    <3>1. CASE i = n + 1
      <4>1. i - 1 = n
        BY <1>2, <3>1
      <4> QED
        BY <2>3, <3>1, <4>1
    <3>2. CASE i # n + 1
      BY <1>2, <2>2, <3>2
    <3> QED
      BY <3>1, <3>2
  <2> QED
    BY <1>2, <2>1, <2>4 DEF Climbs
<1> QED
  BY <1>2, <1>3, <1>4, OverIsLevel DEF Standing, s

LEMMA PopStands ==
    ASSUME NEW stack, NEW base, NEW l, Standing(stack, base, l), stack # <<>>
    PROVE  \E k \in Levels :
              /\ Standing(Front(stack), base, k)
              /\ l = Over(k, Last(stack))
              /\ Fits(Last(stack), k)
              /\ IsExit(Last(stack)) => Front(stack) = <<>>
<1> DEFINE n == Len(stack)
           s == Front(stack)
<1>1. PICK h : Climbs(h, stack, base) /\ h[n] = l
  BY DEF Standing
<1>2. /\ IsSeq(stack) /\ n \in Nat /\ n > 0
      /\ IsSeq(s) /\ Len(s) = n - 1 /\ Last(stack) = stack[n]
      /\ \A i \in 1..(n - 1) : s[i] = stack[i]
      /\ n = 1 => s = <<>>
  BY SeqLen, SeqFront DEF Standing
<1> HIDE DEF s
<1>3. Climbs(h, s, base)
  BY <1>1, <1>2 DEF Climbs
<1>4. /\ l = Over(h[n - 1], Last(stack)) /\ Fits(Last(stack), h[n - 1])
      /\ h[n - 1] \in Levels
      /\ IsExit(Last(stack)) => n = 1
  BY <1>1, <1>2 DEF Climbs
<1>5. Standing(s, base, h[n - 1])
  BY <1>2, <1>3, <1>4 DEF Standing
<1> QED
  BY <1>2, <1>4, <1>5 DEF s

(***************************************************************************)
(* One process.                                                            *)
(***************************************************************************)
RunFields == {"stack", "status", "ev", "traps", "live", "child", "base"}

EvFields == {"exiting", "exitStatus", "returning", "returnStatus", "control",
             "levels", "loops", "fatal", "last", "functions", "dots", "sources",
             "slots", "texts", "errexit", "exitTrap", "value"}

Counted(c) ==
    /\ DOMAIN c = RunFields /\ DOMAIN c.ev = EvFields
    /\ Held(c.ev) \in Levels /\ c.ev.levels \in Nat
    /\ c.base \in Levels
    /\ Sound(c.traps)

(* No more loops are left than there are.                                  *)
Few(c) == c.ev.levels <= c.ev.loops \/ Doomed(c)

(* A process leaves loops or it returns or exits, never both.              *)
Single(c) == c.ev.levels # 0 => (~c.ev.returning /\ ~c.ev.exiting) \/ Doomed(c)

(* The action of EXIT gives the exit that it interrupted back, and then    *)
(* nothing is left to do.                                                  *)
Ending(c) == c.stack = <<>> /\ (c.ev.levels # 0 => ~c.ev.returning)

Rules(c) == Few(c) /\ (Single(c) \/ Ending(c))

(* A machine that found no room for the action of EXIT never runs again.   *)
Stuck(c) == ~c.live /\ c.ev.exitTrap # "idle"

(* What holds of every process between its steps ...                       *)
Sane(c) ==
    /\ Counted(c) /\ (Rules(c) \/ Stuck(c))
    /\ c.live => Standing(c.stack, c.base, Held(c.ev))
    /\ c.live => \A i \in 1..Len(c.stack) : c.stack[i].kind = "FOR" =>
                    i = Len(c.stack) /\ c.ev.levels = 0

(* ... and of one whose top task was taken, with the level that the rest   *)
(* of the stack stands for.                                                *)
Open(c, l) ==
    /\ Counted(c) /\ c.live
    /\ Standing(c.stack, c.base, l) /\ Calm(c.stack)

Ready(c) == Open(c, Held(c.ev)) /\ Rules(c)

(* Nothing that the levels or the rules read has changed.                  *)
Alike(c, d) ==
    /\ DOMAIN d = RunFields /\ DOMAIN d.ev = EvFields
    /\ d.stack = c.stack /\ d.live = c.live /\ d.base = c.base
    /\ Held(d.ev) = Held(c.ev) /\ d.ev.levels = c.ev.levels
    /\ d.ev.returning = c.ev.returning /\ d.ev.exiting = c.ev.exiting
    /\ d.ev.exitTrap = c.ev.exitTrap
    /\ c.ev.fatal => d.ev.fatal
    /\ Sound(c.traps) => Sound(d.traps)

LEMMA HeldFields ==
    ASSUME NEW e, NEW f, Held(e) = Held(f)
    PROVE  /\ e.functions = f.functions /\ e.slots = f.slots
           /\ e.texts = f.texts /\ e.loops = f.loops /\ e.dots = f.dots
<1>1. /\ e.functions = Held(e).functions /\ e.slots = Held(e).slots
      /\ e.texts = Held(e).texts /\ e.loops = Held(e).loops
      /\ e.dots = Held(e).dots
  BY DEF Held
<1>2. /\ f.functions = Held(f).functions /\ f.slots = Held(f).slots
      /\ f.texts = Held(f).texts /\ f.loops = Held(f).loops
      /\ f.dots = Held(f).dots
  BY DEF Held
<1> QED
  BY <1>1, <1>2

LEMMA AlikeRules ==
    ASSUME NEW c, NEW d, Alike(c, d)
    PROVE  /\ Counted(c) => Counted(d)
           /\ Rules(c) => Rules(d)
           /\ Single(c) => Single(d)
           /\ \A l : Open(c, l) => Open(d, l)
           /\ Ready(c) => Ready(d)
<1>1. Counted(c) => Counted(d)
  BY DEF Alike, Counted
<1>2. d.ev.loops = c.ev.loops
  BY HeldFields DEF Alike
<1>3. Doomed(c) => Doomed(d)
  BY DEF Alike, Doomed
<1>4. (Few(c) => Few(d)) /\ (Single(c) => Single(d)) /\ (Ending(c) => Ending(d))
  BY <1>2, <1>3 DEF Alike, Few, Single, Ending
<1>5. \A l : Open(c, l) => Open(d, l)
  BY <1>1 DEF Alike, Open
<1> QED
  BY <1>1, <1>4, <1>5 DEF Alike, Rules, Ready

LEMMA ReadyIsSane ==
    ASSUME NEW c, Ready(c)
    PROVE  Sane(c)
BY DEF Ready, Open, Sane, Calm

(* A task that has no part in the levels.                                  *)
PlainTask(t) ==
    /\ DOMAIN t = TaskFields
    /\ t.saved.kind \notin SavedKinds
    /\ ~t.text /\ t.text \in BOOLEAN
    /\ t.kind \notin {"FUNCTION_FINISH", "CHILD_FINISH", "SOURCE_FINISH",
                      "TRAP_FINISH", "FOR"}
    /\ ~IsLoop(t)

LEMMA PlainTaskFits ==
    ASSUME NEW t, PlainTask(t), NEW l \in Levels
    PROVE  Fits(t, l) /\ Over(l, t) = l /\ ~IsExit(t) /\ t.kind # "FOR"
<1>1. Fits(t, l) /\ ~IsExit(t) /\ t.kind # "FOR"
  BY DEF PlainTask, Fits, IsExit, SavedKinds
<1>2. ~IsFunction(t) /\ ~IsSlot(t) /\ ~HasText(t) /\ ~IsLoop(t) /\ ~IsDot(t)
  BY DEF PlainTask, IsFunction, IsSlot, HasText, IsDot, SavedKinds
<1>3. Over(l, t) = l
  BY <1>2 DEF Over, Levels
<1> QED
  BY <1>1, <1>3

LEMMA CalmAppend ==
    ASSUME NEW stack, IsSeq(stack), Calm(stack), NEW t
    PROVE  /\ t.kind # "FOR" => Calm(Append(stack, t))
           /\ \A i \in 1..Len(Append(stack, t)) :
                 Append(stack, t)[i].kind = "FOR" => i = Len(Append(stack, t))
           /\ stack # <<>> => Append(stack, t)[1] = stack[1]
           /\ Append(stack, t) # <<>>
<1> DEFINE s == Append(stack, t)
<1>1. /\ Len(s) = Len(stack) + 1 /\ Len(stack) \in Nat
      /\ s[Len(stack) + 1] = t
      /\ \A i \in 1..Len(stack) : s[i] = stack[i]
      /\ stack = <<>> <=> Len(stack) = 0
      /\ IsSeq(s)
  BY SeqAppend, SeqLen
<1> HIDE DEF s
<1>2. s # <<>>
  BY <1>1, SeqLen
<1>3. stack # <<>> => 1 \in 1..Len(stack)
  BY <1>1
<1> QED
  BY <1>1, <1>2, <1>3 DEF Calm, s

(* The stack has no room. *)
Full(c) == Len(c.stack) + 1 > TaskCap

LEMMA ExplainSane ==
    ASSUME NEW d, Sane(d), DOMAIN d = RunFields
    PROVE  Sane(Explain(d))
<1>1. CASE d.live
  BY <1>1 DEF Explain
<1>2. CASE ~d.live
  <2> DEFINE e == [d EXCEPT !.status = 125]
  <2>1. Explain(d) = e
    BY <1>2 DEF Explain
  <2>2. /\ DOMAIN e = RunFields /\ e.stack = d.stack /\ e.live = d.live
        /\ e.ev = d.ev /\ e.base = d.base /\ e.traps = d.traps
    BY DEF RunFields
  <2> HIDE DEF e
  <2>3. Alike(d, e)
    BY <2>2 DEF Alike, Sane, Counted
  <2> QED
    BY <1>2, <2>1, <2>2, <2>3, AlikeRules DEF Sane, Stuck
<1> QED
  BY <1>1, <1>2

(* A machine that has stopped takes nothing.                               *)
LEMMA DeadPush ==
    ASSUME NEW d, Sane(d), DOMAIN d = RunFields, ~d.live, Full(d), NEW u
    PROVE  Sane(Push(d, <<u>>))
<1> DEFINE e == Push(d, <<u>>)
<1>1. e = [d EXCEPT !.live = FALSE]
  BY DEF Push, Full
<1> HIDE DEF e
<1>2. /\ DOMAIN e = RunFields /\ e.stack = d.stack /\ ~e.live
      /\ e.ev = d.ev /\ e.base = d.base /\ e.traps = d.traps
  BY <1>1 DEF RunFields
<1>3. Sane(e)
  BY <1>2 DEF Sane, Counted, Rules, Stuck, Few, Single, Ending, Doomed
<1> QED
  BY <1>3 DEF e

(* What a push of t on c leaves.                                           *)
Pushed(c, t, d) ==
    /\ DOMAIN d = RunFields /\ d.ev = c.ev /\ Few(d) /\ Single(d)
    /\ (d.live /\ t.kind # "FOR") => Open(d, Held(d.ev))

(* A push may find the stack full; else the task stands on its level.      *)
LEMMA PushSaneOne ==
    ASSUME NEW c, NEW l, Open(c, l), Few(c), Single(c),
           NEW t, Fits(t, l), Held(c.ev) = Over(l, t), IsExit(t) => c.stack = <<>>,
           t.kind = "FOR" => c.ev.levels = 0
    PROVE  /\ Sane(Push(c, <<t>>)) /\ Sane(Explain(Push(c, <<t>>)))
           /\ Pushed(c, t, Push(c, <<t>>))
           /\ ~Push(c, <<t>>).live => Full(Push(c, <<t>>))
<1> DEFINE d == Push(c, <<t>>)
           s == Append(c.stack, t)
<1>0. DOMAIN c = RunFields /\ DOMAIN c.ev = EvFields /\ c.live
      /\ IsSeq(c.stack) /\ Calm(c.stack)
  BY DEF Open, Counted, Standing
<1>1. \/ d = [c EXCEPT !.live = FALSE] /\ Full(c)
      \/ d = [c EXCEPT !.stack = s]
  <2>1. c.stack \o <<t>> = s
    <3>1. PICK S : c.stack \in Seq(S)
      BY <1>0 DEF IsSeq
    <3>2. c.stack \in Seq(S \cup {t}) /\ t \in S \cup {t}
      BY <3>1
    <3> QED
      BY <3>2
  <2> HIDE DEF s
  <2> QED
    BY <1>0, <2>1 DEF Push, Full
<1>2. /\ Standing(s, c.base, Over(l, t))
      /\ \A i \in 1..Len(s) : s[i].kind = "FOR" => i = Len(s)
      /\ c.stack # <<>> => s[1] = c.stack[1]
      /\ s # <<>> /\ (t.kind # "FOR" => Calm(s))
  BY <1>0, PushStands, CalmAppend DEF Open
<1> HIDE DEF d, s
<1>3. ASSUME d = [c EXCEPT !.live = FALSE], Full(c)
      PROVE  Sane(d) /\ DOMAIN d = RunFields /\ Pushed(c, t, d)
             /\ (~d.live => Full(d))
  <2>1. /\ DOMAIN d = RunFields /\ d.stack = c.stack /\ d.live = FALSE
        /\ d.ev = c.ev /\ d.base = c.base /\ d.traps = c.traps
    BY <1>0, <1>3 DEF RunFields
  <2>2. Counted(d) /\ Few(d) /\ Single(d)
    BY <2>1 DEF Open, Counted, Few, Single, Doomed
  <2> QED
    BY <1>3, <2>1, <2>2 DEF Sane, Rules, Pushed, Full
<1>4. ASSUME d = [c EXCEPT !.stack = s]
      PROVE  Sane(d) /\ DOMAIN d = RunFields /\ Pushed(c, t, d) /\ d.live
  <2>1. /\ DOMAIN d = RunFields /\ d.stack = s /\ d.live
        /\ d.ev = c.ev /\ d.base = c.base /\ d.traps = c.traps
    BY <1>0, <1>4 DEF RunFields
  <2>2. Doomed(c) => Doomed(d)
    BY <1>2, <2>1 DEF Doomed
  <2>3. Counted(d) /\ Few(d) /\ Single(d)
    BY <2>1, <2>2 DEF Open, Counted, Few, Single
  <2>4. Standing(d.stack, d.base, Held(d.ev))
    BY <1>2, <2>1
  <2>5. \A i \in 1..Len(d.stack) : d.stack[i].kind = "FOR" =>
           i = Len(d.stack) /\ d.ev.levels = 0
    <3>1. \A i \in 1..Len(s) : s[i].kind = "FOR" => t.kind = "FOR"
      BY <1>2 DEF Calm
    <3> QED
      BY <1>2, <2>1, <3>1
  <2>6. Sane(d)
    BY <2>1, <2>3, <2>4, <2>5 DEF Sane, Rules
  <2>7. t.kind # "FOR" => Open(d, Held(d.ev))
    BY <1>2, <2>1, <2>3, <2>4 DEF Open
  <2> QED
    BY <2>1, <2>3, <2>6, <2>7 DEF Pushed
<1>5. Sane(d) /\ DOMAIN d = RunFields /\ Pushed(c, t, d) /\ (~d.live => Full(d))
  BY <1>1, <1>3, <1>4
<1>6. Sane(Explain(d))
  BY <1>5, ExplainSane
<1> QED
  BY <1>5, <1>6 DEF d

LEMMA PushSaneTwo ==
    ASSUME NEW c, NEW l, Open(c, l), Few(c), Single(c),
           NEW t, Fits(t, l), Held(c.ev) = Over(l, t), IsExit(t) => c.stack = <<>>,
           t.kind # "FOR", NEW u, PlainTask(u)
    PROVE  /\ Sane(Push(c, <<t, u>>)) /\ Sane(Explain(Push(c, <<t, u>>)))
           /\ Pushed(c, u, Push(c, <<t, u>>))
<1> DEFINE e == Push(c, <<t, u>>)
           s == Append(c.stack, t)
           r == Append(s, u)
<1>0. DOMAIN c = RunFields /\ DOMAIN c.ev = EvFields /\ c.live
      /\ IsSeq(c.stack) /\ Calm(c.stack) /\ l \in Levels
  BY DEF Open, Counted, Standing
<1>1. \/ e = [c EXCEPT !.live = FALSE]
      \/ e = [c EXCEPT !.stack = r]
  <2>1. c.stack \o <<t, u>> = r
    <3>1. PICK S : c.stack \in Seq(S)
      BY <1>0 DEF IsSeq
    <3>2. c.stack \in Seq(S \cup {t, u}) /\ t \in S \cup {t, u}
          /\ u \in S \cup {t, u}
      BY <3>1
    <3> QED
      BY <3>2
  <2> HIDE DEF r
  <2> QED
    BY <1>0, <2>1 DEF Push
<1>2. /\ Standing(s, c.base, Over(l, t)) /\ IsSeq(s)
      /\ c.stack # <<>> => s[1] = c.stack[1]
      /\ s # <<>> /\ Calm(s)
  BY <1>0, PushStands, CalmAppend, SeqAppend DEF Open
<1>3. Over(l, t) \in Levels
  BY <1>0, OverIsLevel
<1> HIDE DEF e, s
<1>4. /\ Fits(u, Over(l, t)) /\ Over(Over(l, t), u) = Over(l, t)
      /\ ~IsExit(u) /\ u.kind # "FOR"
  BY <1>3, PlainTaskFits
<1>5. /\ Standing(r, c.base, Over(l, t))
      /\ r # <<>> /\ r[1] = s[1] /\ Calm(r)
  BY <1>2, <1>4, PushStands, CalmAppend
<1> HIDE DEF r
<1>6. ASSUME e = [c EXCEPT !.live = FALSE]
      PROVE  Sane(e) /\ DOMAIN e = RunFields /\ Pushed(c, u, e)
  <2>1. /\ DOMAIN e = RunFields /\ e.stack = c.stack /\ e.live = FALSE
        /\ e.ev = c.ev /\ e.base = c.base /\ e.traps = c.traps
    BY <1>0, <1>6 DEF RunFields
  <2>2. Counted(e) /\ Few(e) /\ Single(e)
    BY <2>1 DEF Open, Counted, Few, Single, Doomed
  <2> QED
    BY <1>6, <2>1, <2>2 DEF Sane, Rules, Pushed
<1>7. ASSUME e = [c EXCEPT !.stack = r]
      PROVE  Sane(e) /\ DOMAIN e = RunFields /\ Pushed(c, u, e)
  <2>1. /\ DOMAIN e = RunFields /\ e.stack = r /\ e.live
        /\ e.ev = c.ev /\ e.base = c.base /\ e.traps = c.traps
    BY <1>0, <1>7 DEF RunFields
  <2>2. Doomed(c) => Doomed(e)
    BY <1>2, <1>5, <2>1 DEF Doomed
  <2>3. Counted(e) /\ Few(e) /\ Single(e)
    BY <2>1, <2>2 DEF Open, Counted, Few, Single
  <2>4. Open(e, Held(e.ev))
    BY <1>5, <2>1, <2>3 DEF Open
  <2>5. Sane(e)
    BY <2>3, <2>4, ReadyIsSane DEF Ready, Rules
  <2> QED
    BY <2>1, <2>3, <2>4, <2>5 DEF Pushed
<1>8. Sane(e) /\ DOMAIN e = RunFields /\ Pushed(c, u, e)
  BY <1>1, <1>6, <1>7
<1>9. Sane(Explain(e))
  BY <1>8, ExplainSane
<1> QED
  BY <1>8, <1>9 DEF e

(* Tasks that have no part in the levels can always be pushed.             *)
LEMMA PlainPush ==
    ASSUME NEW c, Ready(c), Single(c), NEW t, PlainTask(t)
    PROVE  /\ Sane(Push(c, <<t>>)) /\ Sane(Explain(Push(c, <<t>>)))
           /\ \A u : PlainTask(u) =>
                 /\ Sane(Push(c, <<t, u>>)) /\ Sane(Explain(Push(c, <<t, u>>)))
                 /\ Sane(Push(Push(c, <<t>>), <<u>>))
<1>1. /\ Open(c, Held(c.ev)) /\ Held(c.ev) \in Levels
  BY DEF Ready, Open, Counted
<1>2. Few(c)
  BY DEF Ready, Rules
<1>3. Fits(t, Held(c.ev)) /\ Over(Held(c.ev), t) = Held(c.ev) /\ ~IsExit(t)
      /\ t.kind # "FOR"
  BY <1>1, PlainTaskFits
<1> DEFINE d == Push(c, <<t>>)
<1>4. Sane(d) /\ Sane(Explain(d)) /\ Pushed(c, t, d) /\ (~d.live => Full(d))
  BY <1>1, <1>2, <1>3, PushSaneOne
<1>5. ASSUME NEW u, PlainTask(u)
      PROVE  Sane(Push(c, <<t, u>>)) /\ Sane(Explain(Push(c, <<t, u>>)))
  BY <1>1, <1>2, <1>3, <1>5, PushSaneTwo
<1> HIDE DEF d
<1>6. ASSUME NEW u, PlainTask(u)
      PROVE  Sane(Push(d, <<u>>))
  <2>1. CASE d.live
    <3>1. Open(d, Held(d.ev)) /\ Few(d) /\ Single(d) /\ Held(d.ev) \in Levels
      BY <1>3, <1>4, <2>1 DEF Pushed, Open, Counted
    <3>2. Fits(u, Held(d.ev)) /\ Over(Held(d.ev), u) = Held(d.ev) /\ ~IsExit(u)
          /\ u.kind # "FOR"
      BY <1>6, <3>1, PlainTaskFits
    <3> QED
      BY <3>1, <3>2, PushSaneOne
  <2>2. CASE ~d.live
    <3> QED
      BY <1>4, <2>2, DeadPush DEF Pushed
  <2> QED
    BY <2>1, <2>2
<1> QED
  BY <1>4, <1>5, <1>6 DEF d

(***************************************************************************)
(* The completion of a command.                                            *)
(***************************************************************************)
LEMMA TakenIsCaught ==
    ASSUME NEW t, Sound(t), Caught(t) # {}
    PROVE  TakenCondition(t) \in Caught(t) /\ TakenCondition(t) # 0
<1>1. Caught(t) \in SUBSET Nat
  BY ConditionsAssumption DEF Sound, TrapStore, Caught
<1>2. \E m \in Caught(t) : \A n \in Caught(t) : m <= n
  BY <1>1, LeastNatural
<1>3. TakenCondition(t) \in Caught(t)
  BY <1>2 DEF TakenCondition
<1> QED
  BY <1>3 DEF Caught

LEMMA NodeTaskPlain ==
    ASSUME NEW node, NEW suppressed
    PROVE  PlainTask(NodeTask(node, suppressed))
BY DEF NodeTask, Task, PlainTask, TaskFields, SavedKinds, None, IsLoop

LEMMA SettleAlike ==
    ASSUME NEW c, Counted(c), NEW suppressed
    PROVE  Alike(c, Settle(c, suppressed))
BY DEF Alike, Settle, Counted, RunFields, EvFields, Held

LEMMA EndPendingAlike ==
    ASSUME NEW c, Counted(c), NEW saved
    PROVE  Alike(c, EndPending(c, saved))
BY DEF Alike, EndPending, Counted, RunFields, EvFields, Held

LEMMA TrapLevel ==
    ASSUME NEW c, Counted(c), NEW t, t.kind = "TRAP_FINISH",
           t.saved.kind = "trap", t.text = FALSE,
           NEW d, DOMAIN d.ev = EvFields,
           Held(d.ev) = [Held(c.ev) EXCEPT !.slots = @ + 1]
    PROVE  Held(d.ev) = Over(Held(c.ev), t)
<1>1. /\ ~IsFunction(t) /\ IsSlot(t) /\ ~HasText(t) /\ ~IsDot(t) /\ ~IsLoop(t)
  BY DEF IsFunction, IsSlot, HasText, IsDot, IsLoop
<1> QED
  BY <1>1 DEF Over, Held, Counted, Levels

LEMMA EnterSourceLevel ==
    ASSUME NEW c, Counted(c)
    PROVE  LET d == EnterSource(c)
           IN  /\ DOMAIN d = RunFields /\ DOMAIN d.ev = EvFields
               /\ d.stack = c.stack /\ d.live = c.live /\ d.base = c.base
               /\ d.traps = c.traps /\ d.ev.levels = c.ev.levels
               /\ d.ev.returning = c.ev.returning /\ d.ev.exiting = c.ev.exiting
               /\ d.ev.exitTrap = c.ev.exitTrap /\ d.ev.fatal = c.ev.fatal
               /\ d.ev.loops = c.ev.loops
               /\ Held(d.ev) = [Held(c.ev) EXCEPT !.slots = @ + 1]
               /\ Held(d.ev) \in Levels
<1> DEFINE d == EnterSource(c)
<1>1. /\ DOMAIN d = RunFields /\ DOMAIN d.ev = EvFields
      /\ d.stack = c.stack /\ d.live = c.live /\ d.base = c.base
      /\ d.traps = c.traps /\ d.ev.levels = c.ev.levels
      /\ d.ev.returning = c.ev.returning /\ d.ev.exiting = c.ev.exiting
      /\ d.ev.exitTrap = c.ev.exitTrap /\ d.ev.fatal = c.ev.fatal
      /\ d.ev.loops = c.ev.loops /\ d.ev.slots = c.ev.slots + 1
      /\ d.ev.functions = c.ev.functions /\ d.ev.texts = c.ev.texts
      /\ d.ev.dots = c.ev.dots
  BY DEF EnterSource, Counted, RunFields, EvFields
<1> HIDE DEF d
<1>2. Held(d.ev) = [Held(c.ev) EXCEPT !.slots = @ + 1]
  BY <1>1 DEF Held
<1>3. Held(d.ev) \in Levels
  BY <1>2 DEF Counted, Levels
<1> QED
  BY <1>1, <1>2, <1>3 DEF d

(* An action is begun: its frame, and above it the tree of the action.     *)
LEMMA ActionPush ==
    ASSUME NEW c, Open(c, Held(c.ev)), Few(c), Single(c),
           NEW d, Alike(EnterSource(c), d),
           NEW condition, NEW suppressed, condition = 0 => c.stack = <<>>,
           NEW b, b.ev.slots = c.ev.slots
    PROVE  Sane(Push(d, ActionTasks(SavedTrap(b, condition), suppressed)))
<1> DEFINE l == Held(c.ev)
           saved == SavedTrap(b, condition)
           t == [Task("TRAP_FINISH", None, suppressed) EXCEPT !.saved = saved]
           u == NodeTask(Actions[saved.condition], FALSE)
<1>0. Counted(c) /\ l \in Levels /\ l.slots = c.ev.slots
  BY DEF Open, Counted, Held
<1>1. ActionTasks(saved, suppressed) = <<t, u>>
  BY DEF ActionTasks
<1>2. /\ Fits(t, l) /\ t.kind = "TRAP_FINISH" /\ t.saved.condition = condition
      /\ t.saved.kind = "trap" /\ t.text = FALSE
  BY <1>0 DEF SavedTrap, Task, Fits, TaskFields
<1>3. PlainTask(u)
  BY NodeTaskPlain
<1> HIDE DEF t, u, saved
<1> DEFINE e == EnterSource(c)
<1>4. /\ DOMAIN e = RunFields /\ DOMAIN e.ev = EvFields
      /\ e.stack = c.stack /\ e.live = c.live /\ e.base = c.base
      /\ e.traps = c.traps /\ e.ev.levels = c.ev.levels
      /\ e.ev.returning = c.ev.returning /\ e.ev.exiting = c.ev.exiting
      /\ e.ev.exitTrap = c.ev.exitTrap /\ e.ev.fatal = c.ev.fatal
      /\ e.ev.loops = c.ev.loops
      /\ Held(e.ev) = [Held(c.ev) EXCEPT !.slots = @ + 1]
      /\ Held(e.ev) \in Levels
  BY <1>0, EnterSourceLevel
<1> HIDE DEF e
<1>5. Open(e, l) /\ Few(e) /\ Single(e)
  BY <1>4 DEF Open, Counted, Few, Single, Doomed
<1>6. Open(d, l) /\ Single(d) /\ Few(d)
  <2>1. Alike(e, d)
    BY DEF e
  <2>2. d.ev.loops = e.ev.loops
    BY <2>1, HeldFields DEF Alike
  <2> QED
    BY <1>5, <2>1, <2>2, AlikeRules DEF Few, Doomed, Alike
<1>7. Held(d.ev) = Over(l, t)
  <2>1. Held(d.ev) = Held(e.ev) /\ DOMAIN d.ev = EvFields
    BY DEF Alike, e
  <2>2. Held(d.ev) = [Held(c.ev) EXCEPT !.slots = @ + 1]
    BY <1>4, <2>1
  <2>3. Held(d.ev) = Over(Held(c.ev), t)
    <3>1. DOMAIN d.ev = EvFields /\ Counted(c)
      BY <1>0, <2>1
    <3> HIDE DEF l
    <3> QED
      BY <1>2, <2>2, <3>1, TrapLevel
  <2> QED
    BY <2>3
<1>8. IsExit(t) => d.stack = <<>>
  BY <1>2, <1>4 DEF IsExit, Alike, e
<1> HIDE DEF l
<1>9. Sane(Push(d, <<t, u>>))
  BY <1>2, <1>3, <1>6, <1>7, <1>8, PushSaneTwo
<1> QED
  BY <1>1, <1>9 DEF saved

LEMMA CompleteSane ==
    ASSUME NEW c, Ready(c), NEW suppressed
    PROVE  Sane(Complete(c, suppressed))
<1> DEFINE taken == [c EXCEPT !.traps = AfterTake(@)]
           saved == SavedTrap(c, TakenCondition(c.traps))
           entered == [EnterSource(taken) EXCEPT !.ev.last = c.status]
           failed == [taken EXCEPT !.ev.fatal = TRUE]
<1>0. Counted(c) /\ Sound(c.traps)
  BY DEF Ready, Open, Counted
<1>1. Alike(c, taken)
  BY <1>0, TakeSound DEF Alike, Counted, RunFields, EvFields
<1>2. Ready(taken) /\ Counted(taken)
  BY <1>1, <1>0, AlikeRules
<1>3. \A d : Ready(d) => Sane(Settle(d, suppressed))
  <2> SUFFICES ASSUME NEW d, Ready(d) PROVE Sane(Settle(d, suppressed))
    OBVIOUS
  <2>1. Alike(d, Settle(d, suppressed))
    BY SettleAlike DEF Ready, Open
  <2> QED
    BY <2>1, AlikeRules, ReadyIsSane
<1>4. CASE ~TrapDue(c)
  BY <1>3, <1>4 DEF Complete
<1>5. CASE TrapDue(c) /\ Caught(c.traps) = {}
  <2>1. Complete(c, suppressed) = Settle(taken, suppressed)
    BY <1>5 DEF Complete
  <2> HIDE DEF taken
  <2> QED
    BY <1>2, <1>3, <2>1
<1>6. CASE TrapDue(c) /\ Caught(c.traps) # {} /\ CanEnterSource(c.ev)
  <2>1. Complete(c, suppressed) = Push(entered, ActionTasks(saved, suppressed))
    BY <1>6 DEF Complete
  <2>2. TakenCondition(c.traps) # 0
    BY <1>0, <1>6, TakenIsCaught
  <2>3. taken.ev = c.ev /\ taken.stack = c.stack
    BY <1>0 DEF Counted, RunFields
  <2>4. ~c.ev.exiting
    BY <1>6 DEF TrapDue
  <2> HIDE DEF taken
  <2>5. Few(taken) /\ Single(taken) /\ Open(taken, Held(taken.ev))
    BY <1>2, <2>3, <2>4 DEF Ready, Rules, Single, Ending
  <2>6. Alike(EnterSource(taken), entered)
    <3>1. Counted(taken)
      BY <1>2
    <3> DEFINE e == EnterSource(taken)
    <3>2. DOMAIN e = RunFields /\ DOMAIN e.ev = EvFields
      BY <3>1, EnterSourceLevel
    <3> HIDE DEF e
    <3>3. Alike(e, [e EXCEPT !.ev.last = c.status])
      BY <3>2 DEF Alike, RunFields, EvFields, Held
    <3> QED
      BY <3>3 DEF e
  <2> HIDE DEF entered
  <2>7. Sane(Push(entered, ActionTasks(saved, suppressed)))
    BY <2>2, <2>3, <2>5, <2>6, ActionPush
  <2> QED
    BY <2>1, <2>7
<1>7. CASE TrapDue(c) /\ Caught(c.traps) # {} /\ ~CanEnterSource(c.ev)
  <2> DEFINE ended == EndPending(failed, saved)
  <2>1. Complete(c, suppressed) = Settle(ended, suppressed)
    BY <1>7 DEF Complete
  <2> HIDE DEF taken
  <2>2. Alike(taken, failed)
    BY <1>2 DEF Alike, Counted, RunFields, EvFields, Held
  <2>3. Counted(failed)
    BY <1>2, <2>2, AlikeRules
  <2> HIDE DEF failed, saved
  <2>4. Alike(failed, ended)
    BY <2>3, EndPendingAlike
  <2> HIDE DEF ended
  <2> QED
    BY <1>2, <1>3, <2>1, <2>2, <2>4, AlikeRules
<1> QED
  BY <1>4, <1>5, <1>6, <1>7

(***************************************************************************)
(* The steps of the process that executes.                                 *)
(***************************************************************************)
(* A step takes the task on top; what is below stands for a level.         *)
LEMMA PoppedOpen ==
    ASSUME Sane(run), Runs
    PROVE  /\ DOMAIN Popped = RunFields /\ Popped.ev = run.ev
           /\ Popped.traps = run.traps
           /\ DOMAIN run.ev = EvFields /\ run.ev.levels \in Nat
           /\ Counted(Popped)
           /\ ~IsExit(Top) => Few(Popped) /\ Single(Popped)
           /\ Top.kind = "FOR" => run.ev.levels = 0
           /\ \E l \in Levels :
                 /\ Open(Popped, l)
                 /\ Held(run.ev) = Over(l, Top)
                 /\ Fits(Top, l)
                 /\ IsExit(Top) => Popped.stack = <<>>
<1> DEFINE n == Len(run.stack)
           s == Front(run.stack)
           c == Popped
<1>0. /\ Counted(run) /\ Rules(run) /\ run.live /\ run.stack # <<>>
      /\ Standing(run.stack, run.base, Held(run.ev))
      /\ \A i \in 1..n : run.stack[i].kind = "FOR" => i = n /\ run.ev.levels = 0
  BY DEF Sane, Stuck, Runs
<1>1. /\ DOMAIN c = RunFields /\ c.ev = run.ev /\ c.traps = run.traps
      /\ c.live = run.live /\ c.base = run.base /\ c.stack = s
  BY <1>0 DEF Popped, Counted, RunFields
<1>2. /\ n \in Nat /\ n > 0 /\ Len(s) = n - 1 /\ Top = run.stack[n]
      /\ \A i \in 1..(n - 1) : s[i] = run.stack[i]
      /\ IsSeq(s) /\ (s = <<>> <=> Len(s) = 0)
  BY <1>0, SeqLen, SeqFront DEF Standing, Top
<1>3. PICK l \in Levels : /\ Standing(s, run.base, l)
                          /\ Held(run.ev) = Over(l, Top)
                          /\ Fits(Top, l)
                          /\ IsExit(Top) => s = <<>>
  BY <1>0, PopStands DEF Top
<1> HIDE DEF s, c
<1>4. Counted(c)
  BY <1>0, <1>1 DEF Counted
<1>5. Calm(s) /\ (Top.kind = "FOR" => run.ev.levels = 0)
  BY <1>0, <1>2 DEF Calm
<1>6. Open(c, l)
  BY <1>0, <1>1, <1>3, <1>4, <1>5 DEF Open
<1>7. ~IsExit(Top) => (Doomed(run) => Doomed(c))
  <2> SUFFICES ASSUME ~IsExit(Top), Doomed(run), ~run.ev.fatal PROVE Doomed(c)
    BY <1>1 DEF Doomed
  <2>1. IsExit(run.stack[1])
    BY DEF Doomed, IsExit
  <2>2. n > 1
    BY <1>2, <2>1
  <2>3. s # <<>> /\ s[1] = run.stack[1]
    BY <1>2, <2>2
  <2> QED
    BY <1>1, <2>3 DEF Doomed
<1>8. ~IsExit(Top) => Few(c) /\ Single(c)
  BY <1>0, <1>1, <1>7 DEF Rules, Few, Single, Ending
<1> QED
  BY <1>0, <1>1, <1>3, <1>4, <1>5, <1>6, <1>8 DEF c, Counted

FrameKinds == {"FUNCTION_FINISH", "CHILD_FINISH", "SOURCE_FINISH", "TRAP_FINISH"}

HoldKinds == {"CASE", "CASE_AFTER", "FOR", "FOR_AFTER", "WHILE_CONDITION",
              "WHILE_BODY"}

(* The task on top had no part in the levels.                              *)
LEMMA PoppedPlain ==
    ASSUME Sane(run), Runs, Top.kind \notin FrameKinds \cup HoldKinds
    PROVE  Ready(Popped) /\ Single(Popped) /\ PlainTask(Top)
<1>1. PICK l \in Levels : /\ Open(Popped, l)
                          /\ Held(run.ev) = Over(l, Top)
                          /\ Fits(Top, l)
  BY PoppedOpen
<1>2. PlainTask(Top)
  BY <1>1 DEF Fits, PlainTask, FrameKinds, HoldKinds, SavedKinds, IsLoop
<1>3. Over(l, Top) = l /\ ~IsExit(Top)
  BY <1>2, PlainTaskFits
<1>4. Few(Popped) /\ Single(Popped) /\ Popped.ev = run.ev
  BY <1>3, PoppedOpen
<1> QED
  BY <1>1, <1>2, <1>3, <1>4 DEF Ready, Rules

LEMMA StatusAlike ==
    ASSUME NEW c, Counted(c), NEW status
    PROVE  Alike(c, [c EXCEPT !.status = status])
BY DEF Alike, Counted, RunFields

(* A task of another kind, with other progress, stays plain.               *)
PlainKinds == {"SEQUENCE", "NEGATE", "COMPLETE", "IF"}

LEMMA NewTaskPlain ==
    ASSUME NEW kind \in PlainKinds, NEW node, NEW suppressed
    PROVE  /\ PlainTask(Task(kind, node, suppressed))
           /\ \A f : PlainTask([Task(kind, node, suppressed) EXCEPT !.frames = f])
BY DEF Task, PlainTask, PlainKinds, TaskFields, SavedKinds, None, IsLoop

LEMMA ChangedTaskPlain ==
    ASSUME NEW t, PlainTask(t)
    PROVE  /\ \A kind \in PlainKinds : PlainTask([t EXCEPT !.kind = kind])
           /\ \A n : PlainTask([t EXCEPT !.tested = TRUE, !.cursor = n])
           /\ \A f : PlainTask([t EXCEPT !.frames = f, !.waiting = TRUE])
BY DEF PlainTask, PlainKinds, TaskFields, SavedKinds, IsLoop

(* What the steps on a plain task do to the process.                       *)
LEMMA PlainOps ==
    ASSUME NEW c, Ready(c), Single(c)
    PROVE  /\ \A status, suppressed :
                 Sane(Complete([c EXCEPT !.status = status], suppressed))
           /\ \A t : PlainTask(t) =>
                 /\ Sane(Push(c, <<t>>)) /\ Sane(Explain(Push(c, <<t>>)))
                 /\ \A status : Sane(Push([c EXCEPT !.status = status], <<t>>))
                 /\ \A u : PlainTask(u) =>
                       /\ Sane(Push(c, <<t, u>>))
                       /\ Sane(Explain(Push(c, <<t, u>>)))
                       /\ Sane(Push(Push(c, <<t>>), <<u>>))
<1> DEFINE d(status) == [c EXCEPT !.status = status]
<1>1. \A status : Alike(c, d(status))
  BY StatusAlike DEF Ready, Open
<1> HIDE DEF d
<1>2. \A status : Ready(d(status)) /\ Single(d(status))
  BY <1>1, AlikeRules
<1>3. \A status, suppressed : Sane(Complete(d(status), suppressed))
  BY <1>2, CompleteSane
<1>4. \A status, t : PlainTask(t) => Sane(Push(d(status), <<t>>))
  BY <1>2, PlainPush
<1> QED
  BY <1>3, <1>4, PlainPush DEF d

(* The level and the place are kept; control may leave.                    *)
AlikeButControl(c, d) ==
    /\ DOMAIN d = RunFields /\ DOMAIN d.ev = EvFields
    /\ d.stack = c.stack /\ d.live = c.live /\ d.base = c.base
    /\ Held(d.ev) = Held(c.ev) /\ d.traps = c.traps

LEMMA NoLevelsReady ==
    ASSUME NEW c, NEW l, Open(c, l), NEW d, AlikeButControl(c, d), d.ev.levels = 0
    PROVE  /\ Open(d, l) /\ Few(d) /\ Single(d)
           /\ l = Held(c.ev) => Ready(d)
<1>1. Counted(d)
  BY DEF AlikeButControl, Open, Counted
<1>2. Open(d, l)
  BY <1>1 DEF AlikeButControl, Open
<1>3. d.ev.loops \in Nat
  <2>1. Held(d.ev) \in Levels
    BY <1>1 DEF Counted
  <2> QED
    BY <2>1 DEF Held, Levels
<1>4. Few(d) /\ Single(d)
  BY <1>3 DEF Few, Single
<1> QED
  BY <1>2, <1>4 DEF Ready, Rules, AlikeButControl

LEMMA SequenceSane ==
    ASSUME Sane(run), SequenceStep
    PROVE  Sane(run')
<1>1. CASE PassNode
  <2>1. Ready(Popped) /\ Single(Popped)
    BY <1>1, PoppedPlain DEF PassNode, On, FrameKinds, HoldKinds
  <2> QED
    BY <1>1, <2>1, PlainOps DEF PassNode
<1>2. CASE StartSequence
  <2>1. Ready(Popped) /\ Single(Popped)
    BY <1>2, PoppedPlain DEF StartSequence, Foreground, OnNode, On, FrameKinds, HoldKinds
  <2>2. \A f : PlainTask([Task("SEQUENCE", Top.node, Top.suppressed) EXCEPT !.frames = f])
    BY NewTaskPlain DEF PlainKinds
  <2> QED
    BY <1>2, <2>1, <2>2, PlainOps DEF StartSequence
<1>3. CASE StepSequence
  <2>1. Ready(Popped) /\ Single(Popped) /\ PlainTask(Top)
    BY <1>3, PoppedPlain DEF StepSequence, On, FrameKinds, HoldKinds
  <2>2. \A f : PlainTask([Top EXCEPT !.frames = f, !.waiting = TRUE])
    BY <2>1, ChangedTaskPlain
  <2>3. \A suppressed : Sane(Complete(Popped, suppressed))
    BY <2>1, CompleteSane
  <2> DEFINE again(f) == [Top EXCEPT !.frames = f, !.waiting = TRUE]
  <2>4. \/ run' = Complete(Popped, Top.suppressed)
        \/ \E status : run' = Complete([Popped EXCEPT !.status = status],
                                       Top.suppressed)
        \/ \E f, node, suppressed :
              run' = Push(Push(Popped, <<again(f)>>), <<NodeTask(node, suppressed)>>)
    BY <1>3 DEF StepSequence
  <2> HIDE DEF again
  <2>5. \A f, node, suppressed :
           Sane(Push(Push(Popped, <<again(f)>>), <<NodeTask(node, suppressed)>>))
    BY <2>1, <2>2, PlainOps, NodeTaskPlain DEF again
  <2> QED
    BY <2>1, <2>3, <2>4, <2>5, PlainOps
<1>4. CASE StartPipeline
  <2>1. Ready(Popped) /\ Single(Popped)
    BY <1>4, PoppedPlain DEF StartPipeline, Foreground, OnNode, On, FrameKinds, HoldKinds
  <2>2. PlainTask(Task("NEGATE", Top.node, TRUE))
    BY NewTaskPlain DEF PlainKinds
  <2> QED
    BY <1>4, <2>1, <2>2, PlainOps, NodeTaskPlain DEF StartPipeline
<1>5. CASE StepNegate
  <2>1. Ready(Popped) /\ Single(Popped)
    BY <1>5, PoppedPlain DEF StepNegate, On, FrameKinds, HoldKinds
  <2>2. run' = Complete([Popped EXCEPT !.status = Flip(Popped.status)], Top.suppressed)
    BY <1>5 DEF StepNegate
  <2> QED
    BY <2>1, <2>2, PlainOps
<1>6. CASE StepComplete
  <2>1. Ready(Popped)
    BY <1>6, PoppedPlain DEF StepComplete, On, FrameKinds, HoldKinds
  <2> QED
    BY <1>6, <2>1, CompleteSane DEF StepComplete
<1>7. CASE StartIf
  <2>1. Ready(Popped) /\ Single(Popped)
    BY <1>7, PoppedPlain DEF StartIf, Foreground, OnNode, On, FrameKinds, HoldKinds
  <2>2. PlainTask(Task("IF", Top.node, Top.suppressed))
    BY NewTaskPlain DEF PlainKinds
  <2> QED
    BY <1>7, <2>1, <2>2, PlainOps DEF StartIf
<1>8. CASE StepIf
  <2>1. Ready(Popped) /\ Single(Popped) /\ PlainTask(Top)
    BY <1>8, PoppedPlain DEF StepIf, On, FrameKinds, HoldKinds
  <2> DEFINE done == [Top EXCEPT !.kind = "COMPLETE"]
             next == [Top EXCEPT !.tested = TRUE, !.cursor = @ + 1]
  <2>2. PlainTask(done) /\ PlainTask(next)
    BY <2>1, ChangedTaskPlain DEF PlainKinds
  <2>3. \/ run' = Push(Popped, <<done>>)
        \/ \E node : run' = Push(Popped, <<done, NodeTask(node, Top.suppressed)>>)
        \/ run' = Push([Popped EXCEPT !.status = 0], <<done>>)
        \/ \E node : run' = Push(Popped, <<next, NodeTask(node, TRUE)>>)
    BY <1>8 DEF StepIf
  <2> HIDE DEF done, next
  <2> QED
    BY <2>1, <2>2, <2>3, PlainOps, NodeTaskPlain
<1> QED
  BY <1>1, <1>2, <1>3, <1>4, <1>5, <1>6, <1>7, <1>8 DEF SequenceStep

(* A simple command, with its effect on the evaluator.                     *)
LEMMA EndsSane ==
    ASSUME NEW c, Ready(c), NEW status
    PROVE  Sane(Ends(c, status))
<1> DEFINE d == [c EXCEPT !.status = status]
<1>1. Alike(c, d)
  BY StatusAlike DEF Ready, Open
<1>2. Ends(c, status) = Complete(d, Suppressed(Top))
  BY DEF Ends
<1> HIDE DEF d
<1> QED
  BY <1>1, <1>2, AlikeRules, CompleteSane

LEMMA LeafPopped ==
    ASSUME Sane(run), Runs, Top.kind = "NODE", ~Unwinds(run.ev)
    PROVE  /\ Ready(Popped) /\ Single(Popped)
           /\ DOMAIN Popped = RunFields /\ Popped.ev = run.ev
           /\ Popped.traps = run.traps
           /\ DOMAIN Popped.ev = EvFields /\ Popped.ev.levels = 0
           /\ ~Popped.ev.exiting /\ ~Popped.ev.returning
           /\ Popped.ev.loops \in Nat /\ Held(Popped.ev) \in Levels
<1>1. Ready(Popped) /\ Single(Popped)
  BY PoppedPlain DEF FrameKinds, HoldKinds
<1>2. /\ DOMAIN Popped = RunFields /\ Popped.ev = run.ev
      /\ Popped.traps = run.traps /\ DOMAIN run.ev = EvFields
      /\ run.ev.levels \in Nat
  BY PoppedOpen
<1>3. run.ev.levels = 0 /\ ~run.ev.exiting /\ ~run.ev.returning
  BY <1>2 DEF Unwinds
<1>4. Held(Popped.ev) \in Levels
  BY <1>1 DEF Ready, Open, Counted
<1>5. Popped.ev.loops \in Nat
  BY <1>4 DEF Held, Levels
<1> QED
  BY <1>1, <1>2, <1>3, <1>4, <1>5

LEMMA CommandSane ==
    ASSUME Sane(run), CommandStep
    PROVE  Sane(run')
<1>0. Runs /\ Top.kind = "NODE" /\ ~Unwinds(run.ev)
  BY DEF CommandStep, RunCommand, RunCounter, RunSet, RunSpecialFailure, RunExit,
         RunReturn, RunLoopControl, AsyncParent, Leaf, Foreground, OnNode, On
<1>a. /\ Ready(Popped) /\ Single(Popped)
      /\ DOMAIN Popped = RunFields /\ Popped.ev = run.ev
      /\ DOMAIN Popped.ev = EvFields /\ Popped.ev.levels = 0
      /\ ~Popped.ev.exiting /\ ~Popped.ev.returning
      /\ Popped.ev.loops \in Nat
  BY <1>0, LeafPopped
<1>b. \A status : Sane(Ends(Popped, status))
  BY <1>a, EndsSane
<1>c. \A d : Alike(Popped, d) => \A status : Sane(Ends(d, status))
  BY <1>a, AlikeRules, EndsSane
<1>1. CASE RunCommand
  BY <1>1, <1>b DEF RunCommand
<1>2. CASE RunCounter
  <2> DEFINE d == [Popped EXCEPT !.ev.value = @ + 1]
  <2>1. Alike(Popped, d)
    BY <1>a DEF Alike, RunFields, EvFields, Held
  <2>2. \E status : run' = Ends(d, status)
    BY <1>2 DEF RunCounter
  <2> HIDE DEF d
  <2> QED
    BY <1>c, <2>1, <2>2
<1>3. CASE RunSet
  <2> DEFINE d == [Popped EXCEPT !.ev.errexit = Command.on]
  <2>1. Alike(Popped, d)
    BY <1>a DEF Alike, RunFields, EvFields, Held
  <2>2. \E status : run' = Ends(d, status)
    BY <1>3 DEF RunSet
  <2> HIDE DEF d
  <2> QED
    BY <1>c, <2>1, <2>2
<1>4. CASE RunSpecialFailure
  <2> DEFINE d == [Popped EXCEPT !.ev.fatal = TRUE]
  <2>1. Alike(Popped, d)
    BY <1>a DEF Alike, RunFields, EvFields, Held
  <2>2. \E status : run' = Ends(d, status)
    BY <1>4 DEF RunSpecialFailure
  <2> HIDE DEF d
  <2> QED
    BY <1>c, <2>1, <2>2
<1>5. CASE RunExit
  <2> DEFINE d(status) == [Popped EXCEPT !.ev.exiting = TRUE,
                                         !.ev.exitStatus = status]
  <2>1. ASSUME NEW status PROVE Ready(d(status))
    <3>1. AlikeButControl(Popped, d(status))
      BY <1>a DEF AlikeButControl, RunFields, EvFields, Held
    <3>2. d(status).ev.levels = 0
      BY <1>a DEF RunFields, EvFields
    <3> HIDE DEF d
    <3> QED
      BY <1>a, <3>1, <3>2, NoLevelsReady DEF Ready
  <2>2. \E status : run' = Ends(d(status), status)
    BY <1>5 DEF RunExit
  <2> HIDE DEF d
  <2> QED
    BY <2>1, <2>2, EndsSane
<1>6. CASE RunReturn
  <2> DEFINE d == [Popped EXCEPT !.ev.returning = TRUE,
                                 !.ev.returnStatus = Told(Command.status)]
  <2>1. Ready(d)
    <3>1. AlikeButControl(Popped, d)
      BY <1>a DEF AlikeButControl, RunFields, EvFields, Held
    <3>2. d.ev.levels = 0
      BY <1>a DEF RunFields, EvFields
    <3> HIDE DEF d
    <3> QED
      BY <1>a, <3>1, <3>2, NoLevelsReady DEF Ready
  <2>2. run' \in {Ends(Popped, Told(1)), Ends(d, Told(Command.status))}
    BY <1>6 DEF RunReturn
  <2> HIDE DEF d
  <2> QED
    BY <1>b, <2>1, <2>2, EndsSane
<1>7. CASE RunLoopControl
  <2> DEFINE n == IF Command.count < run.ev.loops THEN Command.count
                                                  ELSE run.ev.loops
             d == [Popped EXCEPT !.ev.control = Command.op, !.ev.levels = n]
  <2>1. n \in Nat /\ n <= Popped.ev.loops
    BY <1>a, <1>7 DEF RunLoopControl
  <2> HIDE DEF n
  <2>2. /\ AlikeButControl(Popped, d) /\ d.ev.levels = n
        /\ d.ev.loops = Popped.ev.loops
        /\ ~d.ev.exiting /\ ~d.ev.returning
    BY <1>a DEF AlikeButControl, RunFields, EvFields, Held
  <2>3. run' \in {Ends(Popped, Told(1)), Ends(d, Told(0))}
    BY <1>7 DEF RunLoopControl, n
  <2> HIDE DEF d
  <2>4. Ready(d)
    <3>1. Open(d, Held(d.ev))
      BY <1>a, <2>1, <2>2 DEF AlikeButControl, Ready, Open, Counted
    <3> QED
      BY <2>1, <2>2, <3>1 DEF Ready, Rules, Few, Single
  <2> QED
    BY <1>b, <2>3, <2>4, EndsSane
<1>8. CASE AsyncParent
  BY <1>8, <1>b DEF AsyncParent
<1> QED
  BY <1>1, <1>2, <1>3, <1>4, <1>5, <1>6, <1>7, <1>8 DEF CommandStep

LEMMA RunTrapSane ==
    ASSUME Sane(run), RunTrap
    PROVE  Sane(run')
<1> DEFINE t == Configure(run.traps, Command.condition, Command.action)
           d == [Popped EXCEPT !.traps = t]
<1>0. Runs /\ Top.kind = "NODE" /\ ~Unwinds(run.ev)
  BY DEF RunTrap, Leaf, Foreground, OnNode, On
<1>1. Ready(Popped) /\ DOMAIN Popped = RunFields /\ Popped.traps = run.traps
      /\ DOMAIN Popped.ev = EvFields
  BY <1>0, LeafPopped
<1>2. Sound(t)
  BY ConfigureSound DEF RunTrap, Sane, Counted
<1>3. run' = Ends(d, Told(0))
  BY <1>1 DEF RunTrap
<1> HIDE DEF t
<1>4. Alike(Popped, d)
  BY <1>1, <1>2 DEF Alike, RunFields
<1> HIDE DEF d
<1> QED
  BY <1>1, <1>3, <1>4, AlikeRules, EndsSane

(***************************************************************************)
(* Commands that hold items or count as loops.                             *)
(***************************************************************************)
(* A frame that goes on with other progress adds the same.                 *)
SameHolder(t, u) ==
    /\ DOMAIN u = TaskFields /\ u.saved = t.saved /\ u.text = t.text
    /\ IsLoop(u) <=> IsLoop(t)
    /\ u.kind \in HoldKinds
    /\ u.text => u.kind \in {"CASE", "CASE_AFTER", "FOR", "FOR_AFTER"}

LEMMA HolderFits ==
    ASSUME NEW t, NEW l, Fits(t, l), t.kind \in HoldKinds, NEW u, SameHolder(t, u)
    PROVE  Fits(u, l) /\ Over(l, u) = Over(l, t) /\ ~IsExit(u)
<1>1. t.saved.kind \notin SavedKinds
  BY DEF Fits, HoldKinds, SavedKinds
<1>2. Fits(u, l) /\ ~IsExit(u)
  BY <1>1 DEF SameHolder, Fits, HoldKinds, SavedKinds, IsExit
<1>3. /\ IsFunction(u) <=> IsFunction(t)
      /\ IsSlot(u) <=> IsSlot(t)
      /\ HasText(u) <=> HasText(t)
      /\ IsDot(u) <=> IsDot(t)
      /\ IsLoop(u) <=> IsLoop(t)
  BY DEF SameHolder, IsFunction, IsSlot, HasText, IsDot
<1> QED
  BY <1>2, <1>3 DEF Over

(* What a holder adds: a text, and a loop if it is one.                    *)
LEMMA HolderOver ==
    ASSUME NEW t, NEW l \in Levels, Fits(t, l), t.kind \in HoldKinds
    PROVE  /\ Over(l, t).functions = l.functions
           /\ Over(l, t).slots = l.slots /\ Over(l, t).dots = l.dots
           /\ Over(l, t).texts = l.texts + (IF t.text THEN 1 ELSE 0)
           /\ Over(l, t).loops = l.loops + (IF IsLoop(t) THEN 1 ELSE 0)
           /\ ~IsExit(t)
<1>1. t.saved.kind \notin SavedKinds /\ ~IsExit(t)
  BY DEF Fits, HoldKinds, SavedKinds, IsExit
<1>2. ~IsFunction(t) /\ ~IsSlot(t) /\ ~IsDot(t) /\ (HasText(t) <=> t.text)
  BY <1>1 DEF IsFunction, IsSlot, IsDot, HasText, SavedKinds
<1> QED
  BY <1>1, <1>2 DEF Over, Levels

LEMMA FinishedPlain ==
    ASSUME NEW t, NEW l, Fits(t, l), t.kind \in HoldKinds
    PROVE  /\ PlainTask([t EXCEPT !.kind = "COMPLETE", !.text = FALSE])
           /\ ~t.text => PlainTask([t EXCEPT !.kind = "COMPLETE"])
<1>1. t.saved.kind \notin SavedKinds /\ DOMAIN t = TaskFields /\ t.text \in BOOLEAN
  BY DEF Fits, HoldKinds, SavedKinds
<1> QED
  BY <1>1 DEF PlainTask, TaskFields, IsLoop

(* The items are released, and a loop is closed.                           *)
LEMMA ReleaseReady ==
    ASSUME NEW c, NEW l \in Levels, Open(c, l), Few(c), Single(c),
           NEW t, Fits(t, l), t.kind \in HoldKinds, Held(c.ev) = Over(l, t)
    PROVE  /\ ~IsLoop(t) => Ready(ReleaseText(c, t)) /\ Single(ReleaseText(c, t))
           /\ IsLoop(t) /\ (c.ev.levels < c.ev.loops \/ Doomed(c)) =>
                \A status :
                  LET d == [ReleaseText(c, t) EXCEPT !.ev.loops = @ - 1,
                                                     !.status = status]
                  IN  Ready(d) /\ Single(d)
<1> DEFINE r == ReleaseText(c, t)
<1>0. /\ Counted(c) /\ DOMAIN c = RunFields /\ DOMAIN c.ev = EvFields
      /\ t.text \in BOOLEAN
  BY DEF Open, Counted, Fits
<1>1. /\ c.ev.functions = l.functions /\ c.ev.slots = l.slots
      /\ c.ev.dots = l.dots
      /\ c.ev.texts = l.texts + (IF t.text THEN 1 ELSE 0)
      /\ c.ev.loops = l.loops + (IF IsLoop(t) THEN 1 ELSE 0)
  BY HolderOver DEF Held
<1>2. /\ DOMAIN r = RunFields /\ DOMAIN r.ev = EvFields
      /\ r.stack = c.stack /\ r.live = c.live /\ r.base = c.base
      /\ r.traps = c.traps /\ r.ev.levels = c.ev.levels
      /\ r.ev.returning = c.ev.returning /\ r.ev.exiting = c.ev.exiting
      /\ r.ev.exitTrap = c.ev.exitTrap /\ r.ev.fatal = c.ev.fatal
      /\ r.ev.loops = c.ev.loops
      /\ r.ev.functions = c.ev.functions /\ r.ev.slots = c.ev.slots
      /\ r.ev.dots = c.ev.dots
      /\ r.ev.texts = IF t.text THEN c.ev.texts - 1 ELSE c.ev.texts
  BY <1>0 DEF ReleaseText, RunFields, EvFields
<1> HIDE DEF r
<1>3. r.ev.texts = l.texts
  BY <1>1, <1>2 DEF Levels
<1>4. ASSUME ~IsLoop(t)
      PROVE  Ready(r) /\ Single(r)
  <2>1. Held(r.ev) = l
    <3>1. r.ev.loops = l.loops
      BY <1>1, <1>2, <1>4 DEF Levels
    <3> QED
      BY <1>1, <1>2, <1>3, <3>1 DEF Held, Levels
  <2>2. Open(r, l)
    BY <1>2, <2>1 DEF Open, Counted
  <2>3. Few(r) /\ Single(r)
    BY <1>2 DEF Few, Single, Doomed
  <2> QED
    BY <2>1, <2>2, <2>3 DEF Ready, Rules
<1>5. ASSUME IsLoop(t), c.ev.levels < c.ev.loops \/ Doomed(c), NEW status
      PROVE  LET d == [r EXCEPT !.ev.loops = @ - 1, !.status = status]
             IN  Ready(d) /\ Single(d)
  <2> DEFINE d == [r EXCEPT !.ev.loops = @ - 1, !.status = status]
  <2>1. /\ DOMAIN d = RunFields /\ DOMAIN d.ev = EvFields
        /\ d.stack = c.stack /\ d.live = c.live /\ d.base = c.base
        /\ d.traps = c.traps /\ d.ev.levels = c.ev.levels
        /\ d.ev.returning = c.ev.returning /\ d.ev.exiting = c.ev.exiting
        /\ d.ev.exitTrap = c.ev.exitTrap /\ d.ev.fatal = c.ev.fatal
        /\ d.ev.loops = c.ev.loops - 1
        /\ d.ev.functions = l.functions /\ d.ev.slots = l.slots
        /\ d.ev.dots = l.dots /\ d.ev.texts = l.texts
    BY <1>1, <1>2, <1>3 DEF RunFields, EvFields
  <2> HIDE DEF d
  <2>2. d.ev.loops = l.loops
    BY <1>1, <1>5, <2>1 DEF Levels
  <2>3. Held(d.ev) = l
    BY <2>1, <2>2 DEF Held, Levels
  <2>4. Open(d, l)
    BY <2>1, <2>3 DEF Open, Counted
  <2>5. Doomed(c) => Doomed(d)
    BY <2>1 DEF Doomed
  <2>6. c.ev.loops \in Nat /\ c.ev.levels \in Nat
    BY <1>0, <1>1 DEF Counted, Held, Levels
  <2>7. Few(d)
    BY <1>5, <2>1, <2>5, <2>6 DEF Few
  <2>8. Single(d)
    BY <2>1, <2>5 DEF Single
  <2> QED
    BY <2>3, <2>4, <2>7, <2>8 DEF Ready, Rules, d
<1> QED
  BY <1>4, <1>5 DEF r

LEMMA CaseStepSane ==
    ASSUME NEW c, NEW l \in Levels, Open(c, l), Few(c), Single(c),
           NEW task, Fits(task, l), task.kind = "CASE", Held(c.ev) = Over(l, task)
    PROVE  Sane(CaseStep(c, task))
<1> DEFINE first == CHOOSE i \in Matching(task) : \A j \in Matching(task) : i <= j
           back(t) == ReleaseText([c EXCEPT !.status = t.result], t)
           ended(t) == Push(back(t),
                            <<[t EXCEPT !.kind = "COMPLETE", !.text = FALSE]>>)
           taken(n, b) == [task EXCEPT !.cursor = n, !.through = b]
           over(n, b) == [taken(n, b) EXCEPT !.result = 0]
           after(n, b) == [taken(n, b) EXCEPT !.kind = "CASE_AFTER"]
<1>0. DOMAIN task = TaskFields /\ task.kind \in HoldKinds
  BY DEF Fits, HoldKinds
<1>1. ASSUME NEW t, SameHolder(task, t), ~IsLoop(t), t.kind = "CASE"
      PROVE  Sane(ended(t))
  <2> DEFINE d == [c EXCEPT !.status = t.result]
  <2>1. Alike(c, d)
    BY StatusAlike DEF Open
  <2>2. Fits(t, l) /\ Held(c.ev) = Over(l, t)
    BY <1>0, <1>1, HolderFits
  <2>3. Open(d, l) /\ Single(d) /\ Held(d.ev) = Over(l, t)
    BY <2>1, <2>2, AlikeRules DEF Alike
  <2>4. Few(d)
    BY <2>1, HeldFields DEF Alike, Few, Doomed
  <2> HIDE DEF d
  <2>5. Ready(ReleaseText(d, t)) /\ Single(ReleaseText(d, t))
    BY <1>1, <2>2, <2>3, <2>4, ReleaseReady DEF HoldKinds
  <2>6. PlainTask([t EXCEPT !.kind = "COMPLETE", !.text = FALSE])
    BY <1>1, <2>2, FinishedPlain DEF HoldKinds
  <2> QED
    BY <2>5, <2>6, PlainPush DEF d
<1>2. ASSUME NEW n, NEW b
      PROVE  /\ SameHolder(task, over(n, b)) /\ SameHolder(task, after(n, b))
             /\ over(n, b).kind = "CASE" /\ after(n, b).kind = "CASE_AFTER"
             /\ ~IsLoop(over(n, b))
  BY <1>0 DEF SameHolder, TaskFields, IsLoop, HoldKinds, Fits
<1>3. SameHolder(task, task) /\ ~IsLoop(task)
  BY <1>0 DEF SameHolder, IsLoop, Fits
<1>4. \/ CaseStep(c, task) = ended(task)
      \/ \E n, b, node : CaseStep(c, task) =
             Push(c, <<after(n, b), NodeTask(node, task.suppressed)>>)
      \/ \E n, b : CaseStep(c, task) = Push(c, <<over(n, b)>>)
      \/ \E n, b : CaseStep(c, task) = ended(over(n, b))
  BY DEF CaseStep
<1> HIDE DEF ended, over, after
<1>5. ASSUME NEW n, NEW b, NEW node
      PROVE  Sane(Push(c, <<after(n, b), NodeTask(node, task.suppressed)>>))
  <2>1. /\ Fits(after(n, b), l) /\ Held(c.ev) = Over(l, after(n, b))
        /\ ~IsExit(after(n, b)) /\ after(n, b).kind # "FOR"
    BY <1>0, <1>2, HolderFits
  <2> QED
    BY <2>1, NodeTaskPlain, PushSaneTwo
<1>6. ASSUME NEW n, NEW b
      PROVE  Sane(Push(c, <<over(n, b)>>))
  <2>1. /\ Fits(over(n, b), l) /\ Held(c.ev) = Over(l, over(n, b))
        /\ ~IsExit(over(n, b)) /\ over(n, b).kind # "FOR"
    BY <1>0, <1>2, HolderFits
  <2> QED
    BY <2>1, PushSaneOne
<1> QED
  BY <1>1, <1>2, <1>3, <1>4, <1>5, <1>6

LEMMA RefusedSane ==
    ASSUME Ready(Popped), Single(Popped), PlainTask(Top)
    PROVE  Sane(Explain(Refused(Popped, Top)))
<1> DEFINE d == [Popped EXCEPT !.status = 125]
           t == [Top EXCEPT !.kind = "COMPLETE"]
<1>1. Alike(Popped, d)
  BY StatusAlike DEF Ready, Open
<1>2. PlainTask(t)
  BY ChangedTaskPlain DEF PlainKinds
<1>3. Refused(Popped, Top) = Push(d, <<t>>)
  BY DEF Refused
<1> HIDE DEF d, t
<1>4. Ready(d) /\ Single(d)
  BY <1>1, AlikeRules
<1> QED
  BY <1>2, <1>3, <1>4, PlainPush

LEMMA CaseSane ==
    ASSUME Sane(run), CaseCommandStep
    PROVE  Sane(run')
<1>1. CASE StartCase
  <2> DEFINE d == [Popped EXCEPT !.ev.texts = @ + 1]
             t == [Task("CASE", Top.node, Top.suppressed) EXCEPT !.text = TRUE]
             l == Held(Popped.ev)
  <2>0. Runs /\ Top.kind = "NODE" /\ ~Unwinds(run.ev)
    BY <1>1 DEF StartCase, Foreground, OnNode, On
  <2>1. /\ Ready(Popped) /\ Single(Popped) /\ PlainTask(Top)
        /\ DOMAIN Popped = RunFields /\ DOMAIN Popped.ev = EvFields
        /\ l \in Levels /\ Popped.ev.levels = 0
    BY <2>0, LeafPopped, PoppedPlain DEF FrameKinds, HoldKinds
  <2>2. \/ run' = Explain(Push(d, <<t>>))
        \/ run' = Explain(Refused(Popped, Top))
    BY <1>1 DEF StartCase
  <2>3. Fits(t, l) /\ t.kind = "CASE" /\ ~IsExit(t) /\ t.text /\ ~IsLoop(t)
    BY DEF Task, Fits, TaskFields, None, IsExit, IsLoop
  <2> HIDE DEF t
  <2>4. /\ d.ev.functions = l.functions /\ d.ev.slots = l.slots
        /\ d.ev.dots = l.dots /\ d.ev.loops = l.loops
        /\ d.ev.texts = l.texts + 1
        /\ DOMAIN d = RunFields /\ DOMAIN d.ev = EvFields
        /\ d.stack = Popped.stack /\ d.live = Popped.live
        /\ d.base = Popped.base /\ d.traps = Popped.traps
        /\ d.ev.levels = 0
    BY <2>1 DEF RunFields, EvFields, Held
  <2> HIDE DEF d, l
  <2>5. Held(d.ev) = Over(l, t)
    BY <2>1, <2>3, <2>4, HolderOver DEF Over, Held, Levels, HoldKinds, IsLoop,
       IsFunction, IsSlot, IsDot, HasText, Fits
  <2>6. Held(d.ev) \in Levels
    BY <2>1, <2>5, OverIsLevel
  <2>7. Open(d, l) /\ Few(d) /\ Single(d)
    <3>1. Open(Popped, l)
      BY <2>1 DEF Ready, l
    <3>2. Open(d, l)
      BY <2>4, <2>6, <3>1 DEF Open, Counted
    <3>3. d.ev.loops \in Nat
      BY <2>1, <2>4 DEF Levels
    <3> QED
      BY <2>4, <3>2, <3>3 DEF Few, Single
  <2>8. Sane(Explain(Push(d, <<t>>)))
    BY <2>3, <2>5, <2>7, PushSaneOne
  <2> QED
    BY <2>1, <2>2, <2>8, RefusedSane
<1>2. ASSUME On("CASE") \/ On("CASE_AFTER")
      PROVE  \E l \in Levels : /\ Open(Popped, l) /\ Few(Popped) /\ Single(Popped)
                               /\ Held(Popped.ev) = Over(l, Top) /\ Fits(Top, l)
                               /\ Top.kind \in HoldKinds /\ ~IsLoop(Top)
  <2>1. Runs /\ Top.kind \in {"CASE", "CASE_AFTER"}
    BY <1>2 DEF On
  <2>2. ~IsExit(Top) /\ ~IsLoop(Top) /\ Top.kind \in HoldKinds
    BY <2>1 DEF IsExit, IsLoop, HoldKinds
  <2> QED
    BY <2>1, <2>2, PoppedOpen
<1>3. CASE StepCase
  <2>1. Top.kind = "CASE"
    BY <1>3 DEF StepCase, On
  <2> QED
    BY <1>2, <1>3, <2>1, CaseStepSane DEF StepCase
<1>4. CASE FailCase
  <2> DEFINE r == ReleaseText(Popped, Top)
             d == [r EXCEPT !.status = 125]
  <2>1. Ready(r)
    BY <1>2, <1>4, ReleaseReady DEF FailCase
  <2> HIDE DEF r
  <2>2. Alike(r, d)
    BY <2>1, StatusAlike DEF Ready, Open
  <2>3. run' = d
    BY <1>4 DEF FailCase, r
  <2> HIDE DEF d
  <2> QED
    BY <2>1, <2>2, <2>3, AlikeRules, ReadyIsSane
<1>5. CASE StepCaseAfter
  <2> DEFINE told == [Top EXCEPT !.result = run.status]
             again == [told EXCEPT !.kind = "CASE"]
             done == [told EXCEPT !.kind = "COMPLETE", !.text = FALSE]
  <2>1. PICK l \in Levels : /\ Open(Popped, l) /\ Few(Popped) /\ Single(Popped)
                            /\ Held(Popped.ev) = Over(l, Top) /\ Fits(Top, l)
                            /\ Top.kind \in HoldKinds /\ ~IsLoop(Top)
    BY <1>2, <1>5 DEF StepCaseAfter
  <2>2. Top.kind = "CASE_AFTER" /\ DOMAIN Top = TaskFields
    BY <1>5, <2>1 DEF StepCaseAfter, On, Fits
  <2>3. /\ SameHolder(Top, told) /\ SameHolder(Top, again)
        /\ again.kind = "CASE" /\ told.kind = "CASE_AFTER"
    BY <2>1, <2>2 DEF SameHolder, TaskFields, IsLoop, HoldKinds
  <2>4. \/ run' = Push(ReleaseText(Popped, Top), <<done>>)
        \/ run' = CaseStep(Popped, again)
    BY <1>5 DEF StepCaseAfter
  <2> HIDE DEF told
  <2>5. Fits(again, l) /\ Held(Popped.ev) = Over(l, again)
    BY <2>1, <2>3, HolderFits
  <2>6. PlainTask(done)
    <3>1. Fits(told, l) /\ told.kind \in HoldKinds
      BY <2>1, <2>3, HolderFits DEF HoldKinds
    <3> QED
      BY <3>1, FinishedPlain
  <2> HIDE DEF again, done
  <2>7. Sane(CaseStep(Popped, again))
    BY <2>1, <2>3, <2>5, CaseStepSane
  <2>8. Ready(ReleaseText(Popped, Top)) /\ Single(ReleaseText(Popped, Top))
    BY <2>1, ReleaseReady
  <2> QED
    BY <2>4, <2>6, <2>7, <2>8, PlainPush
<1> QED
  BY <1>1, <1>3, <1>4, <1>5 DEF CaseCommandStep

LEMMA ConsumeOpen ==
    ASSUME NEW c, NEW l, Open(c, l), Few(c), Single(c)
    PROVE  LET d == Consume(c)
           IN  /\ Open(d, l) /\ Few(d) /\ Single(d) /\ Held(d.ev) = Held(c.ev)
               /\ d.ev.levels = IF c.ev.levels = 0 THEN 0 ELSE c.ev.levels - 1
               /\ c.ev.levels # 0 => d.ev.levels < d.ev.loops \/ Doomed(d)
<1> DEFINE d == Consume(c)
<1>0. /\ Counted(c) /\ DOMAIN c = RunFields /\ DOMAIN c.ev = EvFields
      /\ c.ev.levels \in Nat /\ Held(c.ev) \in Levels
  BY DEF Open, Counted
<1>1. /\ DOMAIN d = RunFields /\ DOMAIN d.ev = EvFields
      /\ d.stack = c.stack /\ d.live = c.live /\ d.base = c.base
      /\ d.traps = c.traps
      /\ d.ev.levels = IF c.ev.levels = 0 THEN 0 ELSE c.ev.levels - 1
      /\ d.ev.returning = c.ev.returning /\ d.ev.exiting = c.ev.exiting
      /\ d.ev.exitTrap = c.ev.exitTrap /\ d.ev.fatal = c.ev.fatal
      /\ d.ev.loops = c.ev.loops
      /\ d.ev.functions = c.ev.functions /\ d.ev.slots = c.ev.slots
      /\ d.ev.dots = c.ev.dots /\ d.ev.texts = c.ev.texts
  BY <1>0 DEF Consume, RunFields, EvFields
<1> HIDE DEF d
<1>2. Held(d.ev) = Held(c.ev)
  BY <1>1 DEF Held
<1>3. Open(d, l)
  BY <1>0, <1>1, <1>2 DEF Open, Counted
<1>4. Doomed(c) => Doomed(d)
  BY <1>1 DEF Doomed
<1>5. c.ev.loops \in Nat
  BY <1>0 DEF Held, Levels
<1>6. Few(d) /\ (c.ev.levels # 0 => d.ev.levels < d.ev.loops \/ Doomed(d))
  BY <1>0, <1>1, <1>4, <1>5 DEF Few
<1>7. Single(d)
  BY <1>0, <1>1, <1>4 DEF Single
<1> QED
  BY <1>1, <1>2, <1>3, <1>6, <1>7 DEF d

(* A loop of either kind is left, or goes round.                           *)
LoopTask(t, l) == Fits(t, l) /\ IsLoop(t)

LEMMA FinishForSane ==
    ASSUME NEW c, NEW l \in Levels, Open(c, l), Few(c), Single(c),
           NEW t, LoopTask(t, l), Held(c.ev) = Over(l, t),
           c.ev.levels < c.ev.loops \/ Doomed(c)
    PROVE  Sane(FinishFor(c, t))
<1> DEFINE left == [ReleaseText(c, t) EXCEPT !.ev.loops = @ - 1,
                                             !.status = t.result]
           done == [t EXCEPT !.kind = "COMPLETE", !.text = FALSE]
<1>1. FinishFor(c, t) = Push(left, <<done>>)
  BY DEF FinishFor
<1>2. t.kind \in HoldKinds /\ Fits(t, l) /\ IsLoop(t)
  BY DEF LoopTask, IsLoop, HoldKinds
<1>3. Ready(left) /\ Single(left)
  BY <1>2, ReleaseReady
<1>4. PlainTask(done)
  BY <1>2, FinishedPlain
<1> HIDE DEF left, done
<1> QED
  BY <1>1, <1>3, <1>4, PlainPush

LEMMA FinishWhileSane ==
    ASSUME NEW c, NEW l \in Levels, Open(c, l), Few(c), Single(c),
           NEW t, LoopTask(t, l), Held(c.ev) = Over(l, t), ~t.text,
           c.ev.levels < c.ev.loops \/ Doomed(c)
    PROVE  Sane(FinishWhile(c, t))
<1> DEFINE left(status) == [ReleaseText(c, t) EXCEPT !.ev.loops = @ - 1,
                                                     !.status = status]
           done == [t EXCEPT !.kind = "COMPLETE"]
<1>1. \E status : FinishWhile(c, t) = Push(left(status), <<done>>)
  BY DEF FinishWhile, ReleaseText
<1>2. t.kind \in HoldKinds /\ Fits(t, l) /\ IsLoop(t)
  BY DEF LoopTask, IsLoop, HoldKinds
<1>3. \A status : Ready(left(status)) /\ Single(left(status))
  BY <1>2, ReleaseReady
<1>4. PlainTask(done)
  BY <1>2, FinishedPlain
<1> HIDE DEF left, done
<1> QED
  BY <1>1, <1>3, <1>4, PlainPush

LEMMA ConditionSane ==
    ASSUME NEW c, NEW l \in Levels, Open(c, l), Few(c), Single(c),
           NEW t, DOMAIN t = TaskFields, t.saved.kind \notin SavedKinds,
           t.text = FALSE,
           Held(c.ev) = Over(l, [t EXCEPT !.kind = "WHILE_CONDITION"])
    PROVE  Sane(Condition(c, t))
<1> DEFINE u == [t EXCEPT !.kind = "WHILE_CONDITION"]
<1>1. Fits(u, l) /\ ~IsExit(u) /\ u.kind # "FOR"
  BY DEF Fits, TaskFields, SavedKinds, IsExit
<1>2. \E node : Condition(c, t) = Push(c, <<u, NodeTask(node, TRUE)>>)
  BY DEF Condition
<1> HIDE DEF u
<1> QED
  BY <1>1, <1>2, NodeTaskPlain, PushSaneTwo DEF u

LEMMA LoopTold ==
    ASSUME NEW l, NEW t, LoopTask(t, l), NEW r
    PROVE  LET u == [t EXCEPT !.result = r]
           IN  /\ LoopTask(u, l) /\ Over(l, u) = Over(l, t)
               /\ u.text = t.text /\ u.kind = t.kind
<1> DEFINE u == [t EXCEPT !.result = r]
<1>1. DOMAIN t = TaskFields
  BY DEF LoopTask, Fits
<1>2. /\ DOMAIN u = TaskFields /\ u.saved = t.saved /\ u.text = t.text
      /\ u.kind = t.kind
  BY <1>1 DEF TaskFields
<1> HIDE DEF u
<1>3. t.kind \in HoldKinds /\ Fits(t, l) /\ IsLoop(t)
  BY DEF LoopTask, IsLoop, HoldKinds
<1>4. SameHolder(t, u) /\ IsLoop(u)
  BY <1>2, <1>3 DEF SameHolder, IsLoop, Fits
<1>5. Fits(u, l) /\ Over(l, u) = Over(l, t)
  BY <1>3, <1>4, HolderFits
<1> QED
  BY <1>2, <1>4, <1>5 DEF LoopTask, u

(* A loop that is left by an error, an exit or a return has none of its    *)
(* own levels to leave.                                                    *)
LoopOpen(c, l, t) ==
    /\ Open(c, l) /\ Few(c) /\ Single(c)
    /\ Held(c.ev) = Over(l, t) /\ LoopTask(t, l)
    /\ c.ev.loops > 0
    /\ c.ev.loops \in Nat /\ c.ev.levels \in Nat

LEMMA LoopPopped ==
    ASSUME Sane(run), Runs, IsLoop(Top)
    PROVE  /\ \E l \in Levels : LoopOpen(Popped, l, Top)
           /\ Popped.ev = run.ev
           /\ Leaves(run.ev) => Popped.ev.levels < Popped.ev.loops \/ Doomed(Popped)
           /\ Top.kind = "FOR" => Popped.ev.levels = 0
<1>0. ~IsExit(Top) /\ Top.kind \in HoldKinds
  BY DEF IsExit, IsLoop, HoldKinds
<1>1. PICK l \in Levels : /\ Open(Popped, l) /\ Held(run.ev) = Over(l, Top)
                          /\ Fits(Top, l)
  BY PoppedOpen
<1>2. /\ Few(Popped) /\ Single(Popped) /\ Popped.ev = run.ev
      /\ Top.kind = "FOR" => run.ev.levels = 0
      /\ run.ev.levels \in Nat
  BY <1>0, PoppedOpen
<1>3. Over(l, Top).loops = l.loops + 1 /\ l.loops \in Nat
  BY <1>0, <1>1, HolderOver DEF Levels
<1>4. Popped.ev.loops = Held(run.ev).loops
  BY <1>2 DEF Held
<1>5. Popped.ev.loops > 0 /\ Popped.ev.loops \in Nat
  BY <1>1, <1>3, <1>4
<1>6. LoopOpen(Popped, l, Top)
  BY <1>1, <1>2, <1>5 DEF LoopOpen, LoopTask
<1>7. Leaves(run.ev) => Popped.ev.levels < Popped.ev.loops \/ Doomed(Popped)
  BY <1>2, <1>5 DEF Leaves, Single, Doomed
<1> QED
  BY <1>2, <1>6, <1>7

(* A loop that is not left that way consumes the control.                  *)
LEMMA LoopConsumed ==
    ASSUME NEW c, NEW l \in Levels, NEW t, LoopOpen(c, l, t)
    PROVE  /\ LoopOpen(Consume(c), l, t)
           /\ LoopControl(c.ev) = "LEAVE" =>
                 Consume(c).ev.levels < Consume(c).ev.loops \/ Doomed(Consume(c))
           /\ LoopControl(c.ev) # "LEAVE" => Consume(c).ev.levels = 0
<1> DEFINE d == Consume(c)
<1>1. /\ Open(d, l) /\ Few(d) /\ Single(d) /\ Held(d.ev) = Held(c.ev)
      /\ d.ev.levels = IF c.ev.levels = 0 THEN 0 ELSE c.ev.levels - 1
      /\ c.ev.levels # 0 => d.ev.levels < d.ev.loops \/ Doomed(d)
  BY ConsumeOpen DEF LoopOpen
<1> HIDE DEF d
<1>2. d.ev.loops = c.ev.loops
  BY <1>1, HeldFields
<1>3. LoopOpen(d, l, t)
  BY <1>1, <1>2 DEF LoopOpen
<1>4. /\ LoopControl(c.ev) = "LEAVE" => c.ev.levels # 0
      /\ LoopControl(c.ev) # "LEAVE" => c.ev.levels = 0 \/ c.ev.levels = 1
  BY DEF LoopControl
<1> QED
  BY <1>1, <1>3, <1>4 DEF d

LEMMA ForItemSane ==
    ASSUME NEW c, NEW l \in Levels, NEW t, LoopOpen(c, l, t), c.ev.levels = 0
    PROVE  Sane(ForItem(c, t))
<1> DEFINE u == [t EXCEPT !.kind = "FOR_AFTER", !.cursor = @ + 1]
           w == NodeTask(t.node.kids[1], t.suppressed)
<1>1. /\ Fits(t, l) /\ t.kind \in HoldKinds /\ IsLoop(t) /\ Open(c, l) /\ Few(c)
      /\ Single(c) /\ Held(c.ev) = Over(l, t) /\ DOMAIN t = TaskFields
  BY DEF LoopOpen, LoopTask, IsLoop, HoldKinds, Fits
<1>2. SameHolder(t, u)
  BY <1>1 DEF SameHolder, IsLoop, TaskFields, HoldKinds
<1>3. ForItem(c, t) \in {FinishFor(c, t), Push(c, <<u, w>>)}
  BY DEF ForItem
<1>4. u.kind # "FOR"
  BY <1>1 DEF TaskFields
<1>5. PlainTask(w)
  BY NodeTaskPlain
<1> HIDE DEF u, w
<1>6. Fits(u, l) /\ Over(l, u) = Over(l, t) /\ ~IsExit(u)
  BY <1>1, <1>2, HolderFits
<1>7. Sane(Push(c, <<u, w>>))
  BY <1>1, <1>4, <1>5, <1>6, PushSaneTwo
<1>8. Sane(FinishFor(c, t))
  BY <1>1, FinishForSane DEF LoopOpen
<1> QED
  BY <1>3, <1>7, <1>8

(* A loop is entered: it is counted, with its items.                       *)
LEMMA LoopEntered ==
    ASSUME Ready(Popped), Single(Popped), DOMAIN Popped = RunFields,
           DOMAIN Popped.ev = EvFields, Popped.ev.levels = 0,
           Held(Popped.ev) \in Levels, NEW t, IsLoop(t), DOMAIN t = TaskFields,
           t.text \in BOOLEAN, t.saved.kind \notin SavedKinds,
           t.text => t.kind = "FOR",
           NEW d, DOMAIN d = RunFields, DOMAIN d.ev = EvFields,
           d.stack = Popped.stack, d.live = Popped.live, d.base = Popped.base,
           d.traps = Popped.traps, d.ev.levels = 0,
           d.ev.functions = Popped.ev.functions, d.ev.slots = Popped.ev.slots,
           d.ev.dots = Popped.ev.dots, d.ev.loops = Popped.ev.loops + 1,
           d.ev.texts = Popped.ev.texts + (IF t.text THEN 1 ELSE 0)
    PROVE  LoopOpen(d, Held(Popped.ev), t)
<1> DEFINE l == Held(Popped.ev)
<1>1. Fits(t, l) /\ t.kind \in HoldKinds
  BY DEF Fits, IsLoop, HoldKinds, SavedKinds
<1>2. /\ l.functions = Popped.ev.functions /\ l.slots = Popped.ev.slots
      /\ l.texts = Popped.ev.texts /\ l.loops = Popped.ev.loops
      /\ l.dots = Popped.ev.dots
  BY DEF Held
<1> HIDE DEF l
<1>3. l \in Levels /\ Open(Popped, l)
  BY DEF l, Ready
<1>4. /\ d.ev.functions = Over(l, t).functions /\ d.ev.slots = Over(l, t).slots
      /\ d.ev.texts = Over(l, t).texts /\ d.ev.loops = Over(l, t).loops
      /\ d.ev.dots = Over(l, t).dots
  BY <1>1, <1>2, <1>3, HolderOver
<1>5. Over(l, t) \in Levels /\ Over(l, t).loops \in Nat
  BY <1>3, OverIsLevel DEF Levels
<1>6. Held(d.ev) = Over(l, t)
  BY <1>4, <1>5 DEF Held, Levels
<1>7. Open(d, l)
  BY <1>3, <1>5, <1>6 DEF Open, Counted
<1>8. d.ev.loops > 0 /\ d.ev.loops \in Nat
  BY <1>2, <1>3 DEF Levels
<1>9. Few(d) /\ Single(d)
  BY <1>8 DEF Few, Single
<1> QED
  BY <1>1, <1>6, <1>7, <1>8, <1>9 DEF LoopOpen, LoopTask, l

LEMMA StartLoopSane ==
    ASSUME Sane(run), StartFor \/ StartWhile
    PROVE  Sane(run')
<1> DEFINE l == Held(Popped.ev)
<1>0. Runs /\ Top.kind = "NODE" /\ ~Unwinds(run.ev)
  BY DEF StartFor, StartWhile, Foreground, OnNode, On
<1>1. /\ Ready(Popped) /\ Single(Popped) /\ PlainTask(Top)
      /\ DOMAIN Popped = RunFields /\ DOMAIN Popped.ev = EvFields
      /\ l \in Levels /\ Popped.ev.levels = 0 /\ Popped.ev = run.ev
      /\ Popped.ev.loops \in Nat
  BY <1>0, LeafPopped, PoppedPlain DEF FrameKinds, HoldKinds
<1>2. CASE StartFor
  <2> DEFINE text == Top.node.items # 0
             t == [Task("FOR", Top.node, Top.suppressed) EXCEPT !.text = text]
             d == [Popped EXCEPT !.ev.loops = @ + 1,
                                 !.ev.texts = @ + (IF text THEN 1 ELSE 0)]
  <2>1. \/ run' = Explain(Push(d, <<t>>))
        \/ run' = Explain(Refused(Popped, Top))
    BY <1>2 DEF StartFor
  <2>2. /\ DOMAIN t = TaskFields /\ t.text = text /\ t.text \in BOOLEAN
        /\ t.saved.kind \notin SavedKinds /\ t.kind = "FOR" /\ IsLoop(t)
    BY DEF Task, TaskFields, SavedKinds, None, IsLoop
  <2> HIDE DEF t
  <2>3. /\ d.ev.functions = Popped.ev.functions /\ d.ev.slots = Popped.ev.slots
        /\ d.ev.dots = Popped.ev.dots /\ d.ev.loops = Popped.ev.loops + 1
        /\ d.ev.texts = Popped.ev.texts + (IF t.text THEN 1 ELSE 0)
        /\ DOMAIN d = RunFields /\ DOMAIN d.ev = EvFields
        /\ d.stack = Popped.stack /\ d.live = Popped.live
        /\ d.base = Popped.base /\ d.traps = Popped.traps
        /\ d.ev.levels = 0
    BY <1>1, <2>2 DEF RunFields, EvFields
  <2> HIDE DEF d, text
  <2>4. LoopOpen(d, l, t)
    BY <1>1, <2>2, <2>3, LoopEntered
  <2>5. Sane(Explain(Push(d, <<t>>)))
    <3>1. ~IsExit(t)
      BY <2>2 DEF IsExit
    <3> HIDE DEF l
    <3> QED
      BY <2>3, <2>4, <3>1, PushSaneOne DEF LoopOpen, LoopTask
  <2> QED
    BY <1>1, <2>1, <2>5, RefusedSane
<1>3. CASE StartWhile
  <2> DEFINE t == Task("WHILE", Top.node, Top.suppressed)
             u == [t EXCEPT !.kind = "WHILE_CONDITION"]
             w == NodeTask(t.node.kids[1], TRUE)
             d == [Popped EXCEPT !.ev.loops = @ + 1]
             c == Condition(d, t)
             e == [c EXCEPT !.ev.loops = run.ev.loops]
  <2>1. IF c.live THEN run' = c ELSE run' = Explain(e)
    BY <1>3 DEF StartWhile
  <2>2. /\ DOMAIN t = TaskFields /\ t.text = FALSE
        /\ t.saved.kind \notin SavedKinds
        /\ DOMAIN u = TaskFields /\ u.text = FALSE /\ IsLoop(u)
        /\ u.saved.kind \notin SavedKinds
    BY DEF Task, TaskFields, SavedKinds, None, IsLoop
  <2>3. /\ d.ev.functions = Popped.ev.functions /\ d.ev.slots = Popped.ev.slots
        /\ d.ev.dots = Popped.ev.dots /\ d.ev.loops = Popped.ev.loops + 1
        /\ d.ev.texts = Popped.ev.texts + (IF u.text THEN 1 ELSE 0)
        /\ DOMAIN d = RunFields /\ DOMAIN d.ev = EvFields
        /\ d.stack = Popped.stack /\ d.live = Popped.live
        /\ d.base = Popped.base /\ d.traps = Popped.traps
        /\ d.ev.levels = 0
    <3> HIDE DEF t, u
    <3>1. u.text = FALSE
      BY <2>2
    <3>2. Popped.ev.texts = Popped.ev.texts + (IF u.text THEN 1 ELSE 0)
      BY <1>1, <3>1 DEF Held, Levels
    <3> QED
      BY <1>1, <3>1, <3>2 DEF RunFields, EvFields
  <2>4. c = Push(d, <<u, w>>)
    BY DEF Condition
  <2>5. c.live \/ c = [d EXCEPT !.live = FALSE]
    <3>1. d.live
      BY <1>1, <2>3 DEF Ready, Open
    <3> HIDE DEF d, c, u, w
    <3>2. DOMAIN d = RunFields
      BY <2>3
    <3> QED
      BY <2>4, <3>1, <3>2 DEF Push, RunFields
  <2> HIDE DEF u
  <2>6. LoopOpen(d, l, u)
    <3> HIDE DEF d
    <3> QED
      BY <1>1, <2>2, <2>3, LoopEntered
  <2>7. Sane(c)
    <3> HIDE DEF t, d, l, c
    <3>1. Held(d.ev) = Over(l, [t EXCEPT !.kind = "WHILE_CONDITION"])
      BY <2>6 DEF LoopOpen, u
    <3> QED
      BY <1>1, <2>2, <2>6, <3>1, ConditionSane DEF LoopOpen, c
  <2>8. ASSUME ~c.live
        PROVE  Sane(Explain(e))
    <3>0. c = [d EXCEPT !.live = FALSE]
      BY <2>5, <2>8
    <3> HIDE DEF c
    <3>1. /\ DOMAIN e = RunFields /\ ~e.live /\ DOMAIN e.ev = EvFields
          /\ e.traps = Popped.traps /\ e.base = Popped.base
          /\ e.ev.levels = 0 /\ e.ev.loops = Popped.ev.loops
          /\ e.ev.functions = Popped.ev.functions
          /\ e.ev.slots = Popped.ev.slots /\ e.ev.dots = Popped.ev.dots
          /\ e.ev.texts = Popped.ev.texts
      BY <1>1, <3>0 DEF RunFields, EvFields
    <3> HIDE DEF e
    <3>2. Held(e.ev) = Held(Popped.ev)
      BY <3>1 DEF Held
    <3>3. Counted(e)
      BY <1>1, <3>1, <3>2 DEF Ready, Open, Counted
    <3>4. Rules(e)
      BY <1>1, <3>1 DEF Rules, Few, Single
    <3>5. Sane(e)
      BY <3>1, <3>3, <3>4 DEF Sane
    <3> QED
      BY <3>1, <3>5, ExplainSane
  <2> HIDE DEF c, e
  <2> QED
    BY <2>1, <2>7, <2>8
<1> QED
  BY <1>2, <1>3

LEMMA LoopSane ==
    ASSUME Sane(run), LoopStep
    PROVE  Sane(run')
<1> DEFINE told(r) == [Top EXCEPT !.result = r]
<1>1. ASSUME Runs, IsLoop(Top)
      PROVE  \E l \in Levels :
                /\ LoopOpen(Popped, l, Top)
                /\ LoopOpen(Consume(Popped), l, Top)
                /\ \A r : /\ LoopTask(told(r), l)
                          /\ Over(l, told(r)) = Over(l, Top)
                          /\ told(r).text = Top.text
                          /\ told(r).kind = Top.kind
  BY <1>1, LoopPopped, LoopConsumed, LoopTold DEF LoopOpen
<1> HIDE DEF told
<1>2. /\ StepFor \/ FailFor => Runs /\ Top.kind = "FOR"
      /\ StepForAfter => Runs /\ Top.kind = "FOR_AFTER"
      /\ StepCondition => Runs /\ Top.kind = "WHILE_CONDITION"
      /\ StepBody => Runs /\ Top.kind = "WHILE_BODY"
  BY DEF StepFor, FailFor, StepForAfter, StepCondition, StepBody, On
<1>3. CASE StepFor
  BY <1>1, <1>2, <1>3, LoopPopped, ForItemSane DEF StepFor, IsLoop
<1>4. ASSUME NEW l \in Levels, NEW c, LoopOpen(c, l, Top), NEW r,
             LoopTask(told(r), l), Over(l, told(r)) = Over(l, Top)
      PROVE  LoopOpen(c, l, told(r))
  BY <1>4 DEF LoopOpen
<1>5. CASE FailFor
  <2>1. PICK l \in Levels : /\ LoopOpen(Popped, l, Top)
                            /\ LoopTask(told(1), l)
                            /\ Over(l, told(1)) = Over(l, Top)
    BY <1>1, <1>2, <1>5 DEF IsLoop
  <2>2. LoopOpen(Popped, l, told(1)) /\ Popped.ev.levels = 0
    BY <1>2, <1>4, <1>5, <2>1, LoopPopped DEF IsLoop
  <2>3. run' = FinishFor(Popped, told(1))
    BY <1>5 DEF FailFor, told
  <2> QED
    BY <2>2, <2>3, FinishForSane DEF LoopOpen
<1>6. ASSUME NEW l \in Levels, NEW c, NEW t, LoopOpen(c, l, t),
             c.ev.levels < c.ev.loops \/ Doomed(c)
      PROVE  Sane(FinishFor(c, t)) /\ (~t.text => Sane(FinishWhile(c, t)))
  BY <1>6, FinishForSane, FinishWhileSane DEF LoopOpen
<1>7. CASE StepForAfter
  <2> DEFINE r == run.status
  <2>1. PICK l \in Levels : /\ LoopOpen(Popped, l, Top)
                            /\ LoopOpen(Consume(Popped), l, Top)
                            /\ LoopTask(told(r), l)
                            /\ Over(l, told(r)) = Over(l, Top)
    BY <1>1, <1>2, <1>7 DEF IsLoop
  <2>2. LoopOpen(Popped, l, told(r)) /\ LoopOpen(Consume(Popped), l, told(r))
    BY <1>4, <2>1
  <2>3. /\ Popped.ev = run.ev
        /\ Leaves(run.ev) => Popped.ev.levels < Popped.ev.loops \/ Doomed(Popped)
    BY <1>2, <1>7, LoopPopped DEF IsLoop
  <2>4. \/ Leaves(run.ev) /\ run' = FinishFor(Popped, told(r))
        \/ /\ LoopControl(run.ev) = "LEAVE"
           /\ run' = FinishFor(Consume(Popped), told(r))
        \/ /\ LoopControl(run.ev) # "LEAVE"
           /\ run' = ForItem(Consume(Popped), told(r))
    BY <1>7 DEF StepForAfter, told
  <2> HIDE DEF r
  <2>5. CASE Leaves(run.ev) /\ run' = FinishFor(Popped, told(r))
    BY <1>6, <2>2, <2>3, <2>5
  <2>6. CASE /\ LoopControl(run.ev) = "LEAVE"
             /\ run' = FinishFor(Consume(Popped), told(r))
    BY <1>6, <2>2, <2>3, <2>6, LoopConsumed
  <2>7. CASE /\ LoopControl(run.ev) # "LEAVE"
             /\ run' = ForItem(Consume(Popped), told(r))
    BY <2>2, <2>3, <2>7, LoopConsumed, ForItemSane
  <2> QED
    BY <2>4, <2>5, <2>6, <2>7
<1>8. ASSUME NEW l \in Levels, NEW c, NEW t, LoopOpen(c, l, t),
             t.kind \in {"WHILE_CONDITION", "WHILE_BODY"}
      PROVE  Sane(Condition(c, t)) /\ ~t.text
  <2>1. /\ DOMAIN t = TaskFields /\ t.saved.kind \notin SavedKinds
        /\ t.text = FALSE /\ Fits(t, l) /\ t.kind \in HoldKinds
    BY <1>8 DEF LoopOpen, LoopTask, Fits, SavedKinds, HoldKinds
  <2> DEFINE u == [t EXCEPT !.kind = "WHILE_CONDITION"]
  <2>2. SameHolder(t, u)
    BY <1>8, <2>1 DEF SameHolder, TaskFields, IsLoop, HoldKinds
  <2>3. Over(l, u) = Over(l, t)
    <3> HIDE DEF u
    <3> QED
      BY <2>1, <2>2, HolderFits
  <2> QED
    BY <1>8, <2>1, <2>3, ConditionSane DEF LoopOpen
<1>9. ASSUME StepCondition \/ StepBody
      PROVE  Sane(run')
  <2> DEFINE r == run.status
  <2>0. Runs /\ IsLoop(Top) /\ Top.kind \in {"WHILE_CONDITION", "WHILE_BODY"}
    BY <1>2, <1>9 DEF IsLoop
  <2>1. PICK l \in Levels : /\ LoopOpen(Popped, l, Top)
                            /\ LoopOpen(Consume(Popped), l, Top)
                            /\ LoopTask(told(r), l)
                            /\ Over(l, told(r)) = Over(l, Top)
                            /\ told(r).kind = Top.kind
    BY <1>1, <2>0
  <2>2. LoopOpen(Popped, l, told(r)) /\ LoopOpen(Consume(Popped), l, told(r))
    BY <1>4, <2>1
  <2>3. /\ Popped.ev = run.ev
        /\ Leaves(run.ev) => Popped.ev.levels < Popped.ev.loops \/ Doomed(Popped)
    BY <2>0, LoopPopped
  <2> DEFINE body == <<[Top EXCEPT !.kind = "WHILE_BODY"],
                       NodeTask(Top.node.kids[2], Top.suppressed)>>
  <2>4. \/ Leaves(run.ev) /\ run' = FinishWhile(Popped, told(r))
        \/ Leaves(run.ev) /\ run' = FinishWhile(Popped, Top)
        \/ LoopControl(run.ev) = "NONE" /\ run' = FinishWhile(Popped, Top)
        \/ LoopControl(run.ev) = "NONE" /\ run' = Push(Popped, body)
        \/ /\ LoopControl(run.ev) = "LEAVE"
           /\ run' = FinishWhile(Consume(Popped), told(r))
        \/ run' = Condition(Consume(Popped), told(r))
    <3>1. LoopControl(run.ev) \in {"NONE", "NEXT", "LEAVE"}
      BY DEF LoopControl
    <3> HIDE DEF body
    <3>2. CASE StepBody
      BY <3>2 DEF StepBody, told
    <3>3. CASE StepCondition
      BY <3>1, <3>3 DEF StepCondition, told, body
    <3> QED
      BY <1>9, <3>2, <3>3
  <2>5. ~Top.text /\ ~told(r).text
    BY <1>8, <2>0, <2>1, <2>2
  <2>6. Sane(Condition(Consume(Popped), told(r)))
    BY <1>8, <2>0, <2>1, <2>2
  <2>7. LoopControl(run.ev) = "NONE" => Popped.ev.levels < Popped.ev.loops
    BY <2>1, <2>3 DEF LoopControl, LoopOpen
  <2>8. Sane(Push(Popped, body))
    <3> DEFINE t == [Top EXCEPT !.kind = "WHILE_BODY"]
    <3>1. Fits(Top, l) /\ Top.kind \in HoldKinds /\ DOMAIN Top = TaskFields
      BY <2>0, <2>1 DEF LoopOpen, LoopTask, Fits, HoldKinds
    <3>2. SameHolder(Top, t) /\ t.kind # "FOR"
      BY <2>0, <2>5, <3>1 DEF SameHolder, TaskFields, IsLoop, HoldKinds
    <3> HIDE DEF t
    <3>3. Fits(t, l) /\ Over(l, t) = Over(l, Top) /\ ~IsExit(t)
      BY <3>1, <3>2, HolderFits
    <3> QED
      BY <2>1, <3>2, <3>3, NodeTaskPlain, PushSaneTwo DEF LoopOpen, t
  <2>9. LoopControl(run.ev) = "LEAVE" => Sane(FinishWhile(Consume(Popped), told(r)))
    BY <1>6, <2>2, <2>3, <2>5, LoopConsumed
  <2> HIDE DEF r, body
  <2> QED
    BY <1>6, <2>1, <2>2, <2>3, <2>4, <2>5, <2>6, <2>7, <2>8, <2>9
<1> QED
  BY <1>3, <1>5, <1>7, <1>9, StartLoopSane DEF LoopStep

(***************************************************************************)
(* Functions, sources and actions.                                         *)
(***************************************************************************)
(* One level up, in the body of a function.                                *)
Called(l) == [functions |-> l.functions + 1, slots |-> l.slots,
              texts |-> l.texts, loops |-> 0, dots |-> l.dots]

(* A frame of a function remembers the loops of its caller.                *)
LEMMA FunctionFrame ==
    ASSUME NEW l \in Levels, NEW ev, ev.loops = l.loops, ev.levels = 0,
           NEW kind \in {"FUNCTION_FINISH", "CHILD_FINISH"},
           NEW name, NEW neg, NEW suppressed
    PROVE  \E t, u : /\ FunctionTasks(kind, ev, name, neg, suppressed) = <<t, u>>
                     /\ PlainTask(u) /\ Fits(t, l) /\ ~IsExit(t) /\ t.kind # "FOR"
                     /\ Over(l, t) = Called(l)
<1> DEFINE t == [Task(kind, None, suppressed) EXCEPT !.saved = SavedFunction(ev, neg)]
           u == NodeTask(Functions[name], suppressed)
<1>1. FunctionTasks(kind, ev, name, neg, suppressed) = <<t, u>>
  BY DEF FunctionTasks
<1>2. /\ DOMAIN t = TaskFields /\ t.kind = kind /\ t.saved.kind = "function"
      /\ t.saved.loops = l.loops /\ t.saved.levels = 0 /\ t.text = FALSE
  BY DEF Task, TaskFields, SavedFunction
<1>3. PlainTask(u)
  BY NodeTaskPlain
<1> HIDE DEF t, u
<1>4. Fits(t, l) /\ ~IsExit(t) /\ t.kind # "FOR"
  BY <1>2 DEF Fits, IsExit
<1>5. IsFunction(t) /\ ~IsSlot(t) /\ ~HasText(t) /\ ~IsDot(t)
  BY <1>2 DEF IsFunction, IsSlot, HasText, IsDot
<1>6. Over(l, t) = Called(l)
  <2>1. l.slots + 0 = l.slots /\ l.texts + 0 = l.texts /\ l.dots + 0 = l.dots
    BY DEF Levels
  <2> QED
    BY <1>5, <2>1 DEF Over, Called
<1> QED
  BY <1>1, <1>3, <1>4, <1>6

(* The evaluator inside a function.                                        *)
LEMMA FunctionEntered ==
    ASSUME NEW c, Open(c, Held(c.ev))
    PROVE  LET d == EnterFunction(c)
           IN  /\ Open(d, Held(c.ev)) /\ Few(d) /\ Single(d)
               /\ Held(d.ev) = Called(Held(c.ev))
               /\ d.stack = c.stack /\ d.base = c.base /\ d.traps = c.traps
               /\ d.live = c.live /\ DOMAIN d = RunFields
<1> DEFINE d == EnterFunction(c)
<1>0. /\ DOMAIN c = RunFields /\ DOMAIN c.ev = EvFields /\ Held(c.ev) \in Levels
      /\ Counted(c)
  BY DEF Open, Counted
<1>1. /\ DOMAIN d = RunFields /\ DOMAIN d.ev = EvFields
      /\ d.stack = c.stack /\ d.live = c.live /\ d.base = c.base
      /\ d.traps = c.traps /\ d.ev.levels = 0 /\ d.ev.loops = 0
      /\ d.ev.functions = c.ev.functions + 1
      /\ d.ev.slots = c.ev.slots /\ d.ev.texts = c.ev.texts
      /\ d.ev.dots = c.ev.dots
  BY <1>0 DEF EnterFunction, RunFields, EvFields
<1> HIDE DEF d
<1>2. Held(d.ev) = Called(Held(c.ev))
  BY <1>1 DEF Held, Called
<1>3. Held(d.ev) \in Levels
  BY <1>0, <1>2 DEF Levels, Called
<1>4. Open(d, Held(c.ev))
  BY <1>1, <1>3 DEF Open, Counted
<1> QED
  BY <1>1, <1>2, <1>4 DEF Few, Single, d

(* The loops of the caller are back when the function is left.             *)
LEMMA LeaveFunctionReady ==
    ASSUME NEW l \in Levels, Open(Popped, l), Popped.ev = run.ev,
           Held(run.ev) = Over(l, Top), Fits(Top, l), IsFunction(Top)
    PROVE  Ready(LeaveFunction(Popped, Top.saved))
<1> DEFINE d == LeaveFunction(Popped, Top.saved)
<1>0. /\ DOMAIN Popped = RunFields /\ DOMAIN Popped.ev = EvFields
  BY DEF Open, Counted
<1>1. /\ Top.saved.kind = "function" /\ Top.saved.loops = l.loops
      /\ Top.saved.levels = 0 /\ ~Top.text
  BY DEF IsFunction, Fits
<1>2. /\ DOMAIN d = RunFields /\ DOMAIN d.ev = EvFields
      /\ d.stack = Popped.stack /\ d.live = Popped.live /\ d.base = Popped.base
      /\ d.traps = Popped.traps /\ d.ev.levels = 0 /\ d.ev.loops = l.loops
      /\ d.ev.functions = run.ev.functions - 1
      /\ d.ev.slots = run.ev.slots /\ d.ev.texts = run.ev.texts
      /\ d.ev.dots = run.ev.dots
  BY <1>0, <1>1, ZenonT(60) DEF LeaveFunction, RunFields, EvFields
<1> HIDE DEF d
<1>3. /\ run.ev.functions = l.functions + 1 /\ run.ev.slots = l.slots
      /\ run.ev.texts = l.texts /\ run.ev.dots = l.dots
  <2>1. ~IsSlot(Top) /\ ~HasText(Top) /\ ~IsDot(Top)
    BY <1>1 DEF IsSlot, HasText, IsDot
  <2> QED
    BY <2>1 DEF Over, Held, Levels
<1>4. Held(d.ev) = l
  BY <1>2, <1>3 DEF Held, Levels
<1>5. Open(d, l)
  BY <1>2, <1>4 DEF Open, Counted
<1>6. l.loops \in Nat
  BY DEF Levels
<1> QED
  BY <1>2, <1>4, <1>5, <1>6 DEF Ready, Rules, Few, Single, d

(* A source or an action releases the slot that it took, which is on top.  *)
LEMMA SlotLevel ==
    ASSUME NEW l \in Levels, Held(run.ev) = Over(l, Top), Fits(Top, l),
           Top.saved.kind \in {"source", "trap"}
    PROVE  /\ Top.saved.slot = run.ev.slots
           /\ run.ev.slots - 1 = l.slots
           /\ run.ev.functions = l.functions /\ run.ev.loops = l.loops
           /\ run.ev.texts = l.texts
           /\ Top.saved.kind = "source" => Top.saved.dots = l.dots
           /\ Top.saved.kind = "trap" => run.ev.dots = l.dots
<1>1. ~IsFunction(Top) /\ IsSlot(Top) /\ ~HasText(Top) /\ ~IsLoop(Top)
  BY DEF IsFunction, IsSlot, HasText, IsLoop, Fits
<1>2. Top.saved.kind = "trap" => ~IsDot(Top)
  BY DEF IsDot
<1>3. Top.saved.slot = l.slots + 1
      /\ (Top.saved.kind = "source" => Top.saved.dots = l.dots)
  BY DEF Fits
<1> QED
  BY <1>1, <1>2, <1>3 DEF Over, Held, Levels

LEMMA LeaveSourceReady ==
    ASSUME NEW l \in Levels, Open(Popped, l), Few(Popped), Single(Popped),
           Popped.ev = run.ev, Held(run.ev) = Over(l, Top), Fits(Top, l),
           Top.saved.kind = "source"
    PROVE  Ready(LeaveSource(Popped, Top.saved))
<1> DEFINE d == LeaveSource(Popped, Top.saved)
<1>0. DOMAIN Popped = RunFields /\ DOMAIN Popped.ev = EvFields
  BY DEF Open, Counted
<1>1. /\ Top.saved.slot = run.ev.slots /\ run.ev.slots - 1 = l.slots
      /\ run.ev.functions = l.functions /\ run.ev.loops = l.loops
      /\ run.ev.texts = l.texts /\ Top.saved.dots = l.dots
  BY SlotLevel
<1>2. /\ DOMAIN d = RunFields /\ DOMAIN d.ev = EvFields
      /\ d.stack = Popped.stack /\ d.live = Popped.live /\ d.base = Popped.base
      /\ d.traps = Popped.traps /\ d.ev.levels = run.ev.levels
      /\ d.ev.exiting = run.ev.exiting /\ d.ev.fatal = run.ev.fatal
      /\ d.ev.exitTrap = run.ev.exitTrap
      /\ d.ev.loops = l.loops /\ d.ev.functions = l.functions
      /\ d.ev.slots = l.slots /\ d.ev.texts = l.texts /\ d.ev.dots = l.dots
  <2> DEFINE b == /\ Popped.ev.returning
                  /\ ~(~Popped.ev.exiting /\ Top.saved.dot /\ Popped.ev.returning)
             left(st) == [Popped EXCEPT !.status = st, !.ev.returning = b,
                                        !.ev.dots = Top.saved.dots,
                                        !.ev.sources = Top.saved.sources]
  <2>1. Top.saved.slot = Popped.ev.slots
    BY <1>1
  <2>2. \E st : d = [left(st) EXCEPT !.ev.slots = @ - 1]
    BY <2>1 DEF LeaveSource
  <2> HIDE DEF b, d
  <2>3. PICK st : d = [left(st) EXCEPT !.ev.slots = @ - 1]
    BY <2>2
  <2> DEFINE v == [Popped.ev EXCEPT !.returning = b, !.dots = Top.saved.dots,
                                    !.sources = Top.saved.sources,
                                    !.slots = @ - 1]
  <2>4. d = [Popped EXCEPT !.status = st, !.ev = v]
    BY <1>0, <2>3 DEF RunFields, EvFields
  <2>5. /\ DOMAIN v = EvFields /\ v.levels = run.ev.levels
        /\ v.exiting = run.ev.exiting /\ v.fatal = run.ev.fatal
        /\ v.exitTrap = run.ev.exitTrap
        /\ v.loops = l.loops /\ v.functions = l.functions
        /\ v.slots = l.slots /\ v.texts = l.texts /\ v.dots = l.dots
    BY <1>0, <1>1 DEF EvFields
  <2> HIDE DEF v
  <2> QED
    BY <1>0, <2>4, <2>5 DEF RunFields
<1>3. d.ev.returning => run.ev.returning
  BY <1>0, <1>1 DEF LeaveSource, RunFields, EvFields
<1> HIDE DEF d
<1>4. Held(d.ev) = l
  BY <1>2 DEF Held, Levels
<1>5. Open(d, l)
  BY <1>2, <1>4 DEF Open, Counted
<1>6. Few(d) /\ Single(d)
  BY <1>1, <1>2, <1>3 DEF Few, Single, Doomed
<1> QED
  BY <1>4, <1>5, <1>6 DEF Ready, Rules, d

LEMMA LeaveActionLevel ==
    ASSUME NEW l \in Levels, Open(Popped, l), Popped.ev = run.ev,
           Held(run.ev) = Over(l, Top), Fits(Top, l), Top.saved.kind = "trap"
    PROVE  LET d == LeaveAction(Popped, Top.saved)
           IN  /\ DOMAIN d = RunFields /\ DOMAIN d.ev = EvFields
               /\ d.stack = Popped.stack /\ d.live = Popped.live
               /\ d.ev.levels = run.ev.levels /\ d.ev.exiting = run.ev.exiting
               /\ d.ev.returning = run.ev.returning /\ d.ev.fatal = run.ev.fatal
               /\ d.ev.exitTrap = run.ev.exitTrap
               /\ d.ev.loops = run.ev.loops
               /\ Held(d.ev) = l /\ Open(d, l)
<1> DEFINE d == LeaveAction(Popped, Top.saved)
<1>0. DOMAIN Popped = RunFields /\ DOMAIN Popped.ev = EvFields
  BY DEF Open, Counted
<1>1. /\ Top.saved.slot = run.ev.slots /\ run.ev.slots - 1 = l.slots
      /\ run.ev.functions = l.functions /\ run.ev.loops = l.loops
      /\ run.ev.texts = l.texts /\ run.ev.dots = l.dots
  BY SlotLevel
<1>2. /\ DOMAIN d = RunFields /\ DOMAIN d.ev = EvFields
      /\ d.stack = Popped.stack /\ d.live = Popped.live /\ d.base = Popped.base
      /\ d.traps = Popped.traps /\ d.ev.levels = run.ev.levels
      /\ d.ev.exiting = run.ev.exiting /\ d.ev.returning = run.ev.returning
      /\ d.ev.fatal = run.ev.fatal /\ d.ev.exitTrap = run.ev.exitTrap
      /\ d.ev.loops = l.loops /\ d.ev.functions = l.functions
      /\ d.ev.slots = l.slots /\ d.ev.texts = l.texts /\ d.ev.dots = l.dots
  BY <1>0, <1>1 DEF LeaveAction, RunFields, EvFields
<1> HIDE DEF d
<1>4. Held(d.ev) = l
  BY <1>2 DEF Held, Levels
<1>5. Open(d, l)
  BY <1>2, <1>4 DEF Open, Counted
<1> QED
  BY <1>1, <1>2, <1>4, <1>5 DEF d

(* The end of the action of EXIT: nothing is below, and an error that the  *)
(* frame remembers is one of the shell again.                              *)
LEMMA EndExitReady ==
    ASSUME NEW c, NEW saved, NEW status, Open(c, Held(c.ev)), c.stack = <<>>,
           c.ev.levels <= c.ev.loops \/ c.ev.fatal \/ saved.fatal,
           c.ev.levels # 0 => ~c.ev.returning \/ c.ev.fatal \/ saved.fatal
    PROVE  Ready(EndExit(c, saved, status))
<1> DEFINE d == EndExit(c, saved, status)
<1>0. DOMAIN c = RunFields /\ DOMAIN c.ev = EvFields
  BY DEF Open, Counted
<1>1. /\ DOMAIN d = RunFields /\ DOMAIN d.ev = EvFields
      /\ d.stack = c.stack /\ d.live = c.live /\ d.base = c.base
      /\ d.traps = c.traps /\ d.ev.levels = c.ev.levels
      /\ d.ev.returning = c.ev.returning
      /\ d.ev.loops = c.ev.loops /\ d.ev.functions = c.ev.functions
      /\ d.ev.slots = c.ev.slots /\ d.ev.texts = c.ev.texts
      /\ d.ev.dots = c.ev.dots
  <2> DEFINE b == c.ev.fatal \/ saved.fatal
             x == c.ev.exiting \/ saved.exiting
             e(st, xst) == [c EXCEPT !.status = st, !.ev.exitTrap = "complete",
                                     !.ev.exiting = x, !.ev.exitStatus = xst,
                                     !.ev.fatal = b, !.ev.last = st]
  <2>1. \E st, xst : d = e(st, xst)
    BY DEF EndExit
  <2> HIDE DEF b, d, x
  <2>2. PICK st, xst : d = e(st, xst)
    BY <2>1
  <2> DEFINE v == [c.ev EXCEPT !.exitTrap = "complete", !.exiting = x,
                               !.exitStatus = xst, !.fatal = b, !.last = st]
  <2>3. d = [c EXCEPT !.status = st, !.ev = v]
    BY <1>0, <2>2 DEF RunFields
  <2>4. /\ DOMAIN v = EvFields /\ v.levels = c.ev.levels
        /\ v.returning = c.ev.returning
        /\ v.loops = c.ev.loops /\ v.functions = c.ev.functions
        /\ v.slots = c.ev.slots /\ v.texts = c.ev.texts /\ v.dots = c.ev.dots
    BY <1>0 DEF EvFields
  <2> HIDE DEF v
  <2> QED
    BY <1>0, <2>3, <2>4 DEF RunFields
<1>2. c.ev.fatal \/ saved.fatal => d.ev.fatal
  BY <1>0 DEF EndExit, RunFields, EvFields
<1> HIDE DEF d
<1>3. Held(d.ev) = Held(c.ev)
  BY <1>1 DEF Held
<1>4. Open(d, Held(d.ev))
  BY <1>1, <1>3 DEF Open, Counted
<1>5. Few(d) /\ (Single(d) \/ Ending(d))
  BY <1>1, <1>2 DEF Few, Single, Ending, Doomed
<1> QED
  BY <1>4, <1>5 DEF Ready, Rules, d

LEMMA FinishActionSane ==
    ASSUME Sane(run), FinishAction
    PROVE  Sane(run')
<1> DEFINE left == LeaveAction(Popped, Top.saved)
<1>0. Runs /\ Top.kind = "TRAP_FINISH" /\ run' = FinishTrap(Popped, Top)
  BY DEF FinishAction, On
<1>1. PICK l \in Levels : /\ Open(Popped, l) /\ Held(run.ev) = Over(l, Top)
                          /\ Fits(Top, l)
                          /\ IsExit(Top) => Popped.stack = <<>>
  BY <1>0, PoppedOpen
<1>2. /\ Popped.ev = run.ev /\ run.ev.levels \in Nat
      /\ ~IsExit(Top) => Few(Popped) /\ Single(Popped)
  BY <1>0, PoppedOpen
<1>3. Top.saved.kind = "trap"
  BY <1>0, <1>1 DEF Fits
<1>4. /\ DOMAIN left = RunFields /\ DOMAIN left.ev = EvFields
      /\ left.stack = Popped.stack /\ left.live = Popped.live
      /\ left.ev.levels = run.ev.levels /\ left.ev.exiting = run.ev.exiting
      /\ left.ev.returning = run.ev.returning /\ left.ev.fatal = run.ev.fatal
      /\ left.ev.exitTrap = run.ev.exitTrap
      /\ left.ev.loops = run.ev.loops
      /\ Held(left.ev) = l /\ Open(left, l)
  BY <1>1, <1>2, <1>3, LeaveActionLevel
<1>5. CASE Top.saved.condition # 0
  <2> DEFINE d == EndPending(left, Top.saved)
  <2>1. run' = Complete(d, Top.suppressed)
    BY <1>0, <1>5 DEF FinishTrap
  <2> HIDE DEF left
  <2>2. Few(left) /\ Single(left)
    BY <1>2, <1>4, <1>5 DEF IsExit, Few, Single, Doomed
  <2>3. Ready(left) /\ Alike(left, d)
    BY <1>4, <2>2, EndPendingAlike DEF Ready, Rules, Open
  <2> HIDE DEF d
  <2> QED
    BY <2>1, <2>3, AlikeRules, CompleteSane
<1>6. CASE Top.saved.condition = 0
  <2> DEFINE d == EndExit(left, Top.saved, left.status)
  <2>1. run' \in {d, Complete(d, Top.suppressed)}
    BY <1>0, <1>6 DEF FinishTrap
  <2> HIDE DEF left
  <2>2. IsExit(Top) /\ Popped.stack = <<>>
    BY <1>0, <1>1, <1>6 DEF IsExit
  <2>3. Top = run.stack[1]
    <3>1. /\ IsSeq(run.stack) /\ Len(run.stack) \in Nat /\ Len(run.stack) > 0
          /\ Len(Front(run.stack)) = Len(run.stack) - 1
          /\ IsSeq(Front(run.stack))
          /\ Last(run.stack) = run.stack[Len(run.stack)]
      BY <1>0, SeqLen, SeqFront DEF Sane, Runs, Standing
    <3>2. Popped.stack = Front(run.stack)
      BY DEF Popped, Sane, Counted, RunFields
    <3>3. Len(run.stack) = 1
      <4>1. Len(Front(run.stack)) = 0
        BY <2>2, <3>1, <3>2, SeqLen
      <4> DEFINE n == Len(run.stack)
      <4>2. n \in Nat /\ n - 1 = 0
        BY <3>1, <4>1
      <4> HIDE DEF n
      <4>3. n = 1
        BY <4>2
      <4> QED
        BY <4>3 DEF n
    <3>4. Top = run.stack[Len(run.stack)]
      BY <3>1 DEF Top
    <3> QED
      BY <3>3, <3>4
  <2>4. Doomed(run) => run.ev.fatal \/ Top.saved.fatal
    BY <2>3 DEF Doomed
  <2>5. Few(run) /\ Single(run)
    BY <1>0 DEF Sane, Stuck, Rules, Ending, Runs
  <2>6. Ready(d)
    BY <1>4, <2>2, <2>4, <2>5, EndExitReady DEF Few, Single
  <2> HIDE DEF d
  <2> QED
    BY <2>1, <2>6, CompleteSane, ReadyIsSane
<1> QED
  BY <1>5, <1>6

LEMMA EnterSourceSane ==
    ASSUME Sane(run), RunSource
    PROVE  Sane(run')
<1> DEFINE dot == Command.op = "dot"
           l == Held(Popped.ev)
           e == EnterSource(Popped)
           d == [e EXCEPT !.ev.dots = @ + (IF dot THEN 1 ELSE 0)]
           t == [Task("SOURCE_FINISH", None, Suppressed(Top)) EXCEPT
                   !.saved = SavedSource(run.ev, dot, Top.node.neg)]
           u == NodeTask(Command.body, Suppressed(Top))
           refused == [Popped EXCEPT !.ev.fatal = TRUE]
<1>0. Runs /\ Top.kind = "NODE" /\ ~Unwinds(run.ev)
  BY DEF RunSource, Leaf, Foreground, OnNode, On
<1>1. /\ Ready(Popped) /\ Single(Popped)
      /\ DOMAIN Popped = RunFields /\ DOMAIN Popped.ev = EvFields
      /\ l \in Levels /\ Popped.ev.levels = 0 /\ Popped.ev = run.ev
      /\ Popped.ev.loops \in Nat
  BY <1>0, LeafPopped
<1>2. run' \in {Ends(refused, 125), Explain(Push(d, <<t, u>>))}
  BY DEF RunSource
<1>3. Sane(Ends(refused, 125))
  <2>1. Alike(Popped, refused)
    BY <1>1 DEF Alike, RunFields, EvFields, Held
  <2> HIDE DEF refused
  <2> QED
    BY <1>1, <2>1, AlikeRules, EndsSane
<1>4. PlainTask(u)
  BY NodeTaskPlain
<1>5. /\ DOMAIN t = TaskFields /\ t.text = FALSE /\ t.kind = "SOURCE_FINISH"
      /\ t.saved.kind = "source" /\ t.saved.dot = dot
      /\ t.saved.dots = run.ev.dots /\ t.saved.slot = run.ev.slots + 1
  BY DEF Task, TaskFields, SavedSource
<1>6. /\ DOMAIN e = RunFields /\ DOMAIN e.ev = EvFields
      /\ e.stack = Popped.stack /\ e.live = Popped.live /\ e.base = Popped.base
      /\ e.traps = Popped.traps /\ e.ev.levels = 0
      /\ Held(e.ev) = [l EXCEPT !.slots = @ + 1]
  BY <1>1, EnterSourceLevel DEF Ready, Open
<1> HIDE DEF e, dot, u
<1>7. /\ e.ev.functions = run.ev.functions /\ e.ev.loops = run.ev.loops
      /\ e.ev.texts = run.ev.texts /\ e.ev.dots = run.ev.dots
      /\ e.ev.slots = run.ev.slots + 1
  <2>1. /\ e.ev.functions = Held(e.ev).functions /\ e.ev.loops = Held(e.ev).loops
        /\ e.ev.texts = Held(e.ev).texts /\ e.ev.dots = Held(e.ev).dots
        /\ e.ev.slots = Held(e.ev).slots
    BY DEF Held
  <2> QED
    BY <1>1, <1>6, <2>1 DEF Held
<1>8. /\ DOMAIN d = RunFields /\ DOMAIN d.ev = EvFields
      /\ d.stack = Popped.stack /\ d.live = Popped.live /\ d.base = Popped.base
      /\ d.traps = Popped.traps /\ d.ev.levels = 0
      /\ d.ev.functions = run.ev.functions /\ d.ev.loops = run.ev.loops
      /\ d.ev.texts = run.ev.texts
      /\ d.ev.dots = run.ev.dots + (IF dot THEN 1 ELSE 0)
      /\ d.ev.slots = run.ev.slots + 1
  BY <1>6, <1>7 DEF RunFields, EvFields
<1> HIDE DEF d, t
<1>9. /\ l.functions = run.ev.functions /\ l.loops = run.ev.loops
      /\ l.texts = run.ev.texts /\ l.dots = run.ev.dots
      /\ l.slots = run.ev.slots
  BY <1>1 DEF Held
<1> HIDE DEF l
<1>10. Fits(t, l) /\ ~IsExit(t) /\ t.kind # "FOR"
  BY <1>5, <1>9 DEF Fits, IsExit, dot
<1>11. /\ ~IsFunction(t) /\ IsSlot(t) /\ ~HasText(t) /\ ~IsLoop(t)
       /\ IsDot(t) <=> dot
  BY <1>5 DEF IsFunction, IsSlot, HasText, IsLoop, IsDot
<1>12. Held(d.ev) = Over(l, t)
  <2>1. l.texts + 0 = l.texts /\ l.functions + 0 = l.functions
        /\ l.loops + 0 = l.loops
    BY <1>1 DEF Levels
  <2> QED
    BY <1>8, <1>9, <1>11, <2>1 DEF Over, Held
<1>13. Open(d, l) /\ Few(d) /\ Single(d)
  <2>1. Over(l, t) \in Levels
    BY <1>1, OverIsLevel
  <2>2. Open(Popped, l)
    BY <1>1 DEF Ready, l
  <2> QED
    BY <1>1, <1>8, <1>12, <2>1, <2>2 DEF Open, Counted, Few, Single
<1>14. Sane(Explain(Push(d, <<t, u>>)))
  BY <1>4, <1>10, <1>12, <1>13, PushSaneTwo
<1> QED
  BY <1>2, <1>3, <1>14

LEMMA FrameSane ==
    ASSUME Sane(run), FrameStep
    PROVE  Sane(run')
<1>1. CASE CallFunction
  <2> DEFINE l == Held(Popped.ev)
             d == EnterFunction(Popped)
  <2>0. Runs /\ Top.kind = "NODE" /\ ~Unwinds(run.ev)
    BY <1>1 DEF CallFunction, Leaf, Foreground, OnNode, On
  <2>1. /\ Ready(Popped) /\ l \in Levels /\ run.ev.levels = 0
        /\ Popped.ev = run.ev
    BY <2>0, LeafPopped
  <2>2. PICK t, u :
           /\ FunctionTasks("FUNCTION_FINISH", run.ev, Command.name,
                            Top.node.neg, Suppressed(Top)) = <<t, u>>
           /\ PlainTask(u) /\ Fits(t, l) /\ ~IsExit(t) /\ t.kind # "FOR"
           /\ Over(l, t) = Called(l)
    <3>1. run.ev.loops = l.loops
      BY <2>1 DEF Held
    <3> HIDE DEF l
    <3> QED
      BY <2>1, <3>1, FunctionFrame
  <2>3. /\ Open(d, l) /\ Few(d) /\ Single(d)
        /\ Held(d.ev) = Called(l)
    BY <2>1, FunctionEntered DEF Ready
  <2>4. run' \in {Ends(Popped, 125), Explain(Push(d, <<t, u>>))}
    BY <1>1, <2>2 DEF CallFunction
  <2> HIDE DEF d, l
  <2>5. Sane(Explain(Push(d, <<t, u>>)))
    BY <2>2, <2>3, PushSaneTwo
  <2> QED
    BY <2>1, <2>4, <2>5, EndsSane
<1>2. CASE FinishFunction \/ FinishChild
  <2> DEFINE d == LeaveFunction(Popped, Top.saved)
  <2>0. Runs /\ Top.kind \in {"FUNCTION_FINISH", "CHILD_FINISH"}
        /\ run' \in {d, Complete(d, Top.suppressed)}
    BY <1>2 DEF FinishFunction, FinishChild, On
  <2>1. PICK l \in Levels : /\ Open(Popped, l) /\ Held(run.ev) = Over(l, Top)
                            /\ Fits(Top, l)
    BY <2>0, PoppedOpen
  <2>2. Popped.ev = run.ev /\ IsFunction(Top)
    BY <2>0, <2>1, PoppedOpen DEF Fits, IsFunction
  <2>3. Ready(d)
    BY <2>1, <2>2, LeaveFunctionReady
  <2> HIDE DEF d
  <2> QED
    BY <2>0, <2>3, CompleteSane, ReadyIsSane
<1>3. CASE FinishSource
  <2>0. Runs /\ Top.kind = "SOURCE_FINISH"
        /\ run' = Complete(LeaveSource(Popped, Top.saved), Top.suppressed)
    BY <1>3 DEF FinishSource, On
  <2>1. PICK l \in Levels : /\ Open(Popped, l) /\ Held(run.ev) = Over(l, Top)
                            /\ Fits(Top, l)
    BY <2>0, PoppedOpen
  <2>2. /\ Popped.ev = run.ev /\ Top.saved.kind = "source"
        /\ Few(Popped) /\ Single(Popped)
    BY <2>0, <2>1, PoppedOpen DEF Fits, IsExit
  <2> QED
    BY <2>0, <2>1, <2>2, LeaveSourceReady, CompleteSane
<1>4. CASE FailFork
  <2> DEFINE d == Fail(Popped)
  <2>0. Runs /\ Top.kind = "NODE" /\ ~Unwinds(run.ev) /\ run' = d
    BY <1>4 DEF FailFork, On
  <2>1. Ready(Popped) /\ Single(Popped) /\ DOMAIN Popped = RunFields
    BY <2>0, LeafPopped
  <2>2. /\ DOMAIN d = RunFields /\ d.stack = Popped.stack /\ d.live = FALSE
        /\ d.ev = Popped.ev /\ d.base = Popped.base /\ d.traps = Popped.traps
    BY <2>1 DEF Fail, RunFields
  <2> HIDE DEF d
  <2>3. Sane(d)
    BY <2>1, <2>2 DEF Sane, Ready, Open, Rules, Counted, Few, Single, Ending, Doomed
  <2> QED
    BY <2>0, <2>3
<1> QED
  BY <1>1, <1>2, <1>3, <1>4, EnterSourceSane, FinishActionSane DEF FrameStep

(***************************************************************************)
(* Processes begin and end.                                                *)
(***************************************************************************)
(* A process begins with one task, or with a frame and its body.           *)
LEMMA BeginStands ==
    ASSUME NEW base \in Levels, NEW t, Fits(t, base), t.kind # "FOR",
           NEW u, PlainTask(u)
    PROVE  /\ Standing(<<t, u>>, base, Over(base, t)) /\ Calm(<<t, u>>)
           /\ Standing(<<u>>, base, base) /\ Calm(<<u>>)
<1>1. Standing(<<>>, base, base) /\ Calm(<<>>) /\ IsSeq(<<>>)
  BY EmptyStands DEF Standing
<1>2. Append(<<>>, t) = <<t>> /\ Append(<<>>, u) = <<u>>
      /\ Append(<<t>>, u) = <<t, u>>
  <2> DEFINE S == {t, u}
  <2>1. t \in S /\ u \in S /\ <<>> \in Seq(S) /\ <<t>> \in Seq(S)
    OBVIOUS
  <2> HIDE DEF S
  <2>2. /\ Append(<<>>, t) \in Seq(S) /\ Len(Append(<<>>, t)) = 1
        /\ Append(<<>>, t)[1] = t
        /\ Append(<<>>, u) \in Seq(S) /\ Len(Append(<<>>, u)) = 1
        /\ Append(<<>>, u)[1] = u
        /\ Append(<<t>>, u) \in Seq(S) /\ Len(Append(<<t>>, u)) = 2
        /\ Append(<<t>>, u)[1] = t /\ Append(<<t>>, u)[2] = u
    BY <2>1
  <2>3. /\ <<u>> \in Seq(S) /\ Len(<<t>>) = 1 /\ Len(<<u>>) = 1
        /\ <<t>>[1] = t /\ <<u>>[1] = u
        /\ <<t, u>> \in Seq(S) /\ Len(<<t, u>>) = 2
        /\ <<t, u>>[1] = t /\ <<t, u>>[2] = u
    BY <2>1
  <2>4. Append(<<>>, t) = <<t>>
    BY <2>1, <2>2, <2>3, SeqEqual
  <2>5. Append(<<>>, u) = <<u>>
    BY <2>2, <2>3, SeqEqual
  <2>6. Append(<<t>>, u) = <<t, u>>
    <3> DEFINE a == Append(<<t>>, u)
               b == <<t, u>>
    <3>1. /\ a \in Seq(S) /\ Len(a) = 2 /\ a[1] = t /\ a[2] = u
          /\ b \in Seq(S) /\ Len(b) = 2 /\ b[1] = t /\ b[2] = u
      BY <2>2, <2>3
    <3> HIDE DEF a, b
    <3>2. \A i \in 1..Len(a) : a[i] = b[i]
      BY <3>1
    <3>3. a = b
      BY <3>1, <3>2, SeqEqual
    <3> QED
      BY <3>3 DEF a, b
  <2> QED
    BY <2>4, <2>5, <2>6
<1>3. Standing(<<t>>, base, Over(base, t)) /\ Calm(<<t>>) /\ IsSeq(<<t>>)
  <2>1. Standing(Append(<<>>, t), base, Over(base, t))
    BY <1>1, PushStands
  <2>2. Calm(Append(<<>>, t))
    BY <1>1, CalmAppend
  <2> QED
    BY <1>2, <2>1, <2>2 DEF Standing
<1>4. Over(base, t) \in Levels
  BY OverIsLevel
<1>5. /\ Fits(u, Over(base, t)) /\ Over(Over(base, t), u) = Over(base, t)
      /\ Fits(u, base) /\ Over(base, u) = base /\ ~IsExit(u) /\ u.kind # "FOR"
  BY <1>4, PlainTaskFits
<1>6. Standing(Append(<<t>>, u), base, Over(base, t)) /\ Calm(Append(<<t>>, u))
  BY <1>3, <1>5, PushStands, CalmAppend
<1>7. Standing(Append(<<>>, u), base, base) /\ Calm(Append(<<>>, u))
  <2>1. Standing(Append(<<>>, u), base, Over(base, u))
    BY <1>1, <1>5, PushStands
  <2> QED
    BY <1>1, <1>5, <2>1, CalmAppend
<1> QED
  BY <1>2, <1>6, <1>7

LEMMA NewRunReady ==
    ASSUME NEW ev, DOMAIN ev = EvFields, Held(ev) \in Levels, ev.levels \in Nat,
           ev.levels # 0 => ev.levels <= ev.loops /\ ~ev.returning /\ ~ev.exiting,
           NEW traps, Sound(traps), NEW child, NEW t, PlainTask(t)
    PROVE  /\ Ready(NewRun(ev, traps, <<>>, child))
           /\ Ready(NewRun(ev, traps, <<t>>, child))
           /\ DOMAIN NewRun(ev, traps, <<>>, child) = RunFields
<1>1. ev.loops \in Nat
  BY DEF Held, Levels
<1>2. ASSUME NEW stack, Standing(stack, Held(ev), Held(ev)), Calm(stack)
      PROVE  Ready(NewRun(ev, traps, stack, child))
  <2> DEFINE d == NewRun(ev, traps, stack, child)
  <2>1. /\ DOMAIN d = RunFields /\ d.ev = ev /\ d.traps = traps
        /\ d.stack = stack /\ d.live = TRUE /\ d.base = Held(ev)
    BY DEF NewRun, RunFields
  <2> HIDE DEF d
  <2>2. Open(d, Held(d.ev))
    BY <1>2, <2>1 DEF Open, Counted
  <2>3. Rules(d)
    BY <1>1, <2>1 DEF Rules, Few, Single
  <2> QED
    BY <2>2, <2>3 DEF Ready, d
<1>3. DOMAIN NewRun(ev, traps, <<>>, child) = RunFields
  BY DEF NewRun, RunFields
<1>4. Standing(<<>>, Held(ev), Held(ev)) /\ Calm(<<>>)
  BY EmptyStands
<1>5. Standing(<<t>>, Held(ev), Held(ev)) /\ Calm(<<t>>)
  <2>1. Fits(t, Held(ev)) /\ t.kind # "FOR"
    BY PlainTaskFits
  <2> QED
    BY <2>1, BeginStands
<1> QED
  BY <1>2, <1>3, <1>4, <1>5

(* The action of EXIT begins on a stack of its own.  The frame remembers   *)
(* the error that may have left loops counted.                             *)
LEMMA ExitActionSane ==
    ASSUME Sane(run), RunExitAction
    PROVE  Sane(run')
<1> DEFINE begun == [BeginExit(run) EXCEPT !.stack = <<>>, !.live = TRUE,
                                           !.base = Held(run.ev)]
           saved == SavedTrap(run, 0)
           failed == [begun EXCEPT !.ev.fatal = TRUE]
           d == EnterSource(begun)
           l == Held(run.ev)
<1>0. /\ Counted(run) /\ DOMAIN run = RunFields /\ DOMAIN run.ev = EvFields
      /\ l \in Levels /\ run.ev.exitTrap = "idle" /\ Rules(run)
  BY DEF RunExitAction, WantsExitAction, Sane, Counted, Stuck
<1>1. Doomed(run) => run.ev.fatal
  BY <1>0 DEF Doomed
<1>2. /\ DOMAIN begun = RunFields /\ DOMAIN begun.ev = EvFields
      /\ begun.stack = <<>> /\ begun.live = TRUE /\ begun.base = l
      /\ begun.traps = run.traps /\ begun.ev.levels = run.ev.levels
      /\ begun.ev.returning = run.ev.returning /\ begun.ev.exiting = FALSE
      /\ begun.ev.exitTrap = "running" /\ begun.ev.fatal = FALSE
      /\ begun.ev.loops = run.ev.loops /\ begun.ev.slots = run.ev.slots
      /\ Held(begun.ev) = l
  BY <1>0 DEF BeginExit, RunFields, EvFields, Held
<1>3. run' \in {Push(d, ActionTasks(saved, FALSE)), EndExit(failed, saved, 125)}
  BY DEF RunExitAction
<1> HIDE DEF begun, l
<1>4. Standing(<<>>, l, l) /\ Calm(<<>>)
  BY <1>0, EmptyStands
<1>5. Open(begun, l)
  BY <1>0, <1>2, <1>4 DEF Open, Counted
<1>6. Sane(EndExit(failed, saved, 125))
  <2>1. /\ DOMAIN failed = RunFields /\ DOMAIN failed.ev = EvFields
        /\ failed.stack = <<>> /\ failed.live = TRUE /\ failed.base = l
        /\ failed.traps = run.traps /\ failed.ev.levels = run.ev.levels
        /\ failed.ev.fatal = TRUE /\ Held(failed.ev) = l
    BY <1>2 DEF RunFields, EvFields, Held
  <2> HIDE DEF failed
  <2>2. Open(failed, Held(failed.ev))
    BY <1>0, <1>4, <2>1 DEF Open, Counted
  <2> QED
    BY <2>1, <2>2, EndExitReady, ReadyIsSane
<1>7. Sane(Push(d, ActionTasks(saved, FALSE)))
  <2> DEFINE t == [Task("TRAP_FINISH", None, FALSE) EXCEPT !.saved = saved]
             u == NodeTask(Actions[saved.condition], FALSE)
             r == <<t, u>>
             e == Push(d, r)
  <2>1. ActionTasks(saved, FALSE) = r
    BY DEF ActionTasks
  <2>2. /\ Fits(t, l) /\ t.kind = "TRAP_FINISH" /\ t.saved.condition = 0
        /\ t.saved.kind = "trap" /\ t.text = FALSE
        /\ t.saved.fatal = run.ev.fatal
    BY <1>0 DEF SavedTrap, Task, Fits, TaskFields, Held, l
  <2>3. PlainTask(u)
    BY NodeTaskPlain
  <2> HIDE DEF t, u, saved
  <2>4. /\ DOMAIN d = RunFields /\ DOMAIN d.ev = EvFields
        /\ d.stack = <<>> /\ d.live = TRUE /\ d.base = l
        /\ d.traps = run.traps /\ d.ev.levels = run.ev.levels
        /\ d.ev.returning = run.ev.returning /\ d.ev.exiting = FALSE
        /\ d.ev.exitTrap = "running" /\ d.ev.fatal = FALSE
        /\ d.ev.loops = run.ev.loops
        /\ Held(d.ev) = [l EXCEPT !.slots = @ + 1]
        /\ Held(d.ev) \in Levels
    BY <1>0, <1>2, <1>5, EnterSourceLevel DEF Open
  <2> HIDE DEF d
  <2>5. Held(d.ev) = Over(l, t)
    <3>1. Held(d.ev) = [Held(begun.ev) EXCEPT !.slots = @ + 1]
      BY <1>2, <2>4
    <3>2. Counted(begun)
      BY <1>5 DEF Open
    <3>3. Held(d.ev) = Over(Held(begun.ev), t)
      <4>1. DOMAIN d.ev = EvFields
        BY <2>4
      <4>2. t.kind = "TRAP_FINISH" /\ t.saved.kind = "trap" /\ t.text = FALSE
        BY <2>2
      <4> HIDE DEF l
      <4> QED
        BY <3>1, <3>2, <4>1, <4>2, TrapLevel
    <3>4. Held(begun.ev) = l
      BY <1>2
    <3> HIDE DEF l
    <3> QED
      BY <3>3, <3>4
  <2>6. Standing(r, l, Over(l, t)) /\ Calm(r)
    BY <1>0, <2>2, <2>3, BeginStands
  <2>7. e = [d EXCEPT !.live = FALSE] \/ e = [d EXCEPT !.stack = r]
    <3>1. <<>> \o r = r
      OBVIOUS
    <3> QED
      BY <2>4, <3>1 DEF Push
  <2>8. r # <<>> /\ r[1] = t
    OBVIOUS
  <2> HIDE DEF e, r
  <2>9. ASSUME e = [d EXCEPT !.live = FALSE]
        PROVE  Sane(e)
    <3>1. /\ DOMAIN e = RunFields /\ e.live = FALSE /\ e.ev = d.ev
          /\ e.base = d.base /\ e.traps = d.traps
      BY <2>4, <2>9 DEF RunFields
    <3>2. Counted(e) /\ Stuck(e) /\ ~e.live
      BY <1>0, <2>4, <3>1 DEF Stuck, Counted
    <3> QED
      BY <3>2 DEF Sane
  <2>10. ASSUME e = [d EXCEPT !.stack = r]
         PROVE  Sane(e)
    <3>1. /\ DOMAIN e = RunFields /\ e.live = TRUE /\ e.ev = d.ev
          /\ e.base = l /\ e.traps = d.traps /\ e.stack = r
      BY <2>4, <2>10 DEF RunFields
    <3>2. run.ev.fatal => Doomed(e)
      BY <2>2, <2>4, <2>8, <3>1 DEF Doomed
    <3>3. Few(e) /\ Single(e)
      BY <1>0, <1>1, <2>4, <3>1, <3>2 DEF Rules, Few, Single, Ending
    <3>4. Open(e, Held(e.ev))
      BY <1>0, <2>4, <2>5, <2>6, <3>1 DEF Open, Counted
    <3> QED
      BY <3>3, <3>4, ReadyIsSane DEF Ready, Rules
  <2>11. Sane(e)
    BY <2>7, <2>9, <2>10
  <2>12. Push(d, ActionTasks(saved, FALSE)) = e
    BY <2>1 DEF e
  <2> QED
    BY <2>11, <2>12
<1> HIDE DEF d, failed, saved
<1> QED
  BY <1>3, <1>6, <1>7

LEMMA ReadCommandSane ==
    ASSUME Sane(run), ReadCommand
    PROVE  Sane(run')
<1> DEFINE ev == [run.ev EXCEPT !.fatal = FALSE, !.sources = 0]
           t == NodeTask(Head(script), FALSE)
<1>0. /\ Counted(run) /\ DOMAIN run.ev = EvFields /\ Held(run.ev) \in Levels
      /\ Sound(run.traps) /\ run.ev.levels \in Nat
      /\ run.ev.exitTrap = "idle" /\ Rules(run)
      /\ ~run.ev.fatal /\ ~run.ev.exiting
  BY DEF ReadCommand, Reads, Sane, Counted, Stuck
<1>1. run.ev.levels # 0 => run.ev.levels <= run.ev.loops /\ ~run.ev.returning
  BY <1>0 DEF Rules, Few, Single, Ending, Doomed
<1>2. /\ DOMAIN ev = EvFields /\ Held(ev) = Held(run.ev)
      /\ ev.levels = run.ev.levels /\ ev.loops = run.ev.loops
      /\ ev.returning = run.ev.returning /\ ev.exiting = run.ev.exiting
  BY <1>0 DEF EvFields, Held
<1>3. run' = NewRun(ev, run.traps, <<t>>, FALSE)
  BY DEF ReadCommand
<1>4. PlainTask(t)
  BY NodeTaskPlain
<1> HIDE DEF ev, t
<1>5. Ready(NewRun(ev, run.traps, <<t>>, FALSE))
  BY <1>0, <1>1, <1>2, <1>4, NewRunReady
<1> QED
  BY <1>3, <1>5, ReadyIsSane

(* A process that may wait for a child, and its children.                  *)
Quiet(c) == Ready(c) /\ c.ev.levels = 0

LEMMA QuietFields ==
    ASSUME NEW c, Quiet(c)
    PROVE  /\ DOMAIN c.ev = EvFields /\ Held(c.ev) \in Levels
           /\ c.ev.levels = 0 /\ c.ev.loops \in Nat /\ Sound(c.traps)
BY DEF Quiet, Ready, Open, Counted, Held, Levels

LEMMA ForkSane ==
    ASSUME NEW c, Quiet(c), NEW t, PlainTask(t)
    PROVE  Sane(Fork(c, ChildEvaluator(c.ev), <<t>>))
<1> DEFINE ev == ChildEvaluator(c.ev)
<1>1. /\ DOMAIN ev = EvFields /\ ev.levels = 0 /\ ev.loops = 0
      /\ ev.functions = c.ev.functions /\ ev.slots = c.ev.slots
      /\ ev.texts = c.ev.texts /\ ev.dots = c.ev.dots
  BY QuietFields DEF ChildEvaluator, EvFields
<1> HIDE DEF ev
<1>2. Held(ev) \in Levels
  <2>1. Held(c.ev) \in Levels
    BY QuietFields
  <2> QED
    BY <1>1, <2>1 DEF Held, Levels
<1>3. Sound(EnterSubshell(c.traps))
  BY QuietFields, SubshellSound
<1>4. \A child : Ready(NewRun(ev, EnterSubshell(c.traps), <<t>>, child))
  BY <1>1, <1>2, <1>3, NewRunReady
<1> QED
  BY <1>4, ReadyIsSane DEF Fork, ev

(* A stage of a pipeline is a function in a child, or a command.           *)
LEMMA StageSane ==
    ASSUME NEW c, Quiet(c), NEW stage, NEW suppressed
    PROVE  Sane(StageRun(c, stage, suppressed))
<1> DEFINE ev == [c.ev EXCEPT !.returning = FALSE, !.exiting = FALSE,
                              !.fatal = FALSE]
           f == Fork(c, ev, <<>>)
           called == EnterFunction(f)
           tasks == FunctionTasks("CHILD_FINISH", ev, stage.cmd.name, FALSE,
                                  suppressed)
           l == Held(ev)
<1>1. /\ DOMAIN ev = EvFields /\ ev.levels = 0 /\ Held(ev) = Held(c.ev)
      /\ ev.loops = c.ev.loops
  BY QuietFields DEF EvFields, Held
<1>2. StageRun(c, stage, suppressed) \in
         {[called EXCEPT !.stack = tasks], [f EXCEPT !.status = stage.cmd.status]}
  BY DEF StageRun
<1> HIDE DEF ev
<1>3. Ready(f) /\ DOMAIN f = RunFields /\ f.ev = ev /\ f.base = l
  <2>1. Sound(EnterSubshell(c.traps)) /\ Held(ev) \in Levels
    BY <1>1, QuietFields, SubshellSound
  <2>2. PICK t : PlainTask(t)
    BY NodeTaskPlain
  <2>3. \A child : Ready(NewRun(ev, EnterSubshell(c.traps), <<>>, child))
    <3> DEFINE traps == EnterSubshell(c.traps)
    <3>1. Sound(traps)
      BY <2>1
    <3>2. ev.levels \in Nat /\ ev.levels = 0
      BY <1>1
    <3> HIDE DEF traps
    <3>3. \A child : Ready(NewRun(ev, traps, <<>>, child))
      BY <1>1, <2>1, <2>2, <3>1, <3>2, NewRunReady
    <3> QED
      BY <3>3 DEF traps
  <2>4. Ready(f)
    <3>1. Ready(NewRun(ev, EnterSubshell(c.traps), <<>>, TRUE))
      BY <2>3
    <3>2. f = NewRun(ev, EnterSubshell(c.traps), <<>>, TRUE)
      BY DEF Fork
    <3> HIDE DEF f
    <3> QED
      BY <3>1, <3>2
  <2>5. DOMAIN f = RunFields /\ f.ev = ev /\ f.base = l
    BY DEF Fork, NewRun, RunFields
  <2> QED
    BY <2>4, <2>5
<1> HIDE DEF f
<1>4. Sane([f EXCEPT !.status = stage.cmd.status])
  <2> DEFINE e == [f EXCEPT !.status = stage.cmd.status]
  <2>1. Alike(f, e)
    BY <1>3, StatusAlike DEF Ready, Open
  <2> HIDE DEF e
  <2>2. Sane(e)
    BY <1>3, <2>1, AlikeRules, ReadyIsSane
  <2> QED
    BY <2>2 DEF e
<1>5. Sane([called EXCEPT !.stack = tasks])
  <2> DEFINE e == [called EXCEPT !.stack = tasks]
  <2>1. l \in Levels /\ ev.loops = l.loops
    BY <1>1, QuietFields DEF Held
  <2>2. PICK t, u : /\ tasks = <<t, u>>
                    /\ PlainTask(u) /\ Fits(t, l) /\ ~IsExit(t) /\ t.kind # "FOR"
                    /\ Over(l, t) = Called(l)
    <3> HIDE DEF l
    <3>1. \A neg : \E t, u :
             /\ FunctionTasks("CHILD_FINISH", ev, stage.cmd.name, neg, suppressed)
                   = <<t, u>>
             /\ PlainTask(u) /\ Fits(t, l) /\ ~IsExit(t) /\ t.kind # "FOR"
             /\ Over(l, t) = Called(l)
      BY <1>1, <2>1, FunctionFrame
    <3> QED
      BY <3>1
  <2>3. /\ Open(called, l) /\ Few(called) /\ Single(called)
        /\ Held(called.ev) = Called(l) /\ called.base = l
        /\ DOMAIN called = RunFields
    BY <1>3, FunctionEntered DEF Ready
  <2> HIDE DEF tasks, l, called
  <2>4. Standing(tasks, l, Over(l, t)) /\ Calm(tasks)
    BY <2>1, <2>2, BeginStands
  <2>5. /\ DOMAIN e = RunFields /\ e.ev = called.ev /\ e.base = l
        /\ e.traps = called.traps /\ e.live = called.live /\ e.stack = tasks
    BY <2>3 DEF RunFields
  <2> HIDE DEF e
  <2>6. Open(e, Held(e.ev))
    BY <2>2, <2>3, <2>4, <2>5 DEF Open, Counted
  <2>7. called.ev.levels = 0 /\ called.ev.loops \in Nat
    <3>1. called.ev.levels = 0
      BY <1>3 DEF called, EnterFunction, Ready, Open, Counted, RunFields, EvFields
    <3>2. Held(called.ev) \in Levels
      BY <2>3 DEF Open, Counted
    <3> QED
      BY <3>1, <3>2 DEF Held, Levels
  <2>8. Rules(e)
    BY <2>5, <2>7 DEF Rules, Few, Single
  <2>9. Sane(e)
    BY <2>6, <2>8, ReadyIsSane DEF Ready
  <2> QED
    BY <2>9 DEF e
<1> HIDE DEF called, tasks
<1> QED
  BY <1>2, <1>4, <1>5

(***************************************************************************)
(* The inductive invariant: the process that executes is between two       *)
(* steps, and those that wait were at a node when they began to.           *)
(***************************************************************************)
WaitsQuietly(p) == "run" \in DOMAIN p /\ Quiet(p.run)

BalanceInv ==
    /\ Sane(run)
    /\ IsSeq(parents)
    /\ \A i \in 1..Len(parents) : WaitsQuietly(parents[i])

LEMMA NodeQuiet ==
    ASSUME Sane(run), Runs, Top.kind = "NODE", ~Unwinds(run.ev)
    PROVE  Quiet(Popped)
BY LeafPopped DEF Quiet

LEMMA WaitersAppend ==
    ASSUME NEW s, IsSeq(s), \A i \in 1..Len(s) : WaitsQuietly(s[i]),
           NEW p, WaitsQuietly(p)
    PROVE  /\ IsSeq(Append(s, p))
           /\ \A i \in 1..Len(Append(s, p)) : WaitsQuietly(Append(s, p)[i])
<1> DEFINE r == Append(s, p)
<1>1. /\ IsSeq(r) /\ Len(r) = Len(s) + 1 /\ r[Len(s) + 1] = p /\ Len(s) \in Nat
      /\ \A i \in 1..Len(s) : r[i] = s[i]
  BY SeqAppend, SeqLen
<1> HIDE DEF r
<1> QED
  BY <1>1 DEF r

(* A child is forked while the shell waits.                                *)
LEMMA StartChildBalanced ==
    ASSUME BalanceInv, StartSubshell \/ StartStages
    PROVE  BalanceInv'
<1>0. Runs /\ Top.kind = "NODE" /\ ~Unwinds(run.ev) /\ Sane(run)
  BY DEF StartSubshell, StartStages, Foreground, OnNode, On, BalanceInv
<1>1. Quiet(Popped) /\ Popped.ev = run.ev /\ Popped.traps = run.traps
  BY <1>0, NodeQuiet, LeafPopped
<1>2. PICK stages : parents' = Append(parents, Waiting(stages))
  BY DEF StartSubshell, StartStages
<1>3. WaitsQuietly(Waiting(stages))
  BY <1>1 DEF WaitsQuietly, Waiting
<1>4. IsSeq(parents') /\ \A i \in 1..Len(parents') : WaitsQuietly(parents'[i])
  BY <1>2, <1>3, WaitersAppend DEF BalanceInv
<1>5. \A ev, stack : Fork(run, ev, stack) = Fork(Popped, ev, stack)
  BY <1>1 DEF Fork
<1>6. Sane(run')
  <2>1. CASE StartSubshell
    <3> DEFINE t == NodeTask(Top.node.kids[1], Top.suppressed)
    <3>1. run' = Fork(Popped, ChildEvaluator(Popped.ev), <<t>>)
      BY <1>1, <1>5, <2>1 DEF StartSubshell
    <3>2. PlainTask(t)
      BY NodeTaskPlain
    <3> HIDE DEF t
    <3> QED
      BY <1>1, <3>1, <3>2, ForkSane
  <2>2. CASE StartStages
    <3>1. run' = StageRun(run, Head(Top.node.kids), Suppressed(Top))
      BY <2>2 DEF StartStages
    <3>2. \A stage, suppressed :
             StageRun(run, stage, suppressed) = StageRun(Popped, stage, suppressed)
      BY <1>1, <1>5 DEF StageRun
    <3> QED
      BY <1>1, <3>1, <3>2, StageSane
  <2> QED
    BY <2>1, <2>2
<1> QED
  BY <1>4, <1>6 DEF BalanceInv

LEMMA AsyncChildBalanced ==
    ASSUME BalanceInv, AsyncChild
    PROVE  BalanceInv'
<1> DEFINE t(node) == NodeTask(node, Suppressed(Top))
<1>0. Runs /\ Top.kind = "NODE" /\ ~Unwinds(run.ev) /\ Sane(run)
  BY DEF AsyncChild, On, BalanceInv
<1>1. Quiet(Popped) /\ Popped.ev = run.ev /\ Popped.traps = run.traps
  BY <1>0, NodeQuiet, LeafPopped
<1>2. \E node : run' = Fork(run, ChildEvaluator(run.ev), <<t(node)>>)
  BY DEF AsyncChild
<1>3. \A node : PlainTask(t(node))
  BY NodeTaskPlain
<1> HIDE DEF t
<1>4. \E node : run' = Fork(Popped, ChildEvaluator(Popped.ev), <<t(node)>>)
  BY <1>1, <1>2 DEF Fork
<1>5. Sane(run')
  BY <1>1, <1>3, <1>4, ForkSane
<1>6. parents' = <<>>
  BY DEF AsyncChild
<1>7. IsSeq(parents') /\ Len(parents') = 0
  <2>1. <<>> \in Seq({})
    OBVIOUS
  <2> QED
    BY <1>6, <2>1 DEF IsSeq
<1> QED
  BY <1>5, <1>7 DEF BalanceInv

(* A child is gone: the next stage is forked, or the shell goes on.        *)
LEMMA ResumeBalanced ==
    ASSUME BalanceInv, Resume
    PROVE  BalanceInv'
<1> DEFINE n == Len(parents)
           p == parents[n]
           s == Front(parents)
<1>1. /\ IsSeq(parents) /\ n \in Nat /\ n > 0
      /\ Last(parents) = p
      /\ IsSeq(s) /\ Len(s) = n - 1
      /\ \A i \in 1..(n - 1) : s[i] = parents[i]
  BY SeqLen, SeqFront DEF BalanceInv, Resume
<1>2. WaitsQuietly(p) /\ \A i \in 1..Len(s) : WaitsQuietly(s[i])
  BY <1>1 DEF BalanceInv
<1>3. CASE p.stages # <<>>
  <2> DEFINE q == [p EXCEPT !.stages = Tail(@)]
  <2>1. /\ run' = StageRun(p.run, Head(p.stages), p.suppressed)
        /\ parents' = Append(s, q)
    BY <1>1, <1>3 DEF Resume
  <2>2. WaitsQuietly(q)
    BY <1>2 DEF WaitsQuietly
  <2> HIDE DEF q, s, p
  <2>3. IsSeq(parents') /\ \A i \in 1..Len(parents') : WaitsQuietly(parents'[i])
    BY <1>1, <1>2, <2>1, <2>2, WaitersAppend
  <2>4. Sane(run')
    BY <1>2, <2>1, StageSane DEF WaitsQuietly
  <2> QED
    BY <2>3, <2>4 DEF BalanceInv
<1>4. CASE p.stages = <<>>
  <2> DEFINE c == [p.run EXCEPT !.status = Negated(p.neg, run.status)]
  <2>1. run' = Complete(c, p.suppressed) /\ parents' = s
    BY <1>1, <1>4 DEF Resume
  <2>2. Ready(p.run)
    BY <1>2 DEF WaitsQuietly, Quiet
  <2>3. Alike(p.run, c)
    BY <2>2, StatusAlike DEF Ready, Open
  <2> HIDE DEF c, s, p
  <2>4. Sane(run')
    BY <2>1, <2>2, <2>3, AlikeRules, CompleteSane
  <2> QED
    BY <1>1, <1>2, <2>1, <2>4 DEF BalanceInv
<1> QED
  BY <1>3, <1>4

LEMMA SignalBalanced ==
    ASSUME BalanceInv, Signal
    PROVE  BalanceInv'
<1>1. PICK c \in Conditions \ {0} :
         \/ /\ HasAction(run.traps, c)
            /\ run' = [run EXCEPT !.traps = Arrive(@, c)]
            /\ UNCHANGED parents
         \/ \E i \in DOMAIN parents :
              /\ HasAction(parents[i].run.traps, c)
              /\ parents' = [parents EXCEPT ![i].run.traps = Arrive(@, c)]
              /\ UNCHANGED run
  BY DEF Signal
<1>2. CASE /\ HasAction(run.traps, c)
           /\ run' = [run EXCEPT !.traps = Arrive(@, c)]
           /\ UNCHANGED parents
  <2> DEFINE d == [run EXCEPT !.traps = Arrive(@, c)]
  <2>1. DOMAIN run = RunFields /\ Sound(run.traps)
    BY DEF BalanceInv, Sane, Counted
  <2>2. Sound(Arrive(run.traps, c))
    BY <1>2, <2>1, ArriveSound
  <2>3. /\ DOMAIN d = RunFields /\ d.stack = run.stack /\ d.live = run.live
        /\ d.ev = run.ev /\ d.base = run.base /\ Sound(d.traps)
    BY <2>1, <2>2 DEF RunFields
  <2> HIDE DEF d
  <2>4. Sane(d)
    BY <2>3 DEF BalanceInv, Sane, Counted, Rules, Stuck, Few, Single, Ending, Doomed
  <2>5. Sane(run')
    BY <1>2, <2>4 DEF d
  <2> QED
    BY <1>2, <2>5 DEF BalanceInv
<1>3. ASSUME NEW i \in DOMAIN parents,
             HasAction(parents[i].run.traps, c),
             parents' = [parents EXCEPT ![i].run.traps = Arrive(@, c)],
             UNCHANGED run
      PROVE  BalanceInv'
  <2> DEFINE n == Len(parents)
             p == parents[i]
             t == Arrive(p.run.traps, c)
             q == [p EXCEPT !.run.traps = t]
             r == p.run
  <2>1. IsSeq(parents) /\ n \in Nat /\ i \in 1..n
    BY SeqLen DEF BalanceInv
  <2>2. WaitsQuietly(p) /\ DOMAIN r = RunFields /\ DOMAIN r.ev = EvFields
        /\ Sound(r.traps)
    BY <2>1 DEF BalanceInv, WaitsQuietly, Quiet, Ready, Open, Counted
  <2>3. Sound(t)
    BY <1>3, <2>2, ArriveSound
  <2>4. parents' = [parents EXCEPT ![i] = q]
    BY <1>3
  <2> HIDE DEF t, p
  <2>5. "run" \in DOMAIN q /\ q.run = [r EXCEPT !.traps = t]
    BY <2>2 DEF WaitsQuietly
  <2> HIDE DEF q, r
  <2>6. Alike(r, q.run) /\ q.run.ev.levels = r.ev.levels
    BY <2>2, <2>3, <2>5 DEF Alike, RunFields
  <2>7. WaitsQuietly(q)
    BY <2>2, <2>5, <2>6, AlikeRules DEF WaitsQuietly, Quiet, r
  <2>8. /\ IsSeq(parents') /\ Len(parents') = n
        /\ parents'[i] = q
        /\ \A j \in 1..n : j # i => parents'[j] = parents[j]
    BY <2>1, <2>4, SeqExcept
  <2>9. \A j \in 1..n : WaitsQuietly(parents'[j])
    BY <2>1, <2>7, <2>8 DEF BalanceInv
  <2> QED
    BY <1>3, <2>8, <2>9 DEF BalanceInv
<1> QED
  BY <1>1, <1>2, <1>3

LEMMA BalanceInit ==
    ASSUME Init
    PROVE  BalanceInv
<1> DEFINE ev == NewEvaluator
<1>1. DOMAIN ev = EvFields /\ Held(ev) \in Levels /\ ev.levels = 0
  BY DEF NewEvaluator, EvFields, Held, Levels
<1>2. Sound(NewStore({}))
  BY NewSound
<1>3. PICK t : PlainTask(t)
  BY NodeTaskPlain
<1> HIDE DEF ev
<1>4. \A child : Ready(NewRun(ev, NewStore({}), <<>>, child))
  <2> DEFINE traps == NewStore({})
  <2>1. Sound(traps) /\ ev.levels \in Nat
    BY <1>1, <1>2
  <2> HIDE DEF traps
  <2>2. \A child : Ready(NewRun(ev, traps, <<>>, child))
    BY <1>1, <1>3, <2>1, NewRunReady
  <2> QED
    BY <2>2 DEF traps
<1>5. run = NewRun(ev, NewStore({}), <<>>, FALSE) /\ parents = <<>>
  BY DEF Init, ev
<1>6. Sane(run)
  BY <1>4, <1>5, ReadyIsSane
<1>7. IsSeq(parents) /\ Len(parents) = 0
  <2>1. <<>> \in Seq({})
    OBVIOUS
  <2> QED
    BY <1>5, <2>1 DEF IsSeq
<1> QED
  BY <1>6, <1>7 DEF BalanceInv

LEMMA BalanceStep ==
    ASSUME BalanceInv, [Next]_vars
    PROVE  BalanceInv'
<1>0. Sane(run)
  BY DEF BalanceInv
<1>1. Sane(run') /\ UNCHANGED parents => BalanceInv'
  BY DEF BalanceInv
<1>2. CASE SequenceStep \/ CaseCommandStep \/ LoopStep \/ CommandStep \/ FrameStep
  <2>1. Sane(run')
    BY <1>0, <1>2, SequenceSane, CaseSane, LoopSane, CommandSane, FrameSane
  <2>2. HasStore(run)
    BY <1>0 DEF Sane, Counted, HasStore, RunFields
  <2>3. UNCHANGED parents
    BY <1>2, <2>2, SequenceKeeps, CaseKeeps, LoopKeeps, CommandKeeps, FrameKeeps
  <2> QED
    BY <1>1, <2>1, <2>3
<1>3. CASE RunExitAction \/ ReadCommand
  <2>1. UNCHANGED parents
    BY <1>3 DEF RunExitAction, ReadCommand, Keep
  <2> QED
    BY <1>0, <1>1, <1>3, <2>1, ExitActionSane, ReadCommandSane
<1>4. CASE RunTrap
  BY <1>0, <1>1, <1>4, RunTrapSane DEF RunTrap, Keep
<1>5. CASE UNCHANGED vars
  BY <1>5 DEF vars, BalanceInv
<1>6. CASE Step
  BY <1>6, <1>2, <1>3, <1>4, StartChildBalanced, AsyncChildBalanced,
     ResumeBalanced
     DEF Step, SequenceStep, CaseCommandStep, LoopStep, CommandStep, FrameStep
<1> QED
  BY <1>5, <1>6, SignalBalanced DEF Next, Ended

(***************************************************************************)
(* What a stack adds to its base is the number of its frames.              *)
(***************************************************************************)
LEMMA CountedSteps ==
    ASSUME NEW n \in Nat
    PROVE  \A f, P : \A k \in 0..n :
             f[k] \in Nat /\ (\A i \in (k + 1)..n : f[i] = f[i - 1]
                                       + (IF i \in P THEN 1 ELSE 0))
             => f[n] = f[k] + Cardinality({j \in 1..n : j > k /\ j \in P})
<1> SUFFICES ASSUME NEW f, NEW P, NEW k \in 0..n, f[k] \in Nat,
                    \A i \in (k + 1)..n :
                       f[i] = f[i - 1] + (IF i \in P THEN 1 ELSE 0)
             PROVE  f[n] = f[k] + Cardinality({j \in 1..n : j > k /\ j \in P})
  OBVIOUS
<1> DEFINE S(m) == {j \in 1..n : j > k /\ j <= k + m /\ j \in P}
           Q == {m \in 0..(n - k) : f[k + m] = f[k] + Cardinality(S(m))}
           d == n - k
<1>1. d \in Nat /\ k \in Nat /\ k + d = n
  OBVIOUS
<1>2. ASSUME NEW m \in 0..d
      PROVE  IsFiniteSet(S(m)) /\ Cardinality(S(m)) \in Nat
  <2>0. S(m) \subseteq 1..n
    OBVIOUS
  <2> HIDE DEF S
  <2>1. IsFiniteSet(1..n)
    BY FS_Interval
  <2> DEFINE T == S(m)
  <2>2. T \in SUBSET (1..n) /\ IsFiniteSet(1..n)
    BY <2>0, <2>1
  <2> HIDE DEF T
  <2>3. IsFiniteSet(T)
    BY <2>2, FS_Subset
  <2>4. Cardinality(T) \in Nat
    BY <2>3, FS_CardinalityType
  <2> QED
    BY <2>3, <2>4 DEF T
<1>3. 0 \in Q
  <2>1. S(0) = {}
    BY <1>1
  <2>2. Cardinality(S(0)) = 0
    BY <2>1, FS_EmptySet
  <2> HIDE DEF S
  <2> QED
    BY <1>1, <2>2
<1>4. ASSUME NEW m \in 1..d, m - 1 \in Q
      PROVE  m \in Q
  <2> DEFINE i == k + m
  <2>1. /\ m \in 0..d /\ m - 1 \in 0..d /\ i \in (k + 1)..n /\ i \in 1..n
        /\ i - 1 = k + (m - 1)
    BY <1>1
  <2>2. f[i] = f[i - 1] + (IF i \in P THEN 1 ELSE 0)
    BY <2>1
  <2>3. f[i - 1] = f[k] + Cardinality(S(m - 1))
    <3>1. f[k + (m - 1)] = f[k] + Cardinality(S(m - 1))
      BY <1>4
    <3> HIDE DEF S, i
    <3> QED
      BY <2>1, <3>1
  <2>4. IsFiniteSet(S(m - 1)) /\ Cardinality(S(m - 1)) \in Nat
    <3> HIDE DEF S, i, Q
    <3> QED
      BY <1>2, <2>1
  <2>5. i \notin S(m - 1)
    BY <1>1
  <2>6. Cardinality(S(m)) = Cardinality(S(m - 1)) + (IF i \in P THEN 1 ELSE 0)
    <3>1. CASE i \in P
      <4>1. S(m) = S(m - 1) \cup {i}
        BY <1>1, <2>1, <3>1
      <4> HIDE DEF S, i, Q
      <4>2. Cardinality(S(m - 1) \cup {i}) = Cardinality(S(m - 1)) + 1
        BY <2>4, <2>5, FS_AddElement
      <4> QED
        BY <3>1, <4>1, <4>2
    <3>2. CASE i \notin P
      <4>1. S(m) = S(m - 1)
        BY <1>1, <2>1, <3>2
      <4> HIDE DEF S, i, Q
      <4> QED
        BY <2>4, <3>2, <4>1
    <3> QED
      BY <3>1, <3>2
  <2> HIDE DEF S
  <2>7. f[i] = f[k] + Cardinality(S(m))
    <3> HIDE DEF i, Q
    <3> QED
      BY <2>2, <2>3, <2>4, <2>6
  <2> QED
    BY <2>1, <2>7
<1>5. \A m \in 0..d : m \in Q
  <2> HIDE DEF Q, d
  <2> QED
    BY <1>1, <1>3, <1>4, StepByStep
<1>6. f[k + d] = f[k] + Cardinality(S(d))
  <2>1. d \in Q
    <3> HIDE DEF Q, d
    <3> QED
      BY <1>1, <1>5
  <2> HIDE DEF S
  <2> QED
    BY <2>1
<1>7. S(d) = {j \in 1..n : j > k /\ j \in P}
  BY <1>1
<1> HIDE DEF S, Q, d
<1> QED
  BY <1>1, <1>6, <1>7

Numbers(stack, base, l) ==
    LET count(k, S) == Cardinality({j \in 1..Len(stack) : j > k /\ j \in S})
        functions == {i \in 1..Len(stack) : IsFunction(stack[i])}
    IN  /\ l.functions = base.functions + count(0, functions)
        /\ l.slots = base.slots
                     + count(0, {i \in 1..Len(stack) : IsSlot(stack[i])})
        /\ l.texts = base.texts
                     + count(0, {i \in 1..Len(stack) : HasText(stack[i])})
        /\ l.dots = base.dots
                    + count(0, {i \in 1..Len(stack) : IsDot(stack[i])})
        /\ \A k \in functions \cup {0} : (\A j \in functions : j <= k) =>
              l.loops = count(k, {i \in 1..Len(stack) : IsLoop(stack[i])})
                        + (IF k = 0 THEN base.loops ELSE 0)

LEMMA LevelsAreTasks ==
    ASSUME NEW stack, NEW base, NEW l, Standing(stack, base, l)
    PROVE  Numbers(stack, base, l)
<1> DEFINE n == Len(stack)
           functions == {i \in 1..n : IsFunction(stack[i])}
           slots == {i \in 1..n : IsSlot(stack[i])}
           texts == {i \in 1..n : HasText(stack[i])}
           dots == {i \in 1..n : IsDot(stack[i])}
           loops == {i \in 1..n : IsLoop(stack[i])}
           count(k, S) == Cardinality({j \in 1..n : j > k /\ j \in S})
<1>1. PICK h : Climbs(h, stack, base) /\ h[n] = l
  BY DEF Standing
<1>2. n \in Nat /\ l \in Levels /\ base \in Levels
  BY SeqLen DEF Standing
<1> HIDE DEF n
<1>3. \A i \in 1..n : h[i] = Over(h[i - 1], stack[i]) /\ h[i - 1] \in Levels
  BY <1>1 DEF Climbs, n
<1>4. h[0] = base
  BY <1>1 DEF Climbs
<1>5. \A i \in 0..n : h[i] \in Levels
  <2> SUFFICES ASSUME NEW i \in 0..n PROVE h[i] \in Levels
    OBVIOUS
  <2>1. i = n \/ (i + 1 \in 1..n /\ (i + 1) - 1 = i)
    BY <1>2
  <2> QED
    BY <1>1, <1>2, <1>3, <2>1
<1> DEFINE ff == [i \in 0..n |-> h[i].functions]
           fs == [i \in 0..n |-> h[i].slots]
           ft == [i \in 0..n |-> h[i].texts]
           fd == [i \in 0..n |-> h[i].dots]
           fl == [i \in 0..n |-> h[i].loops]
<1>6. \A i \in 0..n : /\ ff[i] = h[i].functions /\ fs[i] = h[i].slots
                      /\ ft[i] = h[i].texts /\ fd[i] = h[i].dots
                      /\ fl[i] = h[i].loops
  OBVIOUS
<1> HIDE DEF ff, fs, ft, fd, fl
<1>7. ASSUME NEW i \in 1..n
      PROVE  /\ ff[i] = ff[i - 1] + (IF i \in functions THEN 1 ELSE 0)
             /\ fs[i] = fs[i - 1] + (IF i \in slots THEN 1 ELSE 0)
             /\ ft[i] = ft[i - 1] + (IF i \in texts THEN 1 ELSE 0)
             /\ fd[i] = fd[i - 1] + (IF i \in dots THEN 1 ELSE 0)
             /\ fl[i] = IF i \in functions THEN 0
                        ELSE fl[i - 1] + (IF i \in loops THEN 1 ELSE 0)
  <2>1. i \in 0..n /\ i - 1 \in 0..n
    BY <1>2
  <2>2. /\ i \in functions <=> IsFunction(stack[i])
        /\ i \in slots <=> IsSlot(stack[i])
        /\ i \in texts <=> HasText(stack[i])
        /\ i \in dots <=> IsDot(stack[i])
        /\ i \in loops <=> IsLoop(stack[i])
    OBVIOUS
  <2> HIDE DEF functions, slots, texts, dots, loops
  <2>3. h[i] = Over(h[i - 1], stack[i])
    BY <1>3
  <2>4. /\ h[i].functions = h[i - 1].functions + (IF i \in functions THEN 1 ELSE 0)
        /\ h[i].slots = h[i - 1].slots + (IF i \in slots THEN 1 ELSE 0)
        /\ h[i].texts = h[i - 1].texts + (IF i \in texts THEN 1 ELSE 0)
        /\ h[i].dots = h[i - 1].dots + (IF i \in dots THEN 1 ELSE 0)
        /\ h[i].loops = IF i \in functions THEN 0
                        ELSE h[i - 1].loops + (IF i \in loops THEN 1 ELSE 0)
    BY <2>2, <2>3 DEF Over
  <2> QED
    BY <1>6, <2>1, <2>4
<1>8. /\ 0 \in 0..n /\ n \in 0..n /\ ff[0] = base.functions /\ fs[0] = base.slots
      /\ ft[0] = base.texts /\ fd[0] = base.dots /\ fl[0] = base.loops
      /\ ff[n] = l.functions /\ fs[n] = l.slots
      /\ ft[n] = l.texts /\ fd[n] = l.dots /\ fl[n] = l.loops
  BY <1>1, <1>2, <1>4, <1>6 DEF n
<1>9. /\ ff[0] \in Nat /\ fs[0] \in Nat /\ ft[0] \in Nat /\ fd[0] \in Nat
      /\ fl[0] \in Nat
  BY <1>2, <1>8 DEF Levels
<1>10. \A f, P : \A k \in 0..n :
           f[k] \in Nat /\ (\A i \in (k + 1)..n : f[i] = f[i - 1]
                                     + (IF i \in P THEN 1 ELSE 0))
           => f[n] = f[k] + count(k, P)
  BY <1>2, CountedSteps
<1>11. \A f, P : f[0] \in Nat /\ (\A i \in 1..n : f[i] = f[i - 1]
                                     + (IF i \in P THEN 1 ELSE 0))
                   => f[n] = f[0] + count(0, P)
  <2> HIDE DEF functions, slots, texts, dots, loops
  <2> SUFFICES ASSUME NEW f, NEW P, f[0] \in Nat,
                      \A i \in 1..n : f[i] = f[i - 1] + (IF i \in P THEN 1 ELSE 0)
               PROVE  f[n] = f[0] + count(0, P)
    OBVIOUS
  <2>1. \A i \in (0 + 1)..n : f[i] = f[i - 1] + (IF i \in P THEN 1 ELSE 0)
    OBVIOUS
  <2> HIDE DEF count
  <2>2. \A k \in 0..n :
           f[k] \in Nat /\ (\A i \in (k + 1)..n : f[i] = f[i - 1]
                                     + (IF i \in P THEN 1 ELSE 0))
           => f[n] = f[k] + count(k, P)
    BY <1>10, Zenon
  <2> QED
    BY <1>8, <2>1, <2>2
<1>12. ASSUME NEW k \in functions \cup {0}, \A j \in functions : j <= k
       PROVE  l.loops = count(k, loops) + (IF k = 0 THEN base.loops ELSE 0)
  <2>1. k \in 0..n /\ k \in Nat
    BY <1>2
  <2>2. fl[k] = IF k = 0 THEN base.loops ELSE 0
    BY <1>7, <1>8
  <2>3. fl[k] \in Nat
    BY <1>8, <1>9, <2>2
  <2>4. \A i \in (k + 1)..n : fl[i] = fl[i - 1] + (IF i \in loops THEN 1 ELSE 0)
    <3> SUFFICES ASSUME NEW i \in (k + 1)..n
                 PROVE  fl[i] = fl[i - 1] + (IF i \in loops THEN 1 ELSE 0)
      OBVIOUS
    <3>1. i \in 1..n /\ i > k
      BY <1>2, <2>1
    <3>2. i \notin functions
      <4>1. functions \subseteq Nat
        OBVIOUS
      <4> HIDE DEF functions
      <4> QED
        BY <1>12, <2>1, <3>1, <4>1
    <3> HIDE DEF functions, loops
    <3> QED
      BY <1>7, <3>1, <3>2
  <2> HIDE DEF functions, loops
  <2>5. fl[n] = fl[k] + count(k, loops)
    <3> HIDE DEF count
    <3> QED
      BY <1>10, <2>1, <2>3, <2>4
  <2>6. count(k, loops) \in Nat
    <3> DEFINE S == {j \in 1..n : j > k /\ j \in loops}
    <3>0. S \subseteq 1..n
      OBVIOUS
    <3> HIDE DEF S
    <3>1. S \subseteq 1..n /\ IsFiniteSet(1..n)
      BY <1>2, <3>0, FS_Interval
    <3>2. Cardinality(S) \in Nat
      BY <3>1, FS_Subset, FS_CardinalityType
    <3> QED
      BY <3>2 DEF S
  <2> HIDE DEF count
  <2> QED
    BY <1>8, <2>2, <2>3, <2>5, <2>6
<1> HIDE DEF functions, slots, texts, dots, loops, count
<1>13. /\ l.functions = base.functions + count(0, functions)
       /\ l.slots = base.slots + count(0, slots)
       /\ l.texts = base.texts + count(0, texts)
       /\ l.dots = base.dots + count(0, dots)
  BY <1>7, <1>8, <1>9, <1>11
<1> QED
  BY <1>12, <1>13 DEF Numbers, functions, slots, texts, dots, loops, count, n

(* Whatever the commands are, however they are nested and however control  *)
(* leaves them, the evaluator never loses or keeps a depth: each of its    *)
(* counters is the number of frames of that kind on the stack              *)
(* (gsh.c:18184-18268, 19558-19782, 20281-20461).                          *)
THEOREM FramesAreBalanced == Spec => []Balanced
<1>1. Init => BalanceInv
  BY BalanceInit
<1>2. BalanceInv /\ [Next]_vars => BalanceInv'
  BY BalanceStep
<1>3. BalanceInv => Balanced
  <2> SUFFICES ASSUME BalanceInv, run.live PROVE Balanced
    BY DEF Balanced
  <2> DEFINE n == Len(run.stack)
             functions == {i \in DOMAIN run.stack : IsFunction(run.stack[i])}
             inner == CHOOSE i \in functions \cup {0} : \A j \in functions : j <= i
  <2>1. /\ Standing(run.stack, run.base, Held(run.ev)) /\ Few(run)
        /\ Held(run.ev) \in Levels
    BY DEF BalanceInv, Sane, Stuck, Rules, Counted
  <2>2. n \in Nat /\ DOMAIN run.stack = 1..n
    BY <2>1, SeqLen DEF Standing
  <2>3. inner \in functions \cup {0} /\ \A j \in functions : j <= inner
    <3> DEFINE S == functions \cup {0}
               f == [i \in S |-> i]
    <3>1. \A i \in S : f[i] \in 0..n /\ f[i] = i
      BY <2>2
    <3> HIDE DEF f
    <3>2. S # {}
      OBVIOUS
    <3>3. \E i \in S : \A j \in S : f[j] <= f[i]
      <4> HIDE DEF S, n
      <4> QED
        BY <2>2, <3>1, <3>2, GreatestKey
    <3>4. \E i \in S : \A j \in functions : j <= i
      BY <3>1, <3>3
    <3> QED
      BY <3>4
  <2>4. Few(run) => run.ev.levels <= run.ev.loops \/ Doomed(run)
    BY DEF Few
  <2> DEFINE count(k, S) == Cardinality({j \in 1..n : j > k /\ j \in S})
             slots == {i \in 1..n : IsSlot(run.stack[i])}
             texts == {i \in 1..n : HasText(run.stack[i])}
             dots == {i \in 1..n : IsDot(run.stack[i])}
             loops == {i \in 1..n : IsLoop(run.stack[i])}
             calls == {i \in 1..n : IsFunction(run.stack[i])}
             l == Held(run.ev)
  <2>5. calls = functions
    BY <2>2
  <2>6. /\ l.functions = run.base.functions + count(0, calls)
        /\ l.slots = run.base.slots + count(0, slots)
        /\ l.texts = run.base.texts + count(0, texts)
        /\ l.dots = run.base.dots + count(0, dots)
        /\ \A k \in calls \cup {0} : (\A j \in calls : j <= k) =>
              l.loops = count(k, loops) + (IF k = 0 THEN run.base.loops ELSE 0)
    <3>1. Numbers(run.stack, run.base, l)
      BY <2>1, LevelsAreTasks
    <3> HIDE DEF l
    <3> QED
      BY <3>1 DEF Numbers
  <2>7. /\ TasksFrom(0, IsFunction) = count(0, calls)
        /\ TasksFrom(0, IsSlot) = count(0, slots)
        /\ TasksFrom(0, HasText) = count(0, texts)
        /\ TasksFrom(0, IsDot) = count(0, dots)
        /\ \A k : TasksFrom(k, IsLoop) = count(k, loops)
    <3>1. /\ \A k : {i \in DOMAIN run.stack : i > k /\ IsLoop(run.stack[i])}
                     = {j \in 1..n : j > k /\ j \in loops}
          /\ {i \in DOMAIN run.stack : i > 0 /\ IsFunction(run.stack[i])}
                     = {j \in 1..n : j > 0 /\ j \in calls}
          /\ {i \in DOMAIN run.stack : i > 0 /\ IsSlot(run.stack[i])}
                     = {j \in 1..n : j > 0 /\ j \in slots}
          /\ {i \in DOMAIN run.stack : i > 0 /\ HasText(run.stack[i])}
                     = {j \in 1..n : j > 0 /\ j \in texts}
          /\ {i \in DOMAIN run.stack : i > 0 /\ IsDot(run.stack[i])}
                     = {j \in 1..n : j > 0 /\ j \in dots}
      BY <2>2
    <3> QED
      BY <3>1 DEF TasksFrom
  <2>8. l.loops = TasksFrom(inner, IsLoop) + (IF inner = 0 THEN run.base.loops ELSE 0)
    <3> HIDE DEF inner, functions, calls, count, l
    <3> QED
      BY <2>3, <2>5, <2>6, <2>7
  <2>9. /\ l.functions = run.ev.functions /\ l.slots = run.ev.slots
        /\ l.texts = run.ev.texts /\ l.dots = run.ev.dots
        /\ l.loops = run.ev.loops
    BY DEF Held
  <2>10. /\ run.ev.functions = run.base.functions + TasksFrom(0, IsFunction)
         /\ run.ev.slots = run.base.slots + TasksFrom(0, IsSlot)
         /\ run.ev.texts = run.base.texts + TasksFrom(0, HasText)
         /\ run.ev.dots = run.base.dots + TasksFrom(0, IsDot)
         /\ run.ev.loops = TasksFrom(inner, IsLoop)
                           + (IF inner = 0 THEN run.base.loops ELSE 0)
         /\ run.ev.levels <= run.ev.loops \/ Doomed(run)
    <3> HIDE DEF inner, functions, calls, slots, texts, dots, count, l
    <3> QED
      BY <2>1, <2>4, <2>6, <2>7, <2>8, <2>9
  <2> QED
    BY <2>10 DEF Balanced
<1> QED
  BY <1>1, <1>2, <1>3, PTL DEF Spec

=============================================================================
