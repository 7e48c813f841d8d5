------------------------------ MODULE TrapState ------------------------------
(***************************************************************************)
(* The trap store of src/shell_traps.c and the two flags its handler sets. *)
(* Condition 0 is EXIT, the others are signals.  Action texts are left     *)
(* out: the store keeps them in one arena, here a condition has an action  *)
(* or none.  The evaluator and the handler are one thread, so a store      *)
(* operation that blocks the signals it reads is one step.                 *)
(***************************************************************************)
EXTENDS Naturals, FiniteSets

CONSTANT Conditions   \* 0 .. the last signal that has a name

ASSUME ConditionsAssumption ==
    /\ Conditions \subseteq Nat
    /\ IsFiniteSet(Conditions)
    /\ 0 \in Conditions

States == {"DEFAULT", "IGNORE", "ACTION", "INHERITED_IGNORE"}

Entries == [Conditions -> States]

NoSnapshot == <<>>

TrapStore ==
    [entries : Entries,
     count   : Nat,                              \* action_count
     snapshot : Entries \cup {NoSnapshot},          \* snapshot_entries, if valid
     pending : SUBSET Conditions,                \* pending[]
     any     : BOOLEAN]                          \* any_pending

NewStore(ignored) ==
    [entries |-> [c \in Conditions |-> IF c \in ignored
                                       THEN "INHERITED_IGNORE" ELSE "DEFAULT"],
     count |-> 0, snapshot |-> NoSnapshot, pending |-> {}, any |-> FALSE]

HasAction(t, c) == t.entries[c] = "ACTION"

(* The handler is installed only while the condition has an action. *)
Arrive(t, c) ==
    [t EXCEPT !.pending = @ \cup {c}, !.any = TRUE]

DiscardSnapshot(t) ==
    IF t.count # 0 THEN t ELSE [t EXCEPT !.snapshot = NoSnapshot]

(* Mutant: an action that is replaced is counted twice. *)
CommitEntryTwice(t, c, s) ==
    [t EXCEPT !.entries[c] = s, !.count = @ + (IF s = "ACTION" THEN 1 ELSE 0)]

CommitEntry(t, c, s) ==
    [t EXCEPT !.entries[c] = s,
              !.count = @ - (IF HasAction(t, c) THEN 1 ELSE 0)
                          + (IF s = "ACTION" THEN 1 ELSE 0)]

(* What the operand of the builtin asks for: `-', an empty text, a text. *)
AskedState(action) ==
    CASE action = "reset" -> "DEFAULT"
      [] action = "empty" -> "IGNORE"
      [] OTHER            -> "ACTION"

Configure(t, c, action) ==
    LET d == DiscardSnapshot(t)
    IN IF d.entries[c] = "INHERITED_IGNORE" THEN d
       ELSE CommitEntry([d EXCEPT !.pending = @ \ {c}], c, AskedState(action))

EnterSubshell(t) ==
    [t EXCEPT !.snapshot = t.entries,
              !.entries = [c \in Conditions |->
                             IF HasAction(t, c) THEN "DEFAULT" ELSE t.entries[c]],
              !.count = 0, !.pending = {}, !.any = FALSE]

QueryState(t, c) ==
    IF t.snapshot = NoSnapshot THEN t.entries[c] ELSE t.snapshot[c]

Caught(t) == {c \in t.pending : c # 0 /\ HasAction(t, c)}

HavePending(t) == t.count # 0 /\ t.any

TakenCondition(t) == CHOOSE c \in Caught(t) : \A d \in Caught(t) : c <= d

(* The store after gsh_traps_take_pending, whether it found one or not. *)
AfterTake(t) ==
    IF Caught(t) = {} THEN [t EXCEPT !.any = FALSE]
    ELSE [t EXCEPT !.pending = @ \ {TakenCondition(t)},
                   !.any = Caught(t) # {TakenCondition(t)}]

(***************************************************************************)
(* What the store promises whatever the order of operations and signals:   *)
(* a signal that has an action and was reported is found by the next       *)
(* boundary, nothing without an action is, and the entry snapshot of a     *)
(* subshell is only ever read before its first own action.                 *)
(***************************************************************************)
StoreOK(t) ==
    /\ t.count = Cardinality({c \in Conditions : HasAction(t, c)})
    /\ Caught(t) # {} => HavePending(t)
    /\ t.snapshot # NoSnapshot => t.count = 0
=============================================================================
