----------------------------- MODULE AsyncCells -----------------------------
(***************************************************************************)
(* The store of the managed REPL (src/async_repl.c): a fixed array of      *)
(* cells, one per command shown on the screen.  Every operation is an      *)
(* operator from a store to a store.  The four terminal states are one,    *)
(* "settled"; cells of the AI lane, text, viewport and sequence parsing    *)
(* are left out.                                                           *)
(***************************************************************************)
EXTENDS Integers, FiniteSets

CONSTANTS CellCap,    \* GSH_ASYNC_CELL_CAP
          JobCap,     \* GSH_ASYNC_JOB_CAP
          Pids,       \* process ids
          NoPid,      \* no process
          Commands    \* the commands that are submitted, by their class

ASSUME CellCapAssumption == CellCap \in Nat /\ CellCap >= 2
ASSUME JobCapAssumption  == JobCap \in Nat \ {0}
ASSUME PidAssumption     == NoPid \notin Pids

Hows == {"external", "evaluator", "builtin", "redirect", "list", "fg", "bg"}

Command == [control : BOOLEAN, barrier : BOOLEAN, blocks : BOOLEAN,
            dep : BOOLEAN, how : Hows]

(* The classes accept_managed_submission can give a command: a control is  *)
(* never a barrier, a dependent command always is one, only barriers block.*)
Classified(c) ==
    /\ c.control => ~c.barrier
    /\ c.dep /\ ~c.control => c.barrier
    /\ c.blocks => c.barrier

ASSUME CommandAssumption ==
           Commands \subseteq Command /\ \A c \in Commands : Classified(c)

Cells  == 0..(CellCap - 1)
NoCell == -1

States == {"free", "queued", "starting", "running", "stopped", "settled"}

(* What a cell that was never used, or is reset, holds as its command;     *)
(* also that of the notice a resource action leaves.                       *)
Notice == [control |-> TRUE, barrier |-> FALSE, blocks |-> FALSE,
           dep |-> FALSE, how |-> "builtin"]

(* pid: both pid and pgid; pty: pty_fd >= 0; closed: output_closed;        *)
(* wants: input_requested; shy: autofocus_suppressed.                      *)
Cell == [state : States, id : Nat, cmd : Commands \cup {Notice},
         pid : Pids \cup {NoPid}, pty : BOOLEAN, closed : BOOLEAN,
         focused : BOOLEAN, wants : BOOLEAN, shy : BOOLEAN]

FreeCell == [state |-> "free", id |-> 0, cmd |-> Notice, pid |-> NoPid,
             pty |-> FALSE, closed |-> FALSE, focused |-> FALSE,
             wants |-> FALSE, shy |-> FALSE]

Occupied(c)  == c.state # "free"
Settled(c)   == c.state = "settled"
Unsettled(c) == Occupied(c) /\ ~Settled(c)
HasJob(c)    == c.pid # NoPid

Oldest(cs, S) == CHOOSE i \in S : \A j \in S : cs[i].id <= cs[j].id
Newest(cs, S) == CHOOSE i \in S : \A j \in S : cs[j].id <= cs[i].id
Lowest(S)     == CHOOSE i \in S : \A j \in S : i <= j

(***************************************************************************)
(* Acceptance.  The last available cell is kept for a control.             *)
(***************************************************************************)
Unused(cs)    == {i \in Cells : ~Occupied(cs[i])}
Reusable(cs)  == {i \in Cells : Settled(cs[i]) /\ cs[i].closed}
Available(cs) == Unused(cs) \cup Reusable(cs)

(* Mutant: no cell is kept for a control. *)
HasAnyRoom(cs, control) == Available(cs) # {}

HasRoom(cs, control) ==
    Cardinality(Available(cs)) >= (IF control THEN 1 ELSE 2)

CellFor(cs) == IF Unused(cs) # {} THEN Lowest(Unused(cs))
                                  ELSE Oldest(cs, Reusable(cs))

Accept(cs, n, c) ==
    [cs EXCEPT ![CellFor(cs)] =
        [FreeCell EXCEPT !.state = "queued", !.id = n, !.cmd = c]]

(***************************************************************************)
(* Which queued cell starts next.                                          *)
(***************************************************************************)
Before(cs, i) == {j \in Cells : Occupied(cs[j]) /\ cs[j].id < cs[i].id}

DependencyReady(cs, i) ==
    \/ ~cs[i].cmd.dep
    \/ Before(cs, i) = {}
    \/ Settled(cs[Newest(cs, Before(cs, i))])

(* Mutant: a blocker keeps blocking after it has settled. *)
AnyBlocker(cs, i) == \E j \in Before(cs, i) : cs[j].cmd.blocks

EarlierBlocker(cs, i) ==
    \E j \in Before(cs, i) : cs[j].cmd.blocks /\ ~Settled(cs[j])

(* Mutant: only the immediate predecessor is looked at. *)
PredecessorUnsettled(cs, i) ==
    Before(cs, i) # {} /\ ~Settled(cs[Newest(cs, Before(cs, i))])

EarlierUnsettled(cs, i) == \E j \in Before(cs, i) : ~Settled(cs[j])

JobCount(cs) == Cardinality({i \in Cells : HasJob(cs[i]) /\ ~Settled(cs[i])})

MayStart(cs, laneBusy, i) ==
    /\ cs[i].state = "queued"
    /\ \/ cs[i].cmd.control
       \/ /\ JobCount(cs) < JobCap
          /\ DependencyReady(cs, i)
          /\ ~EarlierBlocker(cs, i)
          /\ cs[i].cmd.barrier => ~laneBusy /\ ~EarlierUnsettled(cs, i)

Dispatchable(cs, laneBusy) == {i \in Cells : MayStart(cs, laneBusy, i)}

(***************************************************************************)
(* The life of a cell.                                                     *)
(***************************************************************************)
Starting(cs, i) == [cs EXCEPT ![i].state = "starting"]

Attach(cs, i, p) ==
    [cs EXCEPT ![i] = [@ EXCEPT !.state = "running", !.pid = p, !.pty = TRUE]]

Finish(cs, i) ==
    IF Unsettled(cs[i])
    THEN [cs EXCEPT ![i] =
             [@ EXCEPT !.state = "settled", !.closed = ~cs[i].pty]]
    ELSE cs

CellOf(cs, p) == CHOOSE i \in Cells : Occupied(cs[i]) /\ cs[i].pid = p

ReapCell(cs, p) ==
    LET i == CellOf(cs, p)
    IN  [cs EXCEPT ![i] =
            [@ EXCEPT !.state = "settled", !.pid = NoPid,
                      !.closed = ~cs[i].pty,
                      !.focused = FALSE, !.wants = FALSE]]

CloseOutput(cs, i) ==
    [cs EXCEPT ![i] = [@ EXCEPT !.pty = FALSE, !.closed = TRUE,
                                !.focused = FALSE, !.wants = FALSE]]

MarkStopped(cs, i) ==
    [cs EXCEPT ![i] = [@ EXCEPT !.state = "stopped", !.focused = FALSE,
                                !.wants = FALSE, !.shy = TRUE]]

MarkRunning(cs, i) == [cs EXCEPT ![i].state = "running"]

(***************************************************************************)
(* Keyboard focus.  The first cell that runs with the flag has the keys.   *)
(***************************************************************************)
Focusable(cs) ==
    {i \in Cells : cs[i].state = "running" /\ HasJob(cs[i]) /\ cs[i].focused}

EditorHasKeys(cs) == Focusable(cs) = {}
FocusedJob(cs)    == Lowest(Focusable(cs))

Unfocus(cs) ==
    IF EditorHasKeys(cs) THEN cs
    ELSE [cs EXCEPT ![FocusedJob(cs)] =
             [@ EXCEPT !.focused = FALSE, !.wants = FALSE, !.shy = TRUE]]

CanFocus(cs, i) == HasJob(cs[i]) /\ ~Settled(cs[i])

Focus(cs, i) ==
    [Unfocus(cs) EXCEPT ![i] =
        [@ EXCEPT !.focused = TRUE, !.wants = TRUE, !.shy = FALSE]]

Asking(cs) ==
    {i \in Cells : cs[i].wants /\ cs[i].state = "running" /\ HasJob(cs[i])}

Autofocus(cs) ==
    IF EditorHasKeys(cs) /\ Asking(cs) # {}
    THEN Focus(cs, Oldest(cs, Asking(cs)))
    ELSE cs

RequestInput(cs, i) ==
    IF cs[i].state = "running" /\ HasJob(cs[i]) /\ ~cs[i].shy
    THEN [cs EXCEPT ![i].wants = TRUE]
    ELSE cs
=============================================================================
