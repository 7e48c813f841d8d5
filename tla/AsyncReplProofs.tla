--------------------------- MODULE AsyncReplProofs ---------------------------
(***************************************************************************)
(* Theorems about the managed REPL for every value of its constants: what  *)
(* the operations on its store keep, and what the reactor that drives them *)
(* guarantees.                                                             *)
(***************************************************************************)
EXTENDS AsyncRepl, NaturalMinimum

(***************************************************************************)
(* The store.                                                              *)
(***************************************************************************)
(* The shape of a cell: it has a job while it runs or is stopped, output   *)
(* only from then on, and once it is settled its output is closed as soon  *)
(* as the PTY is.                                                          *)
CellOK(c) ==
    /\ c \in Cell
    /\ HasJob(c) <=> c.state \in {"running", "stopped"}
    /\ c.pty \/ c.closed => c.state \in {"running", "stopped", "settled"}
    /\ c.closed => ~c.pty
    /\ Settled(c) /\ ~c.pty => c.closed

StoreOK(cs) ==
    /\ cs \in [Cells -> Cell]
    /\ \A i \in Cells : CellOK(cs[i])

(* The same command, with the same process and as far as it was.           *)
SameCommand(c, d) ==
    /\ d.id = c.id
    /\ d.cmd = c.cmd
    /\ d.pid = c.pid
    /\ Occupied(d) <=> Occupied(c)
    /\ Settled(d) <=> Settled(c)
    /\ d.state = "queued" <=> c.state = "queued"
    /\ d.state = "starting" <=> c.state = "starting"
    /\ c.closed => d.closed
    /\ d.pty => c.pty

(* No command of the store has moved on.                                   *)
Undisturbed(cs, ds) ==
    /\ StoreOK(ds)
    /\ \A i \in Cells : SameCommand(cs[i], ds[i])

LEMMA UndisturbedReflexive ==
    ASSUME NEW cs, StoreOK(cs)
    PROVE  Undisturbed(cs, cs)
BY DEF Undisturbed, SameCommand

LEMMA UndisturbedTransitive ==
    ASSUME NEW cs, NEW ds, NEW es, Undisturbed(cs, ds), Undisturbed(ds, es)
    PROVE  Undisturbed(cs, es)
BY DEF Undisturbed, SameCommand

(* One cell is replaced.                                                   *)
LEMMA ReplaceSame ==
    ASSUME NEW cs, StoreOK(cs), NEW i \in Cells, NEW d, CellOK(d),
           SameCommand(cs[i], d), NEW ds, ds = [cs EXCEPT ![i] = d]
    PROVE  Undisturbed(cs, ds)
<1>1. StoreOK(ds) /\ ds[i] = d /\ \A j \in Cells \ {i} : ds[j] = cs[j]
  BY DEF StoreOK, CellOK
<1>2. \A j \in Cells : SameCommand(cs[j], ds[j])
  BY <1>1 DEF SameCommand
<1> QED
  BY <1>1, <1>2 DEF Undisturbed

(***************************************************************************)
(* The choices among cells.                                                *)
(***************************************************************************)
LEMMA CellsAreNatural == Cells \subseteq Nat
BY CellCapAssumption DEF Cells

LEMMA LowestMember ==
    ASSUME NEW S \in SUBSET Cells, S # {}
    PROVE  Lowest(S) \in S
<1>1. \E i \in S : \A j \in S : i <= j
  BY CellsAreNatural, LeastNatural
<1> QED
  BY <1>1 DEF Lowest

LEMMA OldestMember ==
    ASSUME NEW cs, StoreOK(cs), NEW S \in SUBSET Cells, S # {}
    PROVE  Oldest(cs, S) \in S
<1> DEFINE f == [i \in S |-> cs[i].id]
<1>1. \A i \in S : f[i] \in Nat /\ f[i] = cs[i].id
  BY DEF StoreOK, Cell
<1> HIDE DEF f
<1>2. \E i \in S : \A j \in S : f[i] <= f[j]
  BY <1>1, LeastKey
<1>3. \E i \in S : \A j \in S : cs[i].id <= cs[j].id
  BY <1>1, <1>2
<1> QED
  BY <1>3 DEF Oldest

(* A cell that is taken for a new command is free, or its command is done. *)
LEMMA CellForMember ==
    ASSUME NEW cs, StoreOK(cs), Available(cs) # {}
    PROVE  CellFor(cs) \in Available(cs)
<1>1. CASE Unused(cs) # {}
  <2>1. Unused(cs) \in SUBSET Cells
    BY DEF Unused
  <2> QED
    BY <1>1, <2>1, LowestMember DEF CellFor, Available
<1>2. CASE Unused(cs) = {}
  <2>1. Reusable(cs) \in SUBSET Cells /\ Reusable(cs) # {}
    BY <1>2 DEF Reusable, Available
  <2> QED
    BY <1>2, <2>1, OldestMember DEF CellFor, Available
<1> QED
  BY <1>1, <1>2

LEMMA AvailableFinite ==
    ASSUME NEW cs
    PROVE  /\ Available(cs) \subseteq Cells
           /\ IsFiniteSet(Available(cs))
           /\ Cardinality(Available(cs)) \in Nat
<1>1. Available(cs) \subseteq Cells
  BY DEF Available, Unused, Reusable
<1>2. IsFiniteSet(Cells)
  BY FS_Interval, CellCapAssumption DEF Cells
<1> QED
  BY <1>1, <1>2, FS_Subset, FS_CardinalityType

LEMMA RoomForControl ==
    ASSUME NEW cs
    PROVE  HasRoom(cs, TRUE) <=> Available(cs) # {}
BY AvailableFinite, FS_EmptySet DEF HasRoom

LEMMA RoomLeavesRoom ==
    ASSUME NEW cs, HasRoom(cs, FALSE), NEW i
    PROVE  Available(cs) \ {i} # {}
<1>1. Cardinality(Available(cs)) >= 2
  BY DEF HasRoom
<1>2. ASSUME Available(cs) \subseteq {i}
      PROVE  Cardinality(Available(cs)) <= 1
  <2>1. IsFiniteSet({i}) /\ Cardinality({i}) = 1
    BY FS_Singleton
  <2>2. Cardinality(Available(cs)) <= Cardinality({i})
    BY <1>2, <2>1, FS_Subset
  <2> QED
    BY <2>1, <2>2
<1> QED
  BY <1>1, <1>2, AvailableFinite

LEMMA RoomIsAvailable ==
    ASSUME NEW cs, NEW b \in BOOLEAN, HasRoom(cs, b)
    PROVE  Available(cs) # {}
<1>1. Cardinality(Available(cs)) >= 1
  BY AvailableFinite DEF HasRoom
<1> QED
  BY <1>1, FS_EmptySet
(***************************************************************************)
(* The operations that move no command on.                                 *)
(***************************************************************************)
LEMMA FocusableCells ==
    ASSUME NEW cs, ~EditorHasKeys(cs)
    PROVE  /\ FocusedJob(cs) \in Cells
           /\ cs[FocusedJob(cs)].state = "running"
           /\ HasJob(cs[FocusedJob(cs)])
<1>1. Focusable(cs) \in SUBSET Cells /\ Focusable(cs) # {}
  BY DEF Focusable, EditorHasKeys
<1>2. FocusedJob(cs) \in Focusable(cs)
  BY <1>1, LowestMember DEF FocusedJob
<1> QED
  BY <1>2 DEF Focusable

LEMMA UnfocusQuiet ==
    ASSUME NEW cs, StoreOK(cs)
    PROVE  Undisturbed(cs, Unfocus(cs))
<1>1. CASE EditorHasKeys(cs)
  BY <1>1, UndisturbedReflexive DEF Unfocus
<1>2. CASE ~EditorHasKeys(cs)
  <2> DEFINE k == FocusedJob(cs)
             d == [cs[k] EXCEPT !.focused = FALSE, !.wants = FALSE, !.shy = TRUE]
  <2>1. k \in Cells
    BY <1>2, FocusableCells
  <2>2. CellOK(cs[k])
    BY <2>1 DEF StoreOK
  <2>3. Unfocus(cs) = [cs EXCEPT ![k] = d]
    BY <1>2, <2>1 DEF Unfocus, StoreOK
  <2> HIDE DEF k
  <2>4. CellOK(d) /\ SameCommand(cs[k], d)
    BY <2>2 DEF CellOK, Cell, SameCommand, Occupied, Settled, HasJob
  <2> HIDE DEF d
  <2> QED
    BY <2>1, <2>3, <2>4, ReplaceSame
<1> QED
  BY <1>1, <1>2

LEMMA FocusQuiet ==
    ASSUME NEW cs, StoreOK(cs), NEW i \in Cells
    PROVE  Undisturbed(cs, Focus(cs, i))
<1> DEFINE ds == Unfocus(cs)
           d  == [ds[i] EXCEPT !.focused = TRUE, !.wants = TRUE, !.shy = FALSE]
<1>1. Undisturbed(cs, ds)
  BY UnfocusQuiet
<1>2. StoreOK(ds) /\ CellOK(ds[i])
  BY <1>1 DEF Undisturbed, StoreOK
<1>3. Focus(cs, i) = [ds EXCEPT ![i] = d]
  BY <1>2 DEF Focus, StoreOK
<1> HIDE DEF ds
<1>4. CellOK(d) /\ SameCommand(ds[i], d)
  BY <1>2 DEF CellOK, Cell, SameCommand, Occupied, Settled, HasJob
<1> HIDE DEF d
<1>5. Undisturbed(ds, Focus(cs, i))
  BY <1>2, <1>3, <1>4, ReplaceSame
<1> QED
  BY <1>1, <1>5, UndisturbedTransitive

LEMMA AutofocusQuiet ==
    ASSUME NEW cs, StoreOK(cs)
    PROVE  Undisturbed(cs, Autofocus(cs))
<1>1. CASE EditorHasKeys(cs) /\ Asking(cs) # {}
  <2>1. Asking(cs) \in SUBSET Cells
    BY DEF Asking
  <2>2. Oldest(cs, Asking(cs)) \in Cells
    BY <1>1, <2>1, OldestMember
  <2> QED
    BY <1>1, <2>2, FocusQuiet DEF Autofocus
<1>2. CASE ~(EditorHasKeys(cs) /\ Asking(cs) # {})
  BY <1>2, UndisturbedReflexive DEF Autofocus
<1> QED
  BY <1>1, <1>2

LEMMA RequestInputQuiet ==
    ASSUME NEW cs, StoreOK(cs), NEW i \in Cells
    PROVE  Undisturbed(cs, RequestInput(cs, i))
<1> DEFINE d == [cs[i] EXCEPT !.wants = TRUE]
<1>1. CellOK(cs[i])
  BY DEF StoreOK
<1>2. CellOK(d) /\ SameCommand(cs[i], d)
  BY <1>1 DEF CellOK, Cell, SameCommand, Occupied, Settled, HasJob
<1>3. RequestInput(cs, i) = [cs EXCEPT ![i] = d] \/ RequestInput(cs, i) = cs
  BY DEF RequestInput, StoreOK
<1> HIDE DEF d
<1> QED
  BY <1>2, <1>3, ReplaceSame, UndisturbedReflexive

(* The state of a job: it has a process before and after.                  *)
LEMMA MarkStoppedQuiet ==
    ASSUME NEW cs, StoreOK(cs), NEW i \in Cells, HasJob(cs[i])
    PROVE  Undisturbed(cs, MarkStopped(cs, i))
<1> DEFINE d == [cs[i] EXCEPT !.state = "stopped", !.focused = FALSE,
                              !.wants = FALSE, !.shy = TRUE]
<1>1. CellOK(cs[i])
  BY DEF StoreOK
<1>2. CellOK(d) /\ SameCommand(cs[i], d)
  BY <1>1 DEF CellOK, Cell, SameCommand, Occupied, Settled, HasJob, States
<1>3. MarkStopped(cs, i) = [cs EXCEPT ![i] = d]
  BY DEF MarkStopped, StoreOK
<1> HIDE DEF d
<1> QED
  BY <1>2, <1>3, ReplaceSame

LEMMA MarkRunningQuiet ==
    ASSUME NEW cs, StoreOK(cs), NEW i \in Cells, HasJob(cs[i])
    PROVE  Undisturbed(cs, MarkRunning(cs, i))
<1> DEFINE d == [cs[i] EXCEPT !.state = "running"]
<1>1. CellOK(cs[i])
  BY DEF StoreOK
<1>2. CellOK(d) /\ SameCommand(cs[i], d)
  BY <1>1 DEF CellOK, Cell, SameCommand, Occupied, Settled, HasJob, States
<1>3. MarkRunning(cs, i) = [cs EXCEPT ![i] = d]
  BY DEF MarkRunning, StoreOK
<1> HIDE DEF d
<1> QED
  BY <1>2, <1>3, ReplaceSame

(* Its PTY is closed. *)
LEMMA CloseOutputQuiet ==
    ASSUME NEW cs, StoreOK(cs), NEW i \in Cells, cs[i].pty
    PROVE  Undisturbed(cs, CloseOutput(cs, i))
<1> DEFINE d == [cs[i] EXCEPT !.pty = FALSE, !.closed = TRUE,
                              !.focused = FALSE, !.wants = FALSE]
<1>1. CellOK(cs[i])
  BY DEF StoreOK
<1>2. CellOK(d) /\ SameCommand(cs[i], d)
  BY <1>1 DEF CellOK, Cell, SameCommand, Occupied, Settled, HasJob, States
<1>3. CloseOutput(cs, i) = [cs EXCEPT ![i] = d]
  BY DEF CloseOutput, StoreOK
<1> HIDE DEF d
<1> QED
  BY <1>2, <1>3, ReplaceSame

(***************************************************************************)
(* The operations that move one command on.                                *)
(***************************************************************************)
(* The same command, which no longer waits.                                *)
MovedOn(c, d) ==
    /\ d.id = c.id
    /\ d.cmd = c.cmd
    /\ Occupied(c)
    /\ Occupied(d)
    /\ d.state # "queued"

Moves(cs, ds, i) ==
    /\ StoreOK(ds)
    /\ \A j \in Cells \ {i} : SameCommand(cs[j], ds[j])
    /\ MovedOn(cs[i], ds[i])

LEMMA MovesTransitive ==
    ASSUME NEW cs, NEW ds, NEW es, NEW i, Moves(cs, ds, i), Moves(ds, es, i)
    PROVE  Moves(cs, es, i)
BY DEF Moves, MovedOn, SameCommand

LEMMA MovesQuietly ==
    ASSUME NEW cs, NEW ds, NEW es, NEW i \in Cells,
           Moves(cs, ds, i), Undisturbed(ds, es)
    PROVE  /\ Moves(cs, es, i)
           /\ SameCommand(ds[i], es[i])
BY DEF Moves, MovedOn, Undisturbed, SameCommand

LEMMA ReplaceMoves ==
    ASSUME NEW cs, StoreOK(cs), NEW i \in Cells, NEW d, CellOK(d),
           MovedOn(cs[i], d), NEW ds, ds = [cs EXCEPT ![i] = d]
    PROVE  Moves(cs, ds, i)
<1>1. StoreOK(ds) /\ ds[i] = d /\ \A j \in Cells \ {i} : ds[j] = cs[j]
  BY DEF StoreOK, CellOK
<1>2. \A j \in Cells \ {i} : SameCommand(cs[j], ds[j])
  BY <1>1 DEF SameCommand
<1> QED
  BY <1>1, <1>2 DEF Moves

LEMMA StartingMoves ==
    ASSUME NEW cs, StoreOK(cs), NEW i \in Cells, cs[i].state = "queued"
    PROVE  /\ Moves(cs, Starting(cs, i), i)
           /\ Starting(cs, i)[i].state = "starting"
           /\ Starting(cs, i)[i].pid = NoPid
           /\ ~HasJob(cs[i])
<1> DEFINE ds == Starting(cs, i)
           d  == [cs[i] EXCEPT !.state = "starting"]
<1>1. CellOK(cs[i])
  BY DEF StoreOK
<1>2. /\ CellOK(d) /\ MovedOn(cs[i], d)
      /\ d.state = "starting" /\ d.pid = NoPid /\ ~HasJob(cs[i])
  BY <1>1 DEF MovedOn, CellOK, Cell, Occupied, Settled, HasJob, States
<1>3. ds = [cs EXCEPT ![i] = d]
  BY DEF Starting, StoreOK
<1> HIDE DEF d, ds
<1>4. Moves(cs, ds, i)
  BY <1>2, <1>3, ReplaceMoves
<1>5. ds[i] = d
  BY <1>3 DEF StoreOK
<1> QED
  BY <1>2, <1>4, <1>5 DEF ds

LEMMA AttachMoves ==
    ASSUME NEW cs, StoreOK(cs), NEW i \in Cells, cs[i].state = "starting",
           NEW p \in Pids
    PROVE  /\ Moves(cs, Attach(cs, i, p), i)
           /\ Attach(cs, i, p)[i].state = "running"
           /\ Attach(cs, i, p)[i].pid = p
<1> DEFINE ds == Attach(cs, i, p)
           d  == [cs[i] EXCEPT !.state = "running", !.pid = p, !.pty = TRUE]
<1>1. CellOK(cs[i])
  BY DEF StoreOK
<1>2. MovedOn(cs[i], d) /\ d.state = "running" /\ d.pid = p
  BY <1>1 DEF MovedOn, CellOK, Cell, Occupied
<1>3. CellOK(d)
  <2>1. d \in Cell /\ d.closed = cs[i].closed /\ d.pty
    BY <1>1 DEF CellOK, Cell, States
  <2>2. ~cs[i].closed
    BY <1>1 DEF CellOK
  <2> QED
    BY <1>2, <2>1, <2>2, PidAssumption DEF CellOK, HasJob, Settled
<1>4. ds = [cs EXCEPT ![i] = d]
  BY DEF Attach, StoreOK
<1> HIDE DEF d, ds
<1>5. Moves(cs, ds, i)
  BY <1>2, <1>3, <1>4, ReplaceMoves
<1>6. ds[i] = d
  BY <1>4 DEF StoreOK
<1> QED
  BY <1>2, <1>5, <1>6 DEF ds

LEMMA FinishMoves ==
    ASSUME NEW cs, StoreOK(cs), NEW i \in Cells, cs[i].state = "starting"
    PROVE  /\ Moves(cs, Finish(cs, i), i)
           /\ Settled(Finish(cs, i)[i])
           /\ Finish(cs, i)[i].closed
           /\ Finish(cs, i)[i].pid = NoPid
           /\ cs[i].pid = NoPid
<1> DEFINE ds == Finish(cs, i)
           d  == [cs[i] EXCEPT !.state = "settled", !.closed = ~cs[i].pty]
<1>1. CellOK(cs[i])
  BY DEF StoreOK
<1>2. /\ CellOK(d) /\ MovedOn(cs[i], d) /\ Settled(d)
      /\ d.closed /\ d.pid = NoPid /\ cs[i].pid = NoPid
  BY <1>1 DEF MovedOn, CellOK, Cell, Occupied, Settled, HasJob, States
<1>3. ds = [cs EXCEPT ![i] = d]
  BY DEF Finish, StoreOK, Unsettled, Occupied, Settled
<1> HIDE DEF d, ds
<1>4. Moves(cs, ds, i)
  BY <1>2, <1>3, ReplaceMoves
<1>5. ds[i] = d
  BY <1>3 DEF StoreOK
<1> QED
  BY <1>2, <1>4, <1>5 DEF ds

LEMMA ReapCellMoves ==
    ASSUME NEW cs, StoreOK(cs), NEW p, NEW i \in Cells, i = CellOf(cs, p),
           HasJob(cs[i])
    PROVE  /\ Moves(cs, ReapCell(cs, p), i)
           /\ Settled(ReapCell(cs, p)[i])
           /\ ReapCell(cs, p)[i].pid = NoPid
<1> DEFINE ds == ReapCell(cs, p)
           d  == [cs[i] EXCEPT !.state = "settled", !.pid = NoPid,
                              !.closed = ~cs[i].pty,
                              !.focused = FALSE, !.wants = FALSE]
<1>1. CellOK(cs[i])
  BY DEF StoreOK
<1>2. MovedOn(cs[i], d) /\ Settled(d) /\ d.pid = NoPid
  BY <1>1 DEF MovedOn, CellOK, Cell, Occupied, Settled, HasJob
<1>3. CellOK(d)
  <2>1. d \in Cell /\ d.pty = cs[i].pty /\ d.closed = ~d.pty
    BY <1>1 DEF CellOK, Cell, States
  <2> QED
    BY <1>2, <2>1 DEF CellOK, HasJob, Settled
<1>4. ds = [cs EXCEPT ![i] = d]
  BY DEF ReapCell, StoreOK
<1> HIDE DEF d, ds
<1>5. Moves(cs, ds, i)
  BY <1>2, <1>3, <1>4, ReplaceMoves
<1>6. ds[i] = d
  BY <1>4 DEF StoreOK
<1> QED
  BY <1>2, <1>5, <1>6 DEF ds

(* A new command takes a cell nothing is left in.                          *)
LEMMA FreeCellOK == CellOK(FreeCell)
BY DEF CellOK, FreeCell, Cell, HasJob, Settled, States

LEMMA AcceptTakes ==
    ASSUME NEW cs, StoreOK(cs), Available(cs) # {}, NEW n \in Nat,
           NEW c \in Commands \cup {Notice},
           NEW i, i = CellFor(cs), NEW ds, ds = Accept(cs, n, c)
    PROVE  /\ i \in Cells
           /\ StoreOK(ds)
           /\ \A j \in Cells \ {i} : ds[j] = cs[j]
           /\ ~Unsettled(cs[i])
           /\ cs[i].pid = NoPid
           /\ ds[i].state = "queued"
           /\ ds[i].id = n
           /\ ds[i].cmd = c
           /\ ds[i].pid = NoPid
<1> DEFINE d == [FreeCell EXCEPT !.state = "queued", !.id = n, !.cmd = c]
<1>1. i \in Available(cs)
  BY CellForMember
<1>2. i \in Cells /\ ~Unsettled(cs[i])
  BY <1>1 DEF Available, Unused, Reusable, Unsettled
<1>3. CellOK(cs[i])
  BY <1>2 DEF StoreOK
<1>4. cs[i].pid = NoPid
  BY <1>2, <1>3 DEF CellOK, HasJob, Unsettled, Occupied, Settled, Cell
<1>5. CellOK(d) /\ d.state = "queued" /\ d.id = n /\ d.cmd = c /\ d.pid = NoPid
  BY DEF CellOK, FreeCell, Cell, HasJob, Settled, States
<1>6. ds = [cs EXCEPT ![i] = d]
  BY DEF Accept
<1> HIDE DEF d
<1>7. StoreOK(ds) /\ ds[i] = d /\ \A j \in Cells \ {i} : ds[j] = cs[j]
  BY <1>2, <1>5, <1>6 DEF StoreOK, CellOK
<1> QED
  BY <1>2, <1>4, <1>5, <1>7

(***************************************************************************)
(* The inductive invariant.                                                *)
(***************************************************************************)
ScalarsOK ==
    /\ nextId \in Nat \ {0}
    /\ mode \in Modes
    /\ stateCell \in Cells \cup {NoCell}
    /\ evaluator \in Pids \cup {NoPid}
    /\ registry \subseteq Pids
    /\ proc \in [Pids -> Lives]

(* Occupied cells have numbers that were given out, each one of its own.   *)
Numbered ==
    \A i \in Cells : Occupied(cells[i]) =>
        /\ cells[i].id \in 1..(nextId - 1)
        /\ \A j \in Cells :
               Occupied(cells[j]) /\ cells[j].id = cells[i].id => j = i

(* Children and the cells that name them, one for one.                     *)
Owned ==
    /\ \A p \in Pids : proc[p] # "free" => \E i \in Cells : cells[i].pid = p
    /\ \A i \in Cells : HasJob(cells[i]) =>
           /\ proc[cells[i].pid] # "free"
           /\ \A j \in Cells : cells[j].pid = cells[i].pid => j = i

(* The active evaluator is a child, and has the lane.                      *)
Lane == evaluator # NoPid => stateCell # NoCell /\ proc[evaluator] # "free"

ReplInv ==
    /\ ScalarsOK
    /\ StoreOK(cells)
    /\ Numbered
    /\ Owned
    /\ Lane

LEMMA InvImpliesType == ReplInv => TypeOK
BY DEF ReplInv, ScalarsOK, StoreOK, CellOK, TypeOK

LEMMA InvImpliesNoLostChild == ReplInv => NoLostChild
<1> SUFFICES ASSUME ReplInv PROVE NoLostChild
  OBVIOUS
<1>1. \A i \in Cells : HasJob(cells[i]) => proc[cells[i].pid] # "free"
  BY DEF ReplInv, Owned
<1>2. ASSUME NEW p \in Pids, proc[p] # "free"
      PROVE  \E i \in Cells : /\ cells[i].pid = p
                              /\ cells[i].state \in {"running", "stopped"}
                              /\ \A j \in Cells : cells[j].pid = p => j = i
  <2>1. PICK i \in Cells : cells[i].pid = p
    BY <1>2 DEF ReplInv, Owned
  <2>2. HasJob(cells[i])
    BY <2>1, PidAssumption DEF HasJob
  <2>3. cells[i].state \in {"running", "stopped"}
    BY <2>2 DEF ReplInv, StoreOK, CellOK
  <2> QED
    BY <2>1, <2>2, <2>3 DEF ReplInv, Owned
<1> QED
  BY <1>1, <1>2 DEF NoLostChild

LEMMA InitInv == Init => ReplInv
<1> SUFFICES ASSUME Init PROVE ReplInv
  OBVIOUS
<1>1. \A i \in Cells : cells[i] = FreeCell
  BY DEF Init
<1>2. StoreOK(cells)
  BY <1>1, FreeCellOK DEF Init, StoreOK, CellOK
<1>3. Numbered
  BY <1>1 DEF Numbered, Occupied, FreeCell
<1>4. Owned
  BY <1>1 DEF Init, Owned, HasJob, FreeCell
<1> QED
  BY <1>2, <1>3, <1>4 DEF Init, ReplInv, ScalarsOK, Modes, Lives, Lane

(***************************************************************************)
(* What keeps the parts of the invariant.                                  *)
(***************************************************************************)
LEMMA NumberedKept ==
    ASSUME Numbered, nextId' = nextId,
           \A i \in Cells : /\ cells'[i].id = cells[i].id
                            /\ Occupied(cells'[i]) <=> Occupied(cells[i])
    PROVE  Numbered'
BY DEF Numbered

LEMMA OwnedKept ==
    ASSUME Owned,
           \A i \in Cells : cells'[i].pid = cells[i].pid,
           \A p \in Pids : proc'[p] = "free" <=> proc[p] = "free",
           StoreOK(cells)
    PROVE  Owned'
<1>1. \A i \in Cells : HasJob(cells[i]) => cells[i].pid \in Pids
  BY DEF StoreOK, Cell, HasJob
<1> QED
  BY <1>1 DEF Owned, HasJob

LEMMA OwnedStart ==
    ASSUME Owned, StoreOK(cells), StoreOK(cells'), proc \in [Pids -> Lives],
           NEW i \in Cells, NEW p \in Pids, proc[p] = "free",
           cells[i].pid = NoPid, cells'[i].pid = p,
           \A j \in Cells \ {i} : cells'[j].pid = cells[j].pid,
           proc' = [proc EXCEPT ![p] = "running"]
    PROVE  Owned'
<1>1. \A j \in Cells : HasJob(cells[j]) => cells[j].pid \in Pids
  BY DEF StoreOK, Cell, HasJob
<1>2. \A j \in Cells : cells[j].pid # p
  BY PidAssumption DEF Owned, HasJob
<1>3. \A q \in Pids : proc'[q] # "free" <=> q = p \/ proc[q] # "free"
  OBVIOUS
<1>4. ASSUME NEW q \in Pids, proc'[q] # "free"
      PROVE  \E j \in Cells : cells'[j].pid = q
  <2>1. CASE q = p
    BY <2>1
  <2>2. CASE q # p
    <3>1. PICK j \in Cells : cells[j].pid = q
      BY <1>3, <1>4, <2>2 DEF Owned
    <3>2. j # i
      BY <3>1, PidAssumption
    <3> QED
      BY <3>1, <3>2
  <2> QED
    BY <2>1, <2>2
<1>5. ASSUME NEW k \in Cells, HasJob(cells'[k])
      PROVE  /\ proc'[cells'[k].pid] # "free"
             /\ \A j \in Cells : cells'[j].pid = cells'[k].pid => j = k
  <2>1. CASE k = i
    BY <2>1, <1>2, <1>3
  <2>2. CASE k # i
    <3>1. cells'[k].pid = cells[k].pid /\ HasJob(cells[k]) /\ cells[k].pid # p
      BY <2>2, <1>2, <1>5 DEF HasJob
    <3>2. /\ proc[cells[k].pid] # "free"
          /\ \A j \in Cells : cells[j].pid = cells[k].pid => j = k
      BY <3>1 DEF Owned
    <3> QED
      BY <1>1, <1>3, <3>1, <3>2
  <2> QED
    BY <2>1, <2>2
<1> QED
  BY <1>4, <1>5 DEF Owned

LEMMA OwnedEnd ==
    ASSUME Owned, StoreOK(cells), proc \in [Pids -> Lives],
           NEW i \in Cells, NEW p \in Pids,
           cells[i].pid = p, cells'[i].pid = NoPid,
           \A j \in Cells \ {i} : cells'[j].pid = cells[j].pid,
           proc' = [proc EXCEPT ![p] = "free"]
    PROVE  Owned'
<1>1. \A j \in Cells : HasJob(cells[j]) => cells[j].pid \in Pids
  BY DEF StoreOK, Cell, HasJob
<1>2. \A j \in Cells : cells[j].pid = p => j = i
  BY PidAssumption DEF Owned, HasJob
<1>3. \A q \in Pids : proc'[q] # "free" <=> q # p /\ proc[q] # "free"
  OBVIOUS
<1>4. ASSUME NEW q \in Pids, proc'[q] # "free"
      PROVE  \E j \in Cells : cells'[j].pid = q
  <2>1. q # p /\ proc[q] # "free"
    BY <1>3, <1>4
  <2>2. PICK j \in Cells : cells[j].pid = q
    BY <2>1 DEF Owned
  <2> QED
    BY <2>1, <2>2
<1>5. ASSUME NEW k \in Cells, HasJob(cells'[k])
      PROVE  /\ proc'[cells'[k].pid] # "free"
             /\ \A j \in Cells : cells'[j].pid = cells'[k].pid => j = k
  <2>1. k # i /\ cells'[k].pid = cells[k].pid /\ HasJob(cells[k])
    BY <1>5 DEF HasJob
  <2>2. /\ proc[cells[k].pid] # "free" /\ cells[k].pid # p
        /\ \A j \in Cells : cells[j].pid = cells[k].pid => j = k
    BY <2>1, <1>2 DEF Owned
  <2>3. \A j \in Cells : cells'[j].pid = cells'[k].pid => j = k
    BY <2>1, <2>2 DEF HasJob
  <2> QED
    BY <1>1, <1>3, <2>1, <2>2, <2>3
<1> QED
  BY <1>4, <1>5 DEF Owned
(* No command moves on, and no child comes or goes.                        *)
LEMMA QuietStep ==
    ASSUME ReplInv, ScalarsOK', Lane', Undisturbed(cells, cells'),
           nextId' = nextId,
           \A p \in Pids : proc'[p] = "free" <=> proc[p] = "free"
    PROVE  ReplInv'
<1>1. StoreOK(cells') /\ \A i \in Cells : SameCommand(cells[i], cells'[i])
  BY DEF Undisturbed
<1>2. Numbered'
  BY <1>1, NumberedKept DEF ReplInv, SameCommand
<1>3. Owned'
  BY <1>1, OwnedKept DEF ReplInv, SameCommand
<1> QED
  BY <1>1, <1>2, <1>3 DEF ReplInv

(* The lane when the evaluator and its cell stay.                          *)
LEMMA LaneKept ==
    ASSUME ReplInv, evaluator' = evaluator, stateCell' = stateCell,
           \A p \in Pids : proc'[p] = "free" <=> proc[p] = "free"
    PROVE  Lane'
BY DEF ReplInv, Lane, ScalarsOK

(***************************************************************************)
(* The children, the keyboard and the PTYs.                                *)
(***************************************************************************)
LEMMA ContinuedType ==
    ASSUME proc \in [Pids -> Lives], NEW p \in Pids
    PROVE  /\ Continued(p) \in [Pids -> Lives]
           /\ \A q \in Pids : Continued(p)[q] = "free" <=> proc[q] = "free"
BY DEF Continued, Stopped, Lives

LEMMA SuspendedType ==
    ASSUME proc \in [Pids -> Lives], NEW p \in Pids
    PROVE  /\ Suspended(p) \in [Pids -> Lives]
           /\ \A q \in Pids : Suspended(p)[q] = "free" <=> proc[q] = "free"
BY DEF Suspended, Lives

LEMMA ChildInv ==
    ASSUME ReplInv, NEW p \in Pids, ProcSignal(p) \/ ProcEnd(p)
    PROVE  ReplInv' /\ Undisturbed(cells, cells') /\ nextId' = nextId
<1>1. proc \in [Pids -> Lives]
  BY DEF ReplInv, ScalarsOK
<1>2. proc' \in [Pids -> Lives] /\ \A q \in Pids : proc'[q] = "free" <=> proc[q] = "free"
  <2>1. CASE ProcSignal(p)
    BY <1>1, <2>1, ContinuedType, SuspendedType DEF ProcSignal
  <2>2. CASE ProcEnd(p)
    BY <1>1, <2>2 DEF ProcEnd, Stopped, Lives
  <2> QED
    BY <2>1, <2>2
<1>3. UNCHANGED <<cells, nextId, mode, stateCell, evaluator, registry>>
  BY DEF ProcSignal, ProcEnd
<1>4. Undisturbed(cells, cells')
  BY <1>3, UndisturbedReflexive DEF ReplInv
<1>5. ScalarsOK'
  BY <1>2, <1>3 DEF ReplInv, ScalarsOK
<1>6. Lane'
  BY <1>2, <1>3, LaneKept
<1> QED
  BY <1>2, <1>3, <1>4, <1>5, <1>6, QuietStep

LEMMA KeyboardInv ==
    ASSUME ReplInv, LeaveJob \/ SuspendJob
    PROVE  ReplInv' /\ Undisturbed(cells, cells') /\ nextId' = nextId
<1>1. StoreOK(cells) /\ proc \in [Pids -> Lives]
  BY DEF ReplInv, ScalarsOK
<1>2. CASE LeaveJob
  <2>1. Undisturbed(cells, cells')
    BY <1>1, <1>2, UnfocusQuiet DEF LeaveJob
  <2>2. UNCHANGED <<nextId, mode, stateCell, evaluator, registry, proc>>
    BY <1>2 DEF LeaveJob
  <2>3. ScalarsOK' /\ Lane'
    BY <2>2 DEF ReplInv, ScalarsOK, Lane
  <2> QED
    BY <2>1, <2>2, <2>3, QuietStep
<1>3. CASE SuspendJob
  <2> DEFINE i == FocusedJob(cells)
  <2>1. i \in Cells /\ HasJob(cells[i])
    BY <1>3, FocusableCells DEF SuspendJob
  <2>2. cells[i].pid \in Pids
    BY <1>1, <2>1 DEF StoreOK, Cell, HasJob
  <2>3. /\ cells' = MarkStopped(cells, i)
        /\ registry' = registry \cup {cells[i].pid}
        /\ proc' = Suspended(cells[i].pid)
        /\ UNCHANGED <<nextId, mode, stateCell, evaluator>>
    BY <1>3 DEF SuspendJob
  <2> HIDE DEF i
  <2>4. Undisturbed(cells, cells')
    BY <1>1, <2>1, <2>3, MarkStoppedQuiet
  <2>5. proc' \in [Pids -> Lives] /\ \A q \in Pids : proc'[q] = "free" <=> proc[q] = "free"
    BY <1>1, <2>2, <2>3, SuspendedType
  <2>6. ScalarsOK'
    BY <2>2, <2>3, <2>5 DEF ReplInv, ScalarsOK
  <2>7. Lane'
    BY <2>3, <2>5, LaneKept
  <2> QED
    BY <2>3, <2>4, <2>5, <2>6, <2>7, QuietStep
<1> QED
  BY <1>2, <1>3

LEMMA PtyInv ==
    ASSUME ReplInv, NEW i \in Cells, PtyRequest(i) \/ PtyHangup(i)
    PROVE  ReplInv' /\ Undisturbed(cells, cells') /\ nextId' = nextId
<1>1. StoreOK(cells)
  BY DEF ReplInv
<1>2. UNCHANGED <<nextId, mode, stateCell, evaluator, registry, proc>>
  BY DEF PtyRequest, PtyHangup
<1>3. Undisturbed(cells, cells')
  <2>1. CASE PtyRequest(i)
    <3>1. Undisturbed(cells, RequestInput(cells, i))
      BY <1>1, RequestInputQuiet
    <3>2. Undisturbed(RequestInput(cells, i), Autofocus(RequestInput(cells, i)))
      BY <3>1, AutofocusQuiet DEF Undisturbed
    <3> QED
      BY <2>1, <3>1, <3>2, UndisturbedTransitive DEF PtyRequest
  <2>2. CASE PtyHangup(i)
    BY <1>1, <2>2, CloseOutputQuiet DEF PtyHangup
  <2> QED
    BY <2>1, <2>2
<1>4. ScalarsOK' /\ Lane'
  BY <1>2 DEF ReplInv, ScalarsOK, Lane
<1> QED
  BY <1>2, <1>3, <1>4, QuietStep

LEMMA RedirectionInv ==
    ASSUME ReplInv, RedirectionAnswer
    PROVE  ReplInv' /\ Undisturbed(cells, cells') /\ nextId' = nextId
<1>1. UNCHANGED <<cells, nextId, stateCell, evaluator, registry, proc>>
      /\ mode' = "EDITOR"
  BY DEF RedirectionAnswer
<1>2. ScalarsOK' /\ Lane'
  BY <1>1 DEF ReplInv, ScalarsOK, Lane, Modes
<1>3. Undisturbed(cells, cells')
  BY <1>1, UndisturbedReflexive DEF ReplInv
<1> QED
  BY <1>1, <1>2, <1>3, QuietStep

(***************************************************************************)
(* reap_children.  What waitpid reports has its cell.                      *)
(***************************************************************************)
LEMMA CellOfChild ==
    ASSUME ReplInv, NEW p \in Pids, proc[p] # "free"
    PROVE  /\ CellOf(cells, p) \in Cells
           /\ cells[CellOf(cells, p)].pid = p
           /\ HasJob(cells[CellOf(cells, p)])
<1>1. PICK i \in Cells : cells[i].pid = p
  BY DEF ReplInv, Owned
<1>2. HasJob(cells[i])
  BY <1>1, PidAssumption DEF HasJob
<1>3. Occupied(cells[i])
  BY <1>2 DEF ReplInv, StoreOK, CellOK, Occupied
<1>4. CellOf(cells, p) \in Cells /\ cells[CellOf(cells, p)].pid = p
  BY <1>1, <1>3 DEF CellOf
<1> QED
  BY <1>4, PidAssumption DEF HasJob

LEMMA ReapStateInv ==
    ASSUME ReplInv, NEW p \in Pids, ReapStop(p) \/ ReapContinue(p)
    PROVE  ReplInv' /\ Undisturbed(cells, cells') /\ nextId' = nextId
<1>1. StoreOK(cells) /\ proc \in [Pids -> Lives]
  BY DEF ReplInv, ScalarsOK
<1>2. proc[p] # "free"
  BY DEF ReapStop, ReapContinue
<1>3. UNCHANGED <<nextId, mode, stateCell, evaluator>>
  BY DEF ReapStop, ReapContinue
<1>4. proc' \in [Pids -> Lives] /\ \A q \in Pids : proc'[q] = "free" <=> proc[q] = "free"
  BY <1>1 DEF ReapStop, ReapContinue, Lives
<1>5. registry' \subseteq Pids
  BY DEF ReapStop, ReapContinue, ReplInv, ScalarsOK
<1>6. Undisturbed(cells, cells')
  BY <1>1, <1>2, CellOfChild, MarkStoppedQuiet, MarkRunningQuiet,
     UndisturbedReflexive DEF ReapStop, ReapContinue
<1>7. ScalarsOK'
  BY <1>3, <1>4, <1>5 DEF ReplInv, ScalarsOK
<1>8. Lane'
  BY <1>3, <1>4, LaneKept
<1> QED
  BY <1>3, <1>4, <1>6, <1>7, <1>8, QuietStep

(* A child that is gone settles its cell.                                  *)
LEMMA ReapEndInv ==
    ASSUME ReplInv, NEW p \in Pids, ReapEnd(p)
    PROVE  /\ ReplInv'
           /\ nextId' = nextId
           /\ \E i \in Cells : /\ Moves(cells, cells', i)
                               /\ HasJob(cells[i])
                               /\ Settled(cells'[i])
<1> DEFINE i == CellOf(cells, p)
<1>1. StoreOK(cells) /\ proc \in [Pids -> Lives]
  BY DEF ReplInv, ScalarsOK
<1>2. proc[p] = "zombie" /\ nextId' = nextId
      /\ UNCHANGED <<mode, stateCell>> /\ registry' = registry \ {p}
      /\ proc' = [proc EXCEPT ![p] = "free"]
      /\ evaluator' = IF p = evaluator THEN NoPid ELSE evaluator
  BY DEF ReapEnd
<1>3. i \in Cells /\ cells[i].pid = p /\ HasJob(cells[i])
  BY <1>2, CellOfChild
<1>4. cells' = ReapCell(cells, p)
  BY PidAssumption DEF ReapEnd, ReplInv, Lane
<1>5. Moves(cells, cells', i) /\ Settled(cells'[i]) /\ cells'[i].pid = NoPid
  BY <1>1, <1>3, <1>4, ReapCellMoves
<1> HIDE DEF i
<1>6. StoreOK(cells') /\ \A j \in Cells \ {i} : cells'[j].pid = cells[j].pid
  BY <1>5 DEF Moves, SameCommand
<1>7. Numbered'
  BY <1>2, <1>5, NumberedKept DEF ReplInv, Moves, MovedOn, SameCommand
<1>8. Owned'
  BY <1>1, <1>2, <1>3, <1>5, <1>6, OwnedEnd DEF ReplInv
<1>9. ScalarsOK'
  BY <1>1, <1>2 DEF ReplInv, ScalarsOK, Lives
<1>10. Lane'
  BY <1>1, <1>2 DEF ReplInv, ScalarsOK, Lane
<1> QED
  BY <1>2, <1>3, <1>5, <1>6, <1>7, <1>8, <1>9, <1>10 DEF ReplInv

(***************************************************************************)
(* Acceptance.                                                             *)
(***************************************************************************)
(* The cell of command c, which becomes number nextId, is i; in it nothing *)
(* is left of the command it was used for.                                 *)
Accepts(i, c) ==
    /\ i \in Cells
    /\ StoreOK(cells')
    /\ \A j \in Cells \ {i} : SameCommand(cells[j], cells'[j])
    /\ i \in Available(cells)
    /\ ~Unsettled(cells[i])
    /\ cells[i].pid = NoPid
    /\ Occupied(cells'[i])
    /\ cells'[i].id = nextId
    /\ cells'[i].cmd = c
    /\ cells'[i].pid = NoPid
    /\ nextId' = nextId + 1

LEMMA AcceptsInv ==
    ASSUME ReplInv, NEW i, NEW c, Accepts(i, c),
           UNCHANGED <<mode, stateCell, evaluator, registry, proc>>
    PROVE  ReplInv'
<1>1. nextId \in Nat \ {0} /\ nextId' = nextId + 1
  BY DEF ReplInv, ScalarsOK, Accepts
<1>2. \A j \in Cells \ {i} : /\ cells'[j].id = cells[j].id
                             /\ Occupied(cells'[j]) <=> Occupied(cells[j])
  BY DEF Accepts, SameCommand
<1>3. \A j \in Cells : Occupied(cells[j]) => cells[j].id \in 1..(nextId - 1)
  BY DEF ReplInv, Numbered
<1>4. ASSUME NEW j \in Cells, Occupied(cells'[j])
      PROVE  /\ cells'[j].id \in 1..(nextId' - 1)
             /\ \A k \in Cells :
                    Occupied(cells'[k]) /\ cells'[k].id = cells'[j].id => k = j
  <2>1. CASE j = i
    <3>1. cells'[j].id = nextId
      BY <2>1 DEF Accepts
    <3>2. \A k \in Cells \ {i} : Occupied(cells'[k]) => cells'[k].id # nextId
      BY <1>1, <1>2, <1>3
    <3> QED
      BY <1>1, <2>1, <3>1, <3>2
  <2>2. CASE j # i
    <3>1. cells'[j].id = cells[j].id /\ Occupied(cells[j])
      BY <1>2, <1>4, <2>2
    <3>2. cells[j].id \in 1..(nextId - 1)
      BY <1>3, <3>1
    <3>3. cells'[i].id # cells'[j].id
      BY <1>1, <3>1, <3>2 DEF Accepts
    <3>4. \A k \in Cells \ {i} :
              Occupied(cells'[k]) /\ cells'[k].id = cells'[j].id => k = j
      BY <1>2, <3>1 DEF ReplInv, Numbered
    <3> QED
      BY <1>1, <3>1, <3>2, <3>3, <3>4
  <2> QED
    BY <2>1, <2>2
<1>5. Numbered'
  BY <1>4 DEF Numbered
<1>6. Owned'
  BY OwnedKept DEF Accepts, SameCommand, ReplInv
<1> QED
  BY <1>1, <1>5, <1>6 DEF ReplInv, ScalarsOK, Lane, Accepts

LEMMA SubmitAccepts ==
    ASSUME ReplInv, NEW c \in Commands, Submit(c)
    PROVE  \E i \in Cells : Accepts(i, c) /\ cells'[i].state = "queued"
<1> DEFINE i == CellFor(cells)
<1>1. StoreOK(cells) /\ nextId \in Nat
  BY DEF ReplInv, ScalarsOK
<1>2. c.control \in BOOLEAN
  BY CommandAssumption DEF Command
<1>3. Available(cells) # {}
  BY <1>2, RoomIsAvailable DEF Submit
<1>4. i \in Available(cells)
  BY <1>1, <1>3, CellForMember
<1>5. cells' = Accept(cells, nextId, c) /\ nextId' = nextId + 1
  BY DEF Submit
<1> HIDE DEF i
<1>6. /\ i \in Cells
      /\ StoreOK(cells')
      /\ \A j \in Cells \ {i} : cells'[j] = cells[j]
      /\ ~Unsettled(cells[i])
      /\ cells[i].pid = NoPid
      /\ cells'[i].state = "queued"
      /\ cells'[i].id = nextId
      /\ cells'[i].cmd = c
      /\ cells'[i].pid = NoPid
  BY <1>1, <1>3, <1>5, AcceptTakes DEF i
<1>7. \A j \in Cells \ {i} : SameCommand(cells[j], cells'[j])
  BY <1>6 DEF SameCommand
<1>8. Occupied(cells'[i])
  BY <1>6 DEF Occupied
<1> QED
  BY <1>4, <1>5, <1>6, <1>7, <1>8 DEF Accepts

LEMMA NotifyAccepts ==
    ASSUME ReplInv, Notify
    PROVE  \E i \in Cells : /\ Accepts(i, Notice)
                            /\ Settled(cells'[i]) /\ cells'[i].closed
<1> DEFINE i  == CellFor(cells)
           cs == Accept(cells, nextId, Notice)
           ds == Starting(cs, i)
<1>1. StoreOK(cells) /\ nextId \in Nat
  BY DEF ReplInv, ScalarsOK
<1>2. Available(cells) # {}
  BY RoomIsAvailable DEF Notify
<1>3. i \in Available(cells)
  BY <1>1, <1>2, CellForMember
<1>4. cells' = Finish(ds, i) /\ nextId' = nextId + 1
  BY DEF Notify
<1> HIDE DEF i, cs
<1>5. /\ i \in Cells
      /\ StoreOK(cs)
      /\ \A j \in Cells \ {i} : cs[j] = cells[j]
      /\ ~Unsettled(cells[i])
      /\ cells[i].pid = NoPid
      /\ cs[i].state = "queued"
      /\ cs[i].id = nextId
      /\ cs[i].cmd = Notice
  BY <1>1, <1>2, AcceptTakes DEF i, cs
<1>6. Moves(cs, ds, i) /\ ds[i].state = "starting"
  BY <1>5, StartingMoves
<1> HIDE DEF ds
<1>7. /\ Moves(ds, cells', i) /\ Settled(cells'[i])
      /\ cells'[i].closed /\ cells'[i].pid = NoPid
  BY <1>4, <1>5, <1>6, FinishMoves DEF Moves
<1>8. Moves(cs, cells', i)
  BY <1>6, <1>7, MovesTransitive
<1>9. \A j \in Cells \ {i} : SameCommand(cells[j], cells'[j])
  BY <1>5, <1>8 DEF Moves
<1>10. StoreOK(cells') /\ cells'[i].id = nextId /\ cells'[i].cmd = Notice
       /\ Occupied(cells'[i])
  BY <1>5, <1>8 DEF Moves, MovedOn
<1> QED
  BY <1>3, <1>4, <1>5, <1>7, <1>9, <1>10 DEF Accepts

(***************************************************************************)
(* The scheduler.                                                          *)
(***************************************************************************)
(* A command moves on without a child.                                     *)
LEMMA MovesInv ==
    ASSUME ReplInv, ScalarsOK', Lane', NEW i \in Cells,
           Moves(cells, cells', i), cells'[i].pid = cells[i].pid,
           nextId' = nextId,
           \A p \in Pids : proc'[p] = "free" <=> proc[p] = "free"
    PROVE  ReplInv'
<1>1. StoreOK(cells') /\ \A j \in Cells : cells'[j].pid = cells[j].pid
  BY DEF Moves, SameCommand
<1>2. Numbered'
  BY NumberedKept DEF ReplInv, Moves, MovedOn, SameCommand
<1>3. Owned'
  BY <1>1, OwnedKept DEF ReplInv
<1> QED
  BY <1>1, <1>2, <1>3 DEF ReplInv

LEMMA BeginTurnInv ==
    ASSUME ReplInv, BeginTurn
    PROVE  /\ ReplInv'
           /\ nextId' = nextId
           /\ \/ Undisturbed(cells, cells')
              \/ \E i \in Cells : /\ Moves(cells, cells', i)
                                  /\ cells[i].state = "starting"
                                  /\ Settled(cells'[i]) /\ cells'[i].closed
<1> DEFINE cs == Autofocus(cells)
<1>1. StoreOK(cells) /\ Undisturbed(cells, cs)
  BY AutofocusQuiet DEF ReplInv
<1>2. /\ UNCHANGED <<mode, evaluator, registry, proc>> /\ nextId' = nextId
      /\ stateCell' = IF LaneDone THEN NoCell ELSE stateCell
      /\ cells' = IF LaneDone /\ cs[stateCell].state = "starting"
                  THEN Finish(cs, stateCell) ELSE cs
  BY DEF BeginTurn
<1> HIDE DEF cs
<1>3. ScalarsOK' /\ Lane'
  BY <1>2 DEF ReplInv, ScalarsOK, Lane, LaneDone
<1>4. CASE LaneDone /\ cs[stateCell].state = "starting"
  <2>1. stateCell \in Cells
    BY <1>4 DEF LaneDone, ReplInv, ScalarsOK
  <2>2. StoreOK(cs) /\ SameCommand(cells[stateCell], cs[stateCell])
    BY <1>1, <2>1 DEF Undisturbed
  <2>3. /\ Moves(cs, cells', stateCell)
        /\ Settled(cells'[stateCell]) /\ cells'[stateCell].closed
        /\ cells'[stateCell].pid = NoPid /\ cs[stateCell].pid = NoPid
    BY <1>2, <1>4, <2>1, <2>2, FinishMoves
  <2>4. cells[stateCell].state = "starting" /\ cells[stateCell].pid = NoPid
    BY <1>4, <2>2, <2>3 DEF SameCommand
  <2>5. Moves(cells, cells', stateCell)
    BY <1>1, <2>1, <2>3 DEF Moves, MovedOn, Undisturbed, SameCommand
  <2>6. ReplInv'
    BY <1>2, <1>3, <2>1, <2>3, <2>4, <2>5, MovesInv
  <2> QED
    BY <1>2, <2>1, <2>3, <2>4, <2>5, <2>6
<1>5. CASE ~(LaneDone /\ cs[stateCell].state = "starting")
  <2>1. Undisturbed(cells, cells')
    BY <1>1, <1>2, <1>5
  <2> QED
    BY <1>2, <1>3, <2>1, QuietStep
<1> QED
  BY <1>4, <1>5

LEMMA ScheduledMayStart ==
    ASSUME ReplInv, NEW i, Scheduled(i)
    PROVE  /\ i \in Cells
           /\ MayStart(cells, LaneBusy, i)
           /\ cells[i].state = "queued"
           /\ mode = "EDITOR"
<1>1. Dispatchable(cells, LaneBusy) \in SUBSET Cells
      /\ Dispatchable(cells, LaneBusy) # {}
  BY DEF Scheduled, Dispatchable
<1>2. i \in Dispatchable(cells, LaneBusy)
  BY <1>1, OldestMember DEF Scheduled, ReplInv
<1> QED
  BY <1>2 DEF Dispatchable, MayStart, Scheduled

(* How far the scheduler takes a command: it waits for the lane, it has a  *)
(* child, or it is done and its output closed.                             *)
Begun(c, d) ==
    \/ d.state = "starting"
    \/ d.state = "running" /\ c.cmd.how \in {"external", "evaluator"}
    \/ Settled(d) /\ d.closed

LEMMA FinalizeMoves ==
    ASSUME NEW i \in Cells, NEW cs, StoreOK(cells), Moves(cells, cs, i),
           Begun(cells[i], cs[i]), NEW e, NEW m, Finalize(i, cs, e, m)
    PROVE  /\ Moves(cells, cells', i)
           /\ Begun(cells[i], cells'[i])
           /\ \A j \in Cells : cells'[j].pid = cs[j].pid
           /\ stateCell' \in {i, stateCell}
           /\ e # NoPid /\ e = cs[i].pid => stateCell' = i
<1>1. StoreOK(cs)
  BY DEF Moves
<1>2. stateCell' \in {i, stateCell}
      /\ (e # NoPid /\ e = cs[i].pid => stateCell' = i)
  BY DEF Finalize, TakesLane
<1>3. CASE cells' = cs
  BY <1>2, <1>3
<1>4. CASE cells' # cs
  <2>1. cells' = Finish(cs, i) /\ cs[i].state = "starting"
    BY <1>4 DEF Finalize, Finish, Unsettled, Settled, Begun
  <2>2. /\ Moves(cs, cells', i)
        /\ Settled(cells'[i]) /\ cells'[i].closed
        /\ cells'[i].pid = NoPid /\ cs[i].pid = NoPid
    BY <1>1, <2>1, FinishMoves
  <2>3. \A j \in Cells : cells'[j].pid = cs[j].pid
    BY <2>2 DEF Moves, SameCommand
  <2> QED
    BY <1>2, <2>2, <2>3, MovesTransitive DEF Begun
<1> QED
  BY <1>3, <1>4

(* A step of the scheduler starts command i.                               *)
Dispatches(i) ==
    /\ i \in Cells
    /\ MayStart(cells, LaneBusy, i)
    /\ Moves(cells, cells', i)
    /\ Begun(cells[i], cells'[i])
    /\ nextId' = nextId

(* A command that the reactor runs itself.                                 *)
LEMMA RunHereInv ==
    ASSUME ReplInv, NEW i, Scheduled(i), NEW cs, Moves(cells, cs, i),
           Begun(cells[i], cs[i]), cs[i].pid = NoPid,
           NEW m, Finalize(i, cs, evaluator, m),
           mode' \in Modes, registry' \subseteq Pids, evaluator' = evaluator,
           nextId' = nextId, proc' \in [Pids -> Lives],
           \A p \in Pids : proc'[p] = "free" <=> proc[p] = "free"
    PROVE  ReplInv' /\ Dispatches(i)
<1>1. i \in Cells /\ MayStart(cells, LaneBusy, i) /\ cells[i].state = "queued"
  BY ScheduledMayStart
<1>2. cells[i].pid = NoPid
  BY <1>1, StartingMoves DEF HasJob, ReplInv
<1>3. /\ Moves(cells, cells', i)
      /\ Begun(cells[i], cells'[i])
      /\ \A j \in Cells : cells'[j].pid = cs[j].pid
      /\ stateCell' \in {i, stateCell}
  BY <1>1, FinalizeMoves DEF ReplInv
<1>4. cells'[i].pid = cells[i].pid
  BY <1>1, <1>2, <1>3
<1>5. ScalarsOK'
  BY <1>1, <1>3 DEF ReplInv, ScalarsOK
<1>6. Lane'
  BY <1>1, <1>3, CellsAreNatural DEF ReplInv, ScalarsOK, Lane, NoCell
<1> QED
  BY <1>1, <1>3, <1>4, <1>5, <1>6, MovesInv DEF Dispatches

(* A command that gets a child of its own.                                 *)
LEMMA StartChildInv ==
    ASSUME ReplInv, NEW i, NEW p \in Pids, StartExternal(i, p) \/ StartEvaluator(i, p)
    PROVE  ReplInv' /\ Dispatches(i)
<1> DEFINE cs == Starting(cells, i)
           ds == Attach(cs, i, p)
<1>1. Scheduled(i) /\ cells[i].cmd.how \in {"external", "evaluator"}
  BY DEF StartExternal, StartEvaluator, Runs
<1>2. i \in Cells /\ MayStart(cells, LaneBusy, i) /\ cells[i].state = "queued"
  BY <1>1, ScheduledMayStart
<1>3. /\ Moves(cells, cs, i) /\ cs[i].state = "starting"
      /\ cells[i].pid = NoPid
  BY <1>2, StartingMoves DEF HasJob, ReplInv
<1>4. /\ proc[p] = "free" /\ proc' = [proc EXCEPT ![p] = "running"]
      /\ UNCHANGED <<nextId, mode, registry>>
      /\ \/ Finalize(i, ds, evaluator, "EDITOR") /\ evaluator' = evaluator
         \/ Finalize(i, ds, p, "EDITOR") /\ evaluator' = p
  BY DEF StartExternal, StartEvaluator
<1> HIDE DEF cs
<1>5. Moves(cs, ds, i) /\ ds[i].state = "running" /\ ds[i].pid = p
  BY <1>2, <1>3, AttachMoves DEF Moves
<1> HIDE DEF ds
<1>6. Moves(cells, ds, i) /\ Begun(cells[i], ds[i])
  BY <1>1, <1>3, <1>5, MovesTransitive DEF Begun
<1>7. /\ Moves(cells, cells', i)
      /\ Begun(cells[i], cells'[i])
      /\ \A j \in Cells : cells'[j].pid = ds[j].pid
      /\ stateCell' \in {i, stateCell}
      /\ evaluator' = evaluator \/ (evaluator' = p /\ stateCell' = i)
  BY <1>2, <1>4, <1>5, <1>6, FinalizeMoves, PidAssumption DEF ReplInv
<1>8. StoreOK(cells') /\ \A j \in Cells \ {i} : cells'[j].pid = cells[j].pid
  BY <1>7 DEF Moves, SameCommand
<1>9. Numbered'
  BY <1>2, <1>4, <1>7, NumberedKept DEF ReplInv, Moves, MovedOn, SameCommand
<1>10. proc \in [Pids -> Lives]
  BY DEF ReplInv, ScalarsOK
<1>11. Owned'
  BY <1>2, <1>3, <1>4, <1>5, <1>7, <1>8, <1>10, OwnedStart DEF ReplInv
<1>12. ScalarsOK'
  BY <1>2, <1>4, <1>7 DEF ReplInv, ScalarsOK, Lives
<1>13. i # NoCell
  BY <1>2, CellsAreNatural DEF NoCell
<1>14. Lane'
  BY <1>4, <1>7, <1>10, <1>13 DEF ReplInv, ScalarsOK, Lane
<1> QED
  BY <1>2, <1>4, <1>7, <1>8, <1>9, <1>11, <1>12, <1>14 DEF ReplInv, Dispatches

(* The reactor runs the command itself, or fails to start it.              *)
LEMMA RunsHereInv ==
    ASSUME ReplInv, NEW i,
           \/ RunBuiltin(i) \/ RefuseStart(i) \/ FailStart(i)
           \/ StartRedirection(i) \/ StartList(i) \/ RefuseResume(i)
    PROVE  ReplInv' /\ Dispatches(i)
<1> DEFINE cs == Starting(cells, i)
<1>1. Scheduled(i)
  BY DEF RunBuiltin, RefuseStart, FailStart, StartRedirection, StartList,
         StartAndHold, RefuseResume, Runs
<1>2. i \in Cells /\ cells[i].state = "queued" /\ mode = "EDITOR"
  BY <1>1, ScheduledMayStart
<1>3. /\ Moves(cells, cs, i) /\ cs[i].state = "starting" /\ cs[i].pid = NoPid
  BY <1>2, StartingMoves DEF ReplInv
<1>4. UNCHANGED <<nextId, evaluator, registry, proc>>
      /\ mode' \in {mode, "REDIRECTION", "DISPATCH"}
  BY DEF RunBuiltin, RefuseStart, FailStart, StartRedirection, StartList,
         StartAndHold, RefuseResume
<1>5. \E m : \/ Finalize(i, cs, evaluator, m)
             \/ Finalize(i, Finish(cs, i), evaluator, m)
  BY DEF RunBuiltin, RefuseStart, FailStart, StartRedirection, StartList,
         StartAndHold, RefuseResume
<1> HIDE DEF cs
<1>6. /\ Moves(cells, Finish(cs, i), i) /\ Begun(cells[i], Finish(cs, i)[i])
      /\ Finish(cs, i)[i].pid = NoPid
  BY <1>2, <1>3, FinishMoves, MovesTransitive DEF Moves, Begun
<1>7. Begun(cells[i], cs[i])
  BY <1>3 DEF Begun
<1>8. /\ mode' \in Modes /\ registry' \subseteq Pids /\ proc' \in [Pids -> Lives]
      /\ \A p \in Pids : proc'[p] = "free" <=> proc[p] = "free"
  BY <1>2, <1>4 DEF ReplInv, ScalarsOK, Modes
<1> QED
  BY <1>1, <1>3, <1>4, <1>5, <1>6, <1>7, <1>8, RunHereInv

(* fg and bg.                                                              *)
LEMMA ResumeJobType ==
    ASSUME ReplInv, NEW j \in LiveJobs, ResumeJob(j)
    PROVE  /\ registry' \subseteq Pids
           /\ proc' \in [Pids -> Lives]
           /\ \A p \in Pids : proc'[p] = "free" <=> proc[p] = "free"
<1>1. cells[j].pid \in Pids
  BY DEF LiveJobs, ReplInv, StoreOK, Cell, HasJob
<1>2. proc \in [Pids -> Lives] /\ registry \subseteq Pids
  BY DEF ReplInv, ScalarsOK
<1> QED
  BY <1>1, <1>2, ContinuedType DEF ResumeJob

LEMMA ResumesInv ==
    ASSUME ReplInv, NEW i, NEW j \in Cells, RunForeground(i, j) \/ RunBackground(i, j)
    PROVE  ReplInv' /\ Dispatches(i)
<1> DEFINE cs == Starting(cells, i)
<1>1. Scheduled(i) /\ j \in LiveJobs /\ ResumeJob(j)
  BY DEF RunForeground, RunBackground, Runs, StoppedJobs
<1>2. i \in Cells /\ cells[i].state = "queued" /\ mode = "EDITOR" /\ ~HasJob(cells[i])
  BY <1>1, ScheduledMayStart, StartingMoves DEF ReplInv
<1>3. Moves(cells, cs, i) /\ cs[i].state = "starting" /\ cs[i].pid = NoPid
  BY <1>2, StartingMoves DEF ReplInv
<1>4. UNCHANGED <<nextId, mode, evaluator>>
  BY DEF RunForeground, RunBackground
<1>5. \/ Finalize(i, Resume(Focus(cs, j), j), evaluator, "EDITOR")
      \/ Finalize(i, Resume(cs, j), evaluator, "EDITOR")
  BY DEF RunForeground, RunBackground
<1> HIDE DEF cs
<1>6. i # j /\ HasJob(cells[j])
  BY <1>1, <1>2 DEF LiveJobs
<1>7. HasJob(cs[j])
  BY <1>3, <1>6 DEF Moves, SameCommand, HasJob
<1>8. StoreOK(cs) /\ Undisturbed(cs, Focus(cs, j))
  BY <1>3, FocusQuiet DEF Moves
<1>9. HasJob(Focus(cs, j)[j])
  BY <1>7, <1>8 DEF Undisturbed, SameCommand, HasJob
<1>10. ASSUME NEW ds, Undisturbed(cs, ds), HasJob(ds[j])
       PROVE  Undisturbed(cs, Resume(ds, j))
  <2>1. StoreOK(ds)
    BY <1>10 DEF Undisturbed
  <2>2. Undisturbed(ds, MarkRunning(ds, j))
    BY <1>10, <2>1, MarkRunningQuiet
  <2> QED
    BY <1>10, <2>2, UndisturbedTransitive DEF Resume
<1>11. PICK es : Undisturbed(cs, es) /\ Finalize(i, es, evaluator, "EDITOR")
  BY <1>5, <1>7, <1>8, <1>9, <1>10, UndisturbedReflexive
<1>12. Moves(cells, es, i) /\ es[i].state = "starting" /\ es[i].pid = NoPid
  BY <1>2, <1>3, <1>11, MovesQuietly DEF SameCommand
<1>13. Begun(cells[i], es[i])
  BY <1>12 DEF Begun
<1>14. mode' \in Modes
  BY <1>2, <1>4 DEF Modes
<1> QED
  BY <1>1, <1>4, <1>11, <1>12, <1>13, <1>14, ResumeJobType, RunHereInv

LEMMA DispatchInv ==
    ASSUME ReplInv, DispatchNext
    PROVE  ReplInv' /\ \E i \in Cells : Dispatches(i)
<1>1. ASSUME NEW i \in Cells,
             \/ RunBuiltin(i)
             \/ \E p \in Pids : StartExternal(i, p) \/ StartEvaluator(i, p)
             \/ RefuseStart(i) \/ FailStart(i)
             \/ StartRedirection(i) \/ StartList(i)
             \/ \E j \in Cells : RunForeground(i, j) \/ RunBackground(i, j)
             \/ RefuseResume(i)
      PROVE  ReplInv' /\ Dispatches(i)
  BY <1>1, StartChildInv, RunsHereInv, ResumesInv
<1> QED
  BY <1>1 DEF DispatchNext

(***************************************************************************)
(* The invariant theorems.                                                 *)
(***************************************************************************)
LEMMA NextInv == ReplInv /\ [Next]_vars => ReplInv'
<1> SUFFICES ASSUME ReplInv, [Next]_vars PROVE ReplInv'
  OBVIOUS
<1>1. CASE UNCHANGED vars
  <2>1. Undisturbed(cells, cells') /\ nextId' = nextId /\ proc' = proc
    BY <1>1, UndisturbedReflexive DEF vars, ReplInv
  <2>2. ScalarsOK' /\ Lane'
    BY <1>1 DEF vars, ReplInv, ScalarsOK, Lane
  <2> QED
    BY <2>1, <2>2, QuietStep
<1>2. CASE \E p \in Pids : ProcSignal(p) \/ ProcEnd(p)
  BY <1>2, ChildInv
<1>3. ASSUME NEW c \in Commands, Submit(c)
      PROVE  ReplInv'
  <2>1. UNCHANGED <<mode, stateCell, evaluator, registry, proc>>
    BY <1>3 DEF Submit
  <2> QED
    BY <1>3, <2>1, SubmitAccepts, AcceptsInv
<1>4. CASE Notify
  <2>1. UNCHANGED <<mode, stateCell, evaluator, registry, proc>>
    BY <1>4 DEF Notify
  <2> QED
    BY <1>4, <2>1, NotifyAccepts, AcceptsInv
<1>5. CASE LeaveJob \/ SuspendJob
  BY <1>5, KeyboardInv
<1>6. CASE \E i \in Cells : PtyRequest(i) \/ PtyHangup(i)
  BY <1>6, PtyInv
<1>7. CASE Reap
  BY <1>7, ReapStateInv, ReapEndInv DEF Reap
<1>8. CASE RedirectionAnswer
  BY <1>8, RedirectionInv
<1>9. CASE BeginTurn
  BY <1>9, BeginTurnInv
<1>10. CASE DispatchNext
  BY <1>10, DispatchInv
<1> QED
  BY <1>1, <1>2, <1>3, <1>4, <1>5, <1>6, <1>7, <1>8, <1>9, <1>10 DEF Next

THEOREM ReplInvariant == Spec => []ReplInv
<1> QED
  BY InitInv, NextInv, PTL DEF Spec

(* The store, the lane and the children keep their types, whatever the     *)
(* user, the children and the kernel do.                                   *)
THEOREM ReplTypeCorrect == Spec => []TypeOK
<1> QED
  BY ReplInvariant, InvImpliesType, PTL

(* A child that was not reaped has exactly one cell, and a cell names no   *)
(* process that is gone (reap_children and the reuse of cells).            *)
THEOREM ChildrenAreOwned == Spec => []NoLostChild
<1> QED
  BY ReplInvariant, InvImpliesNoLostChild, PTL

(***************************************************************************)
(* The lane.                                                               *)
(***************************************************************************)
(* What accept_managed_submission gives the commands that take the reactor *)
(* itself: they are barriers, and no controls.  The input "exit" followed  *)
(* by anything else is the exception of the code (see the README).         *)
HoldersAreBarriers ==
    \A c \in Commands :
        c.how \in {"redirect", "list"} => c.barrier /\ ~c.control

LEMMA DispatchNextMode ==
    ASSUME DispatchNext
    PROVE  \E i \in Cells :
               /\ Scheduled(i)
               /\ \/ mode' = mode
                  \/ /\ cells[i].cmd.how \in {"redirect", "list"}
                     /\ evaluator' = evaluator
BY DEF DispatchNext, RunBuiltin, StartExternal, StartEvaluator, RefuseStart,
       FailStart, StartRedirection, StartList, StartAndHold, RunForeground,
       RunBackground, RefuseResume, Runs

LEMMA NextOneWriter ==
    ASSUME HoldersAreBarriers, ReplInv, OneSessionWriter, [Next]_vars
    PROVE  OneSessionWriter'
<1>1. CASE DispatchNext
  <2>1. PICK i \in Cells :
            /\ Scheduled(i)
            /\ \/ mode' = mode
               \/ /\ cells[i].cmd.how \in {"redirect", "list"}
                  /\ evaluator' = evaluator
    BY <1>1, DispatchNextMode
  <2>2. MayStart(cells, LaneBusy, i) /\ mode = "EDITOR"
    BY <2>1, ScheduledMayStart
  <2>3. CASE mode' = mode
    BY <2>2, <2>3 DEF OneSessionWriter
  <2>4. CASE cells[i].cmd.how \in {"redirect", "list"} /\ evaluator' = evaluator
    <3>1. cells[i].cmd \in Commands
      BY <2>4 DEF ReplInv, StoreOK, Cell, Notice
    <3>2. cells[i].cmd.barrier /\ ~cells[i].cmd.control
      BY <2>4, <3>1 DEF HoldersAreBarriers
    <3>3. ~LaneBusy
      BY <2>2, <3>2 DEF MayStart
    <3> QED
      BY <2>4, <3>3 DEF LaneBusy, OneSessionWriter
  <2> QED
    BY <2>1, <2>3, <2>4
<1>2. CASE ~DispatchNext
  BY <1>2 DEF Next, vars, ProcSignal, ProcEnd, Submit, Notify, LeaveJob, SuspendJob,
      PtyRequest, PtyHangup, Reap, ReapStop, ReapContinue, ReapEnd,
      RedirectionAnswer, BeginTurn, OneSessionWriter
<1> QED
  BY <1>1, <1>2

(* While the redirection worker or a list has the reactor no evaluator is  *)
(* active (managed_state_lane_busy).                                       *)
THEOREM WritersExclude ==
    ASSUME HoldersAreBarriers
    PROVE  Spec => []OneSessionWriter
<1>1. Init => OneSessionWriter
  BY DEF Init, OneSessionWriter
<1>2. ReplInv /\ OneSessionWriter /\ [Next]_vars => OneSessionWriter'
  BY NextOneWriter
<1> QED
  BY <1>1, <1>2, ReplInvariant, PTL DEF Spec

(***************************************************************************)
(* Room for a control.                                                     *)
(***************************************************************************)
(* What command_is_managed_control lets pass is run by the reactor; again  *)
(* the input "exit" followed by anything else is the exception.            *)
ControlsRunHere ==
    \A c \in Commands : c.control => c.how \notin {"external", "evaluator"}

(* The cell of a control has neither child nor PTY, so that it can be used *)
(* again as soon as it is settled.                                         *)
ControlCells ==
    \A i \in Cells : cells[i].cmd.control => ~HasJob(cells[i]) /\ ~cells[i].pty

(* Available cells stay available, and a control that is done makes room.  *)
LEMMA ControlAcceptedKept ==
    ASSUME ControlAccepted,
           \A i \in Cells :
               \/ SameCommand(cells[i], cells'[i])
               \/ Occupied(cells[i]) /\ ~Settled(cells[i]) /\ ~cells[i].cmd.control
               \/ Settled(cells'[i]) /\ cells'[i].closed
               \/ /\ cells[i].state = "queued" /\ cells'[i].state = "starting"
                  /\ cells'[i].cmd = cells[i].cmd
    PROVE  ControlAccepted'
<1>1. CASE Available(cells) # {}
  <2>1. PICK i \in Cells : ~Occupied(cells[i]) \/ (Settled(cells[i]) /\ cells[i].closed)
    BY <1>1 DEF Available, Unused, Reusable
  <2>2. ~Occupied(cells'[i]) \/ (Settled(cells'[i]) /\ cells'[i].closed)
    BY <2>1 DEF SameCommand, Occupied, Settled
  <2>3. Available(cells') # {}
    BY <2>2 DEF Available, Unused, Reusable
  <2> QED
    BY <2>3, RoomForControl DEF ControlAccepted
<1>2. ASSUME NEW i \in Cells, cells[i].cmd.control, Unsettled(cells[i])
      PROVE  ControlAccepted'
  <2>1. \/ cells'[i].cmd.control /\ Unsettled(cells'[i])
        \/ Settled(cells'[i]) /\ cells'[i].closed
    BY <1>2 DEF SameCommand, Unsettled, Occupied, Settled
  <2>2. CASE cells'[i].cmd.control /\ Unsettled(cells'[i])
    BY <2>2 DEF ControlAccepted
  <2>3. CASE Settled(cells'[i]) /\ cells'[i].closed
    <3>1. Available(cells') # {}
      BY <2>3 DEF Available, Reusable
    <3> QED
      BY <3>1, RoomForControl DEF ControlAccepted
  <2> QED
    BY <2>1, <2>2, <2>3
<1> QED
  BY <1>1, <1>2, RoomForControl DEF ControlAccepted

ControlInv == ControlCells /\ ControlAccepted

LEMMA QuietControl ==
    ASSUME ControlInv, Undisturbed(cells, cells')
    PROVE  ControlInv'
<1>1. \A i \in Cells : SameCommand(cells[i], cells'[i])
  BY DEF Undisturbed
<1>2. ControlCells'
  BY <1>1 DEF ControlInv, ControlCells, SameCommand, HasJob
<1> QED
  BY <1>1, <1>2, ControlAcceptedKept DEF ControlInv

LEMMA SubmitControl ==
    ASSUME ReplInv, ControlInv, NEW c \in Commands, Submit(c)
    PROVE  ControlInv'
<1>1. PICK i \in Cells : Accepts(i, c) /\ cells'[i].state = "queued"
  BY SubmitAccepts
<1>2. ~HasJob(cells'[i]) /\ ~cells'[i].pty /\ Unsettled(cells'[i])
  BY <1>1 DEF Accepts, StoreOK, CellOK, Unsettled, Occupied, Settled
<1>3. ControlCells'
  BY <1>1, <1>2 DEF ControlInv, ControlCells, Accepts, SameCommand, HasJob
<1>4. ASSUME c.control
      PROVE  ControlAccepted'
  BY <1>1, <1>2, <1>4 DEF ControlAccepted, Accepts
<1>5. ASSUME ~c.control
      PROVE  ControlAccepted'
  <2>1. c.control = FALSE
    BY <1>5, CommandAssumption DEF Command
  <2>2. HasRoom(cells, FALSE)
    BY <2>1 DEF Submit
  <2> DEFINE rest == Available(cells) \ {i}
  <2>3. rest # {}
    BY <2>2, RoomLeavesRoom
  <2>3a. PICK j \in Available(cells) : j # i
    BY <2>3
  <2>4. j \in Cells /\ SameCommand(cells[j], cells'[j])
    BY <1>1, <2>3a DEF Accepts, Available, Unused, Reusable
  <2>5. j \in Available(cells')
    BY <2>3a, <2>4 DEF Available, Unused, Reusable, SameCommand
  <2> QED
    BY <2>5, RoomForControl DEF ControlAccepted
<1> QED
  BY <1>3, <1>4, <1>5 DEF ControlInv

LEMMA NotifyControl ==
    ASSUME ReplInv, ControlInv, Notify
    PROVE  ControlInv'
<1>1. PICK i \in Cells : /\ Accepts(i, Notice)
                         /\ Settled(cells'[i]) /\ cells'[i].closed
  BY NotifyAccepts
<1>2. ~HasJob(cells'[i]) /\ ~cells'[i].pty
  BY <1>1 DEF Accepts, StoreOK, CellOK, Settled
<1>3. ControlCells'
  BY <1>1, <1>2 DEF ControlInv, ControlCells, Accepts, SameCommand, HasJob
<1>4. \A j \in Cells : \/ SameCommand(cells[j], cells'[j])
                       \/ Settled(cells'[j]) /\ cells'[j].closed
  BY <1>1 DEF Accepts
<1> QED
  BY <1>3, <1>4, ControlAcceptedKept DEF ControlInv

(* A command that was unsettled moves on.                                  *)
LEMMA MovesControl ==
    ASSUME ReplInv, ControlsRunHere, ControlInv, NEW i \in Cells,
           Moves(cells, cells', i),
           \/ HasJob(cells[i])
           \/ cells[i].state = "starting" /\ Settled(cells'[i]) /\ cells'[i].closed
           \/ cells[i].state = "queued" /\ Begun(cells[i], cells'[i])
    PROVE  ControlInv'
<1>1. /\ StoreOK(cells') /\ cells'[i].cmd = cells[i].cmd
      /\ \A j \in Cells \ {i} : SameCommand(cells[j], cells'[j])
  BY DEF Moves, MovedOn
<1>2. CellOK(cells[i]) /\ CellOK(cells'[i])
  BY <1>1 DEF ReplInv, StoreOK
<1>3. HasJob(cells[i]) => Occupied(cells[i]) /\ ~Settled(cells[i])
  BY <1>2 DEF CellOK, Occupied, Settled
<1>4. cells[i].cmd.control => cells[i].cmd.how \notin {"external", "evaluator"}
  BY <1>2 DEF ControlsRunHere, CellOK, Cell, Notice
<1>5. ASSUME cells[i].cmd.control
      PROVE  ~HasJob(cells'[i]) /\ ~cells'[i].pty
  BY <1>2, <1>4, <1>5 DEF ControlInv, ControlCells, CellOK, Begun, Settled
<1>6. ControlCells'
  BY <1>1, <1>5 DEF ControlInv, ControlCells, SameCommand, HasJob
<1>7. \/ Occupied(cells[i]) /\ ~Settled(cells[i]) /\ ~cells[i].cmd.control
      \/ Settled(cells'[i]) /\ cells'[i].closed
      \/ /\ cells[i].state = "queued" /\ cells'[i].state = "starting"
         /\ cells'[i].cmd = cells[i].cmd
  BY <1>1, <1>3, <1>4 DEF ControlInv, ControlCells, Begun, Occupied, Settled
<1>8. ControlAccepted'
  BY <1>1, <1>7, ControlAcceptedKept DEF ControlInv
<1> QED
  BY <1>6, <1>8 DEF ControlInv

LEMMA NextControl ==
    ASSUME ControlsRunHere, ReplInv, ControlInv, [Next]_vars
    PROVE  ControlInv'
<1>1. CASE UNCHANGED vars
  BY <1>1, UndisturbedReflexive, QuietControl DEF vars, ReplInv
<1>2. CASE \E p \in Pids : ProcSignal(p) \/ ProcEnd(p)
  BY <1>2, ChildInv, QuietControl
<1>3. CASE \E c \in Commands : Submit(c)
  BY <1>3, SubmitControl
<1>4. CASE Notify
  BY <1>4, NotifyControl
<1>5. CASE LeaveJob \/ SuspendJob
  BY <1>5, KeyboardInv, QuietControl
<1>6. CASE \E i \in Cells : PtyRequest(i) \/ PtyHangup(i)
  BY <1>6, PtyInv, QuietControl
<1>7. ASSUME NEW p \in Pids, ReapStop(p) \/ ReapContinue(p) \/ ReapEnd(p)
      PROVE  ControlInv'
  <2>1. CASE ReapStop(p) \/ ReapContinue(p)
    BY <2>1, ReapStateInv, QuietControl
  <2>2. CASE ReapEnd(p)
    BY <2>2, ReapEndInv, MovesControl
  <2> QED
    BY <1>7, <2>1, <2>2
<1>8. CASE RedirectionAnswer
  BY <1>8, RedirectionInv, QuietControl
<1>9. CASE BeginTurn
  BY <1>9, BeginTurnInv, QuietControl, MovesControl
<1>10. CASE DispatchNext
  <2>1. PICK i \in Cells : Dispatches(i)
    BY <1>10, DispatchInv
  <2> QED
    BY <2>1, MovesControl DEF Dispatches, MayStart
<1> QED
  BY <1>1, <1>2, <1>3, <1>4, <1>5, <1>6, <1>7, <1>8, <1>9, <1>10 DEF Next, Reap

LEMMA InitControl == Init => ControlInv
<1> SUFFICES ASSUME Init PROVE ControlInv
  OBVIOUS
<1>1. 0 \in Cells
  BY CellCapAssumption DEF Cells
<1>2. \A i \in Cells : cells[i] = FreeCell
  BY DEF Init
<1>3. 0 \in Available(cells)
  BY <1>1, <1>2 DEF Available, Unused, Occupied, FreeCell
<1>4. ControlAccepted
  BY <1>3, RoomForControl DEF ControlAccepted
<1>5. ControlCells
  BY <1>2 DEF ControlCells, FreeCell, HasJob
<1> QED
  BY <1>4, <1>5 DEF ControlInv

(* Unless a control is under way already, one can be accepted: commands    *)
(* never take the last cell, and no control keeps the one it used          *)
(* (oldest_reusable_cell).                                                 *)
THEOREM RoomForControls ==
    ASSUME ControlsRunHere
    PROVE  Spec => []ControlAccepted
<1>1. ReplInv /\ ControlInv /\ [Next]_vars => ControlInv'
  BY NextControl
<1>2. ControlInv => ControlAccepted
  BY DEF ControlInv
<1> QED
  BY <1>1, <1>2, InitControl, ReplInvariant, PTL DEF Spec

(***************************************************************************)
(* The refinement of Submissions.                                          *)
(***************************************************************************)
Waiting(c) == [id |-> c.id, cmd |-> c.cmd, started |-> c.state # "queued"]

LEMMA PendingIsWaiting ==
    PendingSubmissions = {Waiting(cells[i]) : i \in {j \in Cells : Unsettled(cells[j])}}
BY DEF PendingSubmissions, Waiting

LEMMA SameIsPending ==
    ASSUME NEW c, NEW d, SameCommand(c, d)
    PROVE  (Unsettled(d) <=> Unsettled(c)) /\ Waiting(d) = Waiting(c)
BY DEF SameCommand, Unsettled, Waiting

(* Two cells that are in use do not stand for the same submission.         *)
LEMMA WaitingApart ==
    ASSUME ReplInv, NEW i \in Cells, NEW j \in Cells, i # j,
           Unsettled(cells[i]), Unsettled(cells[j])
    PROVE  Waiting(cells[i]) # Waiting(cells[j])
<1>1. cells[i].id # cells[j].id
  BY DEF ReplInv, Numbered, Unsettled
<1> QED
  BY <1>1 DEF Waiting

LEMMA QuietPromise ==
    ASSUME Undisturbed(cells, cells'), nextId' = nextId
    PROVE  UNCHANGED <<nextId - 1, PendingSubmissions>>
<1>1. \A i \in Cells : /\ Unsettled(cells'[i]) <=> Unsettled(cells[i])
                       /\ Waiting(cells'[i]) = Waiting(cells[i])
  BY SameIsPending DEF Undisturbed
<1>2. PendingSubmissions' = PendingSubmissions
  BY <1>1, PendingIsWaiting DEF PendingSubmissions, Waiting
<1> QED
  BY <1>2

(* Without the record of cell i the submissions are those of the others.   *)
LEMMA PendingWithout ==
    ASSUME ReplInv, NEW i \in Cells, Unsettled(cells[i])
    PROVE  /\ Waiting(cells[i]) \in PendingSubmissions
           /\ PendingSubmissions \ {Waiting(cells[i])} =
                  {Waiting(cells[j]) : j \in {k \in Cells \ {i} : Unsettled(cells[k])}}
BY WaitingApart, PendingIsWaiting

LEMMA PendingAfter ==
    ASSUME NEW i \in Cells,
           \A j \in Cells \ {i} : SameCommand(cells[j], cells'[j])
    PROVE  PendingSubmissions' =
               {Waiting(cells[j]) : j \in {k \in Cells \ {i} : Unsettled(cells[k])}}
               \cup (IF Unsettled(cells'[i]) THEN {Waiting(cells'[i])} ELSE {})
<1>1. \A j \in Cells \ {i} : /\ Unsettled(cells'[j]) <=> Unsettled(cells[j])
                             /\ Waiting(cells'[j]) = Waiting(cells[j])
  BY SameIsPending
<1>2. PendingSubmissions' =
          {Waiting(cells'[j]) : j \in {k \in Cells : Unsettled(cells'[k])}}
  BY DEF PendingSubmissions, Waiting
<1> QED
  BY <1>1, <1>2

(* What the scheduler starts overtakes only what it may.                   *)
LEMMA StartsInOrder ==
    ASSUME ReplInv, NEW i \in Cells, MayStart(cells, LaneBusy, i)
    PROVE  Promise!InOrder(Waiting(cells[i]))
<1> DEFINE s == Waiting(cells[i])
<1>1. CASE cells[i].cmd.control
  BY <1>1 DEF Promise!InOrder, Waiting
<1>2. CASE ~cells[i].cmd.control
  <2>1. /\ ~EarlierBlocker(cells, i)
        /\ cells[i].cmd.barrier => ~EarlierUnsettled(cells, i)
    BY <1>2 DEF MayStart
  <2>2. ASSUME NEW e \in Promise!Earlier(s)
        PROVE  \E j \in Before(cells, i) : ~Settled(cells[j]) /\ e.cmd = cells[j].cmd
    <3>1. e \in PendingSubmissions /\ e.id < s.id
      BY DEF Promise!Earlier
    <3>2. PICK j \in Cells : Unsettled(cells[j]) /\ e = Waiting(cells[j])
      BY <3>1, PendingIsWaiting
    <3>3. e.id = cells[j].id /\ s.id = cells[i].id /\ e.cmd = cells[j].cmd
      BY <3>2 DEF Waiting
    <3> HIDE DEF s
    <3> QED
      BY <3>1, <3>2, <3>3 DEF Before, Unsettled
  <2>3. \A e \in Promise!Earlier(s) : ~e.cmd.blocks
    BY <2>1, <2>2 DEF EarlierBlocker
  <2>4. cells[i].cmd.barrier => Promise!Earlier(s) = {}
    BY <2>1, <2>2 DEF EarlierUnsettled
  <2>5. s.cmd = cells[i].cmd
    BY DEF Waiting
  <2> HIDE DEF s
  <2>6. Promise!InOrder(s)
    BY <2>3, <2>4, <2>5 DEF Promise!InOrder
  <2> QED
    BY <2>6 DEF s
<1> QED
  BY <1>1, <1>2

(* A command that moves on is a submission that starts or settles.         *)
LEMMA MovesPromise ==
    ASSUME ReplInv, NEW i \in Cells, Moves(cells, cells', i), nextId' = nextId,
           \/ cells[i].state = "queued" /\ MayStart(cells, LaneBusy, i)
           \/ /\ Unsettled(cells[i]) /\ cells[i].state # "queued"
              /\ Settled(cells'[i])
    PROVE  Promise!SubmissionNext
<1> DEFINE s == Waiting(cells[i])
<1>1. Unsettled(cells[i])
  BY DEF Unsettled, Occupied, Settled
<1>2. s \in PendingSubmissions
      /\ PendingSubmissions \ {s} =
             {Waiting(cells[j]) : j \in {k \in Cells \ {i} : Unsettled(cells[k])}}
  BY <1>1, PendingWithout
<1>3. PendingSubmissions' = (PendingSubmissions \ {s})
          \cup (IF Unsettled(cells'[i]) THEN {Waiting(cells'[i])} ELSE {})
  BY <1>2, PendingAfter DEF Moves
<1>4. nextId' - 1 = nextId - 1
  OBVIOUS
<1>5. Promise!InOrder(s) \/ s.started
  BY StartsInOrder DEF Waiting
<1>6. CASE Settled(cells'[i])
  <2>1. PendingSubmissions' = PendingSubmissions \ {s}
    BY <1>3, <1>6 DEF Unsettled
  <2>2. Promise!SettleSubmission(s)
    BY <1>4, <1>5, <2>1 DEF Promise!SettleSubmission
  <2> QED
    BY <1>2, <2>2 DEF Promise!SubmissionNext
<1>7. CASE ~Settled(cells'[i])
  <2>1. cells[i].state = "queued" /\ MayStart(cells, LaneBusy, i)
    BY <1>7
  <2>2. Unsettled(cells'[i]) /\ Waiting(cells'[i]) = [s EXCEPT !.started = TRUE]
    <3>1. /\ cells'[i].id = cells[i].id /\ cells'[i].cmd = cells[i].cmd
          /\ Unsettled(cells'[i]) /\ cells'[i].state # "queued"
      BY <1>7 DEF Moves, MovedOn, Unsettled
    <3>2. Waiting(cells'[i]) =
              [id |-> cells[i].id, cmd |-> cells[i].cmd, started |-> TRUE]
      BY <3>1 DEF Waiting
    <3>3. s = [id |-> cells[i].id, cmd |-> cells[i].cmd,
               started |-> cells[i].state # "queued"]
      BY DEF Waiting
    <3> HIDE DEF s
    <3>4. \A b : [s EXCEPT !.started = b] =
                     [id |-> cells[i].id, cmd |-> cells[i].cmd, started |-> b]
      BY <3>3
    <3> QED
      BY <3>1, <3>2, <3>4
  <2>3. ~s.started /\ Promise!InOrder(s)
    BY <2>1, StartsInOrder DEF Waiting
  <2> HIDE DEF s
  <2>4. PendingSubmissions' = (PendingSubmissions \ {s}) \cup {[s EXCEPT !.started = TRUE]}
    BY <1>3, <2>2
  <2>5. Promise!StartSubmission(s)
    BY <1>4, <2>3, <2>4 DEF Promise!StartSubmission
  <2> QED
    BY <1>2, <2>5 DEF Promise!SubmissionNext
<1> QED
  BY <1>6, <1>7

LEMMA AcceptsPromise ==
    ASSUME ReplInv, NEW i, NEW c, Accepts(i, c)
    PROVE  /\ nextId' - 1 = (nextId - 1) + 1
           /\ PendingSubmissions' = PendingSubmissions
                  \cup (IF Unsettled(cells'[i]) THEN {Waiting(cells'[i])} ELSE {})
<1>1. nextId' = nextId + 1 /\ nextId \in Nat
  BY DEF Accepts, ReplInv, ScalarsOK
<1>2. i \in Cells /\ ~Unsettled(cells[i])
  BY DEF Accepts
<1>3. PendingSubmissions =
          {Waiting(cells[j]) : j \in {k \in Cells \ {i} : Unsettled(cells[k])}}
  BY <1>2, PendingIsWaiting
<1> QED
  BY <1>1, <1>2, <1>3, PendingAfter DEF Accepts

LEMMA SubmitPromise ==
    ASSUME ReplInv, NEW c \in Commands, Submit(c)
    PROVE  Promise!AcceptSubmission(c)
<1>1. PICK i \in Cells : Accepts(i, c) /\ cells'[i].state = "queued"
  BY SubmitAccepts
<1>2. /\ nextId' - 1 = (nextId - 1) + 1
      /\ PendingSubmissions' = PendingSubmissions
             \cup (IF Unsettled(cells'[i]) THEN {Waiting(cells'[i])} ELSE {})
  BY <1>1, AcceptsPromise
<1>3. Unsettled(cells'[i])
  BY <1>1 DEF Unsettled, Occupied, Settled
<1>4. nextId = (nextId - 1) + 1
  BY DEF ReplInv, ScalarsOK
<1>5. Waiting(cells'[i]) = [id |-> (nextId - 1) + 1, cmd |-> c, started |-> FALSE]
  BY <1>1, <1>4 DEF Waiting, Accepts
<1> QED
  BY <1>2, <1>3, <1>5 DEF Promise!AcceptSubmission

LEMMA NotifyPromise ==
    ASSUME ReplInv, Notify
    PROVE  Promise!AcceptNotice
<1>1. PICK i \in Cells : /\ Accepts(i, Notice)
                         /\ Settled(cells'[i]) /\ cells'[i].closed
  BY NotifyAccepts
<1>2. ~Unsettled(cells'[i])
  BY <1>1 DEF Unsettled
<1> QED
  BY <1>1, <1>2, AcceptsPromise DEF Promise!AcceptNotice

LEMMA NextPromise ==
    ASSUME ReplInv, [Next]_vars
    PROVE  Promise!SubmissionNext \/ UNCHANGED <<nextId - 1, PendingSubmissions>>
<1>1. CASE UNCHANGED vars
  BY <1>1, UndisturbedReflexive, QuietPromise DEF vars, ReplInv
<1>2. CASE \E p \in Pids : ProcSignal(p) \/ ProcEnd(p)
  BY <1>2, ChildInv, QuietPromise
<1>3. CASE \E c \in Commands : Submit(c)
  BY <1>3, SubmitPromise DEF Promise!SubmissionNext
<1>4. CASE Notify
  BY <1>4, NotifyPromise DEF Promise!SubmissionNext
<1>5. CASE LeaveJob \/ SuspendJob
  BY <1>5, KeyboardInv, QuietPromise
<1>6. CASE \E i \in Cells : PtyRequest(i) \/ PtyHangup(i)
  BY <1>6, PtyInv, QuietPromise
<1>7. ASSUME NEW p \in Pids, ReapStop(p) \/ ReapContinue(p) \/ ReapEnd(p)
      PROVE  Promise!SubmissionNext \/ UNCHANGED <<nextId - 1, PendingSubmissions>>
  <2>1. CASE ReapStop(p) \/ ReapContinue(p)
    BY <2>1, ReapStateInv, QuietPromise
  <2>2. CASE ReapEnd(p)
    <3>1. PICK i \in Cells : Moves(cells, cells', i) /\ HasJob(cells[i])
                             /\ Settled(cells'[i])
      BY <2>2, ReapEndInv
    <3>2. Unsettled(cells[i]) /\ cells[i].state # "queued"
      BY <3>1 DEF ReplInv, StoreOK, CellOK, Unsettled, Occupied, Settled
    <3> QED
      BY <2>2, <3>1, <3>2, ReapEndInv, MovesPromise
  <2> QED
    BY <1>7, <2>1, <2>2
<1>8. CASE RedirectionAnswer
  BY <1>8, RedirectionInv, QuietPromise
<1>9. CASE BeginTurn
  <2>1. CASE Undisturbed(cells, cells')
    BY <1>9, <2>1, BeginTurnInv, QuietPromise
  <2>2. ASSUME NEW i \in Cells, Moves(cells, cells', i),
               cells[i].state = "starting", Settled(cells'[i])
        PROVE  Promise!SubmissionNext
    <3>1. Unsettled(cells[i]) /\ cells[i].state # "queued"
      BY <2>2 DEF Unsettled, Occupied, Settled
    <3> QED
      BY <1>9, <2>2, <3>1, BeginTurnInv, MovesPromise
  <2> QED
    BY <1>9, <2>1, <2>2, BeginTurnInv
<1>10. CASE DispatchNext
  <2>1. PICK i \in Cells : Dispatches(i)
    BY <1>10, DispatchInv
  <2> QED
    BY <2>1, MovesPromise DEF Dispatches, MayStart
<1> QED
  BY <1>1, <1>2, <1>3, <1>4, <1>5, <1>6, <1>7, <1>8, <1>9, <1>10 DEF Next, Reap

LEMMA InitPromise == Init => Promise!SubmissionInit
<1> SUFFICES ASSUME Init PROVE Promise!SubmissionInit
  OBVIOUS
<1>1. nextId - 1 = 0
  BY DEF Init
<1>2. PendingSubmissions = {}
  BY DEF Init, PendingSubmissions, Unsettled, Occupied, FreeCell
<1> QED
  BY <1>1, <1>2 DEF Promise!SubmissionInit

(* The managed REPL keeps the promise of Submissions: an accepted command  *)
(* starts and settles at most once, and in the order that barriers,        *)
(* blockers and controls prescribe (gsh_async_repl_next).                  *)
THEOREM ReplKeepsPromise == Spec => KeepsPromise
<1>1. ReplInv /\ [Next]_vars =>
          [Promise!SubmissionNext]_<<nextId - 1, PendingSubmissions>>
  BY NextPromise
<1> QED
  BY <1>1, InitPromise, ReplInvariant, PTL
  DEF Spec, KeepsPromise, Promise!SubmissionSpec

=============================================================================
