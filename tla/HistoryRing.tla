----------------------------- MODULE HistoryRing -----------------------------
(***************************************************************************)
(* The history of a shell (history_store.c): a ring of commands whose      *)
(* numbers go on when it overwrites, what recall and search read from it,  *)
(* and the range that `fc' takes from it (builtin_fc.c).                   *)
(***************************************************************************)
EXTENDS Integers, Sequences, SequencesExt, FiniteSetsExt

CONSTANT HistoryCap          \* GSH_HISTORY_CAP
ASSUME HistoryCapAssumption == HistoryCap \in Nat \ {0}

NoEntry == <<>>
EmptyRing == [slots |-> [i \in 0..HistoryCap - 1 |-> NoEntry], start |-> 0, count |-> 0,
              nextEvent |-> 1]
PhysicalIndex(ring, chronological) == (ring.start + chronological) % HistoryCap

\* A command that is the newest one already is not added where duplicates are
\* left out; a full ring overwrites its oldest.
Add(ring, command, deduplicate) ==
  LET newest == ring.slots[PhysicalIndex(ring, ring.count - 1)]
      full == ring.count = HistoryCap
      slot == IF full THEN ring.start ELSE PhysicalIndex(ring, ring.count)
  IN IF deduplicate /\ ring.count # 0 /\ newest = command THEN ring
     ELSE [slots |-> [ring.slots EXCEPT ![slot] = command],
           start |-> IF full THEN (ring.start + 1) % HistoryCap ELSE ring.start,
           count |-> IF full THEN ring.count ELSE ring.count + 1,
           nextEvent |-> ring.nextEvent + 1]
AddAll(ring, commands, deduplicate) ==
  FoldLeft(LAMBDA done, command : Add(done, command, deduplicate), ring, commands)

OldestEvent(ring) == IF ring.count = 0 THEN 0 ELSE ring.nextEvent - ring.count
NewestEvent(ring) == IF ring.count = 0 THEN 0 ELSE ring.nextEvent - 1
HasEvent(ring, event) == ring.count # 0 /\ event \in OldestEvent(ring)..ring.nextEvent - 1
Event(ring, event) == ring.slots[PhysicalIndex(ring, event - OldestEvent(ring))]
Entries(ring) == [i \in 1..ring.count |-> Event(ring, OldestEvent(ring) + i - 1)]

\* Recall counts from the newest command, which is at 0.
FromNewest(ring, position) == ring.slots[PhysicalIndex(ring, ring.count - position - 1)]
HoldsQuery(text, query) ==
  \E i \in 0..Len(text) - Len(query) : SubSeq(text, i + 1, i + Len(query)) = query
SearchReverse(ring, query, before) ==
  LET found == {p \in before..ring.count - 1 : HoldsQuery(FromNewest(ring, p), query)}
  IN IF found = {} THEN -1 ELSE Min(found)

------------------------------------------------------------------------------
(* fc.  An operand is a number or a prefix; the command that calls fc is    *)
(* not eligible.                                                            *)

\* MUTANT: the search starts at the newest command, fc itself.
FindFromNewest(ring, prefix, before) ==
  LET found == {e \in OldestEvent(ring)..NewestEvent(ring) : IsPrefix(prefix, Event(ring, e))}
  IN IF found = {} THEN 0 ELSE Max(found)
FindPrefix(ring, prefix, before) ==
  LET from == IF before >= ring.nextEvent THEN NewestEvent(ring) ELSE before
      found == {e \in OldestEvent(ring)..from : IsPrefix(prefix, Event(ring, e))}
  IN IF ring.count = 0 \/ found = {} THEN 0 ELSE Max(found)
ResolveEvent(ring, operand, eligibleLast) ==
  LET number == operand.number
      event == IF number < 0 THEN eligibleLast + 1 + number ELSE number
  IN IF operand.prefix # NoEntry THEN FindPrefix(ring, operand.prefix, eligibleLast)
     ELSE IF (number < 0 /\ -number > eligibleLast) \/ ~HasEvent(ring, event) THEN 0 ELSE event

\* The first and the last event, <<0, 0>> where fc fails; listed is the number of
\* events that a listing shows.
ResolveRange(ring, operands, list, listed, excludeNewest) ==
  LET newest == NewestEvent(ring)
      eligible == IF excludeNewest THEN newest - 1 ELSE newest
      oldest == OldestEvent(ring)
      Resolved(i) == ResolveEvent(ring, operands[i], eligible)
      first == IF operands # <<>> THEN Resolved(1)
               ELSE IF list THEN Max({oldest, eligible - listed + 1}) ELSE eligible
      last == IF Len(operands) = 2 THEN Resolved(2)
              ELSE IF operands # <<>> THEN first ELSE eligible
  IN IF newest = 0 \/ eligible < oldest \/ first = 0 \/ last = 0 THEN <<0, 0>> ELSE <<first, last>>
Listing(ring, range, reverse) ==
  LET from == IF reverse THEN range[2] ELSE range[1]
      to == IF reverse THEN range[1] ELSE range[2]
      step == IF from <= to THEN 1 ELSE -1
      n == (to - from) * step + 1
  IN [i \in 1..n |-> Event(ring, from + (i - 1) * step)]

=============================================================================
