----------------------------- MODULE HistoryLog -----------------------------
(***************************************************************************)
(* What the history file promises to several shells: a log to which a      *)
(* shell that exits appends its session as a whole, once, and which keeps  *)
(* its newest commands.                                                    *)
(***************************************************************************)
EXTENDS Integers, Sequences, SequencesExt

CONSTANTS
  Shells, Commands,
  HistoryCap, MaxEntries,      \* what a session, and what the log keeps
  Deduplicate

VARIABLES log, session, saved
vars == <<log, session, saved>>

Kept(s, n) == SubSeq(s, IF Len(s) > n THEN Len(s) - n + 1 ELSE 1, Len(s))
Appended(commands, more, deduplicate) ==
  FoldLeft(LAMBDA done, c : IF deduplicate /\ done # <<>> /\ Last(done) = c THEN done
                            ELSE Append(done, c), commands, more)

Init == saved = {} /\ session = [s \in Shells |-> <<>>]
Take(s, command) ==
  /\ s \notin saved
  /\ session' = [session EXCEPT ![s] = Kept(Append(@, command), HistoryCap)]
  /\ UNCHANGED <<log, saved>>
Save(s) ==
  /\ s \notin saved /\ session[s] # <<>>
  /\ saved' = saved \cup {s} /\ UNCHANGED session
  /\ log' = Kept(Appended(log, session[s], Deduplicate[s]), MaxEntries[s])
Next == \E s \in Shells : Save(s) \/ \E c \in Commands : Take(s, c)
Spec == Init /\ [][Next]_vars

=============================================================================
