------------------------------- MODULE Storage -------------------------------
(***************************************************************************)
(* What several shells keep on disk: the history file and the journal of   *)
(* the model's requests.  They share no state, so a behaviour is of one of *)
(* them.                                                                   *)
(***************************************************************************)
EXTENDS HistoryFile, LlmJournal

CONSTANT Listed                \* the events that fc lists without operands
ASSUME StorageAssumption == Listed \in Nat \ {0}

VARIABLE part
vars == <<part, historyVars, journalVars>>

Init == part \in {"history", "journal"} /\ HistoryInit /\ JournalInit
        /\ (part = "journal" => file = <<>>)
HistoryNext == /\ part = "history" /\ \E s \in Shells : HistoryStep(s)
               /\ UNCHANGED <<part, journalVars>>
JournalNext == /\ part = "journal" /\ \E o \in Owners : JournalStep(o)
               /\ UNCHANGED <<part, historyVars>>
Next == HistoryNext \/ JournalNext
Spec == Init /\ [][Next]_vars

------------------------------------------------------------------------------
(* The promises. *)

\* Shells that exit at once all have their whole session in the file, in turn,
\* and one that dies leaves the file as it was (history_file.c:46, README.md:971).
Log == INSTANCE HistoryLog WITH log <- FileCommands, session <- [s \in Shells |-> SessionOf(s)]
FileIsLog == Log!Spec

\* New records never remain behind corrupt data (llm_journal.c:271): only the
\* last record of either file may be torn.
NothingBehindTorn ==
  \A records \in {journal.current, journal.previous} :
    \A i \in DOMAIN records : records[i].whole \/ i = Len(records)

\* A shell that ends has saved what it had to save, or has said that it did not
\* (README.md:952): its session, and every record that it accepted.
SessionSaved(s) ==
  shell[s].at = "gone" /\ SessionOf(s) # <<>> => s \in saved \/ shell[s].told
RecordsSaved(o) ==
  queue[o].at = "done" /\ ~queue[o].warned =>
    {<<o, n>> : n \in 1..queue[o].accepted} \subseteq written
LossIsReported == (\A s \in Shells : SessionSaved(s)) /\ (\A o \in Owners : RecordsSaved(o))

\* What is read is the newest of what was recorded: the default listing of
\* fc ends before the command that calls it (builtin_fc.c:133), a search finds
\* the newest match (history_store.c:122), and a request is told the last
\* exchanges whose records are whole (llm_journal.c:470).
Newest(s, n) == SubSeq(s, IF Len(s) > n THEN Len(s) - n + 1 ELSE 1, Len(s))
FcListsNewest(ring) ==
  LET range == ResolveRange(ring, <<>>, TRUE, Listed, TRUE)
      eligible == Front(Entries(ring))
  IN ring.count > 1 =>
       /\ Listing(ring, range, FALSE) = Newest(eligible, Listed)
       /\ Listing(ring, range, TRUE) = Reverse(Newest(eligible, Listed))
PrefixFindsNewest(ring, command) ==
  LET found == {i \in 1..ring.count - 1 : IsPrefix(command, Entries(ring)[i])}
      operand == [number |-> 0, prefix |-> command]
      range == ResolveRange(ring, <<operand>>, FALSE, Listed, TRUE)
      searched == SearchReverse(ring, command, 1)
  IN IF found = {} THEN range = <<0, 0>>
     ELSE /\ Listing(ring, range, FALSE) = <<Entries(ring)[Max(found)]>>
          /\ range[1] = NewestEvent(ring) - ring.count + Max(found)
          /\ searched <= ring.count - Max(found)
Told(talk, record) ==
  IF record.kind # "command" /\ record.whole THEN Append(talk, record) ELSE talk
Talk(records) == FoldLeft(Told, <<>>, records)
ReadersSeeTheNewest ==
  /\ \A s \in Shells :
       /\ FcListsNewest(shell[s].rings.ring)
       /\ \A c \in Commands : PrefixFindsNewest(shell[s].rings.ring, c)
  /\ Context(journal.current) = Newest(Talk(journal.current), 2 * Exchanges)

=============================================================================
