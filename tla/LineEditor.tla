----------------------------- MODULE LineEditor -----------------------------
(***************************************************************************)
(* The editor of the terminal (gsh.c): what a byte does to the line, to    *)
(* recall and search in the history, to an escape sequence and to a paste. *)
(* An operation is a function of the editor's state.                       *)
(***************************************************************************)
EXTENDS HistoryRing

CONSTANTS
  LineCap, PendingCap,         \* LINE_CAP of a line, and of the lines of a command
  HistoryShown,                \* history.max_entries
  Incomplete(_)                \* the parser's answer on a command's lines

NoLine == <<>>
FreshEditor ==
  [line |-> NoLine, cursor |-> 0, pending |-> NoLine,
   navigating |-> FALSE, position |-> 0, draft |-> NoLine,
   searching |-> FALSE, query |-> NoLine, matched |-> 0, searchDraft |-> NoLine,
   escape |-> 0, sequence |-> NoLine, paste |-> FALSE, match |-> 0, lastWasCr |-> FALSE,
   ring |-> EmptyRing, does |-> "nothing"]
Shows(e, text) == [e EXCEPT !.line = text, !.cursor = Len(text)]
Does(e, what) == [e EXCEPT !.does = what]

------------------------------------------------------------------------------
(* Recall and search.  *)

Available(e) == Min({e.ring.count, HistoryShown})
ResetHistory(e) ==
  [e EXCEPT !.navigating = FALSE, !.position = 0, !.draft = NoLine,
            !.searching = FALSE, !.query = NoLine, !.matched = 0, !.searchDraft = NoLine]
LoadPosition(e, position) == Shows(e, FromNewest(e.ring, position))
HistoryPrevious(e) ==
  LET older == IF ~e.navigating
               THEN [e EXCEPT !.draft = e.line, !.position = 0, !.navigating = TRUE]
               ELSE [e EXCEPT !.position = IF @ + 1 < Available(e) THEN @ + 1 ELSE @]
  IN IF Available(e) = 0 THEN e ELSE LoadPosition(older, older.position)
HistoryNext(e) ==
  IF ~e.navigating THEN e
  ELSE IF e.position # 0 THEN LoadPosition([e EXCEPT !.position = @ - 1], e.position - 1)
  ELSE Shows([e EXCEPT !.navigating = FALSE], e.draft)

FindMatch(e, before) ==
  LET position == SearchReverse(e.ring, e.query, before)
  IN IF position = -1 \/ position >= Available(e) THEN e
     ELSE LoadPosition([e EXCEPT !.matched = position], position)
SearchHistory(e) ==
  IF Available(e) = 0 THEN e
  ELSE IF ~e.searching
  THEN FindMatch([e EXCEPT !.searchDraft = e.line, !.query = NoLine, !.searching = TRUE], 0)
  ELSE FindMatch(e, e.matched + 1)
EndSearch(e) == [e EXCEPT !.searching = FALSE, !.query = NoLine]
CancelSearch(e) == Shows(EndSearch(e), e.searchDraft)
AcceptSearch(e) == [EndSearch(e) EXCEPT !.navigating = FALSE]

------------------------------------------------------------------------------
(* The line.  A character may have more than one byte, a lead and more.  *)

Lead == "lead"
More == "more"
Previous(line, cursor) ==
  Max({0} \cup {i \in 1..cursor - 1 : line[i + 1] # More})
Following(line, cursor) ==
  Min({Len(line)} \cup {i \in cursor + 1..Len(line) - 1 : line[i + 1] # More})
MoveCursor(e, right) ==
  [e EXCEPT !.cursor = IF right THEN Following(e.line, @) ELSE Previous(e.line, @)]
EraseFrom(line, cursor) == Previous(line, cursor)
ErasePrevious(e) ==
  LET begin == EraseFrom(e.line, e.cursor)
  IN IF e.cursor = 0 THEN e
     ELSE [e EXCEPT !.cursor = begin,
             !.line = SubSeq(@, 1, begin) \o SubSeq(@, e.cursor + 1, Len(@))]
EraseQuery(e) ==
  IF e.query = NoLine THEN e
  ELSE FindMatch([e EXCEPT !.query = SubSeq(@, 1, Previous(@, Len(@)))], 0)

Controls == {"escape", "newline", "return", "erase", "kill", "search", "interrupt", "end", "clear"}
Printable(byte) == byte \notin Controls
Insert(e, byte) ==
  IF (Printable(byte) \/ (e.paste /\ byte = "newline")) /\ Len(e.line) < LineCap - 1
  THEN [e EXCEPT !.line = SubSeq(@, 1, e.cursor) \o <<byte>> \o SubSeq(@, e.cursor + 1, Len(@)),
                 !.cursor = @ + 1]
  ELSE e
RECURSIVE InsertAll(_, _)
InsertAll(e, bytes) == IF bytes = NoLine THEN e ELSE InsertAll(Insert(e, Head(bytes)), Tail(bytes))

------------------------------------------------------------------------------
(* Enter and the interrupt. *)

EndPaste(e) == [e EXCEPT !.paste = FALSE, !.match = 0, !.lastWasCr = FALSE]
CancelLine(e) ==
  LET idle == [e EXCEPT !.pending = NoLine, !.escape = 0, !.sequence = NoLine]
  IN Shows(ResetHistory(EndPaste(idle)), NoLine)
\* The command is refused, or waits for its next line, or is complete.
AcceptLine(e) ==
  LET command == e.pending \o e.line
      taken == Shows(ResetHistory(EndPaste([e EXCEPT !.escape = 0, !.sequence = NoLine])), NoLine)
  IN IF Len(command) >= PendingCap THEN Shows([e EXCEPT !.pending = NoLine], NoLine)
     ELSE IF ~Incomplete(command) THEN Does([taken EXCEPT !.pending = command], "submit")
     ELSE [taken EXCEPT !.pending = IF Len(command) + 1 >= PendingCap THEN NoLine
                                    ELSE Append(command, "newline")]
\* A complete command is recorded if the managed store takes it; one that it
\* refuses goes back to the line if it is one line.
Submitted(e, accepted) ==
  LET done == Does([e EXCEPT !.pending = NoLine], "nothing")
  IN IF accepted THEN [done EXCEPT !.ring = IF e.pending = NoLine THEN @ ELSE Add(@, e.pending, TRUE)]
     ELSE IF "newline" \in Range(e.pending) THEN done ELSE Shows(done, e.pending)

------------------------------------------------------------------------------
(* A byte, offered to one after the other. *)

PasteEnd == <<"escape", "[", "2", "0", "1", "~">>
\* MUTANT: the bytes of a terminator that was not one are forgotten.
ForgetPrefix(e) == [e EXCEPT !.match = 0]
ReleasePrefix(e) == InsertAll([e EXCEPT !.match = 0], SubSeq(PasteEnd, 1, e.match))
PasteInput(e, byte) ==
  LET released == ReleasePrefix(e)
  IN IF byte = PasteEnd[e.match + 1]
     THEN IF e.match + 1 = Len(PasteEnd) THEN EndPaste(e) ELSE [e EXCEPT !.match = @ + 1]
     ELSE IF byte = PasteEnd[1] THEN [released EXCEPT !.match = 1]
     ELSE IF byte = "newline" /\ e.lastWasCr THEN [released EXCEPT !.lastWasCr = FALSE]
     ELSE Insert([released EXCEPT !.lastWasCr = byte = "return"],
                 IF byte = "return" THEN "newline" ELSE byte)

FinishSequence(e, byte) ==
  LET done == [e EXCEPT !.sequence = NoLine, !.escape = 0]
      plain == e.sequence = NoLine
  IN CASE byte = "~" /\ e.sequence = <<"2", "0", "0">> -> [EndPaste(done) EXCEPT !.paste = TRUE]
       [] plain /\ byte = "A" -> IF e.searching THEN SearchHistory(done) ELSE HistoryPrevious(done)
       [] plain /\ byte = "B" -> IF e.searching THEN AcceptSearch(done) ELSE HistoryNext(done)
       [] plain /\ byte = "C" -> IF e.searching THEN AcceptSearch(done) ELSE MoveCursor(done, TRUE)
       [] plain /\ byte = "D" /\ ~e.searching -> MoveCursor(done, FALSE)
       [] OTHER -> done
SequenceCap == 4             \* of the bytes of a sequence, of which 3 are known
Parameters == {"0", "1", "2", " ", "/", "-"}
EscapeInput(e, byte) ==
  IF e.escape = 1
  THEN IF byte = "[" THEN [e EXCEPT !.escape = 2, !.sequence = NoLine]
       ELSE IF e.searching THEN CancelSearch([e EXCEPT !.escape = 0])
       ELSE [e EXCEPT !.escape = 0]
  ELSE IF byte \in Parameters
  THEN IF Len(e.sequence) < SequenceCap THEN [e EXCEPT !.sequence = Append(@, byte)]
       ELSE [e EXCEPT !.escape = 0, !.sequence = NoLine]
  ELSE IF Printable(byte) /\ byte # "tab" /\ byte # More THEN FinishSequence(e, byte)
  ELSE e

SearchTakes(e, byte) ==
  byte = "search" \/ (e.searching /\ (byte \in {"return", "newline", "erase", "kill"} \/ Printable(byte)))
SearchInput(e, byte) ==
  CASE byte = "search" -> SearchHistory(e)
    [] byte \in {"return", "newline"} -> AcceptLine(EndSearch(e))
    [] byte = "erase" -> EraseQuery(e)
    [] byte = "kill" -> FindMatch([e EXCEPT !.query = NoLine], 0)
    [] OTHER -> IF Len(e.query) < LineCap - 1
                THEN FindMatch([e EXCEPT !.query = Append(@, byte)], 0) ELSE e

ControlInput(e, byte) ==
  CASE byte = "escape" -> [e EXCEPT !.escape = 1]
    [] byte \in {"return", "newline"} -> AcceptLine(e)
    [] byte = "tab" -> Does(e, "complete")
    [] byte = "end" -> IF e.line # NoLine THEN e
                       ELSE IF e.pending # NoLine THEN CancelLine(e) ELSE Does(e, "quit")
    [] byte = "erase" -> ErasePrevious(e)
    [] byte = "kill" -> Shows(e, NoLine)
    [] OTHER -> Insert(e, byte)

\* In the managed shell an interrupt is a byte.
ProcessByte(e, byte) ==
  IF byte = "interrupt" THEN CancelLine(e)
  ELSE IF e.paste THEN PasteInput(e, byte)
  ELSE IF e.escape # 0 THEN EscapeInput(e, byte)
  ELSE IF SearchTakes(e, byte) THEN SearchInput(e, byte)
  ELSE ControlInput(e, byte)

\* No byte followed an escape for a while.
EscapeAlone(e) ==
  LET done == [e EXCEPT !.escape = 0] IN IF e.searching THEN CancelSearch(done) ELSE done

=============================================================================
