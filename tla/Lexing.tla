------------------------------- MODULE Lexing -------------------------------
(***************************************************************************)
(* The end of a word (posix_lexer.c): a stack of the quotes and expansions *)
(* that are open decides whether a blank or an operator ends the word.     *)
(* Text is read byte by byte: what opens an expansion is two or three of   *)
(* them.  "a" stands for every byte without a meaning of its own, a blank  *)
(* for the ones that end a word, "(" and ")" for the operators; the null   *)
(* byte, which ends the scan with an error, is left out.                   *)
(* And the here-documents of a script (posix_parser.c): the lines after a  *)
(* command that are no commands.                                           *)
(***************************************************************************)
EXTENDS Integers, Sequences, SequencesExt, FiniteSetsExt

CONSTANTS
  ContextCap,     \* CONTEXT_CAP
  HeredocCap      \* GSH_PARSE_REDIRECT_CAP

Single == "single quote"
Quote == "double quote"
Backquote == "backquote"
Backslash == "backslash"
Dollar == "$"
Blank == " "
Bytes == {"a", Single, Quote, Backquote, Backslash, Dollar, Blank, "(", ")", "{", "}"}

\* What is open: a quote by its own byte, the rest by what opens it.  The
\* longest is tried first.
Parenthesis == <<"(">>
Openings == << <<Dollar, "(", "(">>, <<Dollar, "(">>, <<Dollar, "{">>, <<Dollar, Single>> >>
Arithmetic == Openings[1]
Command == Openings[2]
Parameter == Openings[3]
DollarSingle == Openings[4]
Quotes == {<<Single>>, <<Quote>>, <<Backquote>>, DollarSingle}

\* The scanner: what is open, the innermost last, how far it is, and whether it
\* has given the word up.
Scanner(text) ==
  [text |-> text, offset |-> 0, open |-> <<>>, status |-> "ok", failed |-> FALSE]
StartsWith(l, text) == IsPrefix(text, SubSeq(l.text, l.offset + 1, Len(l.text)))
Skip(l, n) == [l EXCEPT !.offset = @ + n]
PushContext(l, context) ==
  IF Len(l.open) = ContextCap THEN [l EXCEPT !.status = "limit"]
  ELSE [Skip(l, Len(context)) EXCEPT !.open = Append(@, context)]
PopContext(l, n) == [Skip(l, n) EXCEPT !.open = Front(@)]
\* A quote or a parenthesis that finds no room ends the scan.
PushOrFail(l, context) ==
  LET pushed == PushContext(l, context)
  IN [pushed EXCEPT !.failed = Len(l.open) = ContextCap]

\* A dollar that opens nothing is a byte like any other; one that finds no room
\* is passed as well, and the scan goes on with the status it has left.
BeginSubstitution(l) ==
  LET opening == {i \in DOMAIN Openings : StartsWith(l, Openings[i])}
      pushed == PushContext(l, Openings[Min(opening)])
  IN IF opening = {} THEN Skip(l, 1)
     ELSE IF Len(l.open) = ContextCap THEN Skip(pushed, 1) ELSE pushed

\* MUTANT: a backslash does not take the byte behind it along.
EscapesNothing(l) == Skip(l, 1)
\* The last byte of the input may be a backslash.
ConsumeEscape(l) == Skip(l, IF l.offset + 1 = Len(l.text) THEN 1 ELSE 2)

ScanPlain(l, byte) ==
  CASE byte = Backslash -> ConsumeEscape(l)
    [] byte \in {Single, Quote, Backquote} -> PushOrFail(l, <<byte>>)
    [] byte = Dollar -> BeginSubstitution(l)
    [] OTHER -> Skip(l, 1)

ScanQuoted(l, byte, context) ==
  CASE byte = Last(context) -> PopContext(l, 1)
    [] byte = Backslash /\ context # <<Single>> -> ConsumeEscape(l)
    [] context = <<Quote>> /\ byte = Backquote -> PushOrFail(l, <<byte>>)
    [] context = <<Quote>> /\ byte = Dollar -> BeginSubstitution(l)
    [] OTHER -> Skip(l, 1)

ScanNested(l, byte, context) ==
  CASE byte \in {Backslash, Single, Quote, Backquote, Dollar} -> ScanPlain(l, byte)
    [] context = Parameter /\ byte = "}" -> PopContext(l, 1)
    [] context \in {Command, Parenthesis, Arithmetic} /\ byte = "(" -> PushOrFail(l, Parenthesis)
    [] context \in {Command, Parenthesis} /\ byte = ")" -> PopContext(l, 1)
    [] context = Arithmetic /\ StartsWith(l, <<")", ")">>) -> PopContext(l, 2)
    [] OTHER -> Skip(l, 1)

ScanByte(l) ==
  LET byte == l.text[l.offset + 1]
  IN CASE l.open = <<>> -> ScanPlain(l, byte)
       [] l.open # <<>> /\ Last(l.open) \in Quotes -> ScanQuoted(l, byte, Last(l.open))
       [] OTHER -> ScanNested(l, byte, Last(l.open))

RECURSIVE ScanWord(_)
ScanWord(l) ==
  IF l.failed THEN l
  ELSE IF l.offset = Len(l.text)
       THEN IF l.open = <<>> THEN l ELSE [l EXCEPT !.status = "incomplete", !.failed = TRUE]
  ELSE IF l.open = <<>> /\ l.text[l.offset + 1] \in {Blank, "(", ")"} THEN l
  ELSE ScanWord(ScanByte(l))

------------------------------------------------------------------------------
(* The grammar of a word: a piece with pieces in it.  The promise is that   *)
(* the scanner ends where the piece ends.                                   *)

\* What a piece begins and ends with.
Delimiters(is) ==
  CASE is = "single" -> << <<Single>>, <<Single>> >>
    [] is = "dollar" -> << <<Dollar, Single>>, <<Single>> >>
    [] is = "double" -> << <<Quote>>, <<Quote>> >>
    [] is = "backquote" -> << <<Backquote>>, <<Backquote>> >>
    [] is = "parameter" -> << <<Dollar, "{">>, <<"}">> >>
    [] is = "command" -> << <<Dollar, "(">>, <<")">> >>
    [] is = "subshell" -> << <<"(">>, <<")">> >>
    [] is = "arithmetic" -> << <<Dollar, "(", "(">>, <<")", ")">> >>

RECURSIVE WordText(_)
WordText(piece) ==
  CASE piece.is = "byte" -> <<piece.byte>>
    [] piece.is = "escape" -> <<Backslash, piece.byte>>
    [] OTHER -> LET inside == FoldLeft(LAMBDA done, p : done \o WordText(p), <<>>, piece.of)
                IN Delimiters(piece.is)[1] \o inside \o Delimiters(piece.is)[2]

\* What may stand in a piece: quotes hold no quote of their kind, and what
\* looks like the end of a piece does not stand in it on its own.
MayHold(outer, inner) ==
  CASE outer = "single" -> inner.is = "byte" /\ inner.byte # Single
    [] outer = "dollar" -> inner.is = "escape" \/ (inner.is = "byte" /\ inner.byte # Single)
    [] outer = "double" ->
         \/ inner.is \in {"escape", "backquote", "parameter", "command", "arithmetic"}
         \/ inner.is = "byte" /\ inner.byte # Quote
    [] outer = "backquote" ->
         inner.is = "escape" \/ (inner.is = "byte" /\ inner.byte # Backquote)
    [] outer = "parameter" ->
         /\ inner.is # "subshell"
         /\ inner.is = "byte" => inner.byte \in {"a", Dollar, Blank, "(", ")"}
    [] outer \in {"command", "subshell"} ->
         inner.is = "byte" => inner.byte \in {"a", Dollar, Blank, "}"}
    [] outer = "arithmetic" -> inner.is = "byte" => inner.byte \in {"a", Dollar, Blank}

\* What may follow in it: a dollar means itself where nothing behind it makes an
\* expansion of it.  In these quotes it always does.
DollarIsByte(outer) == outer \in {"single", "dollar", "backquote"}
MayStandBefore(outer, inner, next) ==
  \/ DollarIsByte(outer) \/ inner.is # "byte" \/ inner.byte # Dollar
  \/ Head(WordText(next)) \notin {"(", "{", Single}
\* And how it may begin: two parentheses behind a dollar are arithmetic.
MayBegin(outer, inner) == outer = "command" => inner.is # "subshell"
MayWrap(outer, pieces) ==
  /\ \A i \in DOMAIN pieces : MayHold(outer, pieces[i])
  /\ \A i \in 1..Len(pieces) - 1 : MayStandBefore(outer, pieces[i], pieces[i + 1])
  /\ MayBegin(outer, Head(pieces))

------------------------------------------------------------------------------
(* Here-documents.  A script is a sequence of lines.  A line that is read   *)
(* as a command has its << operators, each with the delimiter and whether   *)
(* it is quoted and strips tabs; a line that is read as text has its text,  *)
(* whether a tab leads it and whether a backslash ends it.                  *)

\* The text of a body line as it is compared: lines that a backslash ends are
\* joined where the delimiter is not quoted, and a tab is stripped at the
\* beginning, as long as nothing has been compared.
RECURSIVE Compared(_, _, _, _)
Compared(lines, i, pending, text) ==
  LET line == lines[i]
      tab == IF line.tab /\ ~(pending.strip /\ text = <<>>) THEN <<"tab">> ELSE <<>>
      continued == ~pending.quoted /\ line.continued /\ i < Len(lines)
      end == IF line.continued /\ ~continued THEN <<Backslash>> ELSE <<>>
      joined == text \o tab \o line.text \o end
  IN IF continued THEN Compared(lines, i + 1, pending, joined)
     ELSE [text |-> joined, next |-> i + 1]

\* Where a document that begins at a line ends: the line of its delimiter.
RECURSIVE FindDelimiter(_, _, _)
FindDelimiter(lines, i, pending) ==
  IF i > Len(lines) THEN [found |-> FALSE, last |-> i, next |-> i]
  ELSE LET line == Compared(lines, i, pending, <<>>)
       IN IF line.text = pending.delimiter THEN [found |-> TRUE, last |-> i - 1, next |-> line.next]
          ELSE FindDelimiter(lines, line.next, pending)

\* MUTANT: each document is looked for behind the command line.
FirstDocuments(t, lines, pending) ==
  LET Collect(done, entry) ==
        LET end == FindDelimiter(lines, t.at, entry)
        IN IF ~end.found THEN [done EXCEPT !.status = "incomplete"]
           ELSE [done EXCEPT !.heredocs = Append(@, [first |-> t.at, last |-> end.last,
                                                     next |-> end.next, of |-> entry]),
                             !.at = end.next]
  IN FoldLeft(Collect, t, pending)
\* The documents of one command line, one after the other.
CollectHeredocs(t, lines, pending) ==
  LET Collect(done, entry) ==
        LET end == FindDelimiter(lines, done.at, entry)
        IN IF done.status # "ok" THEN done
           ELSE IF ~end.found THEN [done EXCEPT !.status = "incomplete"]
           ELSE IF Len(done.heredocs) = HeredocCap THEN [done EXCEPT !.status = "limit"]
           ELSE [done EXCEPT !.heredocs = Append(@, [first |-> done.at, last |-> end.last,
                                                     next |-> end.next, of |-> entry]),
                             !.at = end.next]
  IN FoldLeft(Collect, t, pending)

RECURSIVE Tokenize(_, _)
Tokenize(t, lines) ==
  LET line == lines[t.at]
      after == CollectHeredocs([t EXCEPT !.at = @ + 1, !.commands = Append(@, t.at)], lines,
                               line.heredocs)
  IN IF t.status # "ok" \/ t.at > Len(lines) THEN t
     ELSE Tokenize(after, lines)
Tokenized(lines) ==
  Tokenize([at |-> 1, commands |-> <<>>, heredocs |-> <<>>, status |-> "ok"], lines)

=============================================================================
