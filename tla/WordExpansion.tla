---------------------------- MODULE WordExpansion ----------------------------
(***************************************************************************)
(* The expansion of one word into fields (native_plan.c).  A first pass    *)
(* writes the text of the word with the provenance of every byte, bytes    *)
(* that stand for nothing (an opened quote, an empty or a finished         *)
(* positional parameter) included; a second pass splits that text in       *)
(* place.  A word is a sequence of pieces, its quotes already paired.      *)
(***************************************************************************)
EXTENDS Integers, Sequences, SequencesExt, FiniteSetsExt

CONSTANTS
  Names,        \* the variables a word mentions
  White,        \* the characters of IFS that are white space
  NotWhite,     \* the other characters of IFS
  Separator,    \* its first character, or no character
  DepthCap      \* how deep words may be nested

Ifs == White \cup NotWhite
Nul == "nul"
Absent == <<"absent">>       \* the value of an unset variable

\* GSH_WORD_QUOTED, GSH_WORD_EXPANDED, GSH_WORD_EMPTY_MARKER and
\* GSH_WORD_FIELD_BOUNDARY.
Provenance == {"quoted", "expanded", "empty", "boundary"}
Byte(c, marks) == [c |-> c, marks |-> marks]
EmptyMarker == Byte(Nul, {"quoted", "empty"})
PositionalMarker(kind, quoted) ==
  Byte(Nul, {"expanded", kind} \cup (IF quoted THEN {"quoted"} ELSE {}))
Bytes(value, marks) == [i \in DOMAIN value |-> Byte(value[i], marks)]
CharactersOf(bytes) == [i \in DOMAIN bytes |-> bytes[i].c]

(* Pieces of a word. *)
Character(c) == [is |-> "character", value |-> <<c>>]
Escaped(c) == [is |-> "escaped", value |-> <<c>>]
Single(value) == [is |-> "single", value |-> value]
Double(word) == [is |-> "double", word |-> word]
Parameter(name, operator, colon, word) ==
  [is |-> "parameter", name |-> name, operator |-> operator, colon |-> colon, word |-> word]
Positional(kind) == [is |-> "positional", kind |-> kind]
Tilde == [is |-> "tilde"]

\* The expansion so far: the text, the variables it may assign, and how the
\* word ended.
State(vars, positional, nounset, home) ==
  [text |-> <<>>, vars |-> vars, positional |-> positional, nounset |-> nounset,
   home |-> home, status |-> "ok"]
Stop(s, status) == [s EXCEPT !.status = status]
Reserve(s, bytes) == [s EXCEPT !.text = @ \o bytes]

MarkExpansion(s, begin, quoted) ==
  [s EXCEPT !.text =
     [i \in DOMAIN @ |->
        IF i <= begin THEN @[i]
        ELSE Byte(@[i].c, @[i].marks \cup {"expanded"} \cup (IF quoted THEN {"quoted"} ELSE {}))]]

\* $@ and $*: joined by the first character of IFS where one value is wanted,
\* else one field for each parameter.
Joined(values) ==
  FoldLeft(LAMBDA done, i : done \o (IF i = 1 THEN <<>> ELSE Separator) \o values[i],
           <<>>, [i \in DOMAIN values |-> i])

ReservePositional(s, kind, mode, quoted) ==
  LET n == Len(s.positional)
      begin == Len(s.text)
      One(i) == Bytes(s.positional[i], {"expanded"} \cup (IF quoted THEN {"quoted"} ELSE {}))
                \o (IF s.positional[i] = <<>> THEN <<PositionalMarker("empty", quoted)>> ELSE <<>>)
                \o (IF i < n THEN <<PositionalMarker("boundary", quoted)>> ELSE <<>>)
  IN IF mode = "scalar" \/ (kind = "*" /\ quoted)
     THEN MarkExpansion(Reserve(s, Bytes(Joined(s.positional), {})), begin, quoted)
     ELSE IF n = 0
     THEN IF kind = "@" /\ quoted /\ begin > 0 /\ "empty" \in s.text[begin].marks
          THEN [s EXCEPT !.text = Front(@)] ELSE s
     ELSE Reserve(s, FlattenSeq([i \in 1..n |-> One(i)]))

\* Whether the operator's word takes the place of the value.
UsesWord(operator, colon, value) ==
  LET lacking == value = Absent \/ (colon /\ value = <<>>)
  IN IF operator = "+" THEN ~lacking ELSE lacking

\* ${name=word} stores the bytes the word was expanded to, from begin on.  The
\* store takes the value as a string, which ends at the first null byte.
Stored(bytes) ==
  LET nul == {i \in DOMAIN bytes : bytes[i].c = Nul}
  IN CharactersOf(IF nul = {} THEN bytes ELSE SubSeq(bytes, 1, Min(nul) - 1))

CommitOperator(s, piece, begin) ==
  CASE piece.operator = "=" ->
         [s EXCEPT !.vars[piece.name] = Stored(SubSeq(s.text, begin + 1, Len(s.text)))]
    [] piece.operator = "?" -> Stop([s EXCEPT !.text = SubSeq(@, 1, begin)], "error")
    [] OTHER -> s

RECURSIVE ExpandWord(_, _, _, _, _)
ExpandParameter(s, piece, mode, quoted, depth) ==
  LET value == s.vars[piece.name]
      begin == Len(s.text)
      text == IF value = Absent THEN <<>> ELSE value
      word == ExpandWord(s, piece.word, IF piece.operator = "?" THEN "scalar" ELSE mode,
                         FALSE, depth + 1)
      plain == MarkExpansion(Reserve(s, Bytes(text, {})), begin, quoted)
  IN CASE piece.operator = "none" ->
            IF value = Absent /\ s.nounset THEN Stop(s, "error") ELSE plain
       [] piece.operator # "none" /\ ~UsesWord(piece.operator, piece.colon, value) -> plain
       [] OTHER ->
            IF depth = DepthCap THEN Stop(s, "limit")
            ELSE IF word.status # "ok" THEN word
            ELSE MarkExpansion(CommitOperator(word, piece, begin), begin, quoted)

OpenQuote(s, mode) == IF mode = "fields" THEN Reserve(s, <<EmptyMarker>>) ELSE s

ExpandPiece(s, piece, mode, quoted, depth) ==
  CASE piece.is = "character" -> Reserve(s, Bytes(piece.value, IF quoted THEN {"quoted"} ELSE {}))
    [] piece.is = "escaped" -> Reserve(s, Bytes(piece.value, {"quoted"}))
    [] piece.is = "single" -> Reserve(OpenQuote(s, mode), Bytes(piece.value, {"quoted"}))
    [] piece.is = "double" -> ExpandWord(OpenQuote(s, mode), piece.word, mode, TRUE, depth)
    [] piece.is = "parameter" -> ExpandParameter(s, piece, mode, quoted, depth)
    [] piece.is = "positional" -> ReservePositional(s, piece.kind, mode, quoted)
    [] piece.is = "tilde" ->
         IF s.home = Absent THEN Stop(s, "unsupported")
         ELSE IF s.home = <<>> THEN OpenQuote(s, mode)
         ELSE Reserve(s, Bytes(s.home, {"quoted"}))

ExpandWord(s, word, mode, quoted, depth) ==
  FoldLeft(LAMBDA t, piece : IF t.status # "ok" THEN t
                             ELSE ExpandPiece(t, piece, mode, quoted, depth),
           s, word)

------------------------------------------------------------------------------
(* Splitting.  The fields are written over the text they are read from.     *)

Marker(byte) == byte.marks \cap {"empty", "boundary"} # {}

\* strchr(3) finds the null byte of a marker in every IFS.
IsIfsByte(c) == c \in Ifs \cup {Nul}
Delimiter(byte) ==
  "expanded" \in byte.marks /\ "quoted" \notin byte.marks /\ IsIfsByte(byte.c)

\* Where a delimiter that begins at read ends: white space, at most one other
\* character, and white space again.
AfterWhite(b, read, end) ==
  Min({i \in read..end + 1 : i = end + 1 \/ ~(Delimiter(b[i]) /\ b[i].c \in White)})
DelimiterEnd(b, read, end) ==
  LET white == AfterWhite(b, read, end)
      hard == white <= end /\ Delimiter(b[white])
  IN [next |-> IF hard THEN AfterWhite(b, white + 1, end) ELSE white, hard |-> hard]

Emit(t) ==
  [t EXCEPT !.fields = Append(@, [begin |-> t.begin, length |-> t.write - t.begin]),
            !.buffer[t.write] = Byte(Nul, {}), !.write = @ + 1]
EmitIf(t, wanted) == IF wanted THEN Emit(t) ELSE t
\* MUTANT: the field begins where it is read, not where it is written.
NextReadField(t, read) ==
  [t EXCEPT !.read = read, !.begin = read, !.bytes = FALSE, !.quote = FALSE]

NextField(t, read) ==
  [t EXCEPT !.read = read, !.begin = t.write, !.bytes = FALSE, !.quote = FALSE]

SplitStep(t, end) ==
  LET byte == t.buffer[t.read]
      run == DelimiterEnd(t.buffer, t.read, end)
      emitted == EmitIf(t, t.bytes \/ t.quote)
      delimited == EmitIf(t, t.bytes \/ run.hard)
  IN CASE "boundary" \in byte.marks -> NextField(emitted, t.read + 1)
       [] "boundary" \notin byte.marks /\ "empty" \in byte.marks ->
            [t EXCEPT !.read = @ + 1, !.quote = @ \/ "quoted" \in byte.marks]
       [] ~Marker(byte) /\ Ifs # {} /\ Delimiter(byte) ->
            NextField(delimited, run.next)
       [] OTHER -> [t EXCEPT !.buffer[t.write] = byte, !.write = @ + 1, !.read = @ + 1,
                             !.bytes = TRUE]

RECURSIVE Split(_, _)
Split(t, end) ==
  IF t.read > end THEN EmitIf(t, t.bytes \/ t.quote) ELSE Split(SplitStep(t, end), end)

\* The text ends with the null byte of its frame.
SplitExpandedWord(text) ==
  LET start == [buffer |-> Append(text, Byte(Nul, {})), read |-> 1, write |-> 1, begin |-> 1,
                bytes |-> FALSE, quote |-> FALSE, fields |-> <<>>]
      end == Split(start, Len(text))
  IN [i \in DOMAIN end.fields |->
        SubSeq(end.buffer, end.fields[i].begin, end.fields[i].begin + end.fields[i].length - 1)]

Fields(s, word) ==
  LET expanded == ExpandWord(s, word, "fields", FALSE, 0)
      split == SplitExpandedWord(expanded.text)
  IN [status |-> expanded.status, vars |-> expanded.vars, text |-> expanded.text,
      fields |-> IF expanded.status = "ok" THEN [i \in DOMAIN split |-> CharactersOf(split[i])]
                 ELSE <<>>]

\* name=word and the operands of export and readonly are not split.
AssignedValue(s, word) == CharactersOf(ExpandWord(s, word, "scalar", FALSE, 0).text)

------------------------------------------------------------------------------
(* What splitting promises, of the text as it was before.                   *)

Content(bytes) == SelectSeq(bytes, LAMBDA byte : ~Marker(byte))
Kept(bytes) == IF Content(bytes) = <<>> THEN <<>> ELSE <<Content(bytes)>>
HasQuote(bytes) == \E i \in DOMAIN bytes : "empty" \in bytes[i].marks /\ "quoted" \in bytes[i].marks

RECURSIVE Pieces(_)
Pieces(bytes) ==
  LET boundary == {i \in DOMAIN bytes : "boundary" \in bytes[i].marks}
      stops == {i \in DOMAIN bytes : ~Marker(bytes[i]) /\ Delimiter(bytes[i])}
      first == Min(boundary \cup stops)
      before == SubSeq(bytes, 1, first - 1)
      last == Max({j \in first..Len(bytes) :
                     /\ \A i \in first..j : i \in stops
                     /\ Cardinality({i \in first..j : bytes[i].c \in NotWhite}) <= 1})
      hard == \E i \in first..last : bytes[i].c \in NotWhite
  IN CASE boundary \cup stops = {} ->
            IF HasQuote(bytes) THEN <<Content(bytes)>> ELSE Kept(bytes)
       [] boundary \cup stops # {} /\ first \in boundary ->
            (IF HasQuote(before) THEN <<Content(before)>> ELSE Kept(before))
            \o Pieces(SubSeq(bytes, first + 1, Len(bytes)))
       [] OTHER ->
            (IF hard THEN <<Content(before)>> ELSE Kept(before))
            \o Pieces(SubSeq(bytes, last + 1, Len(bytes)))

PromisedFields(text) ==
  LET pieces == Pieces(text) IN [i \in DOMAIN pieces |-> CharactersOf(pieces[i])]

=============================================================================
