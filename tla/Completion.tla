----------------------------- MODULE Completion -----------------------------
(***************************************************************************)
(* Tab completion (completion.c): the word before the cursor, where it     *)
(* stands in its command, the candidates that its place allows, and the    *)
(* edit, the menu or the next candidate that the editor is answered.       *)
(***************************************************************************)
EXTENDS Integers, Sequences, SequencesExt, FiniteSetsExt

CONSTANT Order               \* the characters, in the order of strcmp

Blanks == {" "}
Separators == {";"}          \* ; | & ( )
Redirections == {"<"}
Boundaries == Blanks \cup Separators \cup Redirections
Quoting == {"'", "$"}        \* ' " $ `
NameChars == {"a", "b"}
SafeChars == NameChars \cup {"-", ".", "/"}
Backslash == "backslash"
NoText == <<>>

Menu == -1                   \* no candidate is asked for by its position
IsAssignment(text) ==
  \E i \in 2..Len(text) : text[i] = "=" /\ \A j \in 1..i - 1 : text[j] \in NameChars

------------------------------------------------------------------------------
(* The word, and its place. *)

RECURSIVE Unescaped(_)
Unescaped(text) ==
  IF text = NoText THEN NoText
  ELSE IF Head(text) = Backslash /\ Len(text) > 1 THEN <<text[2]>> \o Unescaped(SubSeq(text, 3, Len(text)))
  ELSE <<Head(text)>> \o Unescaped(Tail(text))
\* A command's name that is quoted is not known.
CopyContextWord(text) ==
  IF \E i \in DOMAIN text : text[i] \in Quoting /\ (i = 1 \/ text[i - 1] # Backslash) THEN NoText
  ELSE Unescaped(text)

NoContext == [begin |-> 0, inWord |-> FALSE, escaped |-> FALSE, unsafe |-> FALSE,
              expect |-> TRUE, name |-> NoText, arguments |-> 0]
NameOrArgument(s, text, name) ==
  IF ~s.expect THEN [s EXCEPT !.arguments = @ + 1]
  ELSE IF IsAssignment(text) \/ name = NoText THEN s
  ELSE [s EXCEPT !.expect = FALSE, !.name = name, !.arguments = 0]
FinishWord(s, text) ==
  IF s.inWord THEN NameOrArgument([s EXCEPT !.inWord = FALSE], text, CopyContextWord(text)) ELSE s
FinishCommand(s, byte) ==
  IF byte \in Separators
  THEN [s EXCEPT !.unsafe = FALSE, !.expect = TRUE, !.name = NoText, !.arguments = 0]
  ELSE [s EXCEPT !.unsafe = FALSE]
\* A backslash that begins a word escapes nothing.
ScanByte(s, line, i) ==
  LET byte == line[i]
  IN IF s.escaped THEN [s EXCEPT !.escaped = FALSE]
     ELSE IF byte = Backslash /\ s.inWord THEN [s EXCEPT !.escaped = TRUE]
     ELSE IF byte \in Boundaries
     THEN FinishCommand(FinishWord(s, SubSeq(line, s.begin + 1, i - 1)), byte)
     ELSE [s EXCEPT !.inWord = TRUE, !.begin = IF s.inWord THEN @ ELSE i - 1,
                    !.unsafe = @ \/ byte \in Quoting]
RECURSIVE Scan(_, _)
Scan(line, n) == IF n = 0 THEN NoContext ELSE ScanByte(Scan(line, n - 1), line, n)

NoWord == [found |-> FALSE]
VariableAt(line, cursor, first) ==
  LET braced == first > 1 /\ line[first] = "{" /\ line[first - 1] = "$"
      begin == IF braced THEN first - 2 ELSE first - 1
      slashes == Max({n \in 0..begin : \A i \in begin - n + 1..begin : line[i] = Backslash})
      closed == braced /\ cursor < Len(line) /\ line[cursor + 1] = "}"
  IN IF ~braced /\ (first = 0 \/ line[first] # "$") THEN NoWord
     ELSE IF slashes % 2 = 1 THEN NoWord
     ELSE [found |-> TRUE, begin |-> begin, prefix |-> SubSeq(line, begin + 1, cursor),
           variable |-> TRUE, braced |-> braced, closed |-> closed,
           atEnd |-> cursor = Len(line) \/ closed]
LocateVariable(line, cursor) ==
  VariableAt(line, cursor,
    cursor - Max({n \in 0..cursor : \A i \in cursor - n + 1..cursor : line[i] \in NameChars}))

Placed(line, begin, context) == FinishWord(context, SubSeq(line, context.begin + 1, begin))
WordAt(line, cursor, begin, place) ==
  [found |-> TRUE, begin |-> begin, prefix |-> Unescaped(SubSeq(line, begin + 1, cursor)),
   variable |-> FALSE, command |-> place.expect, name |-> place.name,
   argument |-> IF place.expect THEN 0 ELSE place.arguments + 1,
   atEnd |-> cursor = Len(line) \/ line[cursor + 1] \in Boundaries]
WordFrom(line, cursor, begin) == WordAt(line, cursor, begin, Placed(line, begin, Scan(line, begin)))
WordOf(line, cursor, s) ==
  IF s.escaped \/ s.unsafe THEN NoWord ELSE WordFrom(line, cursor, IF s.inWord THEN s.begin ELSE cursor)
LocateWord(line, cursor) == WordOf(line, cursor, Scan(line, cursor))
VariableOr(variable, line, cursor) == IF variable.found THEN variable ELSE LocateWord(line, cursor)
Locate(line, cursor) == VariableOr(LocateVariable(line, cursor), line, cursor)

------------------------------------------------------------------------------
(* The candidates.  What there is to name: commands (with builtins,         *)
(* functions and what PATH has), aliases, variables, options of commands,   *)
(* subcommands of git, and files by kind.                                   *)

Plain(texts) == {[text |-> t, directory |-> FALSE] : t \in texts}
NameTakers == {<<"command">>, <<"help">>, <<"type">>}   \* of commands: command exec help type hash
VariableTakers == {<<"unset">>, <<"export">>}           \* and readonly
DirectoryTakers == {<<"cd">>}
ScanPathnames(word, known, kinds) ==
  LET slashes == {i \in DOMAIN word.prefix : word.prefix[i] = "/"}
      shown == IF slashes = {} THEN 0 ELSE Max(slashes)
      Named(f) == SubSeq(f.text, shown + 1, Len(f.text))
  IN {[text |-> f.text, directory |-> f.kind = "directory"] : f \in
        {g \in known.files : /\ g.kind \in kinds /\ Len(g.text) > shown
                             /\ IsPrefix(SubSeq(word.prefix, 1, shown), g.text)
                             /\ "/" \notin Range(Named(g))
                             /\ Head(Named(g)) = "." => Len(word.prefix) > shown
                                                        /\ word.prefix[shown + 1] = "."}}
ScanContext(word, known) ==
  LET named == word.command \/ (word.name \in NameTakers /\ word.argument = 1)
      options == IF word.prefix # NoText /\ word.prefix[1] = "-" /\ word.name \in DOMAIN known.options
                 THEN {o \in known.options[word.name] : IsPrefix(word.prefix, o)} ELSE {}
  IN IF named /\ "/" \notin Range(word.prefix) THEN Plain(known.commands \cup known.aliases)
     ELSE IF options # {} THEN Plain(options)
     ELSE IF word.name = <<"git">> /\ word.argument = 1 THEN Plain(known.subcommands)
     ELSE IF word.name = <<"unalias">> THEN Plain(known.aliases)
     ELSE IF word.name \in VariableTakers THEN Plain(known.variables)
     ELSE ScanPathnames(word, known,
       IF word.name \in DirectoryTakers THEN {"directory"}
       ELSE IF word.command THEN {"directory", "program"} ELSE {"directory", "program", "file"})
Candidates(word, known) ==
  LET lead == IF word.braced THEN <<"$", "{">> ELSE <<"$">>
      offered == IF word.variable THEN Plain({lead \o v : v \in known.variables})
                 ELSE ScanContext(word, known)
  IN {c \in offered : IsPrefix(word.prefix, c.text)}

Rank(char) == CHOOSE i \in DOMAIN Order : Order[i] = char
Shared(a, b) == Max({n \in 0..Min({Len(a), Len(b)}) : SubSeq(a, 1, n) = SubSeq(b, 1, n)})
Before(c, d) ==
  LET n == Shared(c.text, d.text)
  IN Len(d.text) > n /\ (Len(c.text) = n \/ Rank(c.text[n + 1]) < Rank(d.text[n + 1]))
Sorted(candidates) == SetToSortSeq(candidates, Before)
Common(candidates) ==
  LET one == CHOOSE c \in candidates : TRUE
  IN SubSeq(one.text, 1, Min({Shared(one.text, c.text) : c \in candidates}))

------------------------------------------------------------------------------
(* The answer. *)

EncodeWord(word, text) ==
  FlattenSeq([i \in DOMAIN text |->
    IF word.variable \/ text[i] \in SafeChars \/ (i = 1 /\ text[i] = "~") THEN <<text[i]>>
    ELSE <<Backslash, text[i]>>])
\* MUTANT: a common beginning is ended like a whole candidate.
EndAnyCandidate(word, text, directory, final) ==
  EncodeWord(word, IF word.atEnd /\ directory THEN Append(text, "/") ELSE text)
    \o IF word.atEnd /\ ~word.variable /\ ~directory THEN <<" ">> ELSE NoText
\* A candidate that is chosen closes its brace, ends in a slash or a blank.
CompleteCandidate(word, text, directory, final) ==
  LET ends == word.atEnd /\ final
  IN EncodeWord(word,
       IF ends /\ word.variable /\ word.braced /\ ~word.closed THEN Append(text, "}")
       ELSE IF ends /\ directory /\ ~word.variable /\ Last(text) # "/" THEN Append(text, "/")
       ELSE text)
     \o IF ends /\ ~word.variable /\ ~directory THEN <<" ">> ELSE NoText

Answer(status, begin, end, text) ==
  [status |-> status, begin |-> begin, end |-> end, text |-> text, count |-> 0, selected |-> 0]
Said(word, cursor, status, text) == Answer(status, word.begin, cursor, text)
Chose(word, cursor, chosen, status) ==
  Said(word, cursor, status, CompleteCandidate(word, chosen.text, chosen.directory, TRUE))
Shares(word, cursor, common) ==
  IF word.prefix \in {NoText, common} THEN Said(word, cursor, "menu", NoText)
  ELSE Said(word, cursor, "edit", CompleteCandidate(word, common, FALSE, FALSE))
Select(word, cursor, order, position, found) ==
  [IF position # Menu THEN Chose(word, cursor, order[position + 1], "cycle")
   ELSE IF Len(order) = 1 THEN Chose(word, cursor, order[1], "edit")
   ELSE Shares(word, cursor, Common(found))
   EXCEPT !.count = Len(order), !.selected = IF position = Menu THEN 0 ELSE position]
Offer(word, cursor, selection, found) ==
  IF found = {} THEN Said(word, cursor, "none", NoText)
  ELSE Select(word, cursor, Sorted(found),
              IF selection = Menu THEN Menu ELSE selection % Cardinality(found), found)
AnswerTo(word, cursor, selection, known) ==
  IF ~word.found THEN Answer("none", 0, 0, NoText)
  ELSE Offer(word, cursor, selection, Candidates(word, known))
Generate(line, cursor, selection, known) ==
  AnswerTo(Locate(line, cursor), cursor, selection, known)

=============================================================================
