-------------------------------- MODULE Words --------------------------------
(***************************************************************************)
(* The expansions of a word, on every input that the actions build piece   *)
(* by piece: the algorithms of native_plan.c are pure, so a state is an    *)
(* input and the invariants compare what the code answers with what it     *)
(* promises.                                                               *)
(***************************************************************************)
EXTENDS Patterns, ArithmeticExpansion, WordExpansion

CONSTANTS
  Tokens, PatternMax, TextMax,            \* patterns and the values they are removed from
  Leaves, UnaryOps, BinaryOps, TreeMax,   \* expressions
  Values, Arguments, WordPieces, WordMax, \* variables, arguments and words
  Trees, Components, PathMax              \* file systems and pathname patterns

VARIABLE input
vars == <<input>>

InputOf(part) == input.part = part

------------------------------------------------------------------------------
(* The inputs. *)

Init ==
  \/ input = [part |-> "pattern", pattern |-> <<>>, text |-> <<>>]
  \/ \E leaf \in Leaves : input = [part |-> "expression", tree |-> leaf, size |-> 1]
  \/ \E x \in Values, a \in Arguments :
        input = [part |-> "word", word |-> <<>>, x |-> x, arguments |-> a]
  \/ \E t \in DOMAIN Trees :
        input = [part |-> "path", tree |-> t, components |-> <<>>, slash |-> FALSE]

\* A bracket that is not closed would take a later one into it.
MayFollow(token, pattern) ==
  \A i \in DOMAIN pattern : /\ pattern[i].kind # "dangling"
                            /\ token.kind = "set" => pattern[i].kind # "open"
ExtendPattern ==
  /\ InputOf("pattern") /\ Len(input.pattern) < PatternMax
  /\ \E token \in {t \in Tokens : MayFollow(t, input.pattern)} :
       input' = [input EXCEPT !.pattern = Append(@, token)]
ExtendText ==
  /\ InputOf("pattern") /\ Len(input.text) < TextMax
  /\ \E c \in Characters : input' = [input EXCEPT !.text = Append(@, c)]

\* The expressions around one that there is.
Binaries(t) ==
  {[is |-> "binary", operator |-> o, left |-> t, right |-> l] : o \in BinaryOps, l \in Leaves}
  \cup {[is |-> "binary", operator |-> o, left |-> l, right |-> t] : o \in BinaryOps, l \in Leaves}
Unaries(t) == {[is |-> "unary", operator |-> o, left |-> t] : o \in UnaryOps}
Assignments(t) ==
  {[is |-> "assignment", name |-> n, operator |-> o, wrapped |-> w, left |-> t] :
     n \in Variables, o \in AssignmentOperators, w \in BOOLEAN}
Conditionals(t) ==
  {[is |-> "conditional", left |-> t, right |-> l, third |-> l] : l \in Leaves}
  \cup {[is |-> "conditional", left |-> l, right |-> t, third |-> m] : l \in Leaves, m \in Leaves}
  \cup {[is |-> "conditional", left |-> l, right |-> m, third |-> t] : l \in Leaves, m \in Leaves}
Commas(t) ==
  {[is |-> "comma", left |-> t, right |-> l] : l \in Leaves}
  \cup {[is |-> "comma", left |-> l, right |-> t] : l \in Leaves}
ExtendExpression ==
  /\ InputOf("expression") /\ input.size < TreeMax
  /\ \E t \in Binaries(input.tree) \cup Unaries(input.tree) \cup Assignments(input.tree)
              \cup Conditionals(input.tree) \cup Commas(input.tree) :
       input' = [input EXCEPT !.tree = t, !.size = @ + 1]

ExtendWord ==
  /\ InputOf("word") /\ Len(input.word) < WordMax
  /\ \E piece \in WordPieces : input' = [input EXCEPT !.word = Append(@, piece)]

ExtendPath ==
  /\ InputOf("path") /\ ~input.slash /\ Len(input.components) < PathMax
  /\ \E c \in Components : input' = [input EXCEPT !.components = Append(@, c)]
EndWithSlash ==
  /\ InputOf("path") /\ ~input.slash /\ input.components # <<>>
  /\ input' = [input EXCEPT !.slash = TRUE]

Next == ExtendPattern \/ ExtendText \/ ExtendExpression \/ ExtendWord \/ ExtendPath \/ EndWithSlash
Spec == Init /\ [][Next]_vars

------------------------------------------------------------------------------
(* The promises. *)

\* The removal of a pattern (native_plan.c:2223) cuts where the shortest or the
\* longest match ends, whichever of its searches it takes, and gives the search
\* up only where it may leave it to an evaluator.  A bracket with a character
\* that has the byte of a marked star is the exception; see
\* BracketsKeepTheirCharacters.
StarInBracket(pattern, text) ==
  /\ StarsAreMarked(pattern, text)
  /\ \E i \in DOMAIN pattern : pattern[i].kind = "set" /\ HoldsMarker(pattern[i])
RemovalIsExact ==
  InputOf("pattern") /\ ~StarInBracket(input.pattern, input.text) =>
    \A operation \in Operations, defer \in BOOLEAN :
      LET removal == RemoveParameterPattern(input.pattern, input.text, operation, defer)
      IN IF removal.deferred THEN defer
         ELSE removal.cut = Promised(input.pattern, input.text, operation)

\* The pushdown machine (native_plan.c:4152) gives an expression the value, the
\* assignments and the error that its tree has: no operator binds otherwise, no
\* branch that is not taken assigns or fails, and no result is out of range.
Held == [n \in Variables |-> IF n = "x" THEN Holds(LongMax) ELSE Word(Unset)]
Agree(done, meant) ==
  /\ done.vars = meant.vars
  /\ IF meant.ok THEN done.status = "ok" /\ done.value = meant.value
     ELSE done.status = "error" /\ done.why = meant.why
ArithmeticIsExact ==
  InputOf("expression") =>
    \A nounset \in BOOLEAN :
      Agree(Evaluate(Text(input.tree, "comma"), Held, nounset, FALSE),
            Meaning(input.tree, Held, nounset))

WordVariables == [n \in Names |-> IF n = "x" THEN input.x ELSE Absent]
WordState == State(WordVariables, input.arguments, FALSE, <<>>)
Expanded == Fields(WordState, input.word)

\* "$@" gives every parameter a field of its own, whatever it holds, with the
\* text around it joined to the first and the last (native_plan.c:1112).
AtPiece == Double(<<Positional("@")>>)
PlainText(piece) ==
  IF piece.is = "double" THEN FlattenSeq([i \in DOMAIN piece.word |-> piece.word[i].value])
  ELSE piece.value
IsPlain(piece) ==
  \/ piece.is \in {"character", "escaped", "single"}
  \/ piece.is = "double" /\ \A i \in DOMAIN piece.word : piece.word[i].is = "character"
PlainWord(word) == FlattenSeq([i \in DOMAIN word |-> PlainText(word[i])])
AroundAt(before, after) ==
  LET n == Len(input.arguments)
      Field(i) == (IF i = 1 THEN PlainWord(before) ELSE <<>>) \o input.arguments[i]
                  \o (IF i = n THEN PlainWord(after) ELSE <<>>)
  IN IF n > 0 THEN [i \in 1..n |-> Field(i)]
     ELSE IF before \o after = <<>> THEN <<>> ELSE <<PlainWord(before \o after)>>
QuotedAtIsTheArguments ==
  \A i \in DOMAIN input.word :
    LET before == SubSeq(input.word, 1, i - 1)
        after == SubSeq(input.word, i + 1, Len(input.word))
    IN /\ input.word[i] = AtPiece
       /\ \A j \in DOMAIN input.word \ {i} : IsPlain(input.word[j])
       => Expanded.fields = AroundAt(before, after)

\* Splitting a word in the buffer it stands in (native_plan.c:5447) gives the
\* fields of the text as it was before: none of its bytes is lost, read after it
\* is overwritten, or moved to another field; and a "$@" of the word gives every
\* parameter a field of its own.  Where a delimiter stands before the marker of
\* a parameter of an unquoted $@ the code goes another way; see
\* UnquotedAtRemovesEmpty.
DelimiterBeforeMarker(text) ==
  \E i \in 1..Len(text) - 1 : Delimiter(text[i]) /\ Marker(text[i + 1]) /\ Delimiter(text[i + 1])
SplittingIsExact ==
  InputOf("word") =>
    /\ Expanded.status = "ok" /\ ~DelimiterBeforeMarker(Expanded.text)
         => Expanded.fields = PromisedFields(Expanded.text)
    /\ QuotedAtIsTheArguments

\* A pattern that names files names existing ones that match it, each once and
\* in order (native_plan.c:5757).
Globbed == ExpandPathnameField(Trees[input.tree], input.components, input.slash, FALSE)
Wanted == Matches(Trees[input.tree], input.components, input.slash)
MatchesAreSorted ==
  InputOf("path") /\ Globbed.status = "ok" /\ Globbed.paths # Unchanged =>
    /\ ToSet(Globbed.paths) = Wanted
    /\ \A i, j \in DOMAIN Globbed.paths : i < j => Before(Globbed.paths[i], Globbed.paths[j])

------------------------------------------------------------------------------
(* What the tests say and the code does not do. *)

\* ${y:=word} leaves in y what it expands to (tests/posix_conformance.c:4096).
AssignedIsExpanded ==
  InputOf("word") /\ Len(input.word) = 1 /\ Expanded.status = "ok" =>
    LET piece == input.word[1]
    IN piece.is = "parameter" /\ piece.operator = "=" =>
         Expanded.vars[piece.name] = CharactersOf(Content(Expanded.text))

\* An unquoted $@ leaves no empty field where IFS is white space
\* (tests/posix_conformance.c:2681).
UnquotedAtRemovesEmpty ==
  InputOf("word") /\ input.word = <<Positional("@")>>
  /\ (\A i \in DOMAIN input.arguments : ToSet(input.arguments[i]) \cap NotWhite = {})
    => \A i \in DOMAIN Expanded.fields : Expanded.fields[i] # <<>>

\* A pattern means what fnmatch makes of it, whatever its brackets hold
\* (native_plan.c:1887, 2100).
BracketsKeepTheirCharacters ==
  InputOf("pattern") =>
    \A operation \in Operations :
      RemoveParameterPattern(input.pattern, input.text, operation, FALSE).cut
        = Promised(input.pattern, input.text, operation)

\* A pattern that something matches is replaced (native_plan.c:5827).
PatternFindsMatches ==
  InputOf("path") /\ (\E i \in DOMAIN input.components : input.components[i].magic)
  /\ Wanted # {} /\ Globbed.status # "limit" => Globbed.paths # Unchanged

=============================================================================
