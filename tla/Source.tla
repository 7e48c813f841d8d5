------------------------------- MODULE Source -------------------------------
(***************************************************************************)
(* From the text of a script to its tree: the end of a word, the lines of  *)
(* the here-documents, aliases and the grammar.  Each is a pure function,  *)
(* so a state is an input that the actions build piece by piece, and the   *)
(* properties compare what the code answers with what it promises.         *)
(***************************************************************************)
EXTENDS Grammar, Lexing, FiniteSetsExt

CONSTANTS
  TreeMax,                     \* nested commands
  Lines, LinesMax,             \* lines of tokens
  WordMax,                     \* pieces of a word
  ScriptLines, ScriptMax,      \* lines with here-documents
  AliasTables, AliasWords, AliasMax,
  ExpansionLimit, TextCap      \* GSH_ALIAS_EXPANSION_LIMIT, GSH_ALIAS_EXPANSION_CAP

VARIABLE input
vars == <<input>>
Of(part) == input.part = part

------------------------------------------------------------------------------
(* Alias substitution (alias_expansion.c): the script is parsed, the first  *)
(* command word that is an alias is replaced in the text, and the text is   *)
(* parsed again, until no command word is an alias.  Spans of the text      *)
(* remember from which aliases they come, and move as the text grows.  The  *)
(* text is a sequence of words and ";".                                     *)

Semicolon == ";"

\* A span of the text [begin, end) and the aliases it comes from.
Span(begin, end, ancestors) == [begin |-> begin, end |-> end, ancestors |-> ancestors]
Overlaps(span, begin, end) == span.begin < end /\ begin < span.end
Ancestors(spans, begin, end) ==
  UNION {spans[i].ancestors : i \in {j \in DOMAIN spans : Overlaps(spans[j], begin, end)}}

IsAlias(s, at, aliases) ==
  /\ at <= Len(s.text) /\ s.text[at] \in DOMAIN aliases
  /\ s.text[at] \notin Ancestors(s.spans, at, at + 1)

\* The command words, as the parser records them.
CommandWords(text) ==
  {i \in DOMAIN text : text[i] # Semicolon /\ (i = 1 \/ text[i - 1] = Semicolon)}

\* MUTANT: the spans after the replaced word stay where they were.
StandingSpans(spans, begin, end, delta) ==
  LET Move(span) ==
        CASE span.end <= begin -> <<span>>
          [] span.begin >= end -> <<span>>
          [] span.begin <= begin /\ span.end >= end -> <<Span(span.begin, span.end, span.ancestors)>>
          [] OTHER -> <<>>
  IN FlattenSeq([i \in DOMAIN spans |-> Move(spans[i])])

\* A span that holds the word grows, one behind it moves, and one that is cut
\* by it is given up.
MovedSpans(spans, begin, end, delta) ==
  LET Move(span) ==
        CASE span.end <= begin -> <<span>>
          [] span.begin >= end -> <<Span(span.begin + delta, span.end + delta, span.ancestors)>>
          [] span.begin <= begin /\ span.end >= end ->
               <<Span(span.begin, span.end + delta, span.ancestors)>>
          [] OTHER -> <<>>
  IN FlattenSeq([i \in DOMAIN spans |-> Move(spans[i])])

Rewrite(s, at, aliases) ==
  LET name == s.text[at]
      value == aliases[name].words
      from == Ancestors(s.spans, at, at + 1) \cup {name}
      text == SubSeq(s.text, 1, at - 1) \o value \o SubSeq(s.text, at + 1, Len(s.text))
  IN IF Len(s.spans) = ExpansionLimit \/ Len(text) > TextCap THEN [s EXCEPT !.status = "limit"]
     ELSE [s EXCEPT !.text = text,
                    !.spans = Append(MovedSpans(@, at, at + 1, Len(value) - 1),
                                     Span(at, at + Len(value), from))]

\* A value that ends in a blank has the word behind it replaced as well, but
\* for one whose last command is the utility `command'.
EndsInCommand(value) ==
  LET words == CommandWords(value) IN words # {} /\ value[Max(words)] = "command"
Counted(s) == [s EXCEPT !.count = @ + 1]
RECURSIVE ForceFollowing(_, _, _)
ForceFollowing(s, at, aliases) ==
  LET next == Rewrite(s, at, aliases)
      value == aliases[s.text[at]]
  IN IF s.status # "ok" \/ at > Len(s.text) THEN s
     ELSE IF s.count = ExpansionLimit THEN [s EXCEPT !.status = "limit"]
     ELSE IF ~IsAlias(s, at, aliases) THEN s
     ELSE IF next.status # "ok" \/ ~value.blank THEN Counted(next)
     ELSE ForceFollowing(Counted(next), at + Len(value.words), aliases)

\* The first replacement is counted before the words behind it, the others after
\* them.  With the last one that is allowed it is given up: the text is not
\* parsed again.
RECURSIVE Expansions(_, _)
Expansions(s, aliases) ==
  LET candidates == {i \in CommandWords(s.text) : IsAlias(s, i, aliases)}
      at == Min(candidates)
      value == aliases[s.text[at]]
      first == s.count = 0
      next == IF first THEN Counted(Rewrite(s, at, aliases)) ELSE Rewrite(s, at, aliases)
      forced == IF value.blank /\ ~EndsInCommand(value.words)
                THEN ForceFollowing(next, at + Len(value.words), aliases) ELSE next
  IN IF s.status # "ok" THEN s
     ELSE IF s.count >= ExpansionLimit THEN [s EXCEPT !.status = "limit"]
     ELSE IF candidates = {} THEN s
     ELSE Expansions(IF first THEN forced ELSE Counted(forced), aliases)
AliasParse(text, aliases) ==
  Expansions([text |-> text, spans |-> <<>>, count |-> 0, status |-> "ok"], aliases)

------------------------------------------------------------------------------
(* The promise: from left to right, a word carries the aliases it comes     *)
(* from and none of them replaces it again.                                 *)

Check == "check"      \* the end of a value that ends in a blank
RECURSIVE Substituted(_, _, _, _)
Substituted(done, words, forced, aliases) ==
  LET w == Head(words)
      command == done = <<>> \/ Last(done) = Semicolon
      value == aliases[w.word]
      new == [i \in DOMAIN value.words |->
                [word |-> value.words[i], from |-> w.from \cup {w.word}]]
      again == value.blank /\ (forced \/ ~EndsInCommand(value.words))
  IN CASE words = <<>> -> done
       [] words # <<>> /\ w.word = Check -> Substituted(done, Tail(words), TRUE, aliases)
       [] words # <<>> /\ (command \/ forced) /\ w.word \in DOMAIN aliases \ w.from ->
            Substituted(done, new \o (IF again THEN <<[word |-> Check, from |-> {}]>> ELSE <<>>)
                              \o Tail(words), FALSE, aliases)
       [] OTHER -> Substituted(Append(done, w.word), Tail(words), FALSE, aliases)
Promised(text, aliases) ==
  Substituted(<<>>, [i \in DOMAIN text |-> [word |-> text[i], from |-> {}]], FALSE, aliases)

------------------------------------------------------------------------------
(* Trees: a command, and the commands it stands in. *)

Tree(is, flags, words, redirects, children) ==
  [is |-> is, flags |-> flags, connector |-> End, words |-> words, redirects |-> redirects,
   children |-> children]
Inner(is, children) == Tree(is, {}, <<>>, <<>>, children)
Leaf == Tree("simple", {}, <<"word">>, <<>>, <<>>)
Leaves == {Tree("simple", {}, <<"x=", "do">>, << <<"2", ">", "name">> >>, <<>>)}
Pipeline(flags, commands) == Tree("pipeline", flags, <<>>, <<>>, commands)
Connected(t, connector) == [t EXCEPT !.connector = connector]
AndOr(flags, pipelines) == Tree("and_or", flags, <<>>, <<>>, pipelines)
ListOf(c) == Inner("list", <<AndOr({}, <<Pipeline({}, <<c>>)>>)>>)
Other == ListOf(Leaf)

Lists(c) ==
  LET alone == Pipeline({}, <<c>>)
      leaf == Pipeline({}, <<Leaf>>)
  IN {Inner("list", <<a, AndOr({}, <<leaf>>)>>) :
        a \in {AndOr(f, <<p>>) : f \in {{}, {"async"}},
                                 p \in {alone, Pipeline({"negated"}, <<c>>)}}}
     \cup {Inner("list", <<AndOr({}, q)>>) :
             q \in { <<alone, Connected(leaf, "&&")>>, <<leaf, Connected(alone, "||")>>,
                     <<Pipeline({}, <<Leaf, c>>)>> }}
     \cup {ListOf(c)}
Item(flags, body) == Tree("case_item", flags, <<"word", "name">>, <<>>, body)
Around(l) ==
  {Inner(k, <<l>>) : k \in {"(", "{"}}
  \cup {Inner(k, b) : k \in {"while", "until"}, b \in { <<l, Other>>, <<Other, l>> }}
  \cup {Inner("if", <<Inner("if_branch", <<Other, l>>)>>),
        Inner("if", <<Inner("if_branch", <<l, Other>>), Inner("if_branch", <<Other, Other>>),
                      Inner("if_branch", <<l>>)>>)}
  \cup {Tree("for", {"in"}, <<"name", "word", "in">>, <<>>, <<l>>),
        Tree("for", {}, <<"name">>, <<>>, <<l>>)}
  \cup {Tree("case", {}, <<"word">>, <<>>, c) :
          c \in { <<>>, <<Item({"fallthrough"}, <<l>>), Item({}, <<>>)>> }}
  \cup {Tree("function", {}, <<"name">>, <<>>, <<Inner("{", <<l>>)>>)}
Redirected(t) == {t, [t EXCEPT !.redirects = << <<"default", "<", "word">> >>]}

------------------------------------------------------------------------------
(* The inputs. *)

Init ==
  \/ \E leaf \in Leaves : input = [part |-> "tree", tree |-> leaf, size |-> 1]
  \/ \E line \in Lines : input = [part |-> "tokens", tokens |-> line, lines |-> 1]
  \/ input = [part |-> "word", pieces |-> <<>>, size |-> 0]
  \/ input = [part |-> "script", lines |-> <<>>]
  \/ \E t \in DOMAIN AliasTables : input = [part |-> "aliases", table |-> t, text |-> <<>>]

ExtendTree ==
  /\ Of("tree") /\ input.size < TreeMax
  /\ \E t \in UNION {Around(l) : l \in Lists(input.tree)} : \E r \in Redirected(t) :
       input' = [input EXCEPT !.tree = r, !.size = @ + 1]

AppendLine ==
  /\ Of("tokens") /\ input.lines < LinesMax
  /\ \E line \in Lines :
       input' = [input EXCEPT !.tokens = @ \o <<Newline>> \o line, !.lines = @ + 1]

Piece(is, byte, of) == [is |-> is, byte |-> byte, of |-> of]
PlainPieces ==
  {Piece("byte", b, <<>>) : b \in {"a", Blank, Single, Quote, Dollar, "{", "}", "("}}
  \cup {Piece("escape", b, <<>>) : b \in {Quote, Backquote, Dollar, "(", ")"}}
AppendPiece ==
  /\ Of("word") /\ input.size < WordMax
  /\ \E piece \in PlainPieces :
       input' = [input EXCEPT !.pieces = Append(@, piece), !.size = @ + 1]
WrapWord ==
  /\ Of("word") /\ input.pieces # <<>> /\ input.size < WordMax
  /\ \E is \in {"single", "dollar", "double", "backquote", "parameter", "command", "subshell",
                "arithmetic"} :
       /\ MayWrap(is, input.pieces)
       /\ input' = [input EXCEPT !.pieces = <<Piece(is, "a", input.pieces)>>, !.size = @ + 1]

AppendScriptLine ==
  /\ Of("script") /\ Len(input.lines) < ScriptMax
  /\ \E line \in ScriptLines : input' = [input EXCEPT !.lines = Append(@, line)]

AppendAliasWord ==
  /\ Of("aliases") /\ Len(input.text) < AliasMax
  /\ \E w \in AliasWords : input' = [input EXCEPT !.text = Append(@, w)]

Next == \/ ExtendTree \/ AppendLine \/ AppendPiece \/ WrapWord
        \/ AppendScriptLine \/ AppendAliasWord
Spec == Init /\ [][Next]_vars

------------------------------------------------------------------------------
(* The promises. *)

\* The parser (posix_parser.c:1160) finds in the text of a tree that tree: no
\* production takes a token of another, and no node the children or the words
\* of another.  The redirections of a compound command are counted only.
Program == ListOf(input.tree)
Parsed == Parse(Text(Program))
RECURSIVE Shape(_)
Shape(t) ==
  [t EXCEPT !.redirects = IF t.is = "simple" THEN @ ELSE <<Len(@)>>,
            !.children = MapSeq(Shape, @)]
TreeIsParsed ==
  Of("tree") => Parsed.status = "ok" /\ Shape(TreeOf(Parsed, Parsed.value)) = Shape(Program)

\* A script that is wrong stays wrong whatever line comes next, so that
\* the shell may report it without asking for one (gsh.c:11178).  The list of
\* a `for' that ends with the input is the exception; see ForListIsIncomplete.
OpenForList(tokens) ==
  \E i, j \in DOMAIN tokens :
    /\ tokens[i] = "for" /\ i + 1 < j /\ tokens[j] = "in"
    /\ \A k \in i + 2..j - 1 : tokens[k] = Newline
    /\ \A k \in j..Len(tokens) : IsWord(tokens[k])
SyntaxErrorIsFinal ==
  [][Of("tokens") /\ Parse(input.tokens).status = "syntax" /\ ~OpenForList(input.tokens)
       => Parse(input'.tokens).status \notin {"ok", "incomplete"}]_vars

\* The scanner (posix_lexer.c:279) ends a word where its quotes and expansions
\* end, however they are nested, and asks for more input from where one is open.
\* MayWrap leaves out two texts in which it takes a dollar to open something
\* else; see SubshellIsCommand and DollarInQuotesIsByte.
WordIs == JoinSeq(WordText, input.pieces)
IsNested == Len(input.pieces) = 1 /\ input.pieces[1].is \notin {"byte", "escape", "subshell"}
EndsThere(text) ==
  LET scanned == ScanWord(Scanner(text \o <<Blank, "a">>))
  IN ~scanned.failed /\ scanned.status = "ok" /\ scanned.offset = Len(text)
WordEndsWithItsQuotes ==
  Of("word") /\ IsNested =>
    /\ EndsThere(WordIs)
    /\ \A n \in 1..Len(WordIs) - 1 :
         LET part == SubSeq(WordIs, 1, n)
         IN part # <<Dollar>> => ScanWord(Scanner(part)).status = "incomplete"

\* Every line of a script is a command, or a line of one here-document or its
\* delimiter, and the documents belong to the operators in their order
\* (posix_parser.c:1446).
Read == Tokenized(input.lines)
LinesAreReadOnce ==
  Of("script") /\ Read.status = "ok" =>
    LET documents == Read.heredocs
        LinesOf(i) == documents[i].first..documents[i].next - 1
        wanted == JoinSeq(LAMBDA c : input.lines[c].heredocs, Read.commands)
    IN /\ [i \in DOMAIN documents |-> documents[i].of] = wanted
       /\ \A n \in DOMAIN input.lines :
            Cardinality({i \in DOMAIN documents : n \in LinesOf(i)})
              = IF n \in ToSet(Read.commands) THEN 0 ELSE 1

\* Replacing aliases in the text over and over (alias_expansion.c:295) ends, and
\* gives what reading it once gives: no alias is replaced in what it stands for,
\* every other one is.
AliasesAreExact ==
  Of("aliases") =>
    LET expanded == AliasParse(input.text, AliasTables[input.table])
    IN expanded.status = "ok" => expanded.text = Promised(input.text, AliasTables[input.table])

------------------------------------------------------------------------------
(* What the code does not do. *)

\* A redirection belongs to the command it is written after
\* (README.md:1082).
RedirectsAreTheirs == Of("tree") => TreeOf(Parsed, Parsed.value) = Program

\* A command substitution may begin with a subshell: what follows decides, not
\* that two parentheses stand behind the dollar (posix_lexer.c:141).
SubshellIsCommand ==
  Of("word") /\ input.pieces # <<>> /\ Head(input.pieces).is = "subshell"
  /\ MayWrap("subshell", input.pieces)
    => EndsThere(WordText(Piece("command", "a", input.pieces)))

\* A dollar before a single quote has no meaning in double quotes: "$'" is a
\* word (posix_lexer.c:162, 232).
DollarInQuotesIsByte ==
  Of("word") /\ (\A i \in DOMAIN input.pieces : MayHold("double", input.pieces[i]))
  /\ input.pieces # <<>> /\ ToSet(WordIs) \subseteq {"a", Dollar, Single}
    => EndsThere(WordText(Piece("double", "a", input.pieces)))

\* The list of a for loop may end with the line.
ForListIsIncomplete ==
  Of("tokens") /\ OpenForList(input.tokens) => Parse(input.tokens).status # "syntax"

=============================================================================
