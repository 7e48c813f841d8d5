------------------------------- MODULE Grammar -------------------------------
(***************************************************************************)
(* The parser of gsh (posix_parser.c): a pushdown machine over the tokens  *)
(* of a script.  It writes its tree into arrays, where a node owns a slice *)
(* of the words and one of the redirections, and tells input that more     *)
(* lines may complete from input that is wrong.  Beside it stands the      *)
(* grammar that it parses: the text of a tree.                             *)
(***************************************************************************)
EXTENDS Integers, Sequences, SequencesExt

CONSTANTS
  NodeCap, WordCap, RedirectCap   \* GSH_PARSE_NODE_CAP, _WORD_CAP and _REDIRECT_CAP

Reserved == {"if", "then", "else", "elif", "fi", "do", "done", "case", "esac", "while",
             "until", "for", "in", "{", "}", "!"}
\* "name" is a word with the form of a name, "word" another one, "x=" an
\* assignment, "2" digits that a redirection operator follows.
WordTokens == Reserved \cup {"name", "word", "x=", "2"}
RedirectOperators == {"<", ">"}
Newline == "newline"
End == "end"

Node(kind, firstWord, firstRedirect) ==
  [kind |-> kind, flags |-> {}, connector |-> End, children |-> <<>>,
   firstWord |-> firstWord, words |-> 0, firstRedirect |-> firstRedirect, redirects |-> 0]

\* The parser: the tokens, how far it is, its arrays and its frames.
Parser(tokens) ==
  [tokens |-> tokens, position |-> 1, nodes |-> <<>>, words |-> <<>>, redirects |-> <<>>,
   commandWords |-> <<>>, frames |-> <<>>, value |-> 0, status |-> "ok"]

TokenAt(p, ahead) ==
  IF p.position + ahead <= Len(p.tokens) THEN p.tokens[p.position + ahead] ELSE End
Current(p) == TokenAt(p, 0)
Advance(p) == [p EXCEPT !.position = @ + 1]
Fail(p, status) == IF p.status = "ok" THEN [p EXCEPT !.status = status] ELSE p
\* MUTANT: the end of the input is no different from a wrong token.
AlwaysWrong(p) == Fail(p, "syntax")
Unexpected(p) == Fail(p, IF Current(p) = End THEN "incomplete" ELSE "syntax")
Failed(p) == p.status # "ok"
IsWord(token) == token \in WordTokens

NewNode(p, kind) ==
  IF Len(p.nodes) = NodeCap THEN Fail(p, "limit")
  ELSE [p EXCEPT !.nodes = Append(@, Node(kind, Len(p.words) + 1, Len(p.redirects) + 1))]
Newest(p) == Len(p.nodes)
AppendChild(p, parent, child) == [p EXCEPT !.nodes[parent].children = Append(@, child)]
AppendWord(p, node) ==
  IF Len(p.words) = WordCap THEN Fail(p, "limit")
  ELSE Advance([p EXCEPT !.words = Append(@, Current(p)), !.nodes[node].words = @ + 1])
RecordCommandWord(p) ==
  IF Len(p.commandWords) = NodeCap THEN Fail(p, "limit")
  ELSE [p EXCEPT !.commandWords = Append(@, p.position)]
SetFlag(p, node, flag) == [p EXCEPT !.nodes[node].flags = @ \cup {flag}]

RECURSIVE SkipLinebreak(_)
SkipLinebreak(p) == IF Current(p) = Newline THEN SkipLinebreak(Advance(p)) ELSE p
ExpectWord(p, word) ==
  IF Failed(p) THEN p ELSE IF Current(p) = word THEN Advance(p) ELSE Unexpected(p)

------------------------------------------------------------------------------
(* Redirections and simple commands. *)

RedirectStarts(p) ==
  \/ Current(p) \in RedirectOperators
  \/ Current(p) = "2" /\ TokenAt(p, 1) \in RedirectOperators
ParseOneRedirect(p, node) ==
  LET descriptor == IF Current(p) = "2" THEN "2" ELSE "default"
      at == IF Current(p) = "2" THEN Advance(p) ELSE p
      target == Advance(at)
  IN IF ~IsWord(Current(target)) THEN Unexpected(target)
     ELSE IF Len(p.redirects) = RedirectCap THEN Fail(target, "limit")
     ELSE Advance([target EXCEPT
            !.redirects = Append(@, <<descriptor, Current(at), Current(target)>>),
            !.nodes[node].redirects = @ + 1])

RECURSIVE ParseRedirects(_, _)
ParseRedirects(p, node) ==
  IF Failed(p) \/ ~RedirectStarts(p) THEN p ELSE ParseRedirects(ParseOneRedirect(p, node), node)

RECURSIVE ParseWords(_, _, _)
ParseWords(p, node, commandWord) ==
  LET isCommand == ~commandWord /\ Current(p) # "x="
      recorded == IF isCommand THEN RecordCommandWord(p) ELSE p
  IN CASE Failed(p) -> p
       [] ~Failed(p) /\ RedirectStarts(p) -> ParseWords(ParseOneRedirect(p, node), node, commandWord)
       [] ~Failed(p) /\ ~RedirectStarts(p) /\ ~IsWord(Current(p)) -> p
       [] OTHER -> IF Failed(recorded) THEN recorded
                   ELSE ParseWords(AppendWord(recorded, node), node, commandWord \/ isCommand)
ParseSimple(p) ==
  LET q == NewNode(p, "simple")
      parsed == ParseWords(q, Newest(q), FALSE)
  IN IF Failed(q) THEN q
     ELSE IF ~Failed(parsed) /\ parsed.position = p.position THEN Unexpected(parsed)
     ELSE parsed

------------------------------------------------------------------------------
(* The machine. *)

NewFrame(kind, stops) ==
  [kind |-> kind, stops |-> stops, phase |-> 0, node |-> 0, saved |-> 0, connector |-> End]
Push(p, kind, stops) ==
  IF Failed(p) THEN p
  ELSE IF Len(p.frames) = NodeCap THEN Fail(p, "limit")
  ELSE [p EXCEPT !.frames = Append(@, NewFrame(kind, stops))]
With(p, frame) == IF Failed(p) THEN p ELSE [p EXCEPT !.frames[Len(p.frames)] = frame]
Complete(p, node) == IF Failed(p) THEN p ELSE [p EXCEPT !.frames = Front(@), !.value = node]

\* The frame makes its node and goes on in a phase.
Opened(p, f, kind) ==
  LET q == NewNode(p, kind) IN With(q, [f EXCEPT !.node = Newest(q), !.phase = 1])
Taken(p, f) == AppendChild(p, f.node, p.value)

CaseItemEnd == {";;", ";&", "esac"}
ListStops(p, stops) == Current(p) \in stops

StepList(p, f) ==
  LET start == SkipLinebreak(p)
      taken == Taken(p, f)
      flagged == IF Current(p) = "&" THEN SetFlag(taken, p.value, "async") ELSE taken
      separated == Current(p) \in {"&", ";", Newline}
      after == IF ~separated THEN taken
               ELSE SkipLinebreak(IF Current(p) = Newline THEN flagged ELSE Advance(flagged))
  IN CASE f.phase = 0 /\ (ListStops(start, f.stops) \/ Current(start) = End) -> Unexpected(start)
       [] f.phase = 0 /\ ~(ListStops(start, f.stops) \/ Current(start) = End) ->
            Push(Opened(start, f, "list"), "and_or", {})
       [] f.phase = 1 /\ ListStops(after, f.stops) -> Complete(after, f.node)
       [] f.phase = 1 /\ Current(after) = End ->
            IF ";;" \in f.stops THEN Fail(after, "incomplete") ELSE Complete(after, f.node)
       [] OTHER -> IF separated THEN Push(after, "and_or", {}) ELSE Fail(after, "syntax")

StepAndOr(p, f) ==
  LET connected == IF f.phase = 2 THEN [p EXCEPT !.nodes[p.value].connector = f.connector] ELSE p
      taken == Taken(connected, f)
  IN IF f.phase = 0 THEN Push(Opened(p, f, "and_or"), "pipeline", {})
     ELSE IF Current(p) \notin {"&&", "||"} THEN Complete(taken, f.node)
     ELSE Push(SkipLinebreak(Advance(With(taken, [f EXCEPT !.phase = 2, !.connector = Current(p)]))),
               "pipeline", {})

StepPipeline(p, f) ==
  LET opened == Opened(p, f, "pipeline")
      negated == IF Failed(opened) \/ Current(p) # "!" THEN opened
                 ELSE SkipLinebreak(Advance(SetFlag(opened, Newest(opened), "negated")))
      taken == Taken(p, f)
  IN IF f.phase = 0 THEN Push(negated, "command", {})
     ELSE IF Current(p) # "|" THEN Complete(taken, f.node)
     ELSE Push(SkipLinebreak(Advance(taken)), "command", {})

IsFunction(p) ==
  /\ Current(p) \in WordTokens \ {"{", "}", "!", "word", "x=", "2"}
  /\ TokenAt(p, 1) = "(" /\ TokenAt(p, 2) = ")"
Compound(p) == Current(p) \in {"(", "{", "if", "while", "until", "for", "case"}

StepCommand(p, f) ==
  LET simple == ParseSimple(p)
      redirected == ParseRedirects(p, p.value)
  IN CASE f.phase = 0 /\ IsFunction(p) -> Push(With(p, [f EXCEPT !.phase = 1]), "function", {})
       [] f.phase = 0 /\ ~IsFunction(p) /\ Compound(p) ->
            Push(With(p, [f EXCEPT !.phase = 1]), Current(p), {})
       [] f.phase = 0 /\ ~IsFunction(p) /\ ~Compound(p) ->
            IF Current(p) \in Reserved THEN Fail(p, "syntax")
            ELSE Complete(simple, Len(p.nodes) + 1)
       [] OTHER -> Complete(redirected, p.value)

StepGroup(p, f) ==
  LET close == IF f.kind = "(" THEN ")" ELSE "}"
  IN IF f.phase = 0 THEN Push(Advance(Opened(p, f, f.kind)), "list", {close})
     ELSE Complete(ExpectWord(Taken(p, f), close), f.node)

StepLoop(p, f) ==
  LET taken == Taken(p, f)
  IN CASE f.phase = 0 -> Push(Advance(Opened(p, f, f.kind)), "list", {"do"})
       [] f.phase = 1 -> Push(With(ExpectWord(taken, "do"), [f EXCEPT !.phase = 2]), "list", {"done"})
       [] OTHER -> Complete(ExpectWord(taken, "done"), f.node)

\* MUTANT: the last branch keeps the condition of the one before.
ConditionalBranch(p, f, body) ==
  LET q == NewNode(p, "if_branch")
  IN IF Failed(q) THEN q
     ELSE AppendChild([q EXCEPT !.nodes[Newest(q)].children = <<f.saved, body>>], f.node, Newest(q))
\* A branch holds its condition, where it has one, and its body.
AppendIfBranch(p, f, body) ==
  LET q == NewNode(p, "if_branch")
      branch == Newest(q)
  IN IF Failed(q) THEN q
     ELSE AppendChild([q EXCEPT !.nodes[branch].children =
                         IF f.phase = 3 THEN <<body>> ELSE <<f.saved, body>>], f.node, branch)

StepIf(p, f) ==
  LET branched == AppendIfBranch(p, f, p.value)
  IN CASE f.phase = 0 -> Push(Advance(Opened(p, f, "if")), "list", {"then"})
       [] f.phase = 1 ->
            Push(With(ExpectWord(p, "then"), [f EXCEPT !.phase = 2, !.saved = p.value]),
                 "list", {"elif", "else", "fi"})
       [] f.phase = 2 /\ Current(p) = "elif" ->
            Push(With(Advance(branched), [f EXCEPT !.phase = 1]), "list", {"then"})
       [] f.phase = 2 /\ Current(p) = "else" ->
            Push(With(Advance(branched), [f EXCEPT !.phase = 3]), "list", {"fi"})
       [] OTHER -> Complete(ExpectWord(branched, "fi"), f.node)

RECURSIVE ParseForWords(_, _)
ParseForWords(p, node) ==
  IF Failed(p) \/ ~IsWord(Current(p)) \/ Current(p) = "do" THEN p
  ELSE ParseForWords(AppendWord(p, node), node)
IsName(token) == token \in WordTokens \ {"{", "}", "!", "word", "x=", "2"}
ParseForHeader(p, node) ==
  LET for == Advance(p)
      named == SkipLinebreak(AppendWord(for, node))
      in == Current(named) = "in"
      listed == IF in THEN ParseForWords(Advance(SetFlag(named, node, "in")), node) ELSE named
      separated == Current(listed) \in {";", Newline}
      after == IF separated THEN SkipLinebreak(Advance(listed)) ELSE listed
  IN IF ~IsName(Current(for)) THEN Unexpected(for)
     ELSE IF Failed(listed) THEN listed
     ELSE IF in /\ ~separated THEN Fail(listed, "syntax")
     ELSE ExpectWord(after, "do")
StepFor(p, f) ==
  LET opened == Opened(p, f, "for")
  IN IF f.phase = 0
     THEN IF Failed(opened) THEN opened
          ELSE Push(ParseForHeader(opened, Newest(opened)), "list", {"done"})
     ELSE Complete(ExpectWord(Taken(p, f), "done"), f.node)

------------------------------------------------------------------------------
(* case ... esac. *)

ParseCaseHeader(p, f) ==
  LET opened == Advance(Opened(p, f, "case"))
      subject == AppendWord(opened, Newest(opened))
  IN IF Failed(opened) THEN opened
     ELSE IF ~IsWord(Current(opened)) \/ Failed(subject) THEN Unexpected(subject)
     ELSE SkipLinebreak(ExpectWord(SkipLinebreak(subject), "in"))

RECURSIVE ParsePatterns(_, _)
ParsePatterns(p, item) ==
  LET appended == AppendWord(p, item)
  IN IF Failed(p) THEN p
     ELSE IF ~IsWord(Current(p)) THEN Unexpected(p)
     ELSE IF Failed(appended) \/ Current(appended) # "|" THEN appended
     ELSE ParsePatterns(Advance(appended), item)
ParseCasePatterns(p, item) ==
  SkipLinebreak(ExpectWord(ParsePatterns(IF Current(p) = "(" THEN Advance(p) ELSE p, item), ")"))

FinishCaseItem(p, f) ==
  LET fell == IF Current(p) = ";&" THEN SetFlag(p, f.saved, "fallthrough") ELSE p
      ended == AppendChild(SkipLinebreak(Advance(fell)), f.node, f.saved)
  IN CASE Current(p) \in {";;", ";&"} ->
            IF Current(ended) = End THEN Fail(ended, "incomplete") ELSE ended
       [] Current(p) = "esac" -> AppendChild(p, f.node, f.saved)
       [] OTHER -> Unexpected(p)

\* The next item, or the end.
StepCaseItem(p, f) ==
  LET q == NewNode(p, "case_item")
      headed == ParseCasePatterns(q, Newest(q))
      next == [f EXCEPT !.saved = Newest(q)]
  IN IF Failed(p) THEN p
     ELSE IF Current(p) = "esac" THEN Complete(Advance(p), f.node)
     ELSE IF Failed(q) THEN q
     ELSE IF Failed(headed) \/ ListStops(headed, CaseItemEnd) \/ Current(headed) = End
     THEN With(headed, [next EXCEPT !.phase = 3])
     ELSE Push(With(headed, [next EXCEPT !.phase = 2]), "list", CaseItemEnd)
StepCase(p, f) ==
  LET opened == ParseCaseHeader(p, f)
      body == IF f.phase = 2 THEN AppendChild(p, f.saved, p.value) ELSE p
  IN IF f.phase = 0 THEN IF Failed(opened) THEN opened ELSE StepCaseItem(opened, Last(opened.frames))
     ELSE StepCaseItem(FinishCaseItem(body, f), [f EXCEPT !.phase = 1])

StepFunction(p, f) ==
  LET opened == Opened(p, f, "function")
      named == AppendWord(opened, Newest(opened))
      at == SkipLinebreak(Advance(Advance(named)))
  IN CASE f.phase = 0 /\ (Failed(opened) \/ Failed(named)) -> named
       [] f.phase = 0 /\ ~(Failed(opened) \/ Failed(named)) ->
            IF Compound(at) THEN Push(at, Current(at), {}) ELSE Unexpected(at)
       [] OTHER -> Complete(Taken(p, f), f.node)

MachineStep(p) ==
  LET f == Last(p.frames)
  IN CASE f.kind = "list" -> StepList(p, f)
       [] f.kind = "and_or" -> StepAndOr(p, f)
       [] f.kind = "pipeline" -> StepPipeline(p, f)
       [] f.kind = "command" -> StepCommand(p, f)
       [] f.kind \in {"(", "{"} -> StepGroup(p, f)
       [] f.kind \in {"while", "until"} -> StepLoop(p, f)
       [] f.kind = "if" -> StepIf(p, f)
       [] f.kind = "for" -> StepFor(p, f)
       [] f.kind = "case" -> StepCase(p, f)
       [] f.kind = "function" -> StepFunction(p, f)

RECURSIVE ParseSyntax(_)
ParseSyntax(p) == IF Failed(p) \/ p.frames = <<>> THEN p ELSE ParseSyntax(MachineStep(p))

\* A script; value is the root, 0 for a script without a command.
Parse(tokens) ==
  LET start == SkipLinebreak(Parser(tokens))
      end == SkipLinebreak(ParseSyntax(Push(start, "list", {})))
  IN IF Current(start) = End THEN start
     ELSE IF ~Failed(end) /\ Current(end) # End THEN Fail(end, "syntax") ELSE end

------------------------------------------------------------------------------
(* The tree of a script, as the rest of the shell reads it out of the       *)
(* arrays, and the text of a tree.                                          *)

\* The images of the members of a sequence, and those joined.
MapSeq(op(_), s) == FoldLeft(LAMBDA done, e : Append(done, op(e)), <<>>, s)
JoinSeq(op(_), s) == FoldLeft(LAMBDA done, e : done \o op(e), <<>>, s)
Numbers(n) == [i \in 1..n |-> i]

RECURSIVE TreeOf(_, _)
TreeOf(p, n) ==
  LET node == p.nodes[n]
  IN [is |-> node.kind, flags |-> node.flags, connector |-> node.connector,
      words |-> SubSeq(p.words, node.firstWord, node.firstWord + node.words - 1),
      redirects |-> SubSeq(p.redirects, node.firstRedirect,
                           node.firstRedirect + node.redirects - 1),
      children |-> MapSeq(LAMBDA c : TreeOf(p, c), node.children)]

RedirectText(redirect) ==
  (IF redirect[1] = "2" THEN <<"2">> ELSE <<>>) \o <<redirect[2], redirect[3]>>
RECURSIVE Text(_)
Text(t) ==
  LET Child(i) == Text(t.children[i])
      n == Len(t.children)
      Each(open(_), close(_)) == JoinSeq(LAMBDA i : open(i) \o Child(i) \o close(i), Numbers(n))
      Nothing(i) == <<>>
      Branch(i) ==
        LET b == t.children[i]
            body == Text(Last(b.children))
        IN IF Len(b.children) = 1 THEN <<"else">> \o body
           ELSE <<IF i = 1 THEN "if" ELSE "elif">> \o Text(b.children[1]) \o <<"then">> \o body
      Item(i) ==
        LET c == t.children[i]
        IN <<"(", Head(c.words)>> \o JoinSeq(LAMBDA w : <<"|", w>>, Tail(c.words))
           \o <<")">> \o (IF c.children = <<>> THEN <<>> ELSE Text(c.children[1]))
           \o <<IF "fallthrough" \in c.flags THEN ";&" ELSE ";;">>
      ListEnd(i) == <<IF "async" \in t.children[i].flags THEN "&" ELSE ";">>
      Connect(i) == IF i = 1 THEN <<>> ELSE <<t.children[i].connector, Newline>>
      Piped(i) == IF i = 1 THEN <<>> ELSE <<"|">>
      body ==
        CASE t.is = "simple" -> t.words
          [] t.is = "list" -> Each(Nothing, ListEnd)
          [] t.is = "and_or" -> Each(Connect, Nothing)
          [] t.is = "pipeline" ->
               (IF "negated" \in t.flags THEN <<"!">> ELSE <<>>) \o Each(Piped, Nothing)
          [] t.is = "(" -> <<"(">> \o Child(1) \o <<")">>
          [] t.is = "{" -> <<"{">> \o Child(1) \o <<"}">>
          [] t.is \in {"while", "until"} ->
               <<t.is>> \o Child(1) \o <<"do">> \o Child(2) \o <<"done">>
          [] t.is = "if" -> JoinSeq(Branch, Numbers(n)) \o <<"fi">>
          [] t.is = "for" ->
               <<"for", Head(t.words)>>
               \o (IF "in" \in t.flags THEN <<"in">> \o Tail(t.words) \o <<Newline>> ELSE <<>>)
               \o <<"do">> \o Child(1) \o <<"done">>
          [] t.is = "case" ->
               <<"case">> \o t.words \o <<Newline, "in">> \o JoinSeq(Item, Numbers(n))
               \o <<"esac">>
          [] t.is = "function" -> <<Head(t.words), "(", ")", Newline>> \o Child(1)
  IN body \o JoinSeq(RedirectText, t.redirects)

=============================================================================
