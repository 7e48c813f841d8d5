------------------------------ MODULE Patterns ------------------------------
(***************************************************************************)
(* The two places where native_plan.c applies a pattern: the parameter     *)
(* expansions that remove one, and pathname expansion.                     *)
(*                                                                         *)
(* ${x#p} ${x##p} ${x%p} ${x%%p}: the code never searches a pattern in one *)
(* way: it classifies it and takes the cheapest of five searches, and the  *)
(* interactive shell leaves the searches it cannot bound to an evaluator.  *)
(* A pattern is a sequence of tokens and a value a sequence of characters; *)
(* the cut is the number of characters before which (prefix) or from which *)
(* on (suffix) the value is removed.                                       *)
(***************************************************************************)
EXTENDS Integers, Sequences, SequencesExt, FiniteSetsExt

CONSTANTS
  Characters,   \* what values are made of
  Wide,         \* those that take two bytes
  Marked,       \* of these, those with the byte GSH_PATTERN_STAR_MARKER, as A-grave
  WorkCap       \* GSH_PATTERN_REACTOR_WORK_CAP

ASSUME CharactersAssumption == Marked \subseteq Wide /\ Wide \subseteq Characters

\* A token as the word expansion leaves it.  "set" is a bracket with the
\* characters that are written in it, "open" one that nothing closes,
\* "dangling" a backslash at the end; a quoted character stands for itself
\* whatever it is.
Kinds == {"plain", "quoted", "escaped", "any", "set", "star", "open", "dangling"}
Token == [kind : Kinds, of : SUBSET Characters]

Operations == {"smallest_prefix", "largest_prefix", "smallest_suffix", "largest_suffix"}
OfPrefix(operation) == operation \in {"smallest_prefix", "largest_prefix"}
Shortest(operation) == operation \in {"smallest_prefix", "smallest_suffix"}
\* The searches that want the leftmost cut.
FirstMatch(operation) == operation \in {"smallest_prefix", "largest_suffix"}

From(s, i) == SubSeq(s, i + 1, Len(s))
Upto(s, i) == SubSeq(s, 1, i)

(* fnmatch(3) with no flag, as the code calls it. *)
MatchesOne(token, c) ==
  \/ token.kind = "any"
  \/ token.kind \in {"plain", "quoted", "escaped", "set", "open"} /\ c \in token.of

RECURSIVE FnMatch(_, _)
FnMatch(pattern, text) ==
  IF pattern = <<>> THEN text = <<>>
  ELSE IF Head(pattern).kind = "star"
       THEN \E i \in 0..Len(text) : FnMatch(Tail(pattern), From(text, i))
       ELSE /\ text # <<>>
            /\ MatchesOne(Head(pattern), Head(text))
            /\ FnMatch(Tail(pattern), Tail(text))

------------------------------------------------------------------------------
(* The classes. *)

Syntax == {"escaped", "any", "set", "star", "open", "dangling"}
HasSyntax(pattern) == \E i \in DOMAIN pattern : pattern[i].kind \in Syntax

\* A bracket expression is skipped as a whole: only the characters outside of
\* one are looked at.
AsciiToken(token) == token.kind = "set" \/ token.of \cap Wide = {}
AsciiPattern(pattern) == \A i \in DOMAIN pattern : AsciiToken(pattern[i])
AsciiText(text) == \A i \in DOMAIN text : text[i] \notin Wide

Stars(pattern) == {i \in DOMAIN pattern : pattern[i].kind = "star"}
Closed(pattern) == \A i \in DOMAIN pattern : pattern[i].kind \notin {"open", "dangling"}

SingleStarPattern(pattern) ==
  /\ \A i \in DOMAIN pattern :
        /\ pattern[i].of \cap Wide = {}
        /\ pattern[i].kind \in {"plain", "quoted", "star"}
  /\ Cardinality(Stars(pattern)) = 1

\* Every token but a star is as wide as one character.
FixedWidth(pattern) == AsciiPattern(pattern) /\ Closed(pattern) /\ Stars(pattern) = {}
FixedSingleStar(pattern) ==
  AsciiPattern(pattern) /\ Closed(pattern) /\ Cardinality(Stars(pattern)) = 1
MarkedStars(pattern) ==
  IF AsciiPattern(pattern) /\ Closed(pattern) THEN Cardinality(Stars(pattern)) ELSE 0

\* The active stars are overwritten with a byte that text in ASCII has not; a
\* bracket may have it, in a character of two bytes.
Star == [kind |-> "star", of |-> {}]
HoldsMarker(token) == token.of \cap Marked # {}

\* With the stars marked the pattern is split wherever that byte is: a set that
\* holds it falls into a bracket that is not closed, up to the first byte of the
\* character, and the bracket's end.
SplitToken(token) ==
  IF token.kind = "set" /\ HoldsMarker(token)
  THEN <<[kind |-> "open", of |-> token.of \ Marked], Star, [kind |-> "plain", of |-> {}]>>
  ELSE <<token>>
Segments(pattern) ==
  LET Step(done, token) ==
        IF token.kind = "star" THEN Append(done, <<>>)
        ELSE Upto(done, Len(done) - 1) \o <<Append(Last(done), token)>>
  IN FoldLeft(Step, << <<>> >>, FlattenSeq([i \in DOMAIN pattern |-> SplitToken(pattern[i])]))

\* Afterwards every such byte is a star, whether it was one or not.  In a set it
\* is the character "*", and what is left of the other one matches no ASCII text
\* (fnmatch goes byte by byte where a pattern does not decode); elsewhere it is
\* an active one, behind a byte that matches nothing.
RestoredToken(token) ==
  CASE ~HoldsMarker(token) -> <<token>>
    [] HoldsMarker(token) /\ token.kind = "set" ->
         <<[token EXCEPT !.of = (@ \ Marked) \cup {"*"}]>>
    [] OTHER -> <<[token EXCEPT !.of = {}], Star>>
RestoredStars(pattern) == FlattenSeq([i \in DOMAIN pattern |-> RestoredToken(pattern[i])])

BytesOf(characters) == Cardinality(characters) + Cardinality(characters \cap Wide)
TokenBytes(token) ==
  CASE token.kind = "escaped" -> 2
    [] token.kind = "set" -> 2 + BytesOf(token.of)
    [] token.kind = "open" /\ token.of # {} -> 2 + BytesOf(token.of)
    [] OTHER -> 1
SegmentBytes(segment) == FoldLeft(LAMBDA n, t : n + TokenBytes(t), 0, segment)
LongestSegment(pattern) ==
  Max({SegmentBytes(Segments(pattern)[i]) : i \in DOMAIN Segments(pattern)})

------------------------------------------------------------------------------
(* The searches: each answers the set of its candidates' cuts, at most one. *)

FirstOf(cuts, leftmost) ==
  IF cuts = {} THEN {} ELSE {IF leftmost THEN Min(cuts) ELSE Max(cuts)}

Occurs(segment, text, at) ==
  /\ at >= 0 /\ at + Len(segment) <= Len(text)
  /\ FnMatch(segment, SubSeq(text, at + 1, at + Len(segment)))

\* No active character: the bytes are compared at the end of the value.
LiteralCut(pattern, text, operation) ==
  LET cut == IF OfPrefix(operation) THEN Len(pattern) ELSE Len(text) - Len(pattern)
  IN {c \in {cut} : Occurs(pattern, text, IF OfPrefix(operation) THEN 0 ELSE c)}

FixedCut(pattern, text, operation) ==
  LET begin == IF OfPrefix(operation) THEN 0 ELSE Len(text) - Len(pattern)
  IN IF Occurs(pattern, text, begin)
     THEN {IF OfPrefix(operation) THEN Len(pattern) ELSE begin} ELSE {}

\* MUTANT: the two sides of the star may share characters.
OverlappingCut(head, tail, text, operation) ==
  LET prefix == OfPrefix(operation)
      Found(c) == IF prefix THEN Occurs(tail, text, c - Len(tail)) ELSE Occurs(head, text, c)
      anchored == IF prefix THEN Occurs(head, text, 0)
                  ELSE Occurs(tail, text, Len(text) - Len(tail))
  IN IF anchored THEN FirstOf({c \in 0..Len(text) : Found(c)}, FirstMatch(operation)) ELSE {}

\* One star: the side the removal starts from is anchored, the other side is
\* looked for in the rest.
AnchoredCut(head, tail, text, operation) ==
  LET minimum == IF OfPrefix(operation) THEN Len(head) + Len(tail) ELSE 0
      maximum == IF OfPrefix(operation) THEN Len(text)
                 ELSE Len(text) - Len(head) - Len(tail)
      anchored == IF OfPrefix(operation) THEN Occurs(head, text, 0)
                  ELSE Occurs(tail, text, Len(text) - Len(tail))
      candidates == {c \in minimum..maximum :
                       IF OfPrefix(operation) THEN Occurs(tail, text, c - Len(tail))
                       ELSE Occurs(head, text, c)}
  IN IF Len(text) < Len(head) + Len(tail) \/ ~anchored THEN {}
     ELSE FirstOf(candidates, FirstMatch(operation))

SingleStarCut(pattern, text, operation) ==
  LET star == CHOOSE i \in Stars(pattern) : TRUE
  IN AnchoredCut(Upto(pattern, star - 1), From(pattern, star), text, operation)

FixedSingleStarCut(pattern, text, operation) ==
  LET star == CHOOSE i \in Stars(pattern) : TRUE
  IN AnchoredCut(Upto(pattern, star - 1), From(pattern, star), text, operation)

\* Several stars and the shortest removal: the segments are placed one after
\* the other, each as near to the anchor as it goes.  A segment without a fixed
\* width is none that can be placed.
ShortestStarsCut(pattern, text, operation) ==
  LET prefix == OfPrefix(operation)
      Place(s, segment) ==
        LET width == Len(segment)
            low == IF prefix THEN s.cursor ELSE 0
            high == IF prefix THEN Len(text) - width ELSE s.cursor - width
            places == IF s.separated THEN {p \in low..high : Occurs(segment, text, p)}
                      ELSE {p \in {IF prefix THEN 0 ELSE Len(text) - width} :
                              Occurs(segment, text, p)}
            place == FirstOf(places, prefix)
        IN IF segment = <<>> \/ ~s.ok THEN [s EXCEPT !.separated = TRUE]
           ELSE IF ~FixedWidth(segment) \/ place = {} THEN [s EXCEPT !.ok = FALSE]
           ELSE [ok |-> TRUE, separated |-> TRUE,
                 cursor |-> (CHOOSE p \in place : TRUE) + IF prefix THEN width ELSE 0]
      segments == IF prefix THEN Segments(pattern) ELSE Reverse(Segments(pattern))
      end == FoldLeft(Place, [ok |-> TRUE, separated |-> FALSE,
                              cursor |-> IF prefix THEN 0 ELSE Len(text)], segments)
  IN IF end.ok THEN {end.cursor} ELSE {}

\* The general search tries every cut, from the left when the leftmost or a
\* character boundary is wanted and from the right otherwise.
MatchesAt(pattern, text, operation, cut) ==
  FnMatch(pattern, IF OfPrefix(operation) THEN Upto(text, cut) ELSE From(text, cut))
ScanCut(pattern, text, operation) ==
  FirstOf({c \in 0..Len(text) : MatchesAt(pattern, text, operation, c)},
          FirstMatch(operation))

\* Before the scan one call asks whether any cut can match.  A backslash at
\* the end would take the star that the question appends.
Dangling(pattern) == pattern # <<>> /\ Last(pattern).kind = "dangling"
ExistenceKnown(pattern, operation) == ~(OfPrefix(operation) /\ Dangling(pattern))
MatchExists(pattern, text, operation) ==
  FnMatch(IF OfPrefix(operation) THEN Append(pattern, Star) ELSE <<Star>> \o pattern, text)

------------------------------------------------------------------------------
(* One removal.  deferred tells the shell that the expansion needs an       *)
(* evaluator process, which does not defer.                                 *)

Found(cut) == [deferred |-> FALSE, cut |-> cut]
Deferred == [deferred |-> TRUE, cut |-> {}]

GeneralRemoval(pattern, text, operation, defer) ==
  LET bounded == \/ ~defer
                 \/ LongestSegment(pattern) = 0
                 \/ Len(text) <= WorkCap \div LongestSegment(pattern)
      left == IF AsciiText(text) THEN RestoredStars(pattern) ELSE pattern
  IN CASE AsciiText(text) /\ FixedWidth(pattern) ->
            Found(FixedCut(pattern, text, operation))
       [] AsciiText(text) /\ FixedSingleStar(pattern) ->
            Found(FixedSingleStarCut(pattern, text, operation))
       [] AsciiText(text) /\ MarkedStars(pattern) > 1 /\ bounded /\ Shortest(operation) ->
            Found(ShortestStarsCut(pattern, text, operation))
       [] OTHER ->
            IF defer THEN Deferred
            ELSE IF ExistenceKnown(left, operation) /\ ~MatchExists(left, text, operation)
                 THEN Found({})
                 ELSE Found(ScanCut(left, text, operation))

\* Where the stars are marked: a pattern that takes none of the other searches,
\* on text in ASCII.
StarsAreMarked(pattern, text) ==
  /\ HasSyntax(pattern) /\ ~SingleStarPattern(pattern)
  /\ AsciiText(text) /\ ~FixedWidth(pattern) /\ ~FixedSingleStar(pattern)

RemoveParameterPattern(pattern, text, operation, defer) ==
  CASE ~HasSyntax(pattern) -> Found(LiteralCut(pattern, text, operation))
    [] HasSyntax(pattern) /\ SingleStarPattern(pattern) ->
         Found(SingleStarCut(pattern, text, operation))
    [] OTHER -> GeneralRemoval(pattern, text, operation, defer)

------------------------------------------------------------------------------
(* What POSIX promises: the shortest or the longest part that matches. *)

Promised(pattern, text, operation) ==
  FirstOf({c \in 0..Len(text) : MatchesAt(pattern, text, operation, c)},
          FirstMatch(operation))

------------------------------------------------------------------------------
(* Pathname expansion of one field: the components of the pattern are      *)
(* matched one after the other against the directories that the components *)
(* before them produced.  A path is the sequence of its names; a component *)
(* is a literal name or a pattern, the set of the names that fnmatch(3)    *)
(* accepts with FNM_PERIOD.                                                *)

CONSTANTS
  CandidateCap,    \* GSH_PATHNAME_CANDIDATE_CAP
  Before(_, _)     \* the order of two paths, as strcoll(3) has it

\* What is in the file system: a function from the paths that exist to what
\* stat(2) says of them, "dangling" when it fails.
Types == {"file", "directory", "dangling"}
Exists(tree, path) == path \in DOMAIN tree
IsDirectory(tree, path) == path = <<>> \/ (Exists(tree, path) /\ tree[path] = "directory")
Entries(tree, path) == {p \in DOMAIN tree : Len(p) = Len(path) + 1 /\ IsPrefix(path, p)}

Literal(name) == [magic |-> FALSE, names |-> {name}]
Pattern(names) == [magic |-> TRUE, names |-> names]
Accepts(component, name) == name \in component.names

Answer(status, paths) == [status |-> status, paths |-> paths]

\* A literal name is joined to every directory; the candidates that do not
\* exist, or are no directory where one is needed, are left out.
AppendLiteral(tree, current, component, final) ==
  LET name == CHOOSE n \in component.names : TRUE
      joined == [i \in DOMAIN current |-> Append(current[i], name)]
  IN Answer("ok", SelectSeq(joined, LAMBDA p : IF final THEN Exists(tree, p)
                                               ELSE IsDirectory(tree, p)))

\* A pattern reads each directory.  errno is cleared once for a directory, and
\* a candidate whose stat(2) fails leaves it set: the end of the directory is
\* then taken for an error of reading it.
ReadEntry(tree, final, done, entry) ==
  CASE done.status = "limit" -> done
    [] done.status # "limit" /\ Len(done.paths) = CandidateCap -> Answer("limit", <<>>)
    [] OTHER ->
         IF final \/ IsDirectory(tree, entry)
         THEN [done EXCEPT !.paths = Append(@, entry)]
         ELSE IF tree[entry] = "dangling" THEN [done EXCEPT !.status = "unsupported"]
         ELSE done

AppendPattern(tree, current, component, final) ==
  LET Matching(base) == {p \in Entries(tree, base) : Accepts(component, Last(p))}
      Read(done, base) ==
        IF done.status # "ok" \/ ~IsDirectory(tree, base) THEN done
        ELSE FoldLeft(LAMBDA d, e : ReadEntry(tree, final, d, e), done,
                      SetToSeq(Matching(base)))
  IN FoldLeft(Read, Answer("ok", <<>>), current)

AppendComponent(tree, current, component, final) ==
  IF component.magic THEN AppendPattern(tree, current, component, final)
  ELSE AppendLiteral(tree, current, component, final)

\* MUTANT: the results of a pattern that ends with a slash may be files.
EnumerateAnyType(tree, components, slash) ==
  LET Next(done, i) ==
        IF done.status # "ok" \/ done.paths = <<>> THEN done
        ELSE AppendComponent(tree, done.paths, components[i], i = Len(components))
      found == FoldLeft(Next, Answer("ok", << <<>> >>), [i \in DOMAIN components |-> i])
  IN IF found.status # "ok" THEN found ELSE Answer("ok", SortSeq(found.paths, Before))

\* Every component but the last must be a directory; after a slash at the end
\* each result must be one.
EnumeratePathnamePattern(tree, components, slash) ==
  LET Next(done, i) ==
        IF done.status # "ok" \/ done.paths = <<>> THEN done
        ELSE AppendComponent(tree, done.paths, components[i], i = Len(components))
      found == FoldLeft(Next, Answer("ok", << <<>> >>), [i \in DOMAIN components |-> i])
      plain == \E i \in DOMAIN found.paths : ~IsDirectory(tree, found.paths[i])
  IN IF found.status # "ok" THEN found
     ELSE IF slash /\ plain THEN Answer("ok", <<>>)
     ELSE Answer("ok", SortSeq(found.paths, Before))

\* A field without a match, and one no pattern is active in, stays as it is.
Unchanged == << <<"the field itself">> >>
ExpandPathnameField(tree, components, slash, preflight) ==
  LET found == EnumeratePathnamePattern(tree, components, slash)
      magic == \E i \in DOMAIN components : components[i].magic
  IN IF ~magic \/ preflight \/ (found.status = "ok" /\ found.paths = <<>>)
     THEN Answer("ok", Unchanged) ELSE found

------------------------------------------------------------------------------
(* What POSIX promises: the existing paths that match, in order.             *)

Matches(tree, components, slash) ==
  {p \in DOMAIN tree :
     /\ Len(p) = Len(components)
     /\ \A i \in DOMAIN p : Accepts(components[i], p[i])
     /\ \A i \in 1..Len(p) - 1 : IsDirectory(tree, SubSeq(p, 1, i))
     /\ slash => IsDirectory(tree, p)}

=============================================================================
