------------------------------- MODULE MCWords -------------------------------
(* Small alphabets for the expansions of a word. *)
EXTENDS Words

MCTokens ==
  {[kind |-> "plain", of |-> {"a"}], [kind |-> "quoted", of |-> {"*"}],
   [kind |-> "any", of |-> {}], [kind |-> "star", of |-> {}],
   [kind |-> "set", of |-> {"a", "wide"}], [kind |-> "set", of |-> {"a", "marked"}],
   [kind |-> "open", of |-> {}],
   [kind |-> "dangling", of |-> {}]}

MCNumerals == [n \in {"1", "3", "big"} |-> IF n = "1" THEN 1 ELSE IF n = "3" THEN 3 ELSE 8]
MCLeaves ==
  {[is |-> "numeral", name |-> n] : n \in {"1", "3"}}
  \cup {[is |-> "variable", name |-> n] : n \in {"x", "y"}}

MCSeparator == <<" ">>
MCValues == {<<>>, <<" ">>, <<":", "a">>, <<" ", "a", " ">>, <<"a", " ", ":">>}
MCArguments ==
  {<<>>, << <<>> >>, << <<"a">>, <<" ">>, <<"a">> >>, << <<" ", "a">>, <<>> >>,
   << <<"a", ":">>, <<"a">> >>}
X == Parameter("x", "none", FALSE, <<>>)
MCWordPieces ==
  {Character("a"), Single(<<>>), Double(<<X>>), X, Positional("@"), AtPiece,
   Double(<<Positional("*")>>),
   Parameter("y", "=", TRUE, <<Double(<<Character("a")>>)>>),
   Parameter("y", "-", FALSE, <<Positional("@")>>),
   Parameter("x", "+", TRUE, <<Double(<<X>>), X>>),
   Parameter("y", "?", FALSE, <<>>)}

\* Directories d and e, files f in them and beside them, a link to nothing.
Directory == [p \in {<<"d">>, <<"e">>} |-> "directory"]
MCTrees ==
  <<Directory @@ [p \in {<<"d", "f">>, <<"e", "f">>} |-> "file"],
    Directory @@ [p \in {<<"f">>, <<"d", "f">>, <<"e", "f">>} |-> "file"],
    Directory @@ [p \in {<<"d", "f">>, <<"e", "d">>} |-> "file"]
      @@ [p \in {<<"f">>} |-> "dangling"],
    Directory @@ [p \in {<<"d", "d">>, <<"e", "e">>} |-> "directory"]
      @@ [p \in {<<"f">>, <<"d", "f">>, <<"e", "f">>, <<"e", "d">>, <<"d", "d", "e">>,
                  <<"e", "e", "f">>} |-> "file"]>>
MCComponents ==
  {Literal("d"), Literal("f"), Pattern({"d", "e", "f"}), Pattern({"d", "e"}), Pattern({"f"})}
Letter(n) == CASE n = "d" -> 1 [] n = "e" -> 2 [] n = "f" -> 3
MCBefore(p, q) ==
  \E i \in DOMAIN q : /\ \A j \in 1..i - 1 : j \in DOMAIN p /\ p[j] = q[j]
                      /\ i \in DOMAIN p => Letter(p[i]) < Letter(q[i])

=============================================================================
