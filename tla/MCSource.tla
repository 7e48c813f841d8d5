------------------------------ MODULE MCSource ------------------------------
(* Small alphabets for scripts. *)
EXTENDS Source

MCLines ==
  { <<"word">>, <<"for", "name">>, <<"for", "name", "in", "word">>, <<"in", "word">>,
    <<"do", "word">>, <<"done">>, <<"if", "word">>, <<"then", "word">>, <<"else">>, <<"fi">>,
    <<"elif", "word">>, <<"case", "word", "in">>, <<"case", "word">>, <<"word", ")", "word">>,
    <<"(", "word", "|", "word", ")">>, <<";;">>, <<"esac">>, <<"name", "(", ")">>, <<"{">>,
    <<"}", ">", "word">>, <<"word", "|">>, <<"word", "&&">>, <<"!", "word", "&">>,
    <<"(", "word">>, <<")">>, <<"until", "word", ";", "do">>, <<"2", ">">>, <<"word", "in">> }

Plain(t) == [text |-> <<t>>, tab |-> FALSE, continued |-> FALSE, heredocs |-> <<>>]
Operator(d, q, s) == [delimiter |-> d, quoted |-> q, strip |-> s]
MCScriptLines ==
  {Plain("E"), Plain("F"),
   [Plain("E") EXCEPT !.tab = TRUE],
   [Plain("a") EXCEPT !.continued = TRUE],
   [Plain("c") EXCEPT !.heredocs = <<Operator(<<"E">>, FALSE, FALSE)>>],
   [Plain("c") EXCEPT !.heredocs = <<Operator(<<"E">>, TRUE, TRUE), Operator(<<"F">>, FALSE, TRUE)>>],
   [Plain("c") EXCEPT !.heredocs = <<Operator(<<"a", "F">>, FALSE, FALSE)>>]}

Alias(words, blank) == [words |-> words, blank |-> blank]
MCAliasTables ==
  <<[n \in {"a", "b"} |-> IF n = "a" THEN Alias(<<"b", "a">>, TRUE) ELSE Alias(<<"a">>, FALSE)],
    [n \in {"a", "b"} |-> IF n = "a" THEN Alias(<<>>, TRUE) ELSE Alias(<<"c", ";", "b">>, TRUE)],
    [n \in {"a", "b", "c"} |-> IF n = "a" THEN Alias(<<"b">>, TRUE)
                               ELSE IF n = "b" THEN Alias(<<"c", ";">>, FALSE)
                               ELSE Alias(<<"a", "b">>, FALSE)],
    [n \in {"a", "b"} |-> IF n = "a" THEN Alias(<<"command">>, TRUE)
                          ELSE Alias(<<"b", ";", "a">>, TRUE)]>>

=============================================================================
