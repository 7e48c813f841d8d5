----------------------------- MODULE MCStorage -----------------------------
(* Two shells with short histories, and commands with characters that the *)
(* file escapes.                                                          *)
EXTENDS Storage

CONSTANTS s1, s2
MCCommands == {<<"n">>, <<"n", "escape", "n">>, <<"escape", "newline">>, <<"a", "return">>}
MCFileLines == {<<>>, << <<"a">>, <<"return">>, <<"n", "return">>, <<"escape", "n">> >>}
MCMaxEntries == [s \in Shells |-> IF s = s1 THEN 3 ELSE 2]
MCDeduplicate == [s \in Shells |-> s = s1]

=============================================================================
