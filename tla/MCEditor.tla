------------------------------ MODULE MCEditor ------------------------------
(* A few names for every place of a word, keys that meet in the editor, and *)
(* pastes whose bytes come close to the end of a paste.                     *)
EXTENDS Editor

MCOrder == <<" ", "$", "'", "-", ".", "/", ";", "<", "=", "a", "b", "c", "backslash", "{", "}", "lead", "more">>
MCIncomplete(command) == command # <<>> /\ Last(command) = "backslash"

Start == <<"escape", "[">>
Pasted(bytes) == Start \o <<"2", "0", "0", "~">> \o bytes \o PasteEnd
MCKeys == {<<"a">>, <<" ">>, <<"lead", "more">>, <<"backslash">>, <<"tab">>, <<"erase">>, <<"kill">>,
           <<"search">>, <<"return">>, <<"escape">>, <<"interrupt">>, <<"end">>}
          \cup {Append(Start, c) : c \in {"A", "B", "C", "D"}}
MCAfterEscape == {k \in MCKeys : Len(k) = 1}
MCPastes == {Pasted(<<"a", "return", "newline", "newline">>),
             Pasted(<<"escape", "[", "2", "escape", "[", "2", "0", "escape", "a", "return">>)}
MCHistories == {<<>>, << <<"a">>, <<"b", "a">>, <<"lead", "more">> >>}
MCLines == {<<>>, <<"lead", "more", "a">>, <<"a">>, <<"b">>}

MCFiles == {[text |-> <<"a", " ", "b">>, kind |-> "file"], [text |-> <<"a", "b">>, kind |-> "directory"],
            [text |-> <<"a", "b", "/", "a">>, kind |-> "program"], [text |-> <<".", "b">>, kind |-> "file"],
            [text |-> <<"b", "b">>, kind |-> "directory"]}
MCKnowledge(directory, generation) ==
  [commands |-> {<<"a", "b">>, <<"a", "b", "a">>, <<"b", "a", "c">>},
   aliases |-> IF generation = 0 THEN {<<"b">>} ELSE {},
   variables |-> IF generation = 0 THEN {<<"a">>, <<"b">>} ELSE {<<"b">>},
   subcommands |-> {}, options |-> << >>,
   files |-> IF directory = "here" THEN MCFiles
             ELSE {[text |-> <<"a", "c">>, kind |-> "file"], [text |-> <<"b", "c">>, kind |-> "file"]}]
MCAlphabet == {"a", "b", " ", ";", "=", "/", ".", "backslash", "$"}
MCQuestions == UNION {[1..n -> MCAlphabet] : n \in 0..4}

=============================================================================
