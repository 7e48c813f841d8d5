---------------------------- MODULE MCStateCommit ----------------------------
(***************************************************************************)
(* Instances of the state transaction: three variables besides PWD, one of *)
(* them exported and one absent at the start, two values, and every pair   *)
(* of steps on one variable, with the other parts of the session beside    *)
(* them.                                                                   *)
(***************************************************************************)
EXTENDS StateCommit

MCNames == {"x", "y", "z", "PWD"}
MCValues == {"a", "b"}

MCInitial ==
  [variables |-> [n \in Names |->
      IF n = "y" THEN Absent
      ELSE [present |-> TRUE, set |-> TRUE, value |-> "a",
            attributes |-> IF n = "x" THEN {"exported"} ELSE {}]],
   aliases |-> {"k"}, functions |-> "base", positionals |-> "base", options |-> "base",
   cache |-> "base", directory |-> "a"]

VariableSteps ==
  [op : {"assign"}, name : {"x"}, value : MCValues, attributes : SUBSET {"readonly"}]
  \cup [op : {"declare"}, name : {"x"}, attributes : {{"exported"}, {"readonly"}}]
  \cup [op : {"unset"}, name : {"x"}]

Plain(op) == [op |-> op]
OtherSteps ==
  {Plain("unalias_all"), Plain("define"), Plain("positional"), Plain("option"), Plain("hash"),
   Plain("redirect"), Plain("overlay_fails"), Plain("skipped_cd"),
   [op |-> "cd", value |-> "b"], [op |-> "alias", name |-> "l"],
   [op |-> "unalias", name |-> "k"], [op |-> "exit", code |-> 3]}

Set == [op |-> "assign", name |-> "x", value |-> "b", attributes |-> {}]

\* Full store: room is made and used again, and the journal, in the order the
\* names were first changed, exceeds the table on the way.
Crowded == <<[op |-> "unset", name |-> "x"],
             [op |-> "assign", name |-> "y", value |-> "a", attributes |-> {}],
             [op |-> "unset", name |-> "z"],
             Set, [op |-> "cd", value |-> "b"]>>

\* Pairs of changes of one variable; one more part changed with a variable;
\* and commands that change several parts.
MCScripts ==
  {<<s, t>> : s, t \in VariableSteps}
  \cup {<<s, Set>> : s \in OtherSteps}
  \cup {<<Set, Plain("overlay")>>, <<Set, Plain("define"), [op |-> "exit", code |-> 3]>>,
        <<[op |-> "alias", name |-> "l"], [op |-> "unalias", name |-> "k"],
          [op |-> "alias", name |-> "k"], Set>>,
        <<[op |-> "cd", value |-> "b"], Plain("redirect"), [op |-> "exit", code |-> 3]>>,
        Crowded}

MCDirect ==
  {[op |-> "assign", name |-> "x", value |-> "b"], Plain("unalias_all"), Plain("define"),
   Plain("hash"), Plain("set")}
CdDirect == {[op |-> "cd", value |-> "b"]}

AllFaults == {"send", "malformed", "write", "kill", "read", "directory", "exec", "launch"}
==============================================================================
