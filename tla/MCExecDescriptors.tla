-------------------------- MODULE MCExecDescriptors --------------------------
(* Two files, the numbers a user would take, and few enough descriptors      *)
(* that the table fills up.                                                  *)
EXTENDS ExecDescriptors

MCFiles == {<<"file", "terminal">>, <<"file", "log">>, <<"file", "other">>}
Open(to, file) == [op |-> "open", to |-> to, file |-> <<"file", file>>]
Dup(to, from) == [op |-> "dup", to |-> to, from |-> from]
Shut(to) == [op |-> "close", to |-> to]

MCRedirects == {Open(3, "other"), Open(8, "log"), Dup(9, 1), Dup(8, 3), Shut(0)}
Ones == {<<r>> : r \in MCRedirects}
Pairs == {<<Open(8, "log"), Dup(3, 8)>>, <<Open(8, "log"), Open(9, "other")>>,
          <<Shut(0), Open(3, "other")>>}
\* One that takes most of the numbers that are left.
Many == <<Open(8, "other"), Open(9, "other"), Open(10, "other"), Open(11, "other"),
          Open(14, "other")>>
Borrowed == <<Open(8, "log"), Open(10, "other")>>
MCRedirections == Ones \cup Pairs \cup {<<Dup(3, 8)>>, Many, Borrowed, <<>>}
Command(kind, redirects) == [kind |-> kind, redirects |-> redirects]
Exec(redirects) == Command("exec", redirects)
MCCommands == {Exec(rs) : rs \in Ones \cup Pairs \cup {Many}}
              \cup {Command("exec utility", rs) : rs \in {<<>>, <<Open(3, "other")>>}}
Script(commands) == [commands |-> commands, sourced |-> FALSE]
Builtin == Command("builtin", Borrowed)
Utility == Command("exec utility", <<>>)
MCScripts ==
  {Script(<<command>>) : command \in (MCCommands \ {Exec(Many)}) \cup {Builtin}}
  \cup {Script(<<Builtin, Exec(rs)>>) : rs \in Pairs}
  \cup {Script(<<Utility, Exec(<<Dup(9, 1)>>), Utility>>)}
  \cup {Script(<<Exec(<<Open(8, "log")>>), Exec(<<r>>)>>) : r \in {Dup(3, 8), Dup(9, 1)}}
\* The same, read from a file by `.' when it runs.
MCSourced == {[script EXCEPT !.sourced = TRUE] : script \in MCScripts}

Start(full) ==
  [fd \in Fds |->
     CASE fd <= 2 -> <<"file", "terminal">>
       [] fd = 3 -> Own("tty") [] fd = 4 -> Own("signal_read")
       [] fd = 5 -> Own("signal_write") [] fd = 6 -> Own("worker")
       [] fd = 7 /\ full # {} -> Own("pty")
       [] fd \in full -> <<"file", "other">>
       [] OTHER -> Closed]
MCInitial == {Start({}), Start({12, 13})}
==============================================================================
