--------------------------- MODULE MCNativeMachine ---------------------------
(***************************************************************************)
(* Small scripts for NativeMachine: each nests two or three constructs     *)
(* whose rules meet (control that leaves loops, functions and sourced      *)
(* text, `set -e' and the contexts that suppress it, traps, subshells).    *)
(* The caps are those of the code.                                         *)
(***************************************************************************)
EXTENDS NativeMachine

Node(kind, kids) == [kind |-> kind, kids |-> kids, ops |-> <<>>, neg |-> FALSE,
                     async |-> FALSE, items |-> 0, matches |-> FALSE,
                     through |-> FALSE, cmd |-> None]
Not(n) == [n EXCEPT !.neg = TRUE]
Bg(n) == [n EXCEPT !.async = TRUE]
Simple(c) == [Node("simple", <<>>) EXCEPT !.cmd = c]
Run(name, status) == Simple([op |-> "run", name |-> name, status |-> status])
A == Run("a", 0)  B == Run("b", 0)  C == Run("c", 0)
F == Run("f", 1)  G == Run("g", 3)
Tick(n) == Simple([op |-> "tick", limit |-> n])
SetE == Simple([op |-> "set", on |-> TRUE])
Trap(c) == Simple([op |-> "trap", condition |-> c, action |-> "text"])
Untrap(c) == Simple([op |-> "trap", condition |-> c, action |-> "reset"])
Bad == Simple([op |-> "refused"])
Exit(n) == Simple([op |-> "exit", given |-> TRUE, status |-> n])
ExitLast == Simple([op |-> "exit", given |-> FALSE, status |-> 0])
Return(n) == Simple([op |-> "return", status |-> n])
Break(n) == Simple([op |-> "break", count |-> n])
Continue(n) == Simple([op |-> "continue", count |-> n])
Call(f) == Simple([op |-> "call", name |-> f])
Eval(b) == Simple([op |-> "eval", body |-> b])
Dot(b) == Simple([op |-> "dot", body |-> b])
List(kids) == Node("list", kids)
AndOr(kids, ops) == [Node("and_or", kids) EXCEPT !.ops = ops]
And(a, b) == AndOr(<<a, b>>, <<"", "and">>)
Or(a, b) == AndOr(<<a, b>>, <<"", "or">>)
Pipe1(n) == Node("pipeline", <<n>>)
Pipe(stages) == Node("stages", stages)
Sub(n) == Node("subshell", <<n>>)
If(t, b, e) == Node("if", <<List(<<t, b>>), List(<<e>>)>>)
Item(m, kids, thru) == [Node("item", kids) EXCEPT !.matches = m,
                                                   !.through = thru]
Case(items) == Node("case", items)
For(n, b) == [Node("for", <<b>>) EXCEPT !.items = n]
While(t, b) == Node("while", <<t, b>>)
Until(t, b) == Node("until", <<t, b>>)

MCFunctions ==
    [ret   |-> List(<<For(2, List(<<A, Return(3), B>>)), C>>),
     brk   |-> List(<<Break(1), A>>),
     deep  |-> If(Tick(3), List(<<A, Call("deep")>>), G),
     fails |-> List(<<F, B>>),
     loop  |-> While(Tick(2), List(<<B, Continue(1), C>>)),
     endless |-> If(Tick(99), List(<<Call("endless")>>), A)]

(* The action of a signal ends with 0 and leaves $? as it was; that of     *)
(* EXIT fails, which must not change the status of the shell.              *)
MCActions == [c \in Conditions |->
                IF c = 0 THEN Run("exit-action", 4)
                ELSE Or(Run("signal-action", 7), Run("action-end", 0))]

Commands ==
    { For(2, For(2, List(<<A, Break(2), B>>))),
      For(2, List(<<While(Tick(3), List(<<A, Continue(2), B>>)), C>>)),
      List(<<Until(And(Tick(2), F), List(<<A, Break(1)>>)), B>>),
      While(List(<<Tick(2), Break(1)>>), A),
      List(<<Call("ret"), Or(F, Call("ret")), B>>),
      List(<<For(2, List(<<Call("brk"), A>>)), Call("loop")>>),
      And(Not(Pipe1(Call("deep"))), Eval(List(<<A, Not(Call("ret"))>>))),
      List(<<For(2, List(<<Dot(List(<<A, Return(2), B>>)), C>>)), Return(1)>>),
      For(2, Eval(List(<<A, Break(1), B>>))),
      Case(<<Item(FALSE, <<A>>, TRUE), Item(TRUE, <<F>>, TRUE),
             Item(FALSE, <<>>, TRUE), Item(FALSE, <<G>>, FALSE),
             Item(TRUE, <<C>>, FALSE)>>),
      For(2, Case(<<Item(TRUE, <<List(<<A, Continue(1)>>)>>, TRUE),
                    Item(TRUE, <<B>>, FALSE)>>)),
      List(<<Sub(List(<<A, For(1, Exit(5)), B>>)), C, Pipe(<<Call("ret"), G>>)>>),
      List(<<Not(Sub(List(<<Tick(9), F>>))), Tick(1), Bg(For(1, Break(1))), G>>),
      If(Or(F, G), A, AndOr(<<F, A, B>>, <<"", "and", "or">>)) }

Errexit ==
    { And(List(<<Call("fails")>>), A),
      If(Call("fails"), A, B),
      List(<<Not(Pipe1(F)), And(F, A), B, Sub(List(<<F, A>>)), C>>),
      List(<<Or(Sub(List(<<F, A>>)), G), C>>),
      List(<<While(Not(F), List(<<A, F>>)), C>>),
      For(2, If(F, A, List(<<Eval(List(<<B, G>>)), A>>))),
      List(<<Pipe(<<F, A>>), Dot(List(<<B, Not(G)>>)), Call("fails"), C>>),
      Or(Case(<<Item(TRUE, <<List(<<F, A>>)>>, FALSE)>>), G) }

Trapped ==
    { List(<<Trap(1), For(2, List(<<A, F>>)), Sub(G), ExitLast>>),
      List(<<Trap(1), If(F, A, Call("fails")), Trap(0), Not(G)>>),
      List(<<Trap(1), Case(<<Item(TRUE, <<F>>, TRUE), Item(TRUE, <<A>>, FALSE)>>),
             Bg(List(<<Trap(1), F, A>>)), Eval(G)>>),
      List(<<Trap(1), For(2, List(<<Or(F, Break(1)), A>>)), Call("ret"), Trap(1),
             Sub(List(<<Untrap(1), Trap(1), Untrap(1), G>>)), Untrap(1), G>>),
      List(<<Trap(1), Pipe(<<Call("ret"), G, Call("fails")>>), A>>),
      List(<<Trap(0), Sub(List(<<Trap(0), F, A>>)), Sub(Trap(1)), Bad, A>>) }

MCScripts ==
    { <<c, A>> : c \in Commands } \cup { <<SetE, c, A>> : c \in Errexit }
      \cup { <<c, ExitLast>> : c \in Trapped } \cup { <<Call("endless")>> }

(* A function that calls itself until the machine has no room.             *)
DeepScripts == { <<Call("endless"), Return(1), A>>, <<Call("deep"), A>> }

(* The branches of an if under `set -e'. *)
BranchScripts ==
    { <<SetE, If(F, A, List(<<B, G, A>>)), C>>,
      <<SetE, If(A, List(<<B, And(A, F), C>>), A), C>>,
      <<SetE, Or(If(F, A, G), Not(While(F, A))), C>> }

(* An error that ends the shell where a construct tests or follows it. *)
FatalScripts ==
    { <<If(Bad, A, If(B, C, A)), A>>,
      <<SetE, Case(<<Item(TRUE, <<F>>, TRUE), Item(TRUE, <<A>>, FALSE)>>), B>>,
      <<For(2, List(<<A, Bad, B>>)), C>> }

(* A signal that arrives while the words of a return are expanded. *)
LeavingScripts ==
    { <<Trap(1), Call("ret"), A>>, <<Trap(1), For(2, List(<<Break(1), A>>))>> }

Reference == INSTANCE ShellSemantics WITH Bodies <- Functions

ActionNames == {"exit-action", "signal-action", "action-end"}

Printed == SelectSeq(trace, LAMBDA name : name \notin ActionNames)

(***************************************************************************)
(* The machine computes the meaning of the script, whatever signals are    *)
(* caught between its commands: the same commands run in the same order,   *)
(* and the process ends with the same status, unless a step was refused or *)
(* the stack was full (gsh.c:19969-20188; the trap  *)
(* frames of 20836-21209 give $? back).                                    *)
(***************************************************************************)
MeetsReference ==
    Done /\ ~faulted /\ run.live =>
      LET meant == Reference!Execution(origin.commands, origin.ev)
      IN Printed = meant.out /\ run.status = meant.status
=============================================================================
