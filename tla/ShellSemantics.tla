---------------------------- MODULE ShellSemantics ----------------------------
(***************************************************************************)
(* What a tree means, by recursion over the tree: the definition that the  *)
(* stack machine of NativeMachine is compared with.  There is no stack, no *)
(* task and no bound here.  A meaning takes and gives an execution: the    *)
(* evaluator record, the status and the names of the commands that ran.    *)
(* Signals, trap actions and failures have no place in it.                 *)
(***************************************************************************)
EXTENDS Integers, Sequences

CONSTANT Bodies   \* the body of each function, by name

Leaving(s) == s.ev.exiting \/ s.ev.returning \/ s.ev.levels # 0
Stopped(s) == s.ev.fatal \/ Leaving(s)
LeavingLoop(s) == s.ev.fatal \/ s.ev.exiting \/ s.ev.returning

With(s, status) == [s EXCEPT !.status = status]

Inverted(neg, status) ==
    IF ~neg \/ status = 125 THEN status ELSE IF status = 0 THEN 1 ELSE 0

(* A command is over: $? is set, and `set -e' is looked at. *)
Over(s, suppressed) ==
    [s EXCEPT !.ev.last = s.status,
              !.ev.fatal = \/ @
                           \/ /\ ~suppressed /\ s.status # 0 /\ s.ev.errexit
                              /\ ~s.ev.exiting /\ ~s.ev.returning]

LeavingStatus(s) ==
    CASE s.ev.exiting -> s.ev.exitStatus
      [] ~s.ev.exiting /\ s.ev.returning -> s.ev.returnStatus
      [] OTHER -> s.ev.last

(* One loop is left by the control that is under way, if there is one. *)
Control(s) ==
    CASE s.ev.levels = 0 -> "none"
      [] s.ev.levels = 1 /\ s.ev.control = "continue" -> "again"
      [] OTHER -> "out"

Outward(s) ==
    [s EXCEPT !.ev.levels = IF @ = 0 THEN 0 ELSE @ - 1,
              !.ev.control = IF s.ev.levels = 1 THEN "none" ELSE @]

InLoop(s) == [s EXCEPT !.ev.loops = @ + 1]
OutOfLoop(s, status) == [s EXCEPT !.ev.loops = @ - 1, !.status = status]

InFunction(s) ==
    [s EXCEPT !.ev.functions = @ + 1, !.ev.loops = 0, !.ev.levels = 0,
              !.ev.control = "none", !.ev.returning = FALSE]

OutOfFunction(s, from, neg) ==
    [s EXCEPT !.status = Inverted(neg, IF s.ev.returning
                                       THEN s.ev.returnStatus ELSE @),
              !.ev.returning = FALSE, !.ev.functions = @ - 1,
              !.ev.loops = from.ev.loops, !.ev.levels = from.ev.levels,
              !.ev.control = from.ev.control]

(* A subshell gives back its status and what it printed, nothing else. *)
After(s, child) == [s EXCEPT !.status = child.status, !.out = child.out]

InChild(s) ==
    [s EXCEPT !.ev.loops = 0, !.ev.levels = 0, !.ev.control = "none"]

Plain(cmd, s) ==
    CASE cmd.op = "run"     -> [s EXCEPT !.status = cmd.status,
                                         !.out = Append(@, cmd.name)]
      [] cmd.op = "tick"    -> [s EXCEPT !.status = IF s.ev.value < cmd.limit
                                                    THEN 0 ELSE 1,
                                         !.ev.value = @ + 1]
      [] cmd.op = "set"     -> [s EXCEPT !.status = 0, !.ev.errexit = cmd.on]
      [] cmd.op = "trap"    -> With(s, 0)
      [] cmd.op = "refused" -> [s EXCEPT !.status = 1, !.ev.fatal = TRUE]
      [] cmd.op \in {"break", "continue"} ->
           IF s.ev.loops = 0 THEN With(s, 1)
           ELSE [s EXCEPT !.status = 0, !.ev.control = cmd.op,
                          !.ev.levels = IF cmd.count < s.ev.loops
                                        THEN cmd.count ELSE s.ev.loops]

ExitShell(cmd, s) ==
    LET status == IF cmd.given THEN cmd.status ELSE s.ev.last
    IN [s EXCEPT !.status = status, !.ev.exiting = TRUE,
                 !.ev.exitStatus = status]

ReturnFrom(cmd, neg, s) ==
    IF s.ev.functions = 0 /\ s.ev.dots = 0 THEN With(s, Inverted(neg, 1))
    ELSE LET status == Inverted(neg, cmd.status)
         IN [s EXCEPT !.status = status, !.ev.returning = TRUE,
                      !.ev.returnStatus = status]

RECURSIVE Meaning(_, _, _), Sequence(_, _, _, _, _), Branches(_, _, _, _),
          Items(_, _, _, _, _), Each(_, _, _, _, _), While(_, _, _, _),
          Stages(_, _, _)

Called(name, neg, suppressed, s) ==
    OutOfFunction(Meaning(Bodies[name], suppressed, InFunction(s)), s, neg)

(* A text read by eval or by dot; dot takes a return. *)
Sourced(dot, body, neg, suppressed, s) ==
    LET done == Meaning(body, suppressed,
                        IF dot THEN [s EXCEPT !.ev.dots = @ + 1] ELSE s)
        returned == dot /\ done.ev.returning /\ ~done.ev.exiting
        status == CASE done.ev.exiting -> done.ev.exitStatus
                    [] returned -> done.ev.returnStatus
                    [] OTHER -> done.status
    IN [done EXCEPT !.status = IF done.ev.fatal \/ done.ev.exiting THEN status
                               ELSE Inverted(neg, status),
                    !.ev.returning = @ /\ ~returned,
                    !.ev.dots = s.ev.dots]

Simple(node, suppressed, s) ==
    LET cmd == node.cmd
    IN CASE cmd.op = "exit"   -> ExitShell(cmd, s)
         [] cmd.op = "return" -> ReturnFrom(cmd, node.neg, s)
         [] cmd.op = "call"   -> Called(cmd.name, node.neg, suppressed, s)
         [] cmd.op \in {"eval", "dot"} ->
              Sourced(cmd.op = "dot", cmd.body, node.neg, suppressed, s)
         [] OTHER -> LET r == Plain(cmd, s)
                     IN With(r, Inverted(node.neg, r.status))

(* Lists that stand in one another end together when one must stop; they   *)
(* are no commands of their own for `set -e'.                              *)
Sequence(node, suppressed, i, status, s) ==
    IF i > Len(node.kids) THEN With(s, status)
    ELSE LET kid == node.kids[i]
             runs == \/ node.kind # "and_or" \/ node.ops[i] = ""
                     \/ (node.ops[i] = "and") = (status = 0)
             inner == \/ suppressed
                      \/ node.kind = "and_or" /\ i < Len(node.kids)
             r == IF kid.kind \in {"list", "and_or"} /\ ~kid.async
                  THEN Sequence(kid, inner, 1, 0, s)
                  ELSE Meaning(kid, inner, s)
         IN IF ~runs THEN Sequence(node, suppressed, i + 1, status, s)
            ELSE IF Stopped(r) THEN r
            ELSE Sequence(node, suppressed, i + 1, r.status, r)

Branches(node, suppressed, i, s) ==
    IF i > Len(node.kids) THEN With(s, 0)
    ELSE LET branch == node.kids[i].kids
             tested == Meaning(branch[1], TRUE, s)
         IN IF Len(branch) = 1 \/ Leaving(tested) THEN tested
            ELSE IF tested.status = 0
                 THEN Meaning(branch[2], suppressed, tested)
                 ELSE Branches(node, suppressed, i + 1, tested)

(* The result of a case is that of the last list that ran. *)
Items(node, suppressed, i, through, s) ==
    IF i > Len(node.kids) THEN s
    ELSE LET item == node.kids[i]
             r == IF item.kids = <<>> THEN With(s, 0)
                  ELSE Meaning(item.kids[1], suppressed, s)
         IN IF ~through /\ ~item.matches
            THEN Items(node, suppressed, i + 1, FALSE, s)
            ELSE IF ~item.through \/ (item.kids # <<>> /\ Leaving(r)) THEN r
            ELSE Items(node, suppressed, i + 1, TRUE, r)

Each(node, suppressed, i, status, s) ==
    IF i > node.items THEN OutOfLoop(s, status)
    ELSE LET r == Meaning(node.kids[1], suppressed, s)
         IN IF LeavingLoop(r) THEN OutOfLoop(r, r.status)
            ELSE IF Control(r) = "out" THEN OutOfLoop(Outward(r), r.status)
            ELSE Each(node, suppressed, i + 1, r.status, Outward(r))

While(node, suppressed, status, s) ==
    LET Left(r, result) ==
            OutOfLoop(r, CASE r.ev.exiting -> r.ev.exitStatus
                           [] ~r.ev.exiting /\ r.ev.returning ->
                                r.ev.returnStatus
                           [] OTHER -> result)
        test == Meaning(node.kids[1], TRUE, s)
        body == Meaning(node.kids[2], suppressed, test)
    IN CASE LeavingLoop(test) -> Left(test, status)
         [] ~LeavingLoop(test) /\ Control(test) = "out" ->
              Left(Outward(test), test.status)
         [] ~LeavingLoop(test) /\ Control(test) = "again" ->
              While(node, suppressed, test.status, Outward(test))
         [] OTHER ->
              IF (node.kind = "while") # (test.status = 0)
              THEN Left(test, status)
              ELSE IF LeavingLoop(body) THEN Left(body, body.status)
              ELSE IF Control(body) = "out" THEN Left(Outward(body), body.status)
              ELSE While(node, suppressed, body.status, Outward(body))

Stages(kids, suppressed, s) ==
    LET free == [s EXCEPT !.ev.returning = FALSE, !.ev.exiting = FALSE,
                          !.ev.fatal = FALSE]
        first == After(s, IF Head(kids).cmd.op = "call"
                          THEN Called(Head(kids).cmd.name, FALSE, suppressed, free)
                          ELSE Plain(Head(kids).cmd, free))
    IN IF Len(kids) = 1 THEN first ELSE Stages(Tail(kids), suppressed, first)

Compound(node, suppressed, s) ==
    CASE node.kind \in {"list", "and_or"} -> Sequence(node, suppressed, 1, 0, s)
      [] node.kind = "pipeline" ->
           LET r == Meaning(node.kids[1], suppressed \/ node.neg, s)
           IN IF node.neg THEN With(r, IF r.status = 0 THEN 1 ELSE 0) ELSE r
      [] node.kind = "if" -> Branches(node, suppressed, 1, s)
      [] node.kind = "case" -> Items(node, suppressed, 1, FALSE, With(s, 0))
      [] node.kind = "for" -> Each(node, suppressed, 1, 0, InLoop(s))
      [] node.kind \in {"while", "until"} ->
           While(node, suppressed, 0, InLoop(s))
      [] node.kind = "subshell" ->
           LET r == After(s, Meaning(node.kids[1], suppressed, InChild(s)))
           IN With(r, Inverted(node.neg, r.status))
      [] node.kind = "stages" ->
           LET r == Stages(node.kids, suppressed, s)
           IN With(r, Inverted(node.neg, r.status))

(* A pipeline without `!' is not a command of its own for `set -e'. *)
Meaning(node, suppressed, s) ==
    LET quiet == suppressed \/ node.neg
    IN CASE Leaving(s) -> Over(With(s, LeavingStatus(s)), quiet)
         [] ~Leaving(s) /\ node.async -> Over(With(s, 0), quiet)
         [] OTHER ->
              CASE node.kind = "simple" -> Over(Simple(node, quiet, s), quiet)
                [] node.kind = "pipeline" /\ ~node.neg ->
                     Compound(node, suppressed, s)
                [] node.kind \in {"subshell", "stages"} \/ node.neg ->
                     Over(Compound(node, suppressed, s), quiet)
                [] OTHER -> Over(Compound(node, suppressed, s), suppressed)

(* A script: its complete commands until one ends the shell. *)
RECURSIVE Script(_, _)
Script(commands, s) ==
    IF commands = <<>> \/ s.ev.fatal \/ s.ev.exiting THEN s
    ELSE Script(Tail(commands), Meaning(Head(commands), FALSE, s))

Execution(commands, ev) ==
    Script(commands, [ev |-> ev, status |-> 0, out |-> <<>>])
=============================================================================
