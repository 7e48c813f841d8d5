----------------------------- MODULE MCAsyncRepl -----------------------------
(* Instances of AsyncRepl for TLC.                                         *)
EXTENDS AsyncRepl, TLC

Work(how)    == [control |-> FALSE, barrier |-> FALSE, blocks |-> FALSE,
                 dep |-> FALSE, how |-> how]
Barrier(how) == [Work(how) EXCEPT !.barrier = TRUE]
Control(how) == [Work(how) EXCEPT !.control = TRUE]

External  == Work("external")                              \* /bin/sleep 5
Subshell  == Work("evaluator")                             \* ( ... )
Loop      == Barrier("evaluator")                          \* for ...
Export    == [Barrier("builtin") EXCEPT !.blocks = TRUE,   \* export S=$?
                                        !.dep = TRUE]
Write     == Barrier("redirect")                           \* echo > file
AsyncList == Barrier("list")                               \* ... & and wait
Fg        == Control("fg")
Bg        == Control("bg")
Rt        == Control("builtin")

KeyCommands   == {External, Subshell, Export, AsyncList, Fg, Bg}
QueueCommands == {External, Subshell, Export, Write}
ListCommands  == {External, AsyncList}
LaneCommands  == {External, Loop, Rt}

CONSTANTS p1, p2

TwoPids  == {p1, p2}
Symmetry == Permutations(TwoPids)

ASSUME EnoughPids == Cardinality(Pids) >= JobCap
=============================================================================
