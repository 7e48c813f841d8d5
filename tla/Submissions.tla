----------------------------- MODULE Submissions -----------------------------
(***************************************************************************)
(* What the managed REPL promises of the commands it accepts: each has a   *)
(* number of its own, starts at most once, starts only when no earlier     *)
(* command that it depends on is unsettled, and settles at most once.  The *)
(* promise says nothing of cells, children or lanes.                       *)
(***************************************************************************)
EXTENDS Integers

CONSTANT Commands    \* the classes of commands, see AsyncCells

VARIABLES accepted,  \* how many commands were accepted
          pending    \* the unsettled ones

Submission == [id : Nat \ {0}, cmd : Commands, started : BOOLEAN]

Earlier(s) == {e \in pending : e.id < s.id}

(* Controls overtake everything; nothing else overtakes a blocker, and a   *)
(* barrier overtakes nothing.                                              *)
InOrder(s) ==
    \/ s.cmd.control
    \/ /\ \A e \in Earlier(s) : ~e.cmd.blocks
       /\ s.cmd.barrier => Earlier(s) = {}

SubmissionInit ==
    /\ accepted = 0
    /\ pending = {}

AcceptSubmission(c) ==
    /\ accepted' = accepted + 1
    /\ pending' = pending \cup
           {[id |-> accepted + 1, cmd |-> c, started |-> FALSE]}

(* A notice is accepted and settled at once.                               *)
AcceptNotice ==
    /\ accepted' = accepted + 1
    /\ UNCHANGED pending

StartSubmission(s) ==
    /\ ~s.started
    /\ InOrder(s)
    /\ pending' = (pending \ {s}) \cup {[s EXCEPT !.started = TRUE]}
    /\ UNCHANGED accepted

(* A command that the reactor runs itself starts and settles in one step.  *)
SettleSubmission(s) ==
    /\ s.started \/ InOrder(s)
    /\ pending' = pending \ {s}
    /\ UNCHANGED accepted

SubmissionNext ==
    \/ \E c \in Commands : AcceptSubmission(c)
    \/ AcceptNotice
    \/ \E s \in pending : StartSubmission(s) \/ SettleSubmission(s)

SubmissionSpec ==
    SubmissionInit /\ [][SubmissionNext]_<<accepted, pending>>
=============================================================================
