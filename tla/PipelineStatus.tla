--------------------------- MODULE PipelineStatus ---------------------------
(***************************************************************************)
(* The pipeline status accumulator of src/background_jobs.c.  The members  *)
(* of a pipeline finish in any order; the accumulator keeps, in constant   *)
(* space, what is needed to answer with the status the shell language      *)
(* prescribes: the status of the last command or, under pipefail, of the   *)
(* rightmost command that failed.                                          *)
(*                                                                         *)
(* A terminal wait status is a natural number, 0 for success.  Commands    *)
(* are numbered from 1; a member beyond the commands (a here-document      *)
(* writer) has a number greater than `count' and is never recorded.        *)
(***************************************************************************)
EXTENDS Integers, Sequences

WaitStatus == Nat

PipelineRecord ==
    [count : Nat \ {0}, pipefail : BOOLEAN,
     selectedKnown : BOOLEAN, selected : WaitStatus, rightmost : Nat,
     lastKnown : BOOLEAN, last : WaitStatus]

(* gsh_pipeline_status_initialize *)
NewPipeline(count, pipefail) ==
    [count |-> count, pipefail |-> pipefail,
     selectedKnown |-> FALSE, selected |-> 0, rightmost |-> 0,
     lastKnown |-> FALSE, last |-> 0]

(* Mutant: the failure reaped last is selected, not the rightmost one. *)
LatestFailure(p, i, status) == p.pipefail /\ status # 0

(* The condition under which a status replaces the pipefail selection. *)
SelectsStatus(p, i, status) ==
    /\ p.pipefail
    /\ status # 0
    /\ ~p.selectedKnown \/ i > p.rightmost

(* gsh_pipeline_status_record; a member outside the commands is refused. *)
RecordStatus(p, i, status) ==
    IF i \notin 1..p.count
    THEN p
    ELSE [p EXCEPT
            !.lastKnown     = @ \/ i = p.count,
            !.last          = IF i = p.count THEN status ELSE @,
            !.selectedKnown = @ \/ SelectsStatus(p, i, status),
            !.selected      = IF SelectsStatus(p, i, status) THEN status ELSE @,
            !.rightmost     = IF SelectsStatus(p, i, status) THEN i ELSE @]

(* gsh_pipeline_status_result: whether there is a result, and which. *)
PipelineKnown(p) == p.lastKnown

PipelineResult(p) ==
    IF p.pipefail /\ p.selectedKnown THEN p.selected ELSE p.last

(***************************************************************************)
(* The reference.  `exits' is a history of the terminal statuses by        *)
(* member number, Unfinished for a member that has not ended; it is not    *)
(* part of the program.                                                    *)
(***************************************************************************)
Unfinished == -1

Failed(exits, count) ==
    {i \in 1..count : exits[i] # Unfinished /\ exits[i] # 0}

(* The status the shell language gives a pipeline, by position alone. *)
StatusByPosition(exits, count, pipefail, status) ==
    IF pipefail /\ Failed(exits, count) # {}
    THEN \E i \in Failed(exits, count) :
            /\ \A j \in Failed(exits, count) : j <= i
            /\ status = exits[i]
    ELSE status = exits[count]

(***************************************************************************)
(* The accumulator agrees with the history of the members recorded so far, *)
(* whatever the order they were recorded in.                               *)
(***************************************************************************)
Agrees(p, exits) ==
    /\ p.lastKnown <=> exits[p.count] # Unfinished
    /\ p.lastKnown => p.last = exits[p.count]
    /\ p.selectedKnown <=> p.pipefail /\ Failed(exits, p.count) # {}
    /\ p.selectedKnown =>
          /\ p.rightmost \in Failed(exits, p.count)
          /\ \A j \in Failed(exits, p.count) : j <= p.rightmost
          /\ p.selected = exits[p.rightmost]
=============================================================================
