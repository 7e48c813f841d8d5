---------------------------- MODULE MCJobControl ----------------------------
(***************************************************************************)
(* JobControl for TLC.  Process ids are interchangeable: no operator       *)
(* orders them, and wait requests range over all of them.                  *)
(***************************************************************************)
EXTENDS JobControl, TLC

CONSTANTS p1, p2, p3

Pids2 == {p1, p2}
Pids3 == {p1, p2, p3}

Symmetry == Permutations(Pid)

(* No action and no checked property reads last_status. *)
View == <<proc, jobs, fgJob, mode, terminal, waitFor, service, list,
          listActive, notify, launched, owed>>

(* Nor does a property of JobLiveness read what is owed. *)
LiveView == <<proc, jobs, fgJob, mode, terminal, waitFor, service, list,
              listActive, notify, launched>>

NoWaits  == {}
SomeWaits == {<<>>, <<p2, p1>>}

NoLists  == {}
OneList  == {<<"compound", "wait">>}
=============================================================================
