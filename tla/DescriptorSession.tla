-------------------------- MODULE DescriptorSession --------------------------
(***************************************************************************)
(* What `exec' promises of the user's descriptors.  The session has a      *)
(* table of them; a command that the shell runs itself changes it at once, *)
(* one that is evaluated in a process works on a copy, and what its `exec' *)
(* commands did to the descriptors they name is taken over when it ends.   *)
(* A change is lost only with the process or when the user is told.        *)
(* "failed" is the status 125 of a command that tried several programs;    *)
(* what became of its descriptors it does not tell.                        *)
(***************************************************************************)
EXTENDS Integers, Sequences

CONSTANTS
  Fds, Files,
  Redirections,    \* the sequences of redirections that a command may have
  Nothing          \* what a closed descriptor refers to

VARIABLES
  user,     \* the descriptors of the session
  work,     \* "idle", "working", "replaced" by another program, or "lost"
  copy,     \* the descriptors of the evaluator
  claimed,  \* the descriptors its `exec' commands name
  told      \* how the last command ended
sessionVars == <<user, work, copy, claimed, told>>

Tables == [Fds -> Files \cup {Nothing}]

\* One redirection after the other; the first that fails ends it.
Possible(table, r) == r.op = "dup" => table[r.from] # Nothing
After(table, r) ==
  [table EXCEPT ![r.to] = CASE r.op = "close" -> Nothing
                            [] r.op = "dup"   -> table[r.from]
                            [] OTHER          -> r.file]
Effects(table, redirects) ==
  LET after[n \in 0..Len(redirects)] ==
        IF n = 0 THEN {table}
        ELSE {After(t, redirects[n]) : t \in {u \in after[n - 1] : Possible(u, redirects[n])}}
  IN UNION {after[n] : n \in 0..Len(redirects)}

SessionInit ==
  /\ user \in Tables /\ work = "idle" /\ copy = user /\ claimed = {} /\ told = "done"

Begin ==
  /\ work = "idle" /\ work' = "working" /\ copy' = user /\ claimed' \in SUBSET Fds
  /\ UNCHANGED <<user, told>>
Evaluate ==
  /\ work = "working"
  /\ \E redirects \in Redirections : copy' \in Effects(copy, redirects)
  /\ \A fd \in Fds \ claimed : copy'[fd] = copy[fd]
  /\ work' \in {"working", "replaced"}
  /\ UNCHANGED <<user, claimed, told>>
Lose ==
  /\ work = "working" /\ work' = "lost"
  /\ UNCHANGED <<user, copy, claimed, told>>
TakeOver ==
  /\ work = "working" /\ work' = "idle" /\ told' \in {"done", "failed"}
  /\ user' = [fd \in Fds |-> IF fd \in claimed THEN copy[fd] ELSE user[fd]]
  /\ copy' = user' /\ claimed' = {}
GiveUp ==
  /\ work # "idle" /\ work' = "idle"
  /\ \/ work = "working" /\ told' = "rejected"
     \/ work = "lost" /\ told' \in {"killed", "failed"}
     \/ work = "replaced" /\ told' \in {"ended", "failed"}
  /\ copy' = user /\ claimed' = {} /\ UNCHANGED user
RunItself ==
  /\ \E redirects \in Redirections : user' \in Effects(user, redirects)
  /\ told' \in {"done", "rejected", "ended"}
  /\ copy' = IF work = "idle" THEN user' ELSE copy
  /\ UNCHANGED <<work, claimed>>
Refuse ==
  /\ work = "idle" /\ told' = "refused" /\ UNCHANGED <<user, work, copy, claimed>>

SessionNext ==
  Begin \/ Evaluate \/ Lose \/ TakeOver \/ GiveUp \/ RunItself \/ Refuse
SessionSpec == SessionInit /\ [][SessionNext]_sessionVars
==============================================================================
