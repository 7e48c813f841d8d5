----------------------------- MODULE Transaction -----------------------------
(***************************************************************************)
(* What the owner of a session promises about a command that runs apart    *)
(* from it: the command works on a copy, and the session then takes the    *)
(* part of the copy the command could change, whole, or nothing of it.  It *)
(* takes nothing over a change the owner made in the meantime.             *)
(***************************************************************************)
EXTENDS Integers

VARIABLES
  data,       \* the session: its parts
  up,         \* the owner goes on
  work,       \* the copy a command works on, in a set, or the empty set
  footprint,  \* the parts the command could change
  touched     \* the parts the owner changed since the copy was made

Open == work # {}

TransactionInit == up = TRUE /\ work = {}

Begin ==
  /\ up /\ ~ Open
  /\ work' = {data} /\ touched' = {}
  /\ UNCHANGED <<data, up>>

\* An attempt that could not even start.
Decline == ~ Open /\ touched' = {} /\ UNCHANGED <<data, up, work>>

Work == Open /\ work' # {} /\ UNCHANGED <<data, up, touched, footprint>>

Outside(part) ==
  /\ Open /\ up
  /\ \A other \in DOMAIN data \ part : data'[other] = data[other]
  /\ touched' = touched \cup part
  /\ UNCHANGED <<up, work, footprint>>

Take ==
  /\ Open /\ footprint \cap touched = {}
  /\ \E copy \in work :
       data' = [part \in DOMAIN data |-> IF part \in footprint THEN copy[part] ELSE data[part]]
  /\ work' = {}
  /\ UNCHANGED touched

Refuse ==
  /\ Open /\ work' = {}
  /\ UNCHANGED <<data, touched>>

\* An owner that cannot go back to its directory does not go on.
Break ==
  /\ Open /\ work' = {} /\ up' = FALSE
  /\ \A part \in DOMAIN data \ {"directory"} : data'[part] = data[part]
  /\ UNCHANGED touched

TransactionNext ==
  \/ Begin \/ Decline \/ Work \/ Take \/ Refuse \/ Break
  \/ \E part \in SUBSET DOMAIN data : Outside(part)

TransactionSpec ==
  TransactionInit /\ [][TransactionNext]_<<data, up, work, footprint, touched>>
==============================================================================
