---------------------------- MODULE VariableStore ----------------------------
(***************************************************************************)
(* The fixed store of shell variables and the journal that carries the     *)
(* changes of an evaluator process to the shell that owns the session      *)
(* (shell_variables.c).  The byte arenas, offsets and hash slots of both   *)
(* are abstracted to the map they implement; the limits on the number of   *)
(* entries are kept.                                                       *)
(***************************************************************************)
EXTENDS Integers, Sequences, SequencesExt, FiniteSets

CONSTANTS
  Names,        \* the names of variables
  Values,       \* what a variable may hold
  StoreCap,     \* GSH_VARIABLE_CAP
  JournalCap    \* GSH_VARIABLE_JOURNAL_CAP

ASSUME CapsAssumption == StoreCap \in Nat \ {0} /\ JournalCap \in Nat \ {0}

Attributes == {"exported", "readonly"}
Nothing == "nothing"       \* the text of a name that was never assigned

\* An entry whose name was only given attributes is INTERNAL_UNSET: it is in
\* the table and has no value.
Entry == [present : BOOLEAN, set : BOOLEAN, value : Values \cup {Nothing},
          attributes : SUBSET Attributes]
Store == [Names -> Entry]
Absent == [present |-> FALSE, set |-> FALSE, value |-> Nothing, attributes |-> {}]

Count(store) == Cardinality({n \in Names : store[n].present})

\* The two results of an update: the store it leaves, or a refusal that
\* leaves the store as it was.
Done(store) == [ok |-> TRUE, store |-> store]
Refused(store) == [ok |-> FALSE, store |-> store]

ClearsReadonly(mask, attributes) == "readonly" \in mask /\ "readonly" \notin attributes

SetVariable(store, n, value, mask, attributes, setValue) ==
  LET old == store[n]
      new == [present |-> TRUE,
              set |-> setValue \/ old.set,
              value |-> IF setValue THEN value ELSE old.value,
              attributes |-> (old.attributes \ mask) \cup (attributes \cap mask)]
  IN IF old.present
     THEN IF "readonly" \in old.attributes
             /\ (setValue \/ ClearsReadonly(mask, attributes))
          THEN Refused(store)
          ELSE Done([store EXCEPT ![n] = new])
     ELSE IF Count(store) = StoreCap
          THEN Refused(store)
          ELSE Done([store EXCEPT ![n] = new])

UnsetVariable(store, n) ==
  IF "readonly" \in store[n].attributes
  THEN Refused(store)
  ELSE Done([store EXCEPT ![n] = Absent])

------------------------------------------------------------------------------
(* The journal: at most one entry for a name, at the place where the name   *)
(* was first recorded.                                                      *)

Operations == {"set", "attributes", "unset", "unset_attributes"}

JournalEntry == [name : Names, operation : Operations, value : Values \cup {Nothing},
                 mask : SUBSET Attributes, attributes : SUBSET Attributes]

Change(n, operation, value, attributes) ==
  [name |-> n, operation |-> operation, value |-> value,
   mask |-> attributes, attributes |-> attributes]

Position(journal, n) == SelectInSeq(journal, LAMBDA e : e.name = n)

\* A second change of a name is folded into its entry.
Folded(old, new) ==
  LET attributes == (old.attributes \ new.mask) \cup new.attributes
  IN CASE new.operation = "attributes" ->
            [old EXCEPT !.operation = IF @ = "unset" THEN "unset_attributes" ELSE @,
                        !.mask = @ \cup new.mask, !.attributes = attributes]
       [] new.operation = "unset" ->
            [old EXCEPT !.operation = "unset", !.value = Nothing,
                        !.mask = {}, !.attributes = {}]
       [] OTHER ->
            [old EXCEPT !.operation = new.operation, !.value = new.value,
                        !.mask = @ \cup new.mask, !.attributes = attributes]

\* The journal after it records a change; a refusal leaves it as it was.
Record(journal, new) ==
  LET at == Position(journal, new.name)
      locked == /\ "readonly" \in journal[at].attributes
                /\ \/ new.operation # "attributes"
                   \/ ClearsReadonly(new.mask, new.attributes)
  IN IF at = 0
     THEN IF Len(journal) = JournalCap
          THEN [ok |-> FALSE, journal |-> journal]
          ELSE [ok |-> TRUE, journal |-> Append(journal, new)]
     ELSE IF locked
          THEN [ok |-> FALSE, journal |-> journal]
          ELSE [ok |-> TRUE, journal |-> [journal EXCEPT ![at] = Folded(@, new)]]

\* The entries are examined in the order of the journal against the store as
\* it was, and the number of entries must stay within the table throughout.
CanApply(store, journal) ==
  LET Delta(e) == IF store[e.name].present
                  THEN IF e.operation = "unset" THEN -1 ELSE 0
                  ELSE IF e.operation = "unset" THEN 0 ELSE 1
      running[i \in 0..Len(journal)] ==
        IF i = 0 THEN Count(store) ELSE running[i - 1] + Delta(journal[i])
  IN \A i \in DOMAIN journal :
       LET e == journal[i]
       IN /\ running[i] <= StoreCap
          /\ "readonly" \in store[e.name].attributes =>
               /\ e.operation = "attributes"
               /\ ~ ClearsReadonly(e.mask, e.attributes)

ApplyEntry(store, e) ==
  CASE e.operation = "set" -> SetVariable(store, e.name, e.value, e.mask, e.attributes, TRUE)
    [] e.operation = "attributes" ->
         SetVariable(store, e.name, Nothing, e.mask, e.attributes, FALSE)
    [] e.operation = "unset" -> UnsetVariable(store, e.name)
    [] OTHER ->
         LET gone == UnsetVariable(store, e.name)
         IN IF gone.ok
            THEN SetVariable(gone.store, e.name, Nothing, e.mask, e.attributes, FALSE)
            ELSE gone

ApplyJournal(store, journal) ==
  LET applied[i \in 0..Len(journal)] ==
        IF i = 0 THEN Done(store)
        ELSE IF applied[i - 1].ok THEN ApplyEntry(applied[i - 1].store, journal[i])
        ELSE applied[i - 1]
  IN IF CanApply(store, journal) THEN applied[Len(journal)] ELSE Refused(store)
==============================================================================
