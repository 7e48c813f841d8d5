---------------------------- MODULE CommitProofs ----------------------------
(***************************************************************************)
(* Theorems about the state transaction for every value of its constants.  *)
(***************************************************************************)
EXTENDS StateCommit, NaturalMinimum, SequenceTheorems

(***************************************************************************)
(* Sequences of anything.                                                  *)
(***************************************************************************)
IsSeq(s) == \E S : s \in Seq(S)

LEMMA SeqLen ==
    ASSUME NEW s, IsSeq(s)
    PROVE  Len(s) \in Nat /\ DOMAIN s = 1..Len(s)
<1> PICK S : s \in Seq(S)
  BY DEF IsSeq
<1> QED
  OBVIOUS

LEMMA SeqAppend ==
    ASSUME NEW s, IsSeq(s), NEW x
    PROVE  /\ IsSeq(Append(s, x))
           /\ Len(Append(s, x)) = Len(s) + 1
           /\ Append(s, x)[Len(s) + 1] = x
           /\ \A i \in 1..Len(s) : Append(s, x)[i] = s[i]
<1> PICK S : s \in Seq(S)
  BY DEF IsSeq
<1>1. s \in Seq(S \cup {x}) /\ x \in S \cup {x}
  OBVIOUS
<1> QED
  BY <1>1 DEF IsSeq

LEMMA SeqTail ==
    ASSUME NEW s, IsSeq(s), s # <<>>
    PROVE  /\ IsSeq(Tail(s)) /\ Len(s) > 0
           /\ Head(s) = s[1]
           /\ Len(Tail(s)) = Len(s) - 1
           /\ \A i \in 1..(Len(s) - 1) : Tail(s)[i] = s[i + 1]
<1> PICK S : s \in Seq(S)
  BY DEF IsSeq
<1> QED
  BY DEF IsSeq

LEMMA SeqReplace ==
    ASSUME NEW s, IsSeq(s), NEW k \in 1..Len(s), NEW x,
           NEW t, t = [s EXCEPT ![k] = x]
    PROVE  /\ IsSeq(t) /\ Len(t) = Len(s)
           /\ t[k] = x
           /\ \A i \in 1..Len(s) : i # k => t[i] = s[i]
<1> PICK S : s \in Seq(S)
  BY DEF IsSeq
<1>1. s \in Seq(S \cup {x}) /\ x \in S \cup {x}
  OBVIOUS
<1>2. t \in Seq(S \cup {x})
  BY <1>1
<1> QED
  BY <1>1, <1>2 DEF IsSeq

(***************************************************************************)
(* The journal of variables.                                               *)
(***************************************************************************)

(* The place of a name in the journal, if it has one.                      *)
LEMMA PositionOf ==
    ASSUME NEW journal, IsSeq(journal), NEW n
    PROVE  \/ /\ Position(journal, n) = 0
              /\ \A i \in 1..Len(journal) : journal[i].name # n
           \/ /\ Position(journal, n) \in 1..Len(journal)
              /\ journal[Position(journal, n)].name = n
<1> DEFINE I == {i \in 1..Len(journal) : journal[i].name = n}
<1>1. Position(journal, n) = IF I # {} THEN Min(I) ELSE 0
  BY DEF Position, SelectInSeq
<1>2. Len(journal) \in Nat
  BY SeqLen
<1>3. ASSUME I # {} PROVE Min(I) \in I
  <2>1. I \in SUBSET Nat
    BY <1>2
  <2>2. \E m \in I : \A k \in I : m <= k
    <3> HIDE DEF I
    <3> QED
      BY <1>3, <2>1, LeastNatural
  <2> HIDE DEF I
  <2> QED
    BY <2>2 DEF Min
<1> QED
  BY <1>1, <1>3

EntryFields == {"name", "operation", "value", "mask", "attributes"}

(* What an entry says of its variable, as it was in the owner's store and  *)
(* as it is now in the evaluator's.                                        *)
Fits(e, was, now) ==
    /\ e.operation \in Operations
    /\ e.operation = "set" => now.set /\ now.value = e.value
    /\ e.operation = "attributes" => (now.set <=> was.set) /\ now.value = was.value
    /\ e.operation \in {"unset", "unset_attributes"} => ~now.set
    /\ "readonly" \in e.attributes => now.present /\ "readonly" \in now.attributes

(* The journal traces how the evaluator's store came from the owner's.     *)
Traces(was, now, journal) ==
    /\ IsSeq(journal)
    /\ DOMAIN was = Names /\ DOMAIN now = Names
    /\ \A i \in 1..Len(journal) :
          /\ DOMAIN journal[i] = EntryFields
          /\ journal[i].name \in Names
          /\ Fits(journal[i], was[journal[i].name], now[journal[i].name])
    /\ \A i, k \in 1..Len(journal) : journal[i].name = journal[k].name => i = k
    /\ \A n \in Names :
          (\A i \in 1..Len(journal) : journal[i].name # n) => now[n] = was[n]

(* A first change of a variable is added to the journal.                   *)
LEMMA TracesAdded ==
    ASSUME NEW was, NEW now, NEW journal, Traces(was, now, journal),
           NEW n \in Names, \A i \in 1..Len(journal) : journal[i].name # n,
           NEW e, DOMAIN e = EntryFields, e.name = n,
           NEW new, Fits(e, was[n], new),
           NEW later, later = [now EXCEPT ![n] = new],
           NEW longer, longer = Append(journal, e)
    PROVE  Traces(was, later, longer)
<1>1. /\ IsSeq(longer) /\ Len(longer) = Len(journal) + 1 /\ Len(journal) \in Nat
      /\ longer[Len(journal) + 1] = e
      /\ \A i \in 1..Len(journal) : longer[i] = journal[i]
  BY SeqAppend, SeqLen DEF Traces
<1>2. /\ DOMAIN later = Names /\ later[n] = new
      /\ \A m \in Names : m # n => later[m] = now[m]
  BY DEF Traces
<1>3. \A i \in 1..Len(longer) : i = Len(journal) + 1 \/ i \in 1..Len(journal)
  BY <1>1
<1>4. \A i \in 1..Len(longer) :
          /\ DOMAIN longer[i] = EntryFields
          /\ longer[i].name \in Names
          /\ Fits(longer[i], was[longer[i].name], later[longer[i].name])
  BY <1>1, <1>2, <1>3 DEF Traces
<1>5. \A i, k \in 1..Len(longer) : longer[i].name = longer[k].name => i = k
  <2> TAKE i, k \in 1..Len(longer)
  <2>1. CASE i \in 1..Len(journal) /\ k \in 1..Len(journal)
    BY <2>1, <1>1 DEF Traces
  <2>2. CASE i = Len(journal) + 1 \/ k = Len(journal) + 1
    BY <2>2, <1>1, <1>3
  <2> QED
    BY <2>1, <2>2, <1>3
<1>6. \A m \in Names :
          (\A i \in 1..Len(longer) : longer[i].name # m) => later[m] = was[m]
  <2> SUFFICES ASSUME NEW m \in Names, \A i \in 1..Len(longer) : longer[i].name # m
               PROVE  later[m] = was[m]
    OBVIOUS
  <2>1. Len(journal) + 1 \in 1..Len(longer)
    BY <1>1
  <2>2. m # n
    BY <2>1, <1>1
  <2>3. \A i \in 1..Len(journal) : journal[i].name # m
    BY <1>1
  <2> QED
    BY <2>2, <2>3, <1>2 DEF Traces
<1> QED
  BY <1>1, <1>2, <1>4, <1>5, <1>6 DEF Traces

(* A further change of a variable is folded into its entry.                *)
LEMMA TracesFolded ==
    ASSUME NEW was, NEW now, NEW journal, Traces(was, now, journal),
           NEW k \in 1..Len(journal), NEW n, journal[k].name = n,
           NEW e, DOMAIN e = EntryFields, e.name = n,
           NEW new, Fits(e, was[n], new),
           NEW later, later = [now EXCEPT ![n] = new],
           NEW other, other = [journal EXCEPT ![k] = e]
    PROVE  Traces(was, later, other)
<1>1. /\ IsSeq(other) /\ Len(other) = Len(journal) /\ Len(journal) \in Nat
      /\ other[k] = e
      /\ \A i \in 1..Len(journal) : i # k => other[i] = journal[i]
  <2>1. IsSeq(journal)
    BY DEF Traces
  <2> QED
    BY <2>1, SeqReplace, SeqLen, ZenonT(60)
<1>2. n \in Names
  BY DEF Traces
<1>3. /\ DOMAIN later = Names /\ later[n] = new
      /\ \A m \in Names : m # n => later[m] = now[m]
  BY <1>2 DEF Traces
<1>4. \A i \in 1..Len(journal) : other[i].name = journal[i].name
  BY <1>1
<1>5. \A i \in 1..Len(other) :
          /\ DOMAIN other[i] = EntryFields
          /\ other[i].name \in Names
          /\ Fits(other[i], was[other[i].name], later[other[i].name])
  <2> TAKE i \in 1..Len(other)
  <2>1. CASE i = k
    BY <2>1, <1>1, <1>2, <1>3
  <2>2. CASE i # k
    <3>1. i \in 1..Len(journal) /\ journal[i].name # n /\ journal[i].name \in Names
      BY <2>2, <1>1 DEF Traces
    <3> QED
      BY <2>2, <3>1, <1>1, <1>3 DEF Traces
  <2> QED
    BY <2>1, <2>2
<1>6. \A i, h \in 1..Len(other) : other[i].name = other[h].name => i = h
  BY <1>1, <1>4 DEF Traces
<1>7. \A m \in Names :
          (\A i \in 1..Len(other) : other[i].name # m) => later[m] = was[m]
  <2> SUFFICES ASSUME NEW m \in Names, \A i \in 1..Len(other) : other[i].name # m
               PROVE  later[m] = was[m]
    OBVIOUS
  <2>1. m # n
    BY <1>1
  <2>2. \A i \in 1..Len(journal) : journal[i].name # m
    BY <1>1, <1>4
  <2> QED
    BY <2>1, <2>2, <1>3 DEF Traces
<1> QED
  BY <1>1, <1>3, <1>5, <1>6, <1>7 DEF Traces

(* The journal has an entry for the name.                                  *)
Named(journal, n) == \E k \in 1..Len(journal) : journal[k].name = n

(* A journal whose names are among S has room for another name of S.       *)
LEMMA RoomInJournal ==
    ASSUME NEW was, NEW now, NEW journal, Traces(was, now, journal),
           NEW S, IsFiniteSet(S), Cardinality(S) <= JournalCap,
           \A m : Named(journal, m) => m \in S,
           NEW n \in S, ~Named(journal, n)
    PROVE  Len(journal) # JournalCap
<1> DEFINE m == Len(journal)
           I == 1..(m + 1)
           f == [i \in I |-> IF i <= m THEN journal[i].name ELSE n]
<1>1. m \in Nat
  BY SeqLen DEF Traces
<1>2. f \in [I -> S]
  BY <1>1 DEF Named
<1>3. ASSUME NEW i \in I, NEW k \in I, f[i] = f[k] PROVE i = k
  <2>1. CASE i <= m /\ k <= m
    BY <1>1, <1>3, <2>1 DEF Traces
  <2>2. CASE ~(i <= m /\ k <= m)
    BY <1>1, <1>3, <2>2 DEF Named
  <2> QED
    BY <2>1, <2>2
<1>4. f \in Injection(I, S)
  <2> HIDE DEF f, I
  <2> QED
    BY <1>2, <1>3 DEF Injection, IsInjective
<1>5. Cardinality(I) <= Cardinality(S)
  <2> HIDE DEF f, I
  <2> QED
    BY <1>4, FS_Injection
<1>6. Cardinality(I) = m + 1
  BY <1>1, FS_Interval
<1>7. Cardinality(S) \in Nat /\ JournalCap \in Nat
  BY FS_CardinalityType, CapsAssumption
<1> QED
  BY <1>1, <1>5, <1>6, <1>7

(* Where the store takes a change, no entry forbids it: a name the journal *)
(* makes read-only is read-only in the store.                              *)
Forbids(e, new) ==
    /\ "readonly" \in e.attributes
    /\ new.operation # "attributes" \/ ClearsReadonly(new.mask, new.attributes)

Refits(was, journal, n, e, new) ==
    \A k \in 1..Len(journal) : journal[k].name = n =>
       /\ ~Forbids(journal[k], e)
       /\ DOMAIN Folded(journal[k], e) = EntryFields
       /\ Folded(journal[k], e).name = n
       /\ Fits(Folded(journal[k], e), was[n], new)

Kept(was, later, journal, n, record) ==
    /\ record.ok => /\ Traces(was, later, record.journal)
                    /\ \A m : Named(record.journal, m) => m = n \/ Named(journal, m)
    /\ ~record.ok => Len(journal) = JournalCap /\ ~Named(journal, n)

LEMMA RecordCases ==
    ASSUME NEW was, NEW now, NEW journal, Traces(was, now, journal),
           NEW n \in Names, NEW e, DOMAIN e = EntryFields, e.name = n,
           NEW new, NEW later, later = [now EXCEPT ![n] = new],
           Refits(was, journal, n, e, new),
           Fits(e, was[n], new) \/ Named(journal, n)
    PROVE  Kept(was, later, journal, n, Record(journal, e))
<1> DEFINE record == Record(journal, e)
<1> SUFFICES Kept(was, later, journal, n, record)
  OBVIOUS
<1> DEFINE at == Position(journal, n)
<1>1. IsSeq(journal)
  BY DEF Traces
<1>2. \/ at = 0 /\ \A i \in 1..Len(journal) : journal[i].name # n
      \/ at \in 1..Len(journal) /\ journal[at].name = n
  BY <1>1, PositionOf
<1>3. at \in 1..Len(journal) => at # 0
  OBVIOUS
<1>4. CASE at = 0 /\ \A i \in 1..Len(journal) : journal[i].name # n
  <2>1. CASE Len(journal) = JournalCap
    <3>1. record = [ok |-> FALSE, journal |-> journal]
      BY <1>4, <2>1 DEF Record
    <3> QED
      BY <3>1, <2>1, <1>4 DEF Kept, Named
  <2>2. CASE Len(journal) # JournalCap
    <3>1. record = [ok |-> TRUE, journal |-> Append(journal, e)]
      BY <1>4, <2>2 DEF Record
    <3>2. Traces(was, later, Append(journal, e))
      BY <1>4, TracesAdded DEF Named
    <3>3. \A m : Named(Append(journal, e), m) => m = n \/ Named(journal, m)
      <4>1. /\ Len(Append(journal, e)) = Len(journal) + 1 /\ Len(journal) \in Nat
            /\ Append(journal, e)[Len(journal) + 1] = e
            /\ \A i \in 1..Len(journal) : Append(journal, e)[i] = journal[i]
        BY <1>1, SeqAppend, SeqLen
      <4> QED
        BY <4>1 DEF Named
    <3> QED
      BY <3>1, <3>2, <3>3 DEF Kept
  <2> QED
    BY <2>1, <2>2
<1>5. CASE at \in 1..Len(journal) /\ journal[at].name = n
  <2>1. ~Forbids(journal[at], e) /\ at # 0
    BY <1>3, <1>5 DEF Refits
  <2>2. record = [ok |-> TRUE, journal |-> [journal EXCEPT ![at] = Folded(journal[at], e)]]
    BY <2>1 DEF Record, Forbids
  <2>3. Traces(was, later, [journal EXCEPT ![at] = Folded(journal[at], e)])
    <3> HIDE DEF at
    <3> QED
      BY <1>5, TracesFolded DEF Refits
  <2>4. \A m : Named([journal EXCEPT ![at] = Folded(journal[at], e)], m) =>
               m = n \/ Named(journal, m)
    <3> DEFINE f == Folded(journal[at], e)
               other == [journal EXCEPT ![at] = f]
    <3>1. f.name = n
      BY <1>5 DEF Refits
    <3> HIDE DEF at, f
    <3>2. /\ Len(other) = Len(journal) /\ other[at] = f
          /\ \A i \in 1..Len(journal) : i # at => other[i] = journal[i]
      BY <1>1, <1>5, SeqReplace
    <3> HIDE DEF other
    <3>3. \A m : Named(other, m) => m = n \/ Named(journal, m)
      BY <3>1, <3>2 DEF Named
    <3> QED
      BY <3>3 DEF other, f
  <2> DEFINE other == [journal EXCEPT ![at] = Folded(journal[at], e)]
  <2>5. record.ok /\ record.journal = other
    BY <2>2
  <2>6. /\ Traces(was, later, other)
        /\ \A m : Named(other, m) => m = n \/ Named(journal, m)
    BY <2>3, <2>4
  <2> HIDE DEF other, at, record
  <2> QED
    BY <2>5, <2>6 DEF Kept
<1> HIDE DEF record
<1> QED
  BY <1>2, <1>4, <1>5

(* What the store does with a change that it takes.                        *)
Takes(store, n, v, a, setValue, result) ==
    \E new :
       /\ result.store = [store EXCEPT ![n] = new]
       /\ new.present
       /\ new.set <=> setValue \/ store[n].set
       /\ new.value = IF setValue THEN v ELSE store[n].value
       /\ new.attributes = (store[n].attributes \ a) \cup (a \cap a)
       /\ store[n].present /\ "readonly" \in store[n].attributes =>
             ~setValue /\ ~ClearsReadonly(a, a)

LEMMA SetTaken ==
    ASSUME NEW store, NEW n, NEW v, NEW a, NEW setValue \in BOOLEAN,
           NEW result, result = SetVariable(store, n, v, a, a, setValue), result.ok
    PROVE  Takes(store, n, v, a, setValue, result)
<1> DEFINE new == [present |-> TRUE,
                   set |-> setValue \/ store[n].set,
                   value |-> IF setValue THEN v ELSE store[n].value,
                   attributes |-> (store[n].attributes \ a) \cup (a \cap a)]
<1>1. /\ result.store = [store EXCEPT ![n] = new]
      /\ store[n].present /\ "readonly" \in store[n].attributes =>
            ~setValue /\ ~ClearsReadonly(a, a)
  BY DEF SetVariable, Done, Refused
<1>2. /\ new.present /\ (new.set <=> setValue \/ store[n].set)
      /\ new.value = IF setValue THEN v ELSE store[n].value
      /\ new.attributes = (store[n].attributes \ a) \cup (a \cap a)
  OBVIOUS
<1> HIDE DEF new
<1> QED
  BY <1>1, <1>2 DEF Takes

LEMMA UnsetTaken ==
    ASSUME NEW store, NEW n,
           NEW result, result = UnsetVariable(store, n), result.ok
    PROVE  /\ result.store = [store EXCEPT ![n] = Absent]
           /\ "readonly" \notin store[n].attributes
BY DEF UnsetVariable, Done, Refused

LEMMA ChangeFields ==
    ASSUME NEW n, NEW op, NEW v, NEW a, NEW e, e = Change(n, op, v, a)
    PROVE  /\ DOMAIN e = EntryFields
           /\ e.name = n /\ e.operation = op /\ e.value = v
           /\ e.mask = a /\ e.attributes = a
BY DEF Change, EntryFields

FoldedAs(old, e, f) ==
    /\ DOMAIN f = EntryFields /\ f.name = old.name
    /\ e.operation = "attributes" =>
          /\ f.operation = IF old.operation = "unset" THEN "unset_attributes"
                           ELSE old.operation
          /\ f.value = old.value
          /\ f.attributes = (old.attributes \ e.mask) \cup e.attributes
    /\ e.operation = "unset" => f.operation = "unset" /\ f.attributes = {}
    /\ e.operation = "set" =>
          /\ f.operation = "set" /\ f.value = e.value
          /\ f.attributes = (old.attributes \ e.mask) \cup e.attributes

LEMMA FoldedFields ==
    ASSUME NEW old, DOMAIN old = EntryFields, NEW e
    PROVE  FoldedAs(old, e, Folded(old, e))
<1> DEFINE f == Folded(old, e)
<1> SUFFICES FoldedAs(old, e, f)
  OBVIOUS
<1> DEFINE a == (old.attributes \ e.mask) \cup e.attributes
<1>1. CASE e.operation = "attributes"
  <2> DEFINE op == IF old.operation = "unset" THEN "unset_attributes" ELSE old.operation
  <2>1. f = [old EXCEPT !.operation = op, !.mask = old.mask \cup e.mask, !.attributes = a]
    BY <1>1 DEF Folded
  <2> HIDE DEF a, op
  <2>2. DOMAIN f = EntryFields /\ f.name = old.name /\ f.operation = op
        /\ f.value = old.value /\ f.attributes = a
    BY <2>1 DEF EntryFields
  <2> QED
    BY <1>1, <2>2 DEF a, op, FoldedAs
<1>2. CASE e.operation = "unset"
  <2>1. f = [old EXCEPT !.operation = "unset", !.value = Nothing,
                        !.mask = {}, !.attributes = {}]
    BY <1>2 DEF Folded
  <2>2. DOMAIN f = EntryFields /\ f.name = old.name /\ f.operation = "unset"
        /\ f.attributes = {}
    BY <2>1 DEF EntryFields
  <2> QED
    BY <1>2, <2>2 DEF FoldedAs
<1>3. CASE e.operation \notin {"attributes", "unset"}
  <2>1. f = [old EXCEPT !.operation = e.operation, !.value = e.value,
                        !.mask = old.mask \cup e.mask, !.attributes = a]
    BY <1>3 DEF Folded
  <2> HIDE DEF a
  <2>2. DOMAIN f = EntryFields /\ f.name = old.name /\ f.operation = e.operation
        /\ f.value = e.value /\ f.attributes = a
    BY <2>1 DEF EntryFields
  <2> QED
    BY <1>3, <2>2 DEF a, FoldedAs
<1> HIDE DEF f
<1> QED
  BY <1>1, <1>2, <1>3

LEMMA AssignTraced ==
    ASSUME NEW was, NEW now, NEW journal, Traces(was, now, journal),
           NEW n \in Names, NEW v, NEW a,
           NEW result, result = SetVariable(now, n, v, a, a, TRUE), result.ok,
           NEW record, record = Record(journal, Change(n, "set", v, a))
    PROVE  Kept(was, result.store, journal, n, record)
<1> DEFINE e == Change(n, "set", v, a)
<1>1. /\ DOMAIN e = EntryFields /\ e.name = n /\ e.operation = "set" /\ e.value = v
      /\ e.mask = a /\ e.attributes = a
  BY ChangeFields
<1>2. PICK new : /\ result.store = [now EXCEPT ![n] = new]
                 /\ new.present /\ new.set /\ new.value = v
                 /\ new.attributes = (now[n].attributes \ a) \cup (a \cap a)
                 /\ ~(now[n].present /\ "readonly" \in now[n].attributes)
  <2>1. TRUE \in BOOLEAN
    OBVIOUS
  <2>2. Takes(now, n, v, a, TRUE, result)
    BY <2>1, SetTaken
  <2> QED
    BY <2>2 DEF Takes
<1> HIDE DEF e
<1>3. Fits(e, was[n], new)
  BY <1>1, <1>2 DEF Fits, Operations
<1>4. ASSUME NEW k \in 1..Len(journal), journal[k].name = n
      PROVE  /\ ~Forbids(journal[k], e)
             /\ DOMAIN Folded(journal[k], e) = EntryFields
             /\ Folded(journal[k], e).name = n
             /\ Fits(Folded(journal[k], e), was[n], new)
  <2> DEFINE f == Folded(journal[k], e)
  <2>1. DOMAIN journal[k] = EntryFields /\ "readonly" \notin journal[k].attributes
    BY <1>2, <1>4 DEF Traces, Fits
  <2>2. /\ DOMAIN f = EntryFields /\ f.name = n /\ f.operation = "set" /\ f.value = v
        /\ f.attributes = (journal[k].attributes \ a) \cup a
    <3>1. FoldedAs(journal[k], e, f)
      BY <2>1, FoldedFields
    <3> HIDE DEF f
    <3> QED
      BY <3>1, <1>1, <1>4 DEF FoldedAs
  <2> HIDE DEF f
  <2>3. Fits(f, was[n], new)
    BY <2>1, <2>2, <1>2 DEF Fits, Operations
  <2> QED
    BY <2>1, <2>2, <2>3 DEF f, Forbids
<1>5. Refits(was, journal, n, e, new)
  BY <1>4 DEF Refits
<1>6. Kept(was, result.store, journal, n, Record(journal, e))
  BY <1>1, <1>2, <1>3, <1>5, RecordCases
<1> QED
  BY <1>6 DEF e

LEMMA DeclareTraced ==
    ASSUME NEW was, NEW now, NEW journal, Traces(was, now, journal),
           NEW n \in Names, NEW v, NEW a,
           NEW result, result = SetVariable(now, n, v, a, a, FALSE), result.ok,
           NEW record, record = Record(journal, Change(n, "attributes", v, a))
    PROVE  Kept(was, result.store, journal, n, record)
<1> DEFINE e == Change(n, "attributes", v, a)
<1>1. /\ DOMAIN e = EntryFields /\ e.name = n /\ e.operation = "attributes"
      /\ e.mask = a /\ e.attributes = a
  BY ChangeFields
<1>2. PICK new : /\ result.store = [now EXCEPT ![n] = new]
                 /\ new.present /\ (new.set <=> now[n].set) /\ new.value = now[n].value
                 /\ new.attributes = (now[n].attributes \ a) \cup (a \cap a)
                 /\ now[n].present /\ "readonly" \in now[n].attributes =>
                       ~ClearsReadonly(a, a)
  <2>1. FALSE \in BOOLEAN
    OBVIOUS
  <2>2. Takes(now, n, v, a, FALSE, result)
    BY <2>1, SetTaken
  <2> QED
    BY <2>2 DEF Takes
<1> HIDE DEF e
<1>3. ASSUME ~Named(journal, n)
      PROVE  Fits(e, was[n], new)
  <2>1. now[n] = was[n]
    BY <1>3 DEF Traces, Named
  <2> QED
    BY <2>1, <1>1, <1>2 DEF Fits, Operations
<1>4. ASSUME NEW k \in 1..Len(journal), journal[k].name = n
      PROVE  /\ ~Forbids(journal[k], e)
             /\ DOMAIN Folded(journal[k], e) = EntryFields
             /\ Folded(journal[k], e).name = n
             /\ Fits(Folded(journal[k], e), was[n], new)
  <2> DEFINE f == Folded(journal[k], e)
  <2>1. DOMAIN journal[k] = EntryFields /\ Fits(journal[k], was[n], now[n])
    BY <1>4 DEF Traces
  <2>2. /\ DOMAIN f = EntryFields /\ f.name = n /\ f.value = journal[k].value
        /\ f.operation = IF journal[k].operation = "unset" THEN "unset_attributes"
                         ELSE journal[k].operation
        /\ f.attributes = (journal[k].attributes \ a) \cup a
    <3>1. FoldedAs(journal[k], e, f)
      BY <2>1, FoldedFields
    <3> HIDE DEF f
    <3> QED
      BY <3>1, <1>1, <1>4 DEF FoldedAs
  <2> HIDE DEF f
  <2>3. "readonly" \in f.attributes =>
           new.present /\ "readonly" \in new.attributes
    BY <2>1, <2>2, <1>2 DEF Fits
  <2>4. Fits(f, was[n], new)
    BY <2>1, <2>2, <2>3, <1>2 DEF Fits, Operations
  <2>5. ~Forbids(journal[k], e)
    BY <1>1, <1>2, <2>1 DEF Forbids, Fits
  <2> QED
    BY <2>2, <2>4, <2>5 DEF f
<1>5. Refits(was, journal, n, e, new)
  BY <1>4 DEF Refits
<1>6. Kept(was, result.store, journal, n, Record(journal, e))
  BY <1>1, <1>2, <1>3, <1>5, RecordCases
<1> QED
  BY <1>6 DEF e

LEMMA UnsetTraced ==
    ASSUME NEW was, NEW now, NEW journal, Traces(was, now, journal),
           NEW n \in Names, NEW v,
           NEW result, result = UnsetVariable(now, n), result.ok,
           NEW record, record = Record(journal, Change(n, "unset", v, {}))
    PROVE  Kept(was, result.store, journal, n, record)
<1> DEFINE e == Change(n, "unset", v, {})
<1>1. /\ DOMAIN e = EntryFields /\ e.name = n /\ e.operation = "unset"
      /\ e.attributes = {}
  BY ChangeFields
<1>2. /\ result.store = [now EXCEPT ![n] = Absent]
      /\ "readonly" \notin now[n].attributes
  BY UnsetTaken
<1>3. ~Absent.set
  BY DEF Absent
<1> HIDE DEF e
<1>4. Fits(e, was[n], Absent)
  BY <1>1, <1>3 DEF Fits, Operations
<1>5. ASSUME NEW k \in 1..Len(journal), journal[k].name = n
      PROVE  /\ ~Forbids(journal[k], e)
             /\ DOMAIN Folded(journal[k], e) = EntryFields
             /\ Folded(journal[k], e).name = n
             /\ Fits(Folded(journal[k], e), was[n], Absent)
  <2> DEFINE f == Folded(journal[k], e)
  <2>1. DOMAIN journal[k] = EntryFields /\ "readonly" \notin journal[k].attributes
    BY <1>2, <1>5 DEF Traces, Fits
  <2>2. DOMAIN f = EntryFields /\ f.name = n /\ f.operation = "unset" /\ f.attributes = {}
    <3>1. FoldedAs(journal[k], e, f)
      BY <2>1, FoldedFields
    <3> HIDE DEF f
    <3> QED
      BY <3>1, <1>1, <1>5 DEF FoldedAs
  <2> HIDE DEF f
  <2>3. Fits(f, was[n], Absent)
    BY <2>2, <1>3 DEF Fits, Operations
  <2> QED
    BY <2>1, <2>2, <2>3 DEF f, Forbids
<1>6. Refits(was, journal, n, e, Absent)
  BY <1>5 DEF Refits
<1>7. Kept(was, result.store, journal, n, Record(journal, e))
  BY <1>1, <1>2, <1>4, <1>6, RecordCases
<1> QED
  BY <1>7 DEF e

(***************************************************************************)
(* The owner applies the journal.                                          *)
(***************************************************************************)

(* Worth the same to a command.                                            *)
Alike(x, y) == (x.set <=> y.set) /\ (y.set => x.value = y.value)

ChangedAt(store, n, x, later) ==
    /\ DOMAIN later = DOMAIN store
    /\ later[n] = x
    /\ \A m \in DOMAIN store : m # n => later[m] = store[m]

SetAt(store, n, v, setValue, later) ==
    \E x : /\ ChangedAt(store, n, x, later)
           /\ x.set <=> setValue \/ store[n].set
           /\ x.value = IF setValue THEN v ELSE store[n].value

LEMMA SetApplied ==
    ASSUME NEW store, NEW n \in DOMAIN store, NEW v, NEW mask, NEW a,
           NEW setValue \in BOOLEAN,
           NEW result, result = SetVariable(store, n, v, mask, a, setValue), result.ok
    PROVE  SetAt(store, n, v, setValue, result.store)
<1> DEFINE x == [present |-> TRUE,
                 set |-> setValue \/ store[n].set,
                 value |-> IF setValue THEN v ELSE store[n].value,
                 attributes |-> (store[n].attributes \ mask) \cup (a \cap mask)]
<1>1. result.store = [store EXCEPT ![n] = x]
  BY DEF SetVariable, Done, Refused
<1>2. /\ x.set <=> setValue \/ store[n].set
      /\ x.value = IF setValue THEN v ELSE store[n].value
  OBVIOUS
<1> HIDE DEF x
<1>3. ChangedAt(store, n, x, result.store)
  BY <1>1 DEF ChangedAt
<1> QED
  BY <1>2, <1>3 DEF SetAt

LEMMA EntryApplied ==
    ASSUME NEW store, NEW e, NEW n \in DOMAIN store, e.name = n,
           NEW now, Fits(e, store[n], now),
           NEW result, result = ApplyEntry(store, e), result.ok
    PROVE  \E x : ChangedAt(store, n, x, result.store) /\ Alike(x, now)
<1>0. TRUE \in BOOLEAN /\ FALSE \in BOOLEAN
  OBVIOUS
<1>1. CASE e.operation = "set"
  <2>1. result = SetVariable(store, n, e.value, e.mask, e.attributes, TRUE)
    BY <1>1 DEF ApplyEntry
  <2>2. PICK x : ChangedAt(store, n, x, result.store) /\ x.set /\ x.value = e.value
    <3>1. SetAt(store, n, e.value, TRUE, result.store)
      BY <1>0, <2>1, SetApplied
    <3> QED
      BY <3>1 DEF SetAt
  <2> QED
    BY <1>1, <2>2 DEF Fits, Alike
<1>2. CASE e.operation = "attributes"
  <2>1. result = SetVariable(store, n, Nothing, e.mask, e.attributes, FALSE)
    BY <1>2 DEF ApplyEntry
  <2>2. PICK x : /\ ChangedAt(store, n, x, result.store)
                 /\ x.set <=> store[n].set
                 /\ x.value = store[n].value
    <3>1. SetAt(store, n, Nothing, FALSE, result.store)
      BY <1>0, <2>1, SetApplied
    <3> QED
      BY <3>1 DEF SetAt
  <2> QED
    BY <1>2, <2>2 DEF Fits, Alike
<1>3. CASE e.operation = "unset"
  <2>1. result = UnsetVariable(store, n)
    BY <1>3 DEF ApplyEntry
  <2>2. result.store = [store EXCEPT ![n] = Absent]
    BY <2>1, UnsetTaken
  <2>3. ChangedAt(store, n, Absent, result.store) /\ ~Absent.set
    BY <2>2 DEF ChangedAt, Absent
  <2> QED
    BY <1>3, <2>3 DEF Fits, Alike
<1>4. CASE e.operation = "unset_attributes"
  <2> DEFINE gone == UnsetVariable(store, n)
  <2>1. result = IF gone.ok
                 THEN SetVariable(gone.store, n, Nothing, e.mask, e.attributes, FALSE)
                 ELSE gone
    BY <1>4 DEF ApplyEntry
  <2>2. gone.ok
    BY <2>1
  <2>3. gone.store = [store EXCEPT ![n] = Absent]
    BY <2>2, UnsetTaken
  <2> HIDE DEF gone
  <2>4. ChangedAt(store, n, Absent, gone.store) /\ ~Absent.set
    BY <2>3 DEF ChangedAt, Absent
  <2>5. n \in DOMAIN gone.store /\ ~gone.store[n].set
    BY <2>4 DEF ChangedAt
  <2>6. result = SetVariable(gone.store, n, Nothing, e.mask, e.attributes, FALSE)
    BY <2>1, <2>2
  <2>7. PICK x : ChangedAt(gone.store, n, x, result.store) /\ (x.set <=> gone.store[n].set)
    <3>1. SetAt(gone.store, n, Nothing, FALSE, result.store)
      BY <1>0, <2>5, <2>6, SetApplied
    <3> QED
      BY <3>1 DEF SetAt
  <2>8. ChangedAt(store, n, x, result.store)
    BY <2>4, <2>7 DEF ChangedAt
  <2> QED
    BY <1>4, <2>5, <2>7, <2>8 DEF Fits, Alike
<1> QED
  BY <1>1, <1>2, <1>3, <1>4 DEF Fits, Operations

(* The states of the store while the first n entries are applied.          *)
Applying(f, store, journal, n) ==
    f = [i \in 0..n |->
           IF i = 0 THEN Done(store)
           ELSE IF f[i - 1].ok THEN ApplyEntry(f[i - 1].store, journal[i])
           ELSE f[i - 1]]

LEMMA ApplyingStep ==
    ASSUME NEW f, NEW store, NEW journal, NEW n \in Nat, Applying(f, store, journal, n)
    PROVE  /\ f[0] = Done(store)
           /\ \A i \in 1..n : f[i] = IF f[i - 1].ok
                                     THEN ApplyEntry(f[i - 1].store, journal[i])
                                     ELSE f[i - 1]
<1> DEFINE step(i) == IF f[i - 1].ok THEN ApplyEntry(f[i - 1].store, journal[i]) ELSE f[i - 1]
<1>1. f = [i \in 0..n |-> IF i = 0 THEN Done(store) ELSE step(i)]
  BY DEF Applying
<1> HIDE DEF step
<1>2. f[0] = Done(store)
  BY <1>1
<1>3. \A i \in 1..n : f[i] = step(i)
  BY <1>1
<1> QED
  BY <1>2, <1>3 DEF step

LEMMA ApplyingExists ==
    ASSUME NEW store, NEW journal
    PROVE  \A n \in Nat : \E f : Applying(f, store, journal, n)
<1> DEFINE S == {n \in Nat : ~ \E f : Applying(f, store, journal, n)}
<1> SUFFICES ASSUME S # {} PROVE FALSE
  OBVIOUS
<1>1. PICK n \in S : \A m \in S : n <= m
  <2>1. S \in SUBSET Nat
    OBVIOUS
  <2> HIDE DEF S
  <2> QED
    BY <2>1, LeastNatural
<1>2. n \in Nat /\ ~ \E f : Applying(f, store, journal, n)
  BY <1>1
<1>3. CASE n = 0
  <2>1. Applying([i \in 0..0 |-> Done(store)], store, journal, 0)
    BY DEF Applying
  <2> QED
    BY <1>2, <1>3, <2>1
<1>4. CASE n > 0
  <2>1. n - 1 \in Nat /\ n - 1 \notin S
    BY <1>1, <1>2, <1>4
  <2>2. PICK f : Applying(f, store, journal, n - 1)
    BY <2>1
  <2> DEFINE g == [i \in 0..n |->
                     IF i < n THEN f[i]
                     ELSE IF f[n - 1].ok THEN ApplyEntry(f[n - 1].store, journal[n])
                     ELSE f[n - 1]]
             step(i) == IF g[i - 1].ok THEN ApplyEntry(g[i - 1].store, journal[i])
                        ELSE g[i - 1]
  <2>3. \A i \in 0..(n - 1) : g[i] = f[i]
    BY <1>2
  <2>4. g[0] = Done(store)
    BY <2>1, <2>2, <2>3, <1>4, ApplyingStep
  <2>5. ASSUME NEW i \in 1..n PROVE g[i] = step(i)
    <3>1. i - 1 \in 0..(n - 1) /\ g[i - 1] = f[i - 1]
      BY <1>2, <2>3
    <3>2. CASE i = n
      BY <1>2, <3>1, <3>2
    <3>3. CASE i < n
      <4>1. i \in 1..(n - 1) /\ i \in 0..(n - 1)
        BY <1>2, <3>3
      <4>2. f[i] = IF f[i - 1].ok THEN ApplyEntry(f[i - 1].store, journal[i]) ELSE f[i - 1]
        BY <4>1, <2>1, <2>2, ApplyingStep
      <4>3. g[i] = f[i]
        BY <4>1, <2>3
      <4> HIDE DEF g
      <4> QED
        BY <4>2, <4>3, <3>1
    <3> QED
      BY <1>2, <3>2, <3>3
  <2>6. g = [i \in 0..n |-> IF i = 0 THEN Done(store) ELSE step(i)]
    <3>1. \A i \in 0..n : g[i] = IF i = 0 THEN Done(store) ELSE step(i)
      <4> HIDE DEF g, step
      <4> QED
        BY <1>2, <2>4, <2>5
    <3>2. g = [i \in 0..n |-> g[i]]
      OBVIOUS
    <3> HIDE DEF g, step
    <3> QED
      BY <3>1, <3>2
  <2>7. Applying(g, store, journal, n)
    <3> HIDE DEF g
    <3> QED
      BY <2>6 DEF Applying, step
  <2> QED
    BY <1>2, <2>7
<1> QED
  BY <1>2, <1>3, <1>4

LEMMA JournalStates ==
    ASSUME NEW store, NEW journal, Len(journal) \in Nat,
           NEW result, result = ApplyJournal(store, journal), result.ok
    PROVE  \E f : Applying(f, store, journal, Len(journal)) /\ result = f[Len(journal)]
<1> DEFINE applied == CHOOSE f : f = [i \in 0..Len(journal) |->
                        IF i = 0 THEN Done(store)
                        ELSE IF f[i - 1].ok THEN ApplyEntry(f[i - 1].store, journal[i])
                        ELSE f[i - 1]]
<1>1. result = IF CanApply(store, journal) THEN applied[Len(journal)] ELSE Refused(store)
  BY Zenon DEF ApplyJournal
<1>2. Applying(applied, store, journal, Len(journal))
  <2>1. \E f : Applying(f, store, journal, Len(journal))
    BY ApplyingExists
  <2> QED
    BY <2>1, Zenon DEF Applying
<1>3. ~Refused(store).ok
  BY DEF Refused
<1> HIDE DEF applied
<1> QED
  BY <1>1, <1>2, <1>3

(* After i entries the names of these are as the evaluator left them, and  *)
(* the others as the owner had them.                                       *)
AppliedTo(store, was, now, journal, i) ==
    /\ DOMAIN store = Names
    /\ \A k \in 1..Len(journal) :
          IF k <= i THEN Alike(store[journal[k].name], now[journal[k].name])
          ELSE store[journal[k].name] = was[journal[k].name]
    /\ \A n \in Names :
          (\A k \in 1..Len(journal) : journal[k].name # n) => store[n] = was[n]

LEMMA AppliedNext ==
    ASSUME NEW was, NEW now, NEW journal, Traces(was, now, journal),
           NEW i \in 1..Len(journal), NEW store, AppliedTo(store, was, now, journal, i - 1),
           NEW result, result = ApplyEntry(store, journal[i]), result.ok
    PROVE  AppliedTo(result.store, was, now, journal, i)
<1> DEFINE n == journal[i].name
<1>0. Len(journal) \in Nat
  BY SeqLen DEF Traces
<1>1. n \in DOMAIN store /\ store[n] = was[n] /\ Fits(journal[i], was[n], now[n])
  BY <1>0 DEF Traces, AppliedTo
<1>2. PICK x : ChangedAt(store, n, x, result.store) /\ Alike(x, now[n])
  BY <1>1, EntryApplied
<1>3. DOMAIN result.store = Names
  BY <1>2 DEF ChangedAt, AppliedTo
<1>4. ASSUME NEW k \in 1..Len(journal)
      PROVE  IF k <= i THEN Alike(result.store[journal[k].name], now[journal[k].name])
             ELSE result.store[journal[k].name] = was[journal[k].name]
  <2>1. CASE k = i
    BY <2>1, <1>2, <1>0 DEF ChangedAt
  <2>2. CASE k # i
    <3>1. journal[k].name # n /\ journal[k].name \in DOMAIN store
      BY <2>2 DEF Traces, AppliedTo
    <3>2. result.store[journal[k].name] = store[journal[k].name]
      BY <3>1, <1>2 DEF ChangedAt
    <3>3. k <= i <=> k <= i - 1
      BY <2>2, <1>0
    <3> QED
      BY <3>2, <3>3 DEF AppliedTo
  <2> QED
    BY <2>1, <2>2
<1>5. ASSUME NEW m \in Names, \A k \in 1..Len(journal) : journal[k].name # m
      PROVE  result.store[m] = was[m]
  BY <1>5, <1>2 DEF ChangedAt, AppliedTo
<1> QED
  BY <1>3, <1>4, <1>5 DEF AppliedTo

LEMMA AllApplied ==
    ASSUME NEW was, NEW now, NEW journal, Traces(was, now, journal),
           NEW f, Applying(f, was, journal, Len(journal))
    PROVE  \A i \in 0..Len(journal) :
              f[i].ok => AppliedTo(f[i].store, was, now, journal, i)
<1> DEFINE m == Len(journal)
           Bad(i) == f[i].ok /\ ~AppliedTo(f[i].store, was, now, journal, i)
           S == {i \in 0..m : Bad(i)}
<1>0. m \in Nat
  BY SeqLen DEF Traces
<1> SUFFICES ASSUME S # {} PROVE FALSE
  OBVIOUS
<1>1. PICK i \in S : \A k \in S : i <= k
  <2>1. S \in SUBSET Nat
    BY <1>0
  <2> HIDE DEF S
  <2> QED
    BY <2>1, LeastNatural
<1>2. i \in 0..m /\ f[i].ok /\ ~AppliedTo(f[i].store, was, now, journal, i)
  BY <1>1
<1>3. /\ f[0] = Done(was)
      /\ \A k \in 1..m : f[k] = IF f[k - 1].ok
                                THEN ApplyEntry(f[k - 1].store, journal[k])
                                ELSE f[k - 1]
  BY <1>0, ApplyingStep
<1>4. CASE i = 0
  <2>1. f[0].store = was
    BY <1>3 DEF Done
  <2>2. AppliedTo(was, was, now, journal, 0)
    BY <1>0 DEF AppliedTo, Traces
  <2> QED
    BY <2>1, <2>2, <1>2, <1>4
<1>5. CASE i # 0
  <2>1. i \in 1..m /\ i - 1 \in 0..m /\ i - 1 < i
    BY <1>0, <1>2, <1>5
  <2>2. i - 1 \notin S
    <3> HIDE DEF S
    <3>1. i \in Nat /\ i - 1 \in Nat
      BY <2>1, <1>0
    <3> QED
      BY <2>1, <1>1, <3>1
  <2>3. f[i - 1].ok /\ f[i] = ApplyEntry(f[i - 1].store, journal[i])
    BY <2>1, <1>2, <1>3
  <2>4. AppliedTo(f[i - 1].store, was, now, journal, i - 1)
    BY <2>1, <2>2, <2>3
  <2>5. AppliedTo(f[i].store, was, now, journal, i)
    BY <2>1, <2>3, <2>4, <1>2, AppliedNext
  <2> QED
    BY <2>5, <1>2
<1> QED
  BY <1>4, <1>5

(* A journal that the owner can apply gives it the evaluator's variables.  *)
LEMMA JournalApplied ==
    ASSUME NEW was, NEW now, NEW journal, Traces(was, now, journal),
           NEW result, result = ApplyJournal(was, journal), result.ok
    PROVE  DOMAIN result.store = Names /\ Seen(result.store) = Seen(now)
<1>0. Len(journal) \in Nat
  BY SeqLen DEF Traces
<1>1. PICK f : Applying(f, was, journal, Len(journal)) /\ result = f[Len(journal)]
  BY <1>0, JournalStates
<1>2. AppliedTo(result.store, was, now, journal, Len(journal))
  BY <1>0, <1>1, AllApplied
<1>3. ASSUME NEW n \in Names PROVE Alike(result.store[n], now[n])
  <2>1. CASE \E k \in 1..Len(journal) : journal[k].name = n
    BY <2>1, <1>2, <1>0 DEF AppliedTo
  <2>2. CASE \A k \in 1..Len(journal) : journal[k].name # n
    <3>1. result.store[n] = now[n]
      BY <2>2, <1>2 DEF AppliedTo, Traces
    <3> QED
      BY <3>1 DEF Alike
  <2> QED
    BY <2>1, <2>2
<1>4. \A n \in Names : (IF result.store[n].set THEN result.store[n].value ELSE Nothing)
                     = (IF now[n].set THEN now[n].value ELSE Nothing)
  BY <1>3 DEF Alike
<1> QED
  BY <1>2, <1>4 DEF AppliedTo, Seen

(***************************************************************************)
(* The journal of aliases.                                                 *)
(***************************************************************************)
AliasStates(f, was, journal) ==
    f = [i \in 0..Len(journal) |->
           IF i = 0 THEN was ELSE ApplyAlias(f[i - 1], journal[i])]

AliasesTraced(was, now, journal) ==
    /\ IsSeq(journal)
    /\ \E f : AliasStates(f, was, journal) /\ f[Len(journal)] = now

LEMMA AliasSteps ==
    ASSUME NEW f, NEW was, NEW journal, Len(journal) \in Nat, AliasStates(f, was, journal)
    PROVE  /\ f[0] = was
           /\ \A i \in 1..Len(journal) : f[i] = ApplyAlias(f[i - 1], journal[i])
<1> DEFINE step(i) == ApplyAlias(f[i - 1], journal[i])
<1>1. f = [i \in 0..Len(journal) |-> IF i = 0 THEN was ELSE step(i)]
  BY DEF AliasStates
<1> HIDE DEF step
<1>2. f[0] = was
  BY <1>1
<1>3. \A i \in 1..Len(journal) : f[i] = step(i)
  BY <1>1
<1> QED
  BY <1>2, <1>3 DEF step

LEMMA AliasStatesUnique ==
    ASSUME NEW was, NEW journal, Len(journal) \in Nat,
           NEW f, AliasStates(f, was, journal), NEW g, AliasStates(g, was, journal)
    PROVE  f[Len(journal)] = g[Len(journal)]
<1> DEFINE S == {i \in 0..Len(journal) : f[i] # g[i]}
<1>1. S = {}
  <2> SUFFICES ASSUME S # {} PROVE FALSE
    OBVIOUS
  <2>1. PICK i \in S : \A k \in S : i <= k
    <3>1. S \in SUBSET Nat
      OBVIOUS
    <3> HIDE DEF S
    <3> QED
      BY <3>1, LeastNatural
  <2>2. i \in 0..Len(journal) /\ f[i] # g[i]
    BY <2>1
  <2>3. i # 0
    BY <2>2, AliasSteps
  <2>4. i \in 1..Len(journal) /\ i - 1 \in 0..Len(journal) /\ i - 1 < i
    BY <2>2, <2>3
  <2>5. f[i - 1] = g[i - 1]
    <3>1. i - 1 \notin S
      <4> HIDE DEF S
      <4> QED
        BY <2>1, <2>4
    <3> QED
      BY <3>1, <2>4
  <2>6. f[i] = ApplyAlias(f[i - 1], journal[i]) /\ g[i] = ApplyAlias(g[i - 1], journal[i])
    BY <2>4, AliasSteps
  <2> QED
    BY <2>2, <2>5, <2>6
<1>2. Len(journal) \in 0..Len(journal)
  OBVIOUS
<1> QED
  BY <1>1, <1>2

LEMMA AliasAdded ==
    ASSUME NEW was, NEW now, NEW journal, AliasesTraced(was, now, journal), NEW e
    PROVE  AliasesTraced(was, ApplyAlias(now, e), Append(journal, e))
<1> DEFINE n == Len(journal)
           longer == Append(journal, e)
<1>1. IsSeq(journal) /\ n \in Nat
  BY SeqLen DEF AliasesTraced
<1>2. IsSeq(longer) /\ Len(longer) = n + 1 /\ longer[n + 1] = e
      /\ \A i \in 1..n : longer[i] = journal[i]
  BY <1>1, SeqAppend
<1>3. PICK f : AliasStates(f, was, journal) /\ f[n] = now
  BY DEF AliasesTraced
<1>4. f[0] = was /\ \A i \in 1..n : f[i] = ApplyAlias(f[i - 1], journal[i])
  BY <1>1, <1>3, AliasSteps
<1> DEFINE g == [i \in 0..(n + 1) |-> IF i <= n THEN f[i] ELSE ApplyAlias(now, e)]
<1>5. /\ \A i \in 0..n : g[i] = f[i]
      /\ g[n + 1] = ApplyAlias(now, e)
  BY <1>1
<1>6. g = [i \in 0..(n + 1) |-> g[i]]
  OBVIOUS
<1> HIDE DEF g, longer
<1>7. \A i \in 0..(n + 1) : g[i] = IF i = 0 THEN was ELSE ApplyAlias(g[i - 1], longer[i])
  <2> TAKE i \in 0..(n + 1)
  <2>1. CASE i = 0
    BY <2>1, <1>1, <1>4, <1>5
  <2>2. CASE i \in 1..n
    <3>1. i - 1 \in 0..n /\ i \in 0..n /\ i # 0
      BY <2>2, <1>1
    <3> QED
      BY <3>1, <2>2, <1>2, <1>4, <1>5
  <2>3. CASE i = n + 1
    <3>1. i - 1 = n /\ n \in 0..n /\ i # 0
      BY <2>3, <1>1
    <3> QED
      BY <3>1, <2>3, <1>2, <1>3, <1>5
  <2> QED
    BY <2>1, <2>2, <2>3, <1>1
<1>8. AliasStates(g, was, longer)
  BY <1>2, <1>6, <1>7 DEF AliasStates
<1>9. AliasesTraced(was, ApplyAlias(now, e), longer)
  BY <1>2, <1>5, <1>8 DEF AliasesTraced
<1> QED
  BY <1>9 DEF longer

LEMMA NoAliases ==
    ASSUME NEW was
    PROVE  AliasesTraced(was, was, <<>>)
<1> DEFINE f == [i \in 0..0 |-> was]
<1>1. AliasStates(f, was, <<>>) /\ f[Len(<<>>)] = was
  BY DEF AliasStates
<1>2. IsSeq(<<>>)
  BY DEF IsSeq
<1> QED
  BY <1>1, <1>2 DEF AliasesTraced

LEMMA AliasesApplied ==
    ASSUME NEW was, NEW now, NEW journal, AliasesTraced(was, now, journal)
    PROVE  ApplyAliases(was, journal) = now
<1> DEFINE applied == CHOOSE f : f = [i \in 0..Len(journal) |->
                        IF i = 0 THEN was ELSE ApplyAlias(f[i - 1], journal[i])]
<1>0. Len(journal) \in Nat
  BY SeqLen DEF AliasesTraced
<1>1. PICK f : AliasStates(f, was, journal) /\ f[Len(journal)] = now
  BY DEF AliasesTraced
<1>2. AliasStates(applied, was, journal)
  BY <1>1, Zenon DEF AliasStates
<1>3. ApplyAliases(was, journal) = applied[Len(journal)]
  BY Zenon DEF ApplyAliases
<1> HIDE DEF applied
<1> QED
  BY <1>0, <1>1, <1>2, <1>3, AliasStatesUnique

(***************************************************************************)
(* The evaluator's steps.                                                  *)
(***************************************************************************)
ChildFields ==
    {"phase", "todo", "state", "journal", "aliasJournal", "base", "invalid", "exiting",
     "standard", "redirected", "outcome", "code", "exitStatus", "sent", "written",
     "malformed", "killed"}

StepOK(s) ==
    /\ s.op \in DOMAIN Touches
    /\ s.op \in {"assign", "declare", "unset"} => s.name \in Names

TodoOK(todo) == IsSeq(todo) /\ \A i \in 1..Len(todo) : StepOK(todo[i])

ChildOK(c) ==
    /\ DOMAIN c = ChildFields /\ DOMAIN c.state = SessionParts
    /\ TodoOK(c.todo)

(* What a step may leave to do.                                            *)
Rest(before, after) == after \in {<<>>, Tail(before), before}

(* The same, but for what is to be done, the code, and how it ends.        *)
AsBefore(c, d) ==
    /\ DOMAIN d = ChildFields
    /\ d.base = c.base /\ d.phase \in {c.phase, "program"}
    /\ Rest(c.todo, d.todo)

SameAliases(c, d) ==
    /\ d.state.aliases = c.state.aliases /\ d.aliasJournal = c.aliasJournal
    /\ d.invalid = c.invalid

SameVariables(c, d) ==
    d.state.variables = c.state.variables /\ d.journal = c.journal

SameParts(c, d, changed) ==
    /\ DOMAIN d.state = SessionParts
    /\ \A part \in SessionParts \ {changed} : d.state[part] = c.state[part]

(* Both ways to go on keep every other field.                              *)
GoneOn(x, d) ==
    /\ DOMAIN d = ChildFields
    /\ d.todo \in {<<>>, Tail(x.todo)}
    /\ d.phase = x.phase /\ d.state = x.state /\ d.journal = x.journal
    /\ d.aliasJournal = x.aliasJournal /\ d.base = x.base /\ d.invalid = x.invalid

LEMMA GoesOn ==
    ASSUME NEW x, DOMAIN x = ChildFields, NEW code
    PROVE  GoneOn(x, Continue(x, code)) /\ GoneOn(x, Abort(x, code))
BY DEF GoneOn, Continue, Abort, ChildFields

(* A change of a variable, however it ends.                                *)
VariableStep(c, d, result, entry) ==
    \/ ~result.ok /\ SameVariables(c, d)
    \/ result.ok /\ ~Record(c.journal, entry).ok
    \/ /\ result.ok /\ Record(c.journal, entry).ok
       /\ d.state.variables = result.store
       /\ d.journal = Record(c.journal, entry).journal

LEMMA RecordedStep ==
    ASSUME NEW c, DOMAIN c = ChildFields, DOMAIN c.state = SessionParts,
           NEW result, NEW entry, NEW d, d = Recorded(c, result, entry)
    PROVE  /\ AsBefore(c, d) /\ SameAliases(c, d) /\ SameParts(c, d, "variables")
           /\ VariableStep(c, d, result, entry)
<1> DEFINE record == Record(c.journal, entry)
           x == [c EXCEPT !.state.variables = result.store]
           y == [c EXCEPT !.state.variables = result.store, !.journal = record.journal]
<1>0. "variables" \in SessionParts /\ "aliases" \in SessionParts
  BY DEF SessionParts
<1>1. /\ DOMAIN x = ChildFields /\ DOMAIN x.state = SessionParts
      /\ x.state.variables = result.store
      /\ \A part \in SessionParts \ {"variables"} : x.state[part] = c.state[part]
      /\ x.base = c.base /\ x.phase = c.phase /\ x.todo = c.todo
      /\ x.aliasJournal = c.aliasJournal /\ x.invalid = c.invalid
  BY <1>0 DEF ChildFields
<1>2. /\ DOMAIN y = ChildFields /\ DOMAIN y.state = SessionParts
      /\ y.state.variables = result.store /\ y.journal = record.journal
      /\ \A part \in SessionParts \ {"variables"} : y.state[part] = c.state[part]
      /\ y.base = c.base /\ y.phase = c.phase /\ y.todo = c.todo
      /\ y.aliasJournal = c.aliasJournal /\ y.invalid = c.invalid
  BY <1>0 DEF ChildFields
<1>3. d = IF ~result.ok THEN Continue(c, 1)
          ELSE IF ~record.ok THEN Abort(x, 125) ELSE Continue(y, 0)
  BY DEF Recorded
<1> HIDE DEF record, x, y
<1>4. CASE ~result.ok
  <2>1. GoneOn(c, d)
    BY <1>3, <1>4, GoesOn
  <2> QED
    BY <2>1, <1>4
    DEF GoneOn, AsBefore, SameAliases, SameParts, SameVariables, VariableStep, Rest
<1>5. CASE result.ok /\ ~record.ok
  <2>1. GoneOn(x, d)
    BY <1>1, <1>3, <1>5, GoesOn
  <2>2. "aliases" \in SessionParts \ {"variables"}
    BY DEF SessionParts
  <2> QED
    BY <2>1, <2>2, <1>1, <1>5
    DEF GoneOn, AsBefore, SameAliases, SameParts, VariableStep, Rest, record
<1>6. CASE result.ok /\ record.ok
  <2>1. GoneOn(y, d)
    BY <1>2, <1>3, <1>6, GoesOn
  <2>2. "aliases" \in SessionParts \ {"variables"}
    BY DEF SessionParts
  <2> QED
    BY <2>1, <2>2, <1>2, <1>6
    DEF GoneOn, AsBefore, SameAliases, SameParts, VariableStep, Rest, record
<1> QED
  BY <1>4, <1>5, <1>6

VariableOps == {"assign", "declare", "unset", "cd"}
NameOf(s) == IF s.op = "cd" THEN "PWD" ELSE s.name

(* The names in the journal, and those still to be changed, are no more    *)
(* than it has room for.                                                   *)
Covers(S, c) ==
    /\ IsFiniteSet(S) /\ Cardinality(S) <= JournalCap
    /\ \A m : Named(c.journal, m) => m \in S
    /\ \A i \in 1..Len(c.todo) : c.todo[i].op \in VariableOps => NameOf(c.todo[i]) \in S

Within(c) == \E S : Covers(S, c)

VariablesOK(was, c) == Traces(was, c.state.variables, c.journal) /\ Within(c)

Among(u, t) == \A i \in 1..Len(u) : \E k \in 1..Len(t) : u[i] = t[k]

LEMMA TodoRest ==
    ASSUME NEW t, TodoOK(t), t # <<>>, NEW u, Rest(t, u)
    PROVE  /\ TodoOK(u) /\ StepOK(Head(t)) /\ Head(t) = t[1] /\ 1 \in 1..Len(t)
           /\ Among(u, t)
<1>1. /\ IsSeq(Tail(t)) /\ Len(t) > 0 /\ Len(t) \in Nat /\ Head(t) = t[1]
      /\ Len(Tail(t)) = Len(t) - 1
      /\ \A i \in 1..(Len(t) - 1) : Tail(t)[i] = t[i + 1]
  BY SeqTail, SeqLen DEF TodoOK
<1>2. StepOK(Head(t)) /\ 1 \in 1..Len(t)
  BY <1>1 DEF TodoOK
<1>3. CASE u = <<>>
  <2>1. IsSeq(<<>>) /\ Len(<<>>) = 0
    BY DEF IsSeq
  <2> QED
    BY <2>1, <1>1, <1>2, <1>3 DEF TodoOK, Among
<1>4. CASE u = Tail(t)
  <2>1. \A i \in 1..Len(u) : i + 1 \in 1..Len(t) /\ u[i] = t[i + 1]
    BY <1>1, <1>4
  <2> QED
    BY <2>1, <1>1, <1>2, <1>4 DEF TodoOK, Among
<1>5. CASE u = t
  BY <1>1, <1>2, <1>5 DEF Among
<1> QED
  BY <1>3, <1>4, <1>5 DEF Rest

LEMMA WithinKept ==
    ASSUME NEW c, TodoOK(c.todo), c.todo # <<>>, Within(c),
           NEW d, Rest(c.todo, d.todo),
           \A m : Named(d.journal, m) =>
              \/ Named(c.journal, m)
              \/ Head(c.todo).op \in VariableOps /\ m = NameOf(Head(c.todo))
    PROVE  Within(d)
<1>1. PICK S : Covers(S, c)
  BY DEF Within
<1>2. Head(c.todo) = c.todo[1] /\ 1 \in 1..Len(c.todo)
  BY TodoRest
<1>3. \A m : Named(d.journal, m) => m \in S
  BY <1>1, <1>2 DEF Covers
<1>4. Among(d.todo, c.todo)
  BY TodoRest
<1>5. Covers(S, d)
  BY <1>1, <1>3, <1>4 DEF Covers, Among
<1> QED
  BY <1>5 DEF Within

LEMMA UnchangedVariables ==
    ASSUME NEW c, TodoOK(c.todo), c.todo # <<>>, NEW d, Rest(c.todo, d.todo),
           SameVariables(c, d), NEW was, VariablesOK(was, c)
    PROVE  VariablesOK(was, d)
BY WithinKept DEF VariablesOK, SameVariables

LEMMA VariableKept ==
    ASSUME NEW c, TodoOK(c.todo), c.todo # <<>>, NEW d, Rest(c.todo, d.todo),
           Head(c.todo).op \in VariableOps, NEW n \in Names, n = NameOf(Head(c.todo)),
           NEW result, NEW entry, VariableStep(c, d, result, entry),
           NEW was, VariablesOK(was, c),
           result.ok => Kept(was, result.store, c.journal, n, Record(c.journal, entry))
    PROVE  VariablesOK(was, d)
<1> DEFINE record == Record(c.journal, entry)
<1>1. CASE ~result.ok /\ SameVariables(c, d)
  BY <1>1, UnchangedVariables
<1>2. CASE result.ok /\ ~record.ok
  <2>1. Len(c.journal) = JournalCap /\ ~Named(c.journal, n)
    BY <1>2 DEF Kept
  <2>2. PICK S : Covers(S, c)
    BY DEF VariablesOK, Within
  <2>3. n \in S
    <3>1. Head(c.todo) = c.todo[1] /\ 1 \in 1..Len(c.todo)
      BY TodoRest DEF Rest
    <3> QED
      BY <2>2, <3>1 DEF Covers
  <2>4. Len(c.journal) # JournalCap
    BY <2>1, <2>2, <2>3, RoomInJournal DEF Covers, VariablesOK
  <2> QED
    BY <2>1, <2>4
<1>3. CASE /\ result.ok /\ record.ok
           /\ d.state.variables = result.store /\ d.journal = record.journal
  <2>1. Traces(was, d.state.variables, d.journal)
    BY <1>3 DEF Kept
  <2>2. \A m : Named(d.journal, m) => m = n \/ Named(c.journal, m)
    BY <1>3 DEF Kept
  <2>3. Within(d)
    BY <2>2, WithinKept DEF VariablesOK
  <2> QED
    BY <2>1, <2>3 DEF VariablesOK
<1> QED
  BY <1>1, <1>2, <1>3 DEF VariableStep

(* What a step keeps, and the one part that it may change besides the      *)
(* variables and the options.                                              *)
StepKeeps(c, d, part) ==
    /\ AsBefore(c, d)
    /\ DOMAIN d.state = SessionParts
    /\ \A other \in SessionParts \ {"variables", "options", part} :
          d.state[other] = c.state[other]
    /\ \A was : VariablesOK(was, c) => VariablesOK(was, d)
    /\ c.invalid => d.invalid
    /\ ~d.invalid =>
          \A was : AliasesTraced(was, c.state.aliases, c.aliasJournal) =>
                   AliasesTraced(was, d.state.aliases, d.aliasJournal)

LEMMA NameIsKnown ==
    ASSUME NEW s, StepOK(s), s.op \in VariableOps
    PROVE  NameOf(s) \in Names
BY CommandsAssumption DEF StepOK, VariableOps, NameOf

LEMMA AssignStep ==
    ASSUME NEW c, ChildOK(c), c.todo # <<>>, Head(c.todo).op = "assign",
           NEW d, d = StepOf(c)
    PROVE  StepKeeps(c, d, "variables")
<1> DEFINE s == Head(c.todo)
           result == SetVariable(c.state.variables, s.name, s.value, s.attributes,
                                 s.attributes, TRUE)
           entry == Change(s.name, "set", s.value, s.attributes)
<1>1. d = Recorded(c, result, entry)
  BY DEF StepOf
<1>2. TodoOK(c.todo) /\ StepOK(s) /\ s.op \in VariableOps /\ NameOf(s) = s.name
  BY TodoRest DEF ChildOK, VariableOps, NameOf, Rest
<1>3. s.name \in Names
  BY <1>2, NameIsKnown
<1>4. /\ AsBefore(c, d) /\ SameAliases(c, d) /\ SameParts(c, d, "variables")
      /\ VariableStep(c, d, result, entry)
  <2> HIDE DEF result, entry
  <2> QED
    BY <1>1, RecordedStep DEF ChildOK
<1>5. ASSUME NEW was, VariablesOK(was, c) PROVE VariablesOK(was, d)
  <2>1. result.ok => Kept(was, result.store, c.journal, s.name, Record(c.journal, entry))
    BY <1>3, <1>5, AssignTraced DEF VariablesOK
  <2> HIDE DEF result, entry
  <2>2. Rest(c.todo, d.todo)
    BY <1>4 DEF AsBefore
  <2> QED
    BY <2>1, <2>2, <1>2, <1>3, <1>4, <1>5, VariableKept
<1> HIDE DEF result, entry, s
<1> QED
  BY <1>4, <1>5 DEF StepKeeps, SameParts, SameAliases

(* A step that only goes on.                                               *)
LEMMA IdleStep ==
    ASSUME NEW c, ChildOK(c), c.todo # <<>>, NEW code, NEW d, d = Continue(c, code)
    PROVE  \A part : StepKeeps(c, d, part)
<1>1. GoneOn(c, d)
  BY GoesOn DEF ChildOK
<1>2. AsBefore(c, d) /\ SameVariables(c, d) /\ SameAliases(c, d) /\ d.state = c.state
  BY <1>1 DEF GoneOn, AsBefore, SameVariables, SameAliases, Rest
<1>3. \A was : VariablesOK(was, c) => VariablesOK(was, d)
  BY <1>2, UnchangedVariables DEF AsBefore, ChildOK
<1> QED
  BY <1>2, <1>3 DEF StepKeeps, SameAliases, ChildOK

LEMMA DeclareStep ==
    ASSUME NEW c, ChildOK(c), c.todo # <<>>, Head(c.todo).op = "declare",
           NEW d, d = StepOf(c)
    PROVE  StepKeeps(c, d, "variables")
<1> DEFINE s == Head(c.todo)
           result == SetVariable(c.state.variables, s.name, Nothing, s.attributes,
                                 s.attributes, FALSE)
           entry == Change(s.name, "attributes", Nothing, s.attributes)
<1>1. d = Continue(c, 0) \/ d = Recorded(c, result, entry)
  BY DEF StepOf, Declare
<1>2. TodoOK(c.todo) /\ StepOK(s) /\ s.op \in VariableOps /\ NameOf(s) = s.name
  BY TodoRest DEF ChildOK, VariableOps, NameOf, Rest
<1>3. s.name \in Names
  BY <1>2, NameIsKnown
<1>4. CASE d = Continue(c, 0)
  BY <1>4, IdleStep
<1>5. CASE d = Recorded(c, result, entry)
  <2>1. /\ AsBefore(c, d) /\ SameAliases(c, d) /\ SameParts(c, d, "variables")
        /\ VariableStep(c, d, result, entry)
    <3> HIDE DEF result, entry
    <3> QED
      BY <1>5, RecordedStep DEF ChildOK
  <2>2. ASSUME NEW was, VariablesOK(was, c) PROVE VariablesOK(was, d)
    <3>1. result.ok => Kept(was, result.store, c.journal, s.name, Record(c.journal, entry))
      BY <1>3, <2>2, DeclareTraced DEF VariablesOK
    <3> HIDE DEF result, entry
    <3>2. Rest(c.todo, d.todo)
      BY <2>1 DEF AsBefore
    <3> QED
      BY <3>1, <3>2, <1>2, <1>3, <2>1, <2>2, VariableKept
  <2> HIDE DEF result, entry, s
  <2> QED
    BY <2>1, <2>2 DEF StepKeeps, SameParts, SameAliases
<1> QED
  BY <1>1, <1>4, <1>5

LEMMA UnsetStep ==
    ASSUME NEW c, ChildOK(c), c.todo # <<>>, Head(c.todo).op = "unset",
           NEW d, d = StepOf(c)
    PROVE  StepKeeps(c, d, "variables")
<1> DEFINE s == Head(c.todo)
           result == UnsetVariable(c.state.variables, s.name)
           entry == Change(s.name, "unset", Nothing, {})
<1>1. d = Continue(c, 0) \/ d = Recorded(c, result, entry)
  BY DEF StepOf
<1>2. TodoOK(c.todo) /\ StepOK(s) /\ s.op \in VariableOps /\ NameOf(s) = s.name
  BY TodoRest DEF ChildOK, VariableOps, NameOf, Rest
<1>3. s.name \in Names
  BY <1>2, NameIsKnown
<1>4. CASE d = Continue(c, 0)
  BY <1>4, IdleStep
<1>5. CASE d = Recorded(c, result, entry)
  <2>1. /\ AsBefore(c, d) /\ SameAliases(c, d) /\ SameParts(c, d, "variables")
        /\ VariableStep(c, d, result, entry)
    <3> HIDE DEF result, entry
    <3> QED
      BY <1>5, RecordedStep DEF ChildOK
  <2>2. ASSUME NEW was, VariablesOK(was, c) PROVE VariablesOK(was, d)
    <3>1. result.ok => Kept(was, result.store, c.journal, s.name, Record(c.journal, entry))
      BY <1>3, <2>2, UnsetTraced DEF VariablesOK
    <3> HIDE DEF result, entry
    <3>2. Rest(c.todo, d.todo)
      BY <2>1 DEF AsBefore
    <3> QED
      BY <3>1, <3>2, <1>2, <1>3, <2>1, <2>2, VariableKept
  <2> HIDE DEF result, entry, s
  <2> QED
    BY <2>1, <2>2 DEF StepKeeps, SameParts, SameAliases
<1> QED
  BY <1>1, <1>4, <1>5

LEMMA DirectoryStep ==
    ASSUME NEW c, ChildOK(c), c.todo # <<>>, Head(c.todo).op = "cd",
           NEW d, d = StepOf(c)
    PROVE  StepKeeps(c, d, "directory")
<1> DEFINE s == Head(c.todo)
           result == SetVariable(c.state.variables, "PWD", s.value, {}, {}, TRUE)
           entry == Change("PWD", "set", s.value, {})
           moved == [c EXCEPT !.state.directory = s.value]
<1>1. d = Recorded(moved, result, entry)
  BY DEF StepOf, ChangeDirectory
<1>2. TodoOK(c.todo) /\ StepOK(s) /\ s.op \in VariableOps /\ NameOf(s) = "PWD"
  BY TodoRest DEF ChildOK, VariableOps, NameOf, Rest
<1>3. "PWD" \in Names
  BY CommandsAssumption
<1>4. /\ DOMAIN moved = ChildFields /\ DOMAIN moved.state = SessionParts
      /\ \A part \in SessionParts \ {"directory"} : moved.state[part] = c.state[part]
      /\ moved.state.variables = c.state.variables
      /\ moved.state.aliases = c.state.aliases
      /\ moved.base = c.base /\ moved.phase = c.phase /\ moved.todo = c.todo
      /\ moved.journal = c.journal
      /\ moved.aliasJournal = c.aliasJournal /\ moved.invalid = c.invalid
  BY DEF ChildOK, ChildFields, SessionParts
<1>5. /\ AsBefore(moved, d) /\ SameAliases(moved, d) /\ SameParts(moved, d, "variables")
      /\ VariableStep(moved, d, result, entry)
  <2> HIDE DEF result, entry, moved
  <2> QED
    BY <1>1, <1>4, RecordedStep
<1> HIDE DEF moved
<1>6. AsBefore(c, d) /\ SameAliases(c, d) /\ VariableStep(c, d, result, entry)
  BY <1>4, <1>5 DEF AsBefore, SameAliases, VariableStep, SameVariables
<1>7. ASSUME NEW was, VariablesOK(was, c) PROVE VariablesOK(was, d)
  <2>1. result.ok => Kept(was, result.store, c.journal, "PWD", Record(c.journal, entry))
    BY <1>3, <1>7, AssignTraced DEF VariablesOK
  <2> HIDE DEF result, entry
  <2>2. Rest(c.todo, d.todo)
    BY <1>6 DEF AsBefore
  <2> QED
    BY <2>1, <2>2, <1>2, <1>3, <1>6, <1>7, VariableKept
<1> HIDE DEF result, entry, s
<1> QED
  BY <1>4, <1>5, <1>6, <1>7 DEF StepKeeps, SameParts, SameAliases

LEMMA AliasStep ==
    ASSUME NEW c, ChildOK(c), c.todo # <<>>, NEW e,
           NEW aliases, aliases = ApplyAlias(c.state.aliases, e),
           NEW d, d = RecordedAlias(c, aliases, e)
    PROVE  StepKeeps(c, d, "aliases")
<1> DEFINE x == [c EXCEPT !.state.aliases = aliases, !.invalid = TRUE]
           y == [c EXCEPT !.state.aliases = aliases,
                          !.aliasJournal = Append(c.aliasJournal, e)]
<1>1. d = Abort(x, 125) \/ d = Continue(y, 0)
  BY DEF RecordedAlias
<1>2. /\ DOMAIN x = ChildFields /\ DOMAIN x.state = SessionParts
      /\ \A part \in SessionParts \ {"aliases"} : x.state[part] = c.state[part]
      /\ x.state.variables = c.state.variables
      /\ x.base = c.base /\ x.phase = c.phase /\ x.todo = c.todo
      /\ x.journal = c.journal /\ x.invalid
  BY DEF ChildOK, ChildFields, SessionParts
<1>3. /\ DOMAIN y = ChildFields /\ DOMAIN y.state = SessionParts
      /\ \A part \in SessionParts \ {"aliases"} : y.state[part] = c.state[part]
      /\ y.state.variables = c.state.variables
      /\ y.base = c.base /\ y.phase = c.phase /\ y.todo = c.todo
      /\ y.journal = c.journal /\ y.invalid = c.invalid
      /\ y.state.aliases = aliases /\ y.aliasJournal = Append(c.aliasJournal, e)
  BY DEF ChildOK, ChildFields, SessionParts
<1> HIDE DEF x, y
<1>4. CASE d = Abort(x, 125)
  <2>1. GoneOn(x, d)
    BY <1>2, <1>4, GoesOn
  <2>2. AsBefore(c, d) /\ SameVariables(c, d) /\ d.invalid
    BY <2>1, <1>2 DEF GoneOn, AsBefore, SameVariables, Rest
  <2>3. \A was : VariablesOK(was, c) => VariablesOK(was, d)
    BY <2>2, UnchangedVariables DEF AsBefore, ChildOK
  <2> QED
    BY <2>1, <2>2, <2>3, <1>2 DEF StepKeeps, GoneOn
<1>5. CASE d = Continue(y, 0)
  <2>1. GoneOn(y, d)
    BY <1>3, <1>5, GoesOn
  <2>2. AsBefore(c, d) /\ SameVariables(c, d)
    BY <2>1, <1>3 DEF GoneOn, AsBefore, SameVariables, Rest
  <2>3. \A was : VariablesOK(was, c) => VariablesOK(was, d)
    BY <2>2, UnchangedVariables DEF AsBefore, ChildOK
  <2>4. \A was : AliasesTraced(was, c.state.aliases, c.aliasJournal) =>
                 AliasesTraced(was, d.state.aliases, d.aliasJournal)
    BY <2>1, <1>3, AliasAdded DEF GoneOn
  <2> QED
    BY <2>1, <2>2, <2>3, <2>4, <1>3 DEF StepKeeps, GoneOn
<1> QED
  BY <1>1, <1>4, <1>5

LEMMA PlainStep ==
    ASSUME NEW c, ChildOK(c), c.todo # <<>>, NEW d, NEW part,
           AsBefore(c, d), SameVariables(c, d), SameAliases(c, d),
           DOMAIN d.state = SessionParts,
           \A other \in SessionParts \ {"variables", "options", part} :
              d.state[other] = c.state[other]
    PROVE  StepKeeps(c, d, part)
<1>1. \A was : VariablesOK(was, c) => VariablesOK(was, d)
  BY UnchangedVariables DEF AsBefore, ChildOK
<1> QED
  BY <1>1 DEF StepKeeps, SameAliases

(* A part that is replaced as a whole.                                     *)
LEMMA SnapshotStep ==
    ASSUME NEW c, ChildOK(c), c.todo # <<>>,
           NEW part \in SessionParts \ {"variables", "aliases"},
           NEW v, NEW x, x = [c EXCEPT !.state = [c.state EXCEPT ![part] = v]],
           NEW d, d = Continue(x, 0)
    PROVE  StepKeeps(c, d, part)
<1>1. /\ DOMAIN x = ChildFields /\ DOMAIN x.state = SessionParts
      /\ \A other \in SessionParts \ {part} : x.state[other] = c.state[other]
      /\ x.base = c.base /\ x.phase = c.phase /\ x.todo = c.todo
      /\ x.journal = c.journal /\ x.aliasJournal = c.aliasJournal
      /\ x.invalid = c.invalid
  BY DEF ChildOK, ChildFields
<1>2. GoneOn(x, d)
  BY <1>1, GoesOn
<1>3. /\ "variables" \in SessionParts \ {part} /\ "aliases" \in SessionParts \ {part}
  BY DEF SessionParts
<1>4. AsBefore(c, d) /\ SameVariables(c, d) /\ SameAliases(c, d) /\ d.state = x.state
  BY <1>1, <1>2, <1>3 DEF GoneOn, AsBefore, SameVariables, SameAliases, Rest
<1> QED
  BY <1>1, <1>4, PlainStep

(* The steps that change no part of the session.                           *)
LEMMA EndingStep ==
    ASSUME NEW c, ChildOK(c), c.todo # <<>>,
           Head(c.todo).op \in {"redirect", "overlay", "overlay_fails", "exit"},
           NEW d, d = StepOf(c), NEW part
    PROVE  StepKeeps(c, d, part)
<1> DEFINE s == Head(c.todo)
           r == [c EXCEPT !.standard = "file", !.redirected = TRUE]
           f == [c EXCEPT !.outcome = "failed"]
<1>1. DOMAIN c = ChildFields
  BY DEF ChildOK
<1>2. CASE s.op = "redirect"
  <2>1. d = Continue(r, 0)
    BY <1>2 DEF StepOf
  <2>2. DOMAIN r = ChildFields /\ r.base = c.base /\ r.phase = c.phase /\ r.todo = c.todo
        /\ r.journal = c.journal /\ r.aliasJournal = c.aliasJournal
        /\ r.invalid = c.invalid /\ r.state = c.state
    BY <1>1 DEF ChildFields
  <2> HIDE DEF r
  <2>3. GoneOn(r, d)
    BY <2>1, <2>2, GoesOn
  <2>4. AsBefore(c, d) /\ SameVariables(c, d) /\ SameAliases(c, d) /\ d.state = c.state
    BY <2>2, <2>3 DEF GoneOn, AsBefore, SameVariables, SameAliases, Rest
  <2> QED
    BY <2>4, PlainStep DEF ChildOK
<1>3. CASE s.op = "overlay_fails"
  <2>1. d = Abort(f, 127)
    BY <1>3 DEF StepOf
  <2>2. DOMAIN f = ChildFields /\ f.base = c.base /\ f.phase = c.phase /\ f.todo = c.todo
        /\ f.journal = c.journal /\ f.aliasJournal = c.aliasJournal
        /\ f.invalid = c.invalid /\ f.state = c.state
    BY <1>1 DEF ChildFields
  <2> HIDE DEF f
  <2>3. GoneOn(f, d)
    BY <2>1, <2>2, GoesOn
  <2>4. AsBefore(c, d) /\ SameVariables(c, d) /\ SameAliases(c, d) /\ d.state = c.state
    BY <2>2, <2>3 DEF GoneOn, AsBefore, SameVariables, SameAliases, Rest
  <2> QED
    BY <2>4, PlainStep DEF ChildOK
<1>4. CASE s.op = "overlay"
  <2>1. d = [c EXCEPT !.outcome = "overlaid", !.phase = "program"]
    BY <1>4 DEF StepOf
  <2>2. AsBefore(c, d) /\ SameVariables(c, d) /\ SameAliases(c, d) /\ d.state = c.state
    BY <2>1, <1>1 DEF ChildFields, AsBefore, SameVariables, SameAliases, Rest
  <2> QED
    BY <2>2, PlainStep DEF ChildOK
<1>5. CASE s.op = "exit"
  <2> DEFINE a == Abort(c, s.code)
  <2>1. d = [a EXCEPT !.exiting = TRUE, !.exitStatus = s.code]
    BY <1>5 DEF StepOf
  <2>2. GoneOn(c, a)
    BY <1>1, GoesOn
  <2> HIDE DEF a, s
  <2>3. AsBefore(c, d) /\ SameVariables(c, d) /\ SameAliases(c, d) /\ d.state = c.state
    BY <2>1, <2>2 DEF ChildFields, GoneOn, AsBefore, SameVariables, SameAliases, Rest
  <2> QED
    BY <2>3, PlainStep DEF ChildOK
<1> QED
  BY <1>2, <1>3, <1>4, <1>5

LEMMA EveryStep ==
    ASSUME NEW c, ChildOK(c), c.todo # <<>>, NEW d, d = StepOf(c)
    PROVE  StepKeeps(c, d, Touches[Head(c.todo).op])
<1> DEFINE s == Head(c.todo)
<1>1. s.op \in DOMAIN Touches
  BY TodoRest DEF ChildOK, StepOK, Rest
<1>2. CASE s.op \in {"assign", "declare", "unset", "cd"}
  BY <1>2, AssignStep, DeclareStep, UnsetStep, DirectoryStep DEF Touches
<1>3. CASE s.op = "skipped_cd"
  <2>1. d = Continue(c, 0)
    BY <1>3 DEF StepOf
  <2> QED
    BY <2>1, IdleStep
<1>4. CASE s.op = "alias"
  <2> DEFINE e == [op |-> "set", name |-> s.name]
  <2>1. d = RecordedAlias(c, c.state.aliases \cup {s.name}, e)
    BY <1>4 DEF StepOf
  <2>2. c.state.aliases \cup {s.name} = ApplyAlias(c.state.aliases, e)
    BY DEF ApplyAlias
  <2>3. Touches[s.op] = "aliases"
    BY <1>4 DEF Touches
  <2> HIDE DEF e
  <2> QED
    BY <2>1, <2>2, <2>3, AliasStep
<1>5. CASE s.op = "unalias"
  <2> DEFINE e == [op |-> "unset", name |-> s.name]
  <2>1. d = RecordedAlias(c, c.state.aliases \ {s.name}, e) \/ d = Continue(c, 1)
    BY <1>5 DEF StepOf
  <2>2. c.state.aliases \ {s.name} = ApplyAlias(c.state.aliases, e)
    BY DEF ApplyAlias
  <2>3. Touches[s.op] = "aliases"
    BY <1>5 DEF Touches
  <2> HIDE DEF e
  <2> QED
    BY <2>1, <2>2, <2>3, AliasStep, IdleStep
<1>6. CASE s.op = "unalias_all"
  <2> DEFINE e == [op |-> "clear"]
  <2>1. d = RecordedAlias(c, {}, e)
    BY <1>6 DEF StepOf
  <2>2. {} = ApplyAlias(c.state.aliases, e)
    BY DEF ApplyAlias
  <2>3. Touches[s.op] = "aliases"
    BY <1>6 DEF Touches
  <2> HIDE DEF e
  <2> QED
    BY <2>1, <2>2, <2>3, AliasStep
<1>7. CASE s.op \in {"define", "positional", "option", "hash"}
  <2> DEFINE part == Touches[s.op]
  <2>1. /\ part \in SessionParts \ {"variables", "aliases"}
        /\ d = Continue([c EXCEPT !.state = [c.state EXCEPT ![part] = "evaluator"]], 0)
    <3>1. CASE s.op = "define"
      BY <3>1 DEF StepOf, Touches, SessionParts
    <3>2. CASE s.op = "positional"
      BY <3>2 DEF StepOf, Touches, SessionParts
    <3>3. CASE s.op = "option"
      BY <3>3 DEF StepOf, Touches, SessionParts
    <3>4. CASE s.op = "hash"
      BY <3>4 DEF StepOf, Touches, SessionParts
    <3> QED
      BY <1>7, <3>1, <3>2, <3>3, <3>4
  <2> HIDE DEF part
  <2>2. StepKeeps(c, d, part)
    BY <2>1, SnapshotStep
  <2> QED
    BY <2>2 DEF part
<1>8. CASE s.op \in {"redirect", "overlay", "overlay_fails", "exit"}
  BY <1>8, EndingStep
<1> QED
  BY <1>1, <1>2, <1>3, <1>4, <1>5, <1>6, <1>7, <1>8 DEF Touches

(***************************************************************************)
(* The inductive invariant.                                                *)
(***************************************************************************)

(* What the theorems assume of the commands.  A cd that the user types     *)
(* while the job is stopped counts no change (run_main_cd_builtin), so     *)
(* that nothing tells the transaction that PWD and the directory moved.    *)
OwnerStaysPut == \A command \in DirectCommands : command.op # "cd"

(* A change that finds the journal full ends the command, which is then    *)
(* committed without it (assign_evaluator_variable).                       *)
Changed(script) ==
    {NameOf(script[i]) : i \in {j \in DOMAIN script : script[j].op \in VariableOps}}

JournalHasRoom ==
    \A script \in Scripts :
       IsFiniteSet(Changed(script)) /\ Cardinality(Changed(script)) <= JournalCap

(* A part the owner changed has counted since the copy was made, itself or *)
(* with the variables, or cannot be changed by the owner.                  *)
BaseOK(g, t, c) ==
    /\ \A part \in Counted : c.base[part] \in Nat /\ c.base[part] <= g[part]
    /\ \A part \in Counted \cap t : c.base[part] < g[part]
    /\ {"positionals", "options"} \cap t # {} => c.base.variables < g.variables
    /\ "directory" \notin t

(* The evaluator's work, as far as the owner changed nothing meanwhile,    *)
(* differs from the session by what the journals say, by what is expected  *)
(* to change, and by the options.                                          *)
WorkOK(s, t, expected, c) ==
    /\ "variables" \notin t => VariablesOK(s.variables, c)
    /\ "aliases" \notin t /\ ~c.invalid =>
          AliasesTraced(s.aliases, c.state.aliases, c.aliasJournal)
    /\ \A part \in SessionParts \ ({"variables", "options"} \cup expected \cup t) :
          c.state[part] = s[part]
    /\ \A i \in 1..Len(c.todo) :
          Touches[c.todo[i].op] \in Optional => Touches[c.todo[i].op] \in expected

(* A spoilt transaction is never written.                                  *)
PipeOK(p, r, c) ==
    /\ c.phase = "running" \/ c.invalid => p = <<>> /\ r = <<>>
    /\ c.invalid => c.phase # "writing"

AttemptFields == {"active", "expected", "exec", "received", "eof", "invalid", "open"}

AttemptOK ==
    /\ DOMAIN attempt = AttemptFields /\ attempt.expected \subseteq Optional
    /\ attempt.active <=> child.phase # "none"
    /\ attempt.active <=> mode # "editor"
    /\ ~attempt.active => pipe = <<>>

SessionOK ==
    /\ DOMAIN session = SessionParts /\ DOMAIN session.variables = Names
    /\ generation \in [Counted -> Nat] /\ touched \subseteq SessionParts

CommitInv ==
    /\ AttemptOK
    /\ SessionOK
    /\ attempt.active =>
          /\ ChildOK(child)
          /\ BaseOK(generation, touched, child)
          /\ WorkOK(session, touched, attempt.expected, child)
          /\ PipeOK(pipe, attempt.received, child)

LEMMA InitCommit == Init => CommitInv
<1> SUFFICES ASSUME Init PROVE CommitInv
  OBVIOUS
<1>1. AttemptOK
  BY DEF Init, AttemptOK, Closed, NoChild, AttemptFields
<1>2. DOMAIN session = SessionParts /\ DOMAIN session.variables = Names
  BY CommandsAssumption DEF Init, Store
<1>3. SessionOK
  BY <1>2 DEF Init, SessionOK
<1> QED
  BY <1>1, <1>3 DEF CommitInv, Init, Closed

(* A step of the evaluator after its last command, or of the system.       *)
SameWork(c, d) ==
    /\ DOMAIN d = ChildFields
    /\ d.state = c.state /\ d.journal = c.journal /\ d.aliasJournal = c.aliasJournal
    /\ d.base = c.base /\ d.todo = c.todo /\ d.invalid = c.invalid

LEMMA SameWorkKept ==
    ASSUME NEW c, NEW d, SameWork(c, d), ChildOK(c)
    PROVE  /\ ChildOK(d)
           /\ \A g, t : BaseOK(g, t, c) => BaseOK(g, t, d)
           /\ \A s, t, expected : WorkOK(s, t, expected, c) => WorkOK(s, t, expected, d)
<1>1. ChildOK(d)
  BY DEF SameWork, ChildOK
<1>2. \A g, t : BaseOK(g, t, c) => BaseOK(g, t, d)
  BY DEF SameWork, BaseOK
<1>3. \A was : VariablesOK(was, c) => VariablesOK(was, d)
  BY DEF SameWork, VariablesOK, Within, Covers
<1>4. \A s, t, expected : WorkOK(s, t, expected, c) => WorkOK(s, t, expected, d)
  BY <1>3 DEF SameWork, WorkOK
<1> QED
  BY <1>1, <1>2, <1>4

LEMMA EvaluatorKept ==
    ASSUME CommitInv, attempt.active, child'.phase # "none", SameWork(child, child'),
           UNCHANGED <<session, generation, mode, attempt, touched>>,
           PipeOK(pipe', attempt.received, child')
    PROVE  CommitInv'
<1>1. /\ ChildOK(child) /\ BaseOK(generation, touched, child)
      /\ WorkOK(session, touched, attempt.expected, child)
  BY DEF CommitInv
<1>2. /\ ChildOK(child') /\ BaseOK(generation, touched, child')
      /\ WorkOK(session, touched, attempt.expected, child')
  BY <1>1, SameWorkKept
<1>3. AttemptOK'
  BY DEF CommitInv, AttemptOK
<1>4. SessionOK'
  BY DEF CommitInv, SessionOK
<1> QED
  BY <1>2, <1>3, <1>4 DEF CommitInv

LEMMA InvEvaluateStep == CommitInv /\ EvaluateStep => CommitInv'
<1> SUFFICES ASSUME CommitInv, EvaluateStep PROVE CommitInv'
  OBVIOUS
<1>1. attempt.active /\ child.phase = "running" /\ child.todo # <<>>
      /\ child' = StepOf(child)
  BY DEF CommitInv, AttemptOK, EvaluateStep
<1>2. /\ ChildOK(child) /\ BaseOK(generation, touched, child)
      /\ WorkOK(session, touched, attempt.expected, child)
      /\ PipeOK(pipe, attempt.received, child)
  BY <1>1 DEF CommitInv
<1> DEFINE op == Head(child.todo).op
<1>3. StepKeeps(child, child', Touches[op])
  BY <1>1, <1>2, EveryStep
<1>4. /\ TodoOK(child'.todo) /\ Among(child'.todo, child.todo)
      /\ Head(child.todo) = child.todo[1] /\ 1 \in 1..Len(child.todo)
  BY <1>1, <1>2, <1>3, TodoRest DEF StepKeeps, AsBefore, ChildOK
<1>5. ChildOK(child')
  BY <1>3, <1>4 DEF ChildOK, StepKeeps, AsBefore
<1>6. BaseOK(generation, touched, child')
  BY <1>2, <1>3 DEF BaseOK, StepKeeps, AsBefore
<1>7. WorkOK(session, touched, attempt.expected, child')
  <2>1. "variables" \notin touched => VariablesOK(session.variables, child')
    BY <1>2, <1>3 DEF WorkOK, StepKeeps
  <2>2. "aliases" \notin touched /\ ~child'.invalid =>
           AliasesTraced(session.aliases, child'.state.aliases, child'.aliasJournal)
    BY <1>2, <1>3 DEF WorkOK, StepKeeps
  <2>3. ASSUME NEW part \in SessionParts \ ({"variables", "options"} \cup attempt.expected
                                            \cup touched)
        PROVE  child'.state[part] = session[part]
    <3>1. part \in Optional
      BY DEF SessionParts, Optional
    <3>2. part # Touches[op]
      BY <3>1, <1>2, <1>4 DEF WorkOK
    <3> HIDE DEF op
    <3> QED
      BY <3>2, <1>2, <1>3 DEF WorkOK, StepKeeps
  <2>4. \A i \in 1..Len(child'.todo) :
           Touches[child'.todo[i].op] \in Optional =>
           Touches[child'.todo[i].op] \in attempt.expected
    BY <1>2, <1>4 DEF WorkOK, Among
  <2> QED
    BY <2>1, <2>2, <2>3, <2>4 DEF WorkOK
<1>8. child'.phase \in {"running", "program"}
  BY <1>1, <1>3 DEF StepKeeps, AsBefore
<1>9. PipeOK(pipe, attempt.received, child')
  BY <1>1, <1>2, <1>8 DEF PipeOK
<1>10. UNCHANGED <<session, generation, mode, attempt, pipe, touched>>
  BY DEF EvaluateStep
<1>11. AttemptOK' /\ SessionOK'
  BY <1>1, <1>8, <1>10 DEF CommitInv, AttemptOK, SessionOK
<1> QED
  BY <1>5, <1>6, <1>7, <1>9, <1>10, <1>11 DEF CommitInv

LEMMA InvSendDescriptors == CommitInv /\ SendDescriptors => CommitInv'
<1> SUFFICES ASSUME CommitInv, SendDescriptors PROVE CommitInv'
  OBVIOUS
<1>1. attempt.active /\ child.phase = "running"
  BY DEF CommitInv, AttemptOK, SendDescriptors
<1>2. ChildOK(child) /\ PipeOK(pipe, attempt.received, child)
  BY <1>1 DEF CommitInv
<1>3. PICK descriptors \in {"sent", "failed", "unused"},
            directory \in {"sent", "failed", "unused"} :
         child' = [child EXCEPT
            !.phase = IF child.invalid THEN "exiting" ELSE "writing",
            !.sent = (IF descriptors = "sent" THEN {"descriptors"} ELSE {})
                     \cup (IF directory = "sent" THEN {"directory"} ELSE {}),
            !.code = IF child.invalid \/ "failed" \in {descriptors, directory}
                     THEN 125 ELSE @]
  BY ZenonT(60) DEF SendDescriptors
<1>4. /\ SameWork(child, child')
      /\ child'.phase = IF child.invalid THEN "exiting" ELSE "writing"
  BY <1>2, <1>3 DEF ChildOK, ChildFields, SameWork
<1>5. pipe' = pipe /\ PipeOK(pipe, attempt.received, child')
  BY <1>1, <1>2, <1>4 DEF PipeOK, SameWork, SendDescriptors
<1>6. UNCHANGED <<session, generation, mode, attempt, touched>>
  BY DEF SendDescriptors
<1> QED
  BY <1>1, <1>4, <1>5, <1>6, EvaluatorKept

LEMMA InvWritePart == CommitInv /\ WritePart => CommitInv'
<1> SUFFICES ASSUME CommitInv, WritePart PROVE CommitInv'
  OBVIOUS
<1>1. attempt.active /\ child.phase = "writing"
  BY DEF CommitInv, AttemptOK, WritePart
<1>2. ChildOK(child) /\ PipeOK(pipe, attempt.received, child)
  BY <1>1 DEF CommitInv
<1>3. UNCHANGED <<session, generation, mode, attempt, touched>>
  BY DEF WritePart
<1> DEFINE next == Parts(attempt.expected)[child.written + 1]
<1>4. \/ \E damaged \in {child.malformed, next} :
            child' = [child EXCEPT !.written = @ + 1, !.malformed = damaged]
      \/ child' = [child EXCEPT !.phase = "exiting", !.code = 125]
      \/ child' = [child EXCEPT !.phase = "gone", !.killed = TRUE]
  BY DEF WritePart
<1>5. SameWork(child, child') /\ child'.phase \in {"writing", "exiting", "gone"}
  <2> HIDE DEF next
  <2>1. CASE \E damaged \in {child.malformed, next} :
               child' = [child EXCEPT !.written = @ + 1, !.malformed = damaged]
    <3> PICK damaged : child' = [child EXCEPT !.written = @ + 1, !.malformed = damaged]
      BY <2>1
    <3> QED
      BY <1>1, <1>2 DEF ChildOK, ChildFields, SameWork
  <2>2. CASE child' = [child EXCEPT !.phase = "exiting", !.code = 125]
    BY <2>2, <1>2 DEF ChildOK, ChildFields, SameWork
  <2>3. CASE child' = [child EXCEPT !.phase = "gone", !.killed = TRUE]
    BY <2>3, <1>2 DEF ChildOK, ChildFields, SameWork
  <2> QED
    BY <1>4, <2>1, <2>2, <2>3
<1>6. PipeOK(pipe', attempt.received, child')
  BY <1>1, <1>2, <1>5 DEF PipeOK, SameWork
<1> QED
  BY <1>1, <1>3, <1>5, <1>6, EvaluatorKept

LEMMA InvChildEnds == CommitInv /\ (ChildExits \/ ChildIsKilled) => CommitInv'
<1> SUFFICES ASSUME CommitInv, ChildExits \/ ChildIsKilled PROVE CommitInv'
  OBVIOUS
<1>1. child.phase \in {"running", "writing", "exiting", "program"}
  BY DEF ChildExits, ChildIsKilled
<1>2. attempt.active
  BY <1>1 DEF CommitInv, AttemptOK
<1>3. ChildOK(child) /\ PipeOK(pipe, attempt.received, child)
  BY <1>2 DEF CommitInv
<1>4. UNCHANGED <<session, generation, mode, attempt, touched, pipe>>
  BY DEF ChildExits, ChildIsKilled
<1>5. \/ child' = [child EXCEPT !.phase = "gone"]
      \/ child' = [child EXCEPT !.phase = "gone", !.killed = TRUE]
  BY DEF ChildExits, ChildIsKilled
<1>6. SameWork(child, child') /\ child'.phase = "gone"
  BY <1>3, <1>5 DEF ChildOK, ChildFields, SameWork
<1>7. PipeOK(pipe', attempt.received, child')
  BY <1>3, <1>4, <1>6 DEF PipeOK, SameWork
<1> QED
  BY <1>2, <1>4, <1>6, <1>7, EvaluatorKept

(* A turn of the reactor reads nothing of a pipe that is empty.            *)
LEMMA InvReceiveTurn == CommitInv /\ ReceiveTurn => CommitInv'
<1> SUFFICES ASSUME CommitInv, ReceiveTurn PROVE CommitInv'
  OBVIOUS
<1> DEFINE count == IF Len(pipe) < ReadsPerTurn THEN Len(pipe) ELSE ReadsPerTurn
           read == ReadParts(attempt, count)
<1>1. DOMAIN attempt = AttemptFields
  BY DEF CommitInv, AttemptOK
<1>2. UNCHANGED <<session, generation, mode, child, touched>>
  BY DEF ReceiveTurn
<1>3. /\ DOMAIN read = AttemptFields /\ read.expected = attempt.expected
      /\ read.active = attempt.active
      /\ read.received = attempt.received \o SubSeq(pipe, 1, count)
  BY <1>1 DEF ReadParts, AttemptFields
<1>4. \/ \E eof, open :
            /\ attempt' = [read EXCEPT !.eof = eof, !.open = open]
            /\ pipe' = SubSeq(pipe, count + 1, Len(pipe))
      \/ attempt' = [attempt EXCEPT !.invalid = TRUE, !.open = FALSE] /\ pipe' = <<>>
  BY DEF ReceiveTurn
<1>5. /\ DOMAIN attempt' = AttemptFields /\ attempt'.expected = attempt.expected
      /\ attempt'.active = attempt.active
      /\ \/ /\ attempt'.received = attempt.received \o SubSeq(pipe, 1, count)
            /\ pipe' = SubSeq(pipe, count + 1, Len(pipe))
         \/ attempt'.received = attempt.received /\ pipe' = <<>>
  <2> HIDE DEF read, count
  <2> QED
    BY <1>1, <1>3, <1>4 DEF AttemptFields
<1>6. pipe = <<>> => pipe' = <<>> /\ (attempt.received = <<>> => attempt'.received = <<>>)
  <2> SUFFICES ASSUME pipe = <<>>
               PROVE  pipe' = <<>> /\ (attempt.received = <<>> => attempt'.received = <<>>)
    OBVIOUS
  <2>1. count = 0
    BY BoundsAssumption
  <2>2. SubSeq(pipe, 1, count) = <<>> /\ SubSeq(pipe, count + 1, Len(pipe)) = <<>>
    BY <2>1
  <2>3. <<>> \o <<>> = <<>>
    OBVIOUS
  <2> HIDE DEF count, read
  <2>4. CASE /\ attempt'.received = attempt.received \o SubSeq(pipe, 1, count)
             /\ pipe' = SubSeq(pipe, count + 1, Len(pipe))
    BY <2>2, <2>3, <2>4
  <2>5. CASE attempt'.received = attempt.received /\ pipe' = <<>>
    BY <2>5
  <2> QED
    BY <1>5, <2>4, <2>5
<1>7. AttemptOK' /\ SessionOK'
  <2> HIDE DEF read, count
  <2>1. AttemptOK
    BY DEF CommitInv
  <2>2. AttemptOK'
    BY <1>2, <1>5, <1>6, <2>1 DEF AttemptOK
  <2>3. SessionOK'
    BY <1>2 DEF CommitInv, SessionOK
  <2> QED
    BY <2>2, <2>3
<1>8. attempt.active => PipeOK(pipe', attempt'.received, child)
  BY <1>6 DEF CommitInv, PipeOK
<1> HIDE DEF read, count
<1> QED
  BY <1>2, <1>5, <1>7, <1>8 DEF CommitInv

(* Where the owner forks there is nothing to trace, and room for it all.   *)
LEMMA ForkedScript ==
    ASSUME JournalHasRoom, NEW script \in Scripts
    PROVE  /\ TodoOK(script)
           /\ \A c : c.todo = script /\ c.journal = <<>> => Within(c)
           /\ \A i \in 1..Len(script) : Touches[script[i].op] \in Possible(script)
<1>1. /\ script \in Seq(ToSet(script))
      /\ \A i \in DOMAIN script :
            /\ script[i].op \in DOMAIN Touches
            /\ script[i].op \in {"assign", "declare", "unset"} => script[i].name \in Names
  BY CommandsAssumption
<1>2. IsSeq(script)
  BY <1>1 DEF IsSeq
<1>3. DOMAIN script = 1..Len(script)
  BY <1>2, SeqLen
<1>4. TodoOK(script)
  BY <1>1, <1>2, <1>3 DEF TodoOK, StepOK
<1>5. ASSUME NEW c, c.todo = script, c.journal = <<>> PROVE Within(c)
  <2>1. \A m : ~Named(c.journal, m)
    BY <1>5 DEF Named
  <2>2. \A i \in 1..Len(c.todo) :
           c.todo[i].op \in VariableOps => NameOf(c.todo[i]) \in Changed(script)
    BY <1>3, <1>5 DEF Changed
  <2>3. Covers(Changed(script), c)
    BY <2>1, <2>2 DEF Covers, JournalHasRoom
  <2> QED
    BY <2>3 DEF Within
<1>6. \A i \in 1..Len(script) : Touches[script[i].op] \in Possible(script)
  BY <1>3 DEF Possible
<1> QED
  BY <1>4, <1>5, <1>6

LEMMA NothingTraced ==
    ASSUME NEW store, DOMAIN store = Names
    PROVE  Traces(store, store, <<>>)
<1>1. IsSeq(<<>>) /\ Len(<<>>) = 0
  BY DEF IsSeq
<1> QED
  BY <1>1 DEF Traces

LEMMA InvLaunch ==
    ASSUME CommitInv, JournalHasRoom, NEW script \in Scripts, Launch(script)
    PROVE  CommitInv'
<1>1. /\ Ready /\ touched' = {}
      /\ UNCHANGED <<session, generation, pipe>>
  BY DEF Launch
<1>2. ~attempt.active /\ pipe = <<>>
  BY <1>1 DEF Ready, CommitInv, AttemptOK
<1>3. SessionOK'
  BY <1>1 DEF CommitInv, SessionOK
<1>4. CASE UNCHANGED <<child, attempt, mode>>
  <2>1. AttemptOK'
    BY <1>1, <1>4 DEF CommitInv, AttemptOK
  <2> QED
    BY <1>2, <1>3, <1>4, <2>1 DEF CommitInv
<1>5. CASE /\ child' = Fork(script)
           /\ attempt' = [Closed EXCEPT !.active = TRUE, !.open = TRUE,
                            !.expected = Possible(script) \cap Optional,
                            !.exec = "exec" \in Possible(script)]
           /\ mode' = "foreground"
  <2>1. /\ attempt'.active = TRUE /\ DOMAIN attempt' = AttemptFields
        /\ attempt'.expected = Possible(script) \cap Optional
        /\ attempt'.received = <<>>
    BY <1>5 DEF Closed, AttemptFields
  <2>2. /\ DOMAIN child' = ChildFields /\ child'.phase = "running"
        /\ child'.todo = script /\ child'.state = session /\ child'.journal = <<>>
        /\ child'.aliasJournal = <<>> /\ child'.base = generation /\ child'.invalid = FALSE
    BY <1>5 DEF Fork, ChildFields
  <2>3. AttemptOK'
    BY <1>5, <2>1, <2>2 DEF AttemptOK
  <2>4. DOMAIN session = SessionParts /\ DOMAIN session.variables = Names
        /\ generation \in [Counted -> Nat]
    BY DEF CommitInv, SessionOK
  <2>5. ChildOK(child')
    BY <2>2, <2>4, ForkedScript DEF ChildOK
  <2>6. BaseOK(generation', touched', child')
    BY <1>1, <2>2, <2>4 DEF BaseOK
  <2>7. VariablesOK(session.variables, child')
    BY <2>2, <2>4, NothingTraced, ForkedScript DEF VariablesOK
  <2>8. AliasesTraced(session.aliases, child'.state.aliases, child'.aliasJournal)
    BY <2>2, NoAliases
  <2>9. \A i \in 1..Len(child'.todo) :
           Touches[child'.todo[i].op] \in Optional
              => Touches[child'.todo[i].op] \in attempt'.expected
    BY <2>1, <2>2, ForkedScript
  <2>10. WorkOK(session', touched', attempt'.expected, child')
    BY <1>1, <2>2, <2>7, <2>8, <2>9 DEF WorkOK
  <2>11. PipeOK(pipe', attempt'.received, child')
    BY <1>1, <1>2, <2>1, <2>2 DEF PipeOK
  <2> QED
    BY <1>3, <2>3, <2>5, <2>6, <2>10, <2>11 DEF CommitInv
<1> QED
  BY <1>4, <1>5 DEF Launch

LEMMA InvStops == CommitInv /\ (JobStops \/ JobContinues) => CommitInv'
<1> SUFFICES ASSUME CommitInv, JobStops \/ JobContinues PROVE CommitInv'
  OBVIOUS
<1>1. attempt.active
  BY DEF JobStops, JobContinues, CommitInv, AttemptOK
<1>2. UNCHANGED <<session, generation, attempt, child, pipe, touched>> /\ mode' # "editor"
  BY DEF JobStops, JobContinues
<1>3. AttemptOK'
  BY <1>1, <1>2 DEF CommitInv, AttemptOK
<1>4. SessionOK'
  BY <1>2 DEF CommitInv, SessionOK
<1> QED
  BY <1>2, <1>3, <1>4 DEF CommitInv

(* What a command of the owner changes, it counts.                         *)
OwnerChange(change) ==
    /\ DOMAIN change.session = SessionParts /\ DOMAIN change.session.variables = Names
    /\ \A part \in SessionParts \ change.parts : change.session[part] = session[part]
    /\ change.parts \subseteq SessionParts \ {"directory"}
    /\ \A part \in Counted \cap change.parts : part \in change.counts
    /\ {"positionals", "options"} \cap change.parts # {} => "variables" \in change.counts

LEMMA OwnersCommand ==
    ASSUME OwnerStaysPut, SessionOK, NEW command \in DirectCommands
    PROVE  OwnerChange(DirectChange(command))
<1>1. command.op \in {"assign", "unalias_all", "define", "hash", "set"}
  BY CommandsAssumption DEF OwnerStaysPut
<1>2. DOMAIN session = SessionParts /\ DOMAIN session.variables = Names
  BY DEF SessionOK
<1>3. CASE command.op = "assign"
  <2> DEFINE store == SetVariable(session.variables, command.name, command.value,
                                  {}, {}, TRUE).store
  <2>1. DOMAIN store = Names
    BY <1>2 DEF SetVariable, Done, Refused
  <2>2. DirectChange(command) = [session |-> [session EXCEPT !.variables = store],
                                 counts |-> {"variables"}, parts |-> {"variables"}]
    BY <1>3 DEF DirectChange
  <2> HIDE DEF store
  <2> QED
    BY <1>2, <2>1, <2>2 DEF OwnerChange, SessionParts, Counted
<1>4. CASE command.op = "unalias_all"
  <2>1. DirectChange(command) = [session |-> [session EXCEPT !.aliases = {}],
                                 counts |-> {"aliases"}, parts |-> {"aliases"}]
    BY <1>4 DEF DirectChange
  <2> QED
    BY <1>2, <2>1 DEF OwnerChange, SessionParts, Counted
<1>5. CASE command.op = "define"
  <2>1. DirectChange(command) = [session |-> [session EXCEPT !.functions = "owner"],
                                 counts |-> {"functions"}, parts |-> {"functions"}]
    BY <1>5 DEF DirectChange
  <2> QED
    BY <1>2, <2>1 DEF OwnerChange, SessionParts, Counted
<1>6. CASE command.op = "hash"
  <2>1. DirectChange(command) = [session |-> [session EXCEPT !.cache = "owner"],
                                 counts |-> {"cache"}, parts |-> {"cache"}]
    BY <1>6 DEF DirectChange
  <2> QED
    BY <1>2, <2>1 DEF OwnerChange, SessionParts, Counted
<1>7. CASE command.op = "set"
  <2> DEFINE later == [session EXCEPT !.positionals = "owner", !.options = "owner"]
  <2>1. DirectChange(command) = [session |-> later, counts |-> {"variables"},
                                 parts |-> {"positionals", "options"}]
    BY <1>7 DEF DirectChange
  <2>2. /\ DOMAIN later = SessionParts /\ later.variables = session.variables
        /\ \A part \in SessionParts \ {"positionals", "options"} : later[part] = session[part]
    BY <1>2 DEF SessionParts
  <2> HIDE DEF later
  <2> QED
    BY <1>2, <2>1, <2>2 DEF OwnerChange, SessionParts, Counted
<1> QED
  BY <1>1, <1>3, <1>4, <1>5, <1>6, <1>7

LEMMA InvDirect ==
    ASSUME CommitInv, OwnerStaysPut, NEW command \in DirectCommands, Direct(command)
    PROVE  CommitInv'
<1> DEFINE change == DirectChange(command)
<1>1. SessionOK
  BY DEF CommitInv
<1>2. OwnerChange(change)
  BY <1>1, OwnersCommand
<1>3. /\ session' = change.session
      /\ generation' = [part \in Counted |->
                          generation[part] + (IF part \in change.counts THEN 1 ELSE 0)]
      /\ touched' = touched \cup change.parts
      /\ mode' = mode /\ mode = "stopped"
      /\ UNCHANGED <<attempt, child, pipe>>
  BY DEF Direct
<1> HIDE DEF change
<1>4. /\ generation' \in [Counted -> Nat]
      /\ \A part \in Counted : generation[part] \in Nat
      /\ \A part \in Counted : generation[part] <= generation'[part]
      /\ \A part \in Counted \cap change.counts : generation[part] < generation'[part]
  BY <1>1, <1>3 DEF SessionOK
<1>5. SessionOK'
  <2>1. touched' \subseteq SessionParts
    BY <1>1, <1>2, <1>3 DEF SessionOK, OwnerChange
  <2>2. DOMAIN session' = SessionParts /\ DOMAIN session'.variables = Names
    BY <1>2, <1>3 DEF OwnerChange
  <2> QED
    BY <1>4, <2>1, <2>2 DEF SessionOK
<1>6. attempt.active
  BY <1>3 DEF CommitInv, AttemptOK
<1>7. /\ ChildOK(child) /\ BaseOK(generation, touched, child)
      /\ WorkOK(session, touched, attempt.expected, child)
      /\ PipeOK(pipe, attempt.received, child)
  BY <1>6 DEF CommitInv
<1>8. BaseOK(generation', touched', child)
  <2>1. \A part \in Counted : child.base[part] \in Nat /\ child.base[part] <= generation'[part]
    BY <1>4, <1>7 DEF BaseOK
  <2>2. \A part \in Counted \cap touched' : child.base[part] < generation'[part]
    <3> SUFFICES ASSUME NEW part \in Counted \cap touched'
                 PROVE  child.base[part] < generation'[part]
      OBVIOUS
    <3>1. child.base[part] \in Nat /\ child.base[part] <= generation[part]
          /\ generation[part] \in Nat /\ generation'[part] \in Nat
          /\ generation[part] <= generation'[part]
      BY <1>4, <1>7 DEF BaseOK
    <3>2. CASE part \in touched
      BY <3>1, <3>2, <1>7 DEF BaseOK
    <3>3. CASE part \in change.parts
      BY <3>1, <3>3, <1>2, <1>4 DEF OwnerChange
    <3> QED
      BY <3>2, <3>3, <1>3
  <2>3. {"positionals", "options"} \cap touched' # {}
           => child.base.variables < generation'.variables
    <3>1. /\ child.base.variables \in Nat /\ child.base.variables <= generation.variables
          /\ generation.variables \in Nat /\ generation'.variables \in Nat
          /\ generation.variables <= generation'.variables
      BY <1>4, <1>7 DEF BaseOK, Counted
    <3>2. CASE {"positionals", "options"} \cap touched # {}
      BY <3>1, <3>2, <1>7 DEF BaseOK
    <3>3. CASE {"positionals", "options"} \cap change.parts # {}
      BY <3>1, <3>3, <1>2, <1>4 DEF OwnerChange, Counted
    <3> QED
      BY <3>2, <3>3, <1>3
  <2>4. "directory" \notin touched'
    BY <1>2, <1>3, <1>7 DEF BaseOK, OwnerChange
  <2> QED
    BY <2>1, <2>2, <2>3, <2>4 DEF BaseOK
<1>9. WorkOK(session', touched', attempt.expected, child)
  <2>1. \A part \in SessionParts \ touched' : session'[part] = session[part]
    BY <1>2, <1>3 DEF OwnerChange
  <2>2. "variables" \in SessionParts /\ "aliases" \in SessionParts
    BY DEF SessionParts
  <2>3. touched \subseteq touched'
    BY <1>3
  <2> QED
    BY <1>7, <2>1, <2>2, <2>3 DEF WorkOK
<1>10. AttemptOK'
  BY <1>3, <1>6 DEF CommitInv, AttemptOK
<1> QED
  BY <1>3, <1>5, <1>7, <1>8, <1>9, <1>10 DEF CommitInv

(***************************************************************************)
(* What a commit takes.                                                    *)
(***************************************************************************)
Footprint == attempt.expected \cup {"variables", "options"}

(* The session takes the parts the command could change from the           *)
(* evaluator, as it left them, and the owner changed none of them.         *)
Taken(later) ==
    /\ Footprint \cap touched = {}
    /\ DOMAIN later = SessionParts /\ DOMAIN later.variables = Names
    /\ View(later) = [part \in DOMAIN session |->
                        IF part \in Footprint THEN View(child.state)[part]
                        ELSE View(session)[part]]

LEMMA PartsAreSent == ASSUME NEW expected PROVE Parts(expected) # <<>>
<1> DEFINE Texts == {"variables", "aliases", "positionals", "cache_header", "cache",
                    "options", "control", "functions_header", "functions"}
           when(part, sent) == IF part \in expected THEN sent ELSE <<>>
           one == when("aliases", <<"aliases">>)
           two == when("positionals", <<"positionals">>)
           three == when("cache", <<"cache_header", "cache">>)
           four == <<"options", "control">>
           five == when("functions", <<"functions_header", "functions">>)
<1>1. Parts(expected) = <<"variables">> \o one \o two \o three \o four \o five
  BY DEF Parts
<1>2. /\ <<"variables">> \in Seq(Texts) /\ one \in Seq(Texts) /\ two \in Seq(Texts)
      /\ three \in Seq(Texts) /\ four \in Seq(Texts) /\ five \in Seq(Texts)
      /\ Len(<<"variables">>) = 1
  <2>1. ASSUME NEW part, NEW sent \in Seq(Texts) PROVE when(part, sent) \in Seq(Texts)
    <3>1. CASE part \in expected
      BY <3>1
    <3>2. CASE part \notin expected
      BY <3>2
    <3> QED
      BY <3>1, <3>2
  <2>2. /\ <<"variables">> \in Seq(Texts) /\ <<"aliases">> \in Seq(Texts)
        /\ <<"positionals">> \in Seq(Texts) /\ <<"cache_header", "cache">> \in Seq(Texts)
        /\ <<"options", "control">> \in Seq(Texts)
        /\ <<"functions_header", "functions">> \in Seq(Texts)
    OBVIOUS
  <2>3. Len(<<"variables">>) = 1
    OBVIOUS
  <2> HIDE DEF when, Texts
  <2> QED
    BY <2>1, <2>2, <2>3
<1> HIDE DEF one, two, three, four, five, Texts
<1>3. ASSUME NEW s \in Seq(Texts), Len(s) >= 1, NEW t \in Seq(Texts)
      PROVE  s \o t \in Seq(Texts) /\ Len(s \o t) >= 1
  BY <1>3
<1>4. Len(Parts(expected)) >= 1
  <2>1. <<"variables">> \o one \in Seq(Texts) /\ Len(<<"variables">> \o one) >= 1
    BY <1>2, <1>3
  <2> DEFINE first == <<"variables">> \o one \o two
             second == first \o three
             third == second \o four
  <2>2. first \in Seq(Texts) /\ Len(first) >= 1
    BY <1>2, <1>3, <2>1
  <2>3. second \in Seq(Texts) /\ Len(second) >= 1
    <3> HIDE DEF first
    <3> QED
      BY <1>2, <1>3, <2>2
  <2>4. third \in Seq(Texts) /\ Len(third) >= 1
    <3> HIDE DEF second
    <3> QED
      BY <1>2, <1>3, <2>3
  <2>5. Len(third \o five) >= 1
    <3> HIDE DEF third
    <3> QED
      BY <1>2, <1>3, <2>4
  <2> QED
    BY <1>1, <2>5
<1> QED
  BY <1>4

LEMMA DrainedFields ==
    ASSUME DOMAIN attempt = AttemptFields
    PROVE  /\ Drained.expected = attempt.expected
           /\ Drained.received = attempt.received \o SubSeq(pipe, 1, Len(pipe))
BY DEF Drained, ReadParts, AttemptFields

(* A part that the owner changed has a count that is not the copy's.       *)
LEMMA CompleteIsCurrent ==
    ASSUME CommitInv, attempt.active, Complete(Drained)
    PROVE  /\ ~child.invalid
           /\ Footprint \cap touched = {}
<1>1. /\ BaseOK(generation, touched, child) /\ PipeOK(pipe, attempt.received, child)
      /\ attempt.expected \subseteq Optional /\ DOMAIN attempt = AttemptFields
  BY DEF CommitInv, AttemptOK
<1>2. /\ Drained.expected = attempt.expected
      /\ Drained.received = attempt.received \o SubSeq(pipe, 1, Len(pipe))
  BY <1>1, DrainedFields
<1>3. /\ Drained.received = Parts(attempt.expected)
      /\ child.base.variables = generation.variables
      /\ \A part \in attempt.expected \cap {"aliases", "functions", "cache"} :
            child.base[part] = generation[part]
  BY <1>2 DEF Complete
<1>4. ~child.invalid
  <2> SUFFICES ASSUME child.invalid PROVE FALSE
    OBVIOUS
  <2>1. pipe = <<>> /\ attempt.received = <<>>
    BY <1>1 DEF PipeOK
  <2>2. <<>> \o SubSeq(<<>>, 1, Len(<<>>)) = <<>>
    OBVIOUS
  <2> QED
    BY <1>2, <1>3, <2>1, <2>2, PartsAreSent
<1>5. \A part \in Counted : child.base[part] \in Nat
  BY <1>1 DEF BaseOK
<1>6. \A part \in Counted : child.base[part] = generation[part] => part \notin touched
  BY <1>1, <1>5 DEF BaseOK
<1>7. "variables" \notin touched
  BY <1>3, <1>6 DEF Counted
<1>8. "options" \notin touched /\ "positionals" \notin touched /\ "directory" \notin touched
  BY <1>1, <1>3, <1>5 DEF BaseOK, Counted
<1>9. \A part \in attempt.expected \cap {"aliases", "functions", "cache"} : part \notin touched
  BY <1>3, <1>6 DEF Counted
<1> QED
  BY <1>1, <1>4, <1>7, <1>8, <1>9 DEF Footprint, Optional

LEMMA ViewParts ==
    ASSUME NEW s
    PROVE  /\ DOMAIN View(s) = DOMAIN s
           /\ \A part \in DOMAIN s :
                 View(s)[part] = IF part = "variables" THEN Seen(s[part]) ELSE s[part]
BY DEF View

LEMMA CommitTakes ==
    ASSUME CommitInv, attempt.active, Complete(Drained),
           NEW staged, staged = ApplyJournal(session.variables, child.journal), staged.ok,
           NEW later, later = Merged(staged.store, Drained.expected)
    PROVE  Taken(later)
<1>1. /\ SessionOK /\ ChildOK(child) /\ WorkOK(session, touched, attempt.expected, child)
      /\ attempt.expected \subseteq Optional /\ DOMAIN attempt = AttemptFields
  BY DEF CommitInv, AttemptOK
<1>2. ~child.invalid /\ Footprint \cap touched = {}
  BY CompleteIsCurrent
<1>3. Drained.expected = attempt.expected
  BY <1>1, DrainedFields
<1>4. DOMAIN session = SessionParts /\ DOMAIN child.state = SessionParts
  BY <1>1 DEF SessionOK, ChildOK
<1>5. /\ DOMAIN staged.store = Names
      /\ Seen(staged.store) = Seen(child.state.variables)
  <2>1. "variables" \notin touched
    BY <1>2 DEF Footprint
  <2>2. Traces(session.variables, child.state.variables, child.journal)
    BY <1>1, <2>1 DEF WorkOK, VariablesOK
  <2> QED
    BY <2>2, JournalApplied
<1>6. ASSUME "aliases" \in attempt.expected
      PROVE  ApplyAliases(session.aliases, child.aliasJournal) = child.state.aliases
  <2>1. "aliases" \notin touched
    BY <1>2, <1>6 DEF Footprint
  <2>2. AliasesTraced(session.aliases, child.state.aliases, child.aliasJournal)
    BY <1>1, <1>2, <2>1 DEF WorkOK
  <2> QED
    BY <2>2, AliasesApplied
<1>7. /\ DOMAIN later = SessionParts
      /\ \A part \in SessionParts :
            later[part] = CASE part = "variables" -> staged.store
                            [] part = "options" -> child.state.options
                            [] part = "aliases" /\ part \in attempt.expected ->
                                 ApplyAliases(session.aliases, child.aliasJournal)
                            [] part \in attempt.expected \ {"aliases"} -> child.state[part]
                            [] OTHER -> session[part]
  BY <1>3, <1>4 DEF Merged
<1>8. \A part \in SessionParts \ {"variables"} :
         later[part] = IF part \in Footprint THEN child.state[part] ELSE session[part]
  BY <1>1, <1>6, <1>7 DEF Footprint, Optional
<1>9. later.variables = staged.store
  <2>1. "variables" \in SessionParts
    BY DEF SessionParts
  <2>2. later["variables"] = staged.store
    BY <1>1, <1>7, <2>1 DEF Optional
  <2> QED
    BY <2>2
<1>10. View(later) = [part \in DOMAIN session |->
                        IF part \in Footprint THEN View(child.state)[part]
                        ELSE View(session)[part]]
  <2>1. DOMAIN View(later) = DOMAIN session
    BY <1>4, <1>7, ViewParts
  <2>2. ASSUME NEW part \in SessionParts
        PROVE  View(later)[part] = IF part \in Footprint THEN View(child.state)[part]
                                   ELSE View(session)[part]
    <3>1. CASE part = "variables"
      BY <3>1, <1>4, <1>5, <1>7, <1>9, ViewParts DEF Footprint
    <3>2. CASE part # "variables"
      BY <3>2, <1>4, <1>7, <1>8, ViewParts
    <3> QED
      BY <3>1, <3>2
  <2>3. View(later) = [part \in DOMAIN later |-> View(later)[part]]
    BY DEF View
  <2> QED
    BY <1>4, <1>7, <2>2, <2>3
<1> QED
  BY <1>2, <1>5, <1>7, <1>9, <1>10 DEF Taken

(* How a job ends: its program took the place of the evaluator, or the     *)
(* state is taken, left alone, or lost with the directory.                 *)
Ends ==
    \/ /\ child.outcome = "overlaid"
       /\ running' = FALSE /\ UNCHANGED <<session, generation>>
    \/ /\ Taken(session') /\ generation' = Bumped(attempt.expected)
       /\ running' = ~child.exiting
       /\ status' = 125 \/ (child.exiting => status' = child.exitStatus)
    \/ /\ View(session') = View(session) /\ DOMAIN session' = DOMAIN session
       /\ session'.variables = session.variables
       /\ generation' = generation /\ running' = TRUE /\ status' = 125
    \/ /\ running' = FALSE /\ status' = 125 /\ "directory" \in attempt.expected
       /\ DOMAIN session' = DOMAIN session /\ generation' = generation
       /\ \A part \in DOMAIN session \ {"directory"} : session'[part] = session[part]

LEMMA JobEnds == ASSUME CommitInv, FinishJob PROVE Ends
<1>1. attempt.active
  BY DEF FinishJob
<1>2. DOMAIN attempt = AttemptFields /\ DOMAIN session = SessionParts
  BY DEF CommitInv, AttemptOK, SessionOK
<1>3. Drained.expected = attempt.expected
  BY <1>2, DrainedFields
<1>4. CASE child.outcome = "overlaid"
  BY <1>4 DEF FinishJob, Ends
<1>5. CASE child.outcome # "overlaid"
  <2>1. PICK exec \in {"unused", "applied", "refused"},
             result \in {"committed", "rejected", "lost"} :
               /\ FinishCommit(Drained, result)
               /\ status' = JobStatus(exec, result)
               /\ running' = ~ Leaves(result)
    BY <1>5 DEF FinishJob
  <2> DEFINE staged == ApplyJournal(session.variables, child.journal)
  <2>2. CASE /\ result = "committed"
             /\ Complete(Drained) /\ staged.ok /\ Accepted(Drained, staged)
    <3>1. session' = Merged(staged.store, Drained.expected)
          /\ generation' = Bumped(Drained.expected)
      BY <2>2 DEF Accepted
    <3> HIDE DEF staged
    <3>2. Taken(session')
      BY <1>1, <2>2, <3>1, CommitTakes DEF staged
    <3>3. running' = ~child.exiting
      BY <2>1, <2>2 DEF Leaves
    <3>4. status' = 125 \/ (child.exiting => status' = child.exitStatus)
      BY <2>1, <2>2 DEF JobStatus
    <3> QED
      BY <1>3, <3>1, <3>2, <3>3, <3>4 DEF Ends
  <2>3. CASE result = "rejected" /\ UNCHANGED <<session, generation>>
    <3>1. running' = TRUE /\ status' = 125
      BY <2>1, <2>3 DEF Leaves, JobStatus
    <3> QED
      BY <2>3, <3>1 DEF Ends
  <2>4. CASE /\ result \in {"rejected", "lost"} /\ "directory" \in Drained.expected
             /\ RolledBack(result = "rejected")
    <3> DEFINE back == IF result = "rejected" THEN session.directory
                       ELSE child.state.directory
    <3>1. /\ session' = [session EXCEPT !.directory = back]
          /\ generation' = generation
      BY <2>4 DEF RolledBack
    <3>2. status' = 125 /\ running' = (result # "lost")
      BY <2>1, <2>4 DEF Leaves, JobStatus
    <3>3. CASE result = "rejected"
      <4>1. back = session.directory
        BY <3>3
      <4> HIDE DEF back
      <4>2. DOMAIN session' = DOMAIN session
            /\ \A part \in DOMAIN session : session'[part] = session[part]
        BY <3>1, <4>1
      <4>3. View(session') = View(session)
        BY <4>2 DEF View
      <4>4. session'.variables = session.variables
        BY <1>2, <4>2 DEF SessionParts
      <4> QED
        BY <3>1, <3>2, <3>3, <4>2, <4>3, <4>4 DEF Ends
    <3>4. CASE result = "lost"
      <4> HIDE DEF back
      <4>1. DOMAIN session' = DOMAIN session
            /\ \A part \in DOMAIN session \ {"directory"} : session'[part] = session[part]
        BY <3>1
      <4> QED
        BY <1>3, <2>4, <3>1, <3>2, <3>4, <4>1 DEF Ends
    <3> QED
      BY <2>4, <3>3, <3>4
  <2>5. \/ /\ result = "committed"
           /\ Complete(Drained) /\ staged.ok /\ Accepted(Drained, staged)
        \/ result = "rejected" /\ UNCHANGED <<session, generation>>
        \/ /\ result \in {"rejected", "lost"} /\ "directory" \in Drained.expected
           /\ RolledBack(result = "rejected")
    BY <2>1 DEF FinishCommit
  <2> QED
    BY <2>2, <2>3, <2>4, <2>5
<1> QED
  BY <1>4, <1>5

LEMMA InvFinishJob == CommitInv /\ FinishJob => CommitInv'
<1> SUFFICES ASSUME CommitInv, FinishJob PROVE CommitInv'
  OBVIOUS
<1>1. /\ attempt' = Closed /\ pipe' = <<>> /\ child' = NoChild /\ mode' = "editor"
      /\ touched' = touched
  BY DEF FinishJob, Close
<1>2. AttemptOK'
  BY <1>1 DEF AttemptOK, Closed, NoChild, AttemptFields
<1>3. /\ DOMAIN session = SessionParts /\ DOMAIN session.variables = Names
      /\ generation \in [Counted -> Nat] /\ touched \subseteq SessionParts
  BY DEF CommitInv, SessionOK
<1>4. DOMAIN session' = SessionParts /\ DOMAIN session'.variables = Names
  <2>1. "variables" \in SessionParts \ {"directory"}
    BY DEF SessionParts
  <2> QED
    BY <1>3, <2>1, JobEnds DEF Ends, Taken
<1>5. generation' \in [Counted -> Nat]
  <2>1. Bumped(attempt.expected) \in [Counted -> Nat]
    BY <1>3 DEF Bumped
  <2> QED
    BY <1>3, <2>1, JobEnds, ZenonT(60) DEF Ends
<1>6. SessionOK'
  BY <1>1, <1>3, <1>4, <1>5 DEF SessionOK
<1> QED
  BY <1>1, <1>2, <1>6 DEF CommitInv, Closed

LEMMA InvStutter == CommitInv /\ UNCHANGED vars => CommitInv'
<1> SUFFICES ASSUME CommitInv, UNCHANGED vars PROVE CommitInv'
  OBVIOUS
<1>1. UNCHANGED <<session, generation, mode, attempt, child, pipe, touched>>
  BY DEF vars
<1>2. AttemptOK' /\ SessionOK'
  BY <1>1 DEF CommitInv, AttemptOK, SessionOK
<1> QED
  BY <1>1, <1>2 DEF CommitInv

LEMMA InvNext ==
    ASSUME OwnerStaysPut, JournalHasRoom, CommitInv, [Next]_vars
    PROVE  CommitInv'
<1>1. CASE EvaluateStep
  BY <1>1, InvEvaluateStep
<1>2. CASE SendDescriptors
  BY <1>2, InvSendDescriptors
<1>3. CASE WritePart
  BY <1>3, InvWritePart
<1>4. CASE ChildExits \/ ChildIsKilled
  BY <1>4, InvChildEnds
<1>5. CASE ReceiveTurn
  BY <1>5, InvReceiveTurn
<1>6. CASE FinishJob
  BY <1>6, InvFinishJob
<1>7. ASSUME NEW script \in Scripts, Launch(script) PROVE CommitInv'
  BY <1>7, InvLaunch
<1>8. CASE JobStops \/ JobContinues
  BY <1>8, InvStops
<1>9. ASSUME NEW command \in DirectCommands, Direct(command) PROVE CommitInv'
  BY <1>9, InvDirect
<1>10. CASE UNCHANGED vars
  BY <1>10, InvStutter
<1> QED
  BY <1>1, <1>2, <1>3, <1>4, <1>5, <1>6, <1>7, <1>8, <1>9, <1>10 DEF Next

(* The inductive invariant: the journals say how the evaluator's state came *)
(* from the session's, wherever the owner changed nothing, and what the     *)
(* owner changed it counted (shell_variables_apply, gsh.c finish_job).      *)
THEOREM CommitInvariant ==
    ASSUME OwnerStaysPut, JournalHasRoom
    PROVE  Spec => []CommitInv
<1>1. Init => CommitInv
  BY InitCommit
<1>2. CommitInv /\ [Next]_vars => CommitInv'
  BY InvNext
<1> QED
  BY <1>1, <1>2, PTL DEF Spec

(***************************************************************************)
(* The session changes as the abstract transaction allows.                 *)
(***************************************************************************)
Copies == IF attempt.active THEN {View(child.state)} ELSE {}
Abstract == <<View(session), running, Copies, Footprint, touched>>

(* A step of the evaluator, the system or the reading owner shows nothing, *)
(* or is work on the copy.                                                 *)
LEMMA WorkRefines ==
    ASSUME attempt.active, UNCHANGED <<session, running, touched>>,
           attempt'.active = TRUE, attempt'.expected = attempt.expected
    PROVE  T!Work
<1>1. {View(child'.state)} # {} /\ {View(child.state)} # {}
  OBVIOUS
<1> QED
  BY <1>1 DEF T!Work, T!Open

LEMMA ReceiveRefines ==
    ASSUME DOMAIN attempt = AttemptFields, ReceiveTurn
    PROVE  UNCHANGED Abstract
<1> DEFINE count == IF Len(pipe) < ReadsPerTurn THEN Len(pipe) ELSE ReadsPerTurn
           read == ReadParts(attempt, count)
<1>1. read.active = attempt.active /\ read.expected = attempt.expected
      /\ DOMAIN read = AttemptFields
  BY DEF ReadParts, AttemptFields
<1>2. \/ \E eof, open : attempt' = [read EXCEPT !.eof = eof, !.open = open]
      \/ attempt' = [attempt EXCEPT !.invalid = TRUE, !.open = FALSE]
  BY DEF ReceiveTurn
<1> HIDE DEF read, count
<1>3. attempt'.active = attempt.active /\ attempt'.expected = attempt.expected
  BY <1>1, <1>2 DEF AttemptFields
<1>4. UNCHANGED <<session, running, child, touched>>
  BY DEF ReceiveTurn
<1> QED
  BY <1>3, <1>4 DEF Abstract, Copies, Footprint, View, Seen

LEMMA LaunchRefines ==
    ASSUME CommitInv, NEW script \in Scripts, Launch(script)
    PROVE  T!Begin \/ T!Decline
<1>1. /\ running /\ ~attempt.active /\ touched' = {}
      /\ UNCHANGED <<session, running>>
  BY DEF Launch, Ready, CommitInv, AttemptOK
<1>2. View(session)' = View(session)
  BY <1>1 DEF View, Seen
<1>3. CASE UNCHANGED <<child, attempt, mode>>
  BY <1>1, <1>2, <1>3 DEF T!Decline, T!Open
<1>4. CASE /\ child' = Fork(script)
           /\ attempt' = [Closed EXCEPT !.active = TRUE, !.open = TRUE,
                            !.expected = Possible(script) \cap Optional,
                            !.exec = "exec" \in Possible(script)]
  <2>1. attempt'.active = TRUE
    BY <1>4 DEF Closed
  <2>2. child'.state = session
    BY <1>4 DEF Fork
  <2>3. {View(child'.state)} = {View(session)}
    BY <2>2
  <2> QED
    BY <1>1, <1>2, <2>1, <2>3 DEF T!Begin, T!Open
<1> QED
  BY <1>3, <1>4 DEF Launch

LEMMA DirectRefines ==
    ASSUME CommitInv, OwnerStaysPut, NEW command \in DirectCommands, Direct(command)
    PROVE  \E part \in SUBSET DOMAIN View(session) : T!Outside(part)
<1> DEFINE change == DirectChange(command)
           parts == change.parts
<1>1. OwnerChange(change) /\ DOMAIN session = SessionParts
  BY OwnersCommand DEF CommitInv, SessionOK
<1>2. /\ session' = change.session /\ touched' = touched \cup parts
      /\ running /\ mode = "stopped"
      /\ UNCHANGED <<running, attempt, child>>
  BY DEF Direct
<1>3. attempt.active
  BY <1>2 DEF CommitInv, AttemptOK
<1>4. /\ DOMAIN session' = SessionParts
      /\ \A part \in SessionParts \ parts : session'[part] = session[part]
      /\ parts \in SUBSET SessionParts
  BY <1>1, <1>2 DEF OwnerChange
<1> HIDE DEF parts, change
<1>5. \A other \in SessionParts \ parts : View(session)'[other] = View(session)[other]
  <2>1. ASSUME NEW other \in SessionParts \ parts
        PROVE  View(session')[other] = View(session)[other]
    BY <1>1, <1>4, ViewParts
  <2> QED
    BY <2>1
<1>6. DOMAIN View(session) = SessionParts
  BY <1>1, ViewParts
<1>7. {View(child.state)} # {} /\ UNCHANGED Copies /\ UNCHANGED Footprint
  BY <1>2 DEF Copies, Footprint, View, Seen
<1>8. T!Outside(parts)
  BY <1>2, <1>3, <1>5, <1>6, <1>7 DEF T!Outside, T!Open, Copies, Footprint
<1> QED
  BY <1>4, <1>6, <1>8

LEMMA FinishRefines ==
    ASSUME CommitInv, FinishJob
    PROVE  T!Take \/ T!Refuse \/ T!Break
<1>1. attempt.active /\ attempt'.active = FALSE /\ touched' = touched
  BY DEF FinishJob, Close, Closed
<1>2. DOMAIN session = SessionParts /\ DOMAIN View(session) = DOMAIN session
  BY ViewParts DEF CommitInv, SessionOK
<1>3. {View(child.state)} # {}
  OBVIOUS
<1>4. CASE View(session') = View(session)
  BY <1>1, <1>3, <1>4 DEF T!Refuse, T!Open
<1>5. CASE Taken(session')
  <2>1. View(session') = [part \in DOMAIN View(session) |->
                            IF part \in Footprint THEN View(child.state)[part]
                            ELSE View(session)[part]]
    BY <1>2, <1>5 DEF Taken
  <2>2. \E copy \in {View(child.state)} :
           View(session') = [part \in DOMAIN View(session) |->
                               IF part \in Footprint THEN copy[part]
                               ELSE View(session)[part]]
    BY <2>1
  <2> QED
    BY <1>1, <1>3, <1>5, <2>2 DEF T!Take, T!Open, Taken, Footprint
<1>6. CASE /\ running' = FALSE /\ DOMAIN session' = DOMAIN session
           /\ \A part \in DOMAIN session \ {"directory"} : session'[part] = session[part]
  <2>1. \A part \in DOMAIN View(session) \ {"directory"} :
           View(session')[part] = View(session)[part]
    BY <1>2, <1>6, ViewParts
  <2> QED
    BY <1>1, <1>3, <1>6, <2>1 DEF T!Break, T!Open
<1>7. CASE UNCHANGED session
  BY <1>4, <1>7
<1> QED
  BY JobEnds, <1>4, <1>5, <1>6, <1>7 DEF Ends

LEMMA NextRefines ==
    ASSUME OwnerStaysPut, CommitInv, [Next]_vars
    PROVE  T!TransactionNext \/ UNCHANGED Abstract
<1>1. CASE EvaluateStep \/ SendDescriptors \/ WritePart \/ ChildExits \/ ChildIsKilled
  <2>1. attempt.active
    BY <1>1 DEF EvaluateStep, SendDescriptors, WritePart, ChildExits, ChildIsKilled,
                CommitInv, AttemptOK
  <2>2. UNCHANGED <<session, running, touched, attempt>>
    BY <1>1 DEF EvaluateStep, SendDescriptors, WritePart, ChildExits, ChildIsKilled
  <2>3. T!Work
    BY <2>1, <2>2, WorkRefines
  <2> QED
    BY <2>3 DEF T!TransactionNext
<1>2. CASE ReceiveTurn
  BY <1>2, ReceiveRefines DEF CommitInv, AttemptOK
<1>3. CASE FinishJob
  BY <1>3, FinishRefines DEF T!TransactionNext
<1>4. ASSUME NEW script \in Scripts, Launch(script)
      PROVE  T!TransactionNext \/ UNCHANGED Abstract
  BY <1>4, LaunchRefines DEF T!TransactionNext
<1>5. CASE JobStops \/ JobContinues \/ UNCHANGED vars
  <2>1. UNCHANGED <<session, running, attempt, child, touched>>
    BY <1>5 DEF JobStops, JobContinues, vars
  <2> QED
    BY <2>1 DEF Abstract, Copies, Footprint, View, Seen
<1>6. ASSUME NEW command \in DirectCommands, Direct(command)
      PROVE  T!TransactionNext \/ UNCHANGED Abstract
  BY <1>6, DirectRefines DEF T!TransactionNext
<1> QED
  BY <1>1, <1>2, <1>3, <1>4, <1>5, <1>6 DEF Next

(* A compound command takes effect whole, as its evaluator left it, or not *)
(* at all, and never over a change the owner made while it was stopped.    *)
THEOREM CommitRefines ==
    ASSUME OwnerStaysPut, JournalHasRoom
    PROVE  Spec => RefinesTransaction
<1>1. Init => T!TransactionInit
  BY DEF Init, Closed, T!TransactionInit
<1>2. CommitInv /\ [Next]_vars =>
         [T!TransactionNext]_<<View(session), running,
                               IF attempt.active THEN {View(child.state)} ELSE {},
                               attempt.expected \cup {"variables", "options"}, touched>>
  BY NextRefines DEF Abstract, Copies, Footprint
<1>3. Spec => []CommitInv
  BY CommitInvariant
<1> QED
  BY <1>1, <1>2, <1>3, PTL DEF Spec, RefinesTransaction, T!TransactionSpec

(***************************************************************************)
(* What the user is told.                                                  *)
(***************************************************************************)

(* Only the end of a job goes back to the editor, or ends the loop.        *)
LEMMA OthersGoOn ==
    ASSUME CommitInv, [Next]_vars, ~FinishJob
    PROVE  /\ running' = running
           /\ child.phase = "gone" => mode' # "editor"
<1>1. child.phase = "gone" => mode # "editor"
  BY DEF CommitInv, AttemptOK
<1>2. CASE EvaluateStep \/ SendDescriptors \/ WritePart \/ ChildExits \/ ChildIsKilled
           \/ ReceiveTurn
  BY <1>1, <1>2 DEF EvaluateStep, SendDescriptors, WritePart, ChildExits, ChildIsKilled,
                    ReceiveTurn
<1>3. ASSUME NEW script \in Scripts, Launch(script)
      PROVE  running' = running /\ child.phase # "gone"
  BY <1>3 DEF Launch, Ready
<1>4. CASE JobStops \/ JobContinues \/ UNCHANGED vars
  BY <1>1, <1>4 DEF JobStops, JobContinues, vars
<1>5. ASSUME NEW command \in DirectCommands, Direct(command)
      PROVE  running' = running /\ child.phase # "gone"
  BY <1>5 DEF Direct
<1> QED
  BY <1>1, <1>2, <1>3, <1>4, <1>5 DEF Next

LEMMA EndIsTold ==
    ASSUME CommitInv, FinishJob, ~(child.phase = "gone" /\ child.outcome = "overlaid")
    PROVE  RejectionTold /\ ExitFollowsCommit
<1>1. attempt.active /\ child.phase = "gone"
  BY DEF FinishJob
<1>2. /\ DOMAIN session = SessionParts /\ DOMAIN child.state = SessionParts
      /\ WorkOK(session, touched, attempt.expected, child)
  BY <1>1 DEF CommitInv, SessionOK, ChildOK
<1>3. CASE /\ Taken(session') /\ running' = ~child.exiting
           /\ status' = 125 \/ (child.exiting => status' = child.exitStatus)
  <2>1. View(session') = [part \in DOMAIN session |->
                            IF part \in Footprint THEN View(child.state)[part]
                            ELSE View(session)[part]]
    BY <1>3 DEF Taken
  <2>2. ASSUME touched = {} PROVE View(session') = View(child.state)
    <3>1. ASSUME NEW part \in SessionParts
          PROVE  (IF part \in Footprint THEN View(child.state)[part]
                  ELSE View(session)[part]) = View(child.state)[part]
      <4>1. CASE part \in Footprint
        BY <4>1
      <4>2. CASE part \notin Footprint
        <5>1. part # "variables" /\ child.state[part] = session[part]
          BY <1>2, <2>2, <4>2 DEF Footprint, WorkOK
        <5> QED
          BY <5>1, <4>2, <1>2, ViewParts
      <4> QED
        BY <4>1, <4>2
    <3>2. View(child.state) = [part \in SessionParts |-> View(child.state)[part]]
      BY <1>2 DEF View
    <3> QED
      BY <1>2, <2>1, <3>1, <3>2
  <2>3. RejectionTold
    BY <2>2 DEF RejectionTold
  <2>4. ExitFollowsCommit
    BY <1>3, <2>1 DEF ExitFollowsCommit, Footprint
  <2> QED
    BY <2>3, <2>4
<1>4. CASE running' = TRUE /\ status' = 125
  BY <1>4 DEF RejectionTold, ExitFollowsCommit
<1>5. CASE /\ running' = FALSE /\ status' = 125 /\ "directory" \in attempt.expected
           /\ \A part \in DOMAIN session \ {"directory"} : session'[part] = session[part]
  BY <1>5 DEF RejectionTold, ExitFollowsCommit
<1> QED
  BY JobEnds, <1>1, <1>3, <1>4, <1>5 DEF Ends

(* No status of a rejected command is reported, and no exit is obeyed      *)
(* without its state (gsh.c:3371).                                         *)
THEOREM StatusIsTold ==
    ASSUME OwnerStaysPut, JournalHasRoom
    PROVE  Spec => StatusFollowsCommit
<1>1. CommitInv /\ [Next]_vars =>
         [~ (child.phase = "gone" /\ child.outcome = "overlaid")
            => RejectionTold /\ ExitFollowsCommit]_vars
  <2> SUFFICES ASSUME CommitInv, [Next]_vars,
                      ~ (child.phase = "gone" /\ child.outcome = "overlaid")
               PROVE  RejectionTold /\ ExitFollowsCommit
    OBVIOUS
  <2>1. CASE FinishJob
    BY <2>1, EndIsTold
  <2>2. CASE ~FinishJob
    BY <2>2, OthersGoOn DEF RejectionTold, ExitFollowsCommit
  <2> QED
    BY <2>1, <2>2
<1>2. Spec => []CommitInv
  BY CommitInvariant
<1> QED
  BY <1>1, <1>2, PTL DEF Spec, StatusFollowsCommit
=============================================================================
