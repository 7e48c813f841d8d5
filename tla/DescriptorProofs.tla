-------------------------- MODULE DescriptorProofs --------------------------
(***************************************************************************)
(* Proofs about ExecDescriptors: that the reactor keeps its own numbers,   *)
(* that no redirection reaches the channels of an evaluator, and that      *)
(* exec keeps the promise of DescriptorSession.                            *)
(***************************************************************************)
EXTENDS ExecDescriptors, NaturalMinimum, SequenceTheorems

AnyName == Names \cup ChannelNames
Values == Plain \cup {Own(name) : name \in AnyName} \cup {End(channel) : channel \in ChannelNames}
TableType == [Fds -> Values]

\* The numbers some names have.
Numbers(D) == UNION {[S -> Fds] : S \in SUBSET D}

\* A table whose every number is the user's, or one that the reactor (own) or
\* an evaluator (ends) uses for what it takes it for.
Sound(table, own, ends) ==
  /\ table \in TableType
  /\ \A name \in DOMAIN own : own[name] \in Fds /\ table[own[name]] = Own(name)
  /\ \A channel \in DOMAIN ends : ends[channel] \in Fds /\ table[ends[channel]] = End(channel)
  /\ \A fd \in Fds : table[fd] \in Plain \/ fd \in RangeOf(own) \/ fd \in RangeOf(ends)

NothingSourced == \A script \in Scripts : ~ script.sourced

\* The evaluator of a script, when the preflight saw its commands.
EvaluatorSound(c) ==
  /\ Sound(c.table, <<>>, c.ends)
  /\ \A channel \in DOMAIN c.ends : c.ends[channel] > 2
  /\ ExecPossible(c.script) => RangeOf(c.ends) \cap Protected(c.script) = {}

Transactions(script) == {"commit"} \cup IF ExecPossible(script) THEN {"outcome", "descriptors"} ELSE {}
Changing(c) == {i \in 1..c.next - 1 : /\ i \in Execs(c.script)
                                      /\ c.script.commands[i].redirects # <<>>}

Evaluators ==
  [phase : {"running", "sent", "over", "killed", "replaced"}, script : Scripts, next : Nat,
   dirty : BOOLEAN, outcome : Outcomes, table : TableType, ends : Numbers(ChannelNames)]
EvaluatorOK(c) ==
  /\ c \in Evaluators
  /\ c.next \in 1..Len(c.script.commands) + 1
  /\ DOMAIN c.ends = Transactions(c.script)
  /\ ~ c.script.sourced => EvaluatorSound(c)
  /\ ~ c.dirty => Changing(c) = {}
  /\ c.dirty => Execs(c.script) # {}
  /\ c.phase \in {"sent", "over"} => c.next = Len(c.script.commands) + 1
  /\ c.phase = "sent" => "descriptors" \in DOMAIN c.ends
  /\ c.phase = "over" /\ ~ c.script.sourced => ~ c.dirty
  /\ c.phase = "replaced" => Execs(c.script) # {}
  /\ c.phase = "replaced" /\ ~ c.script.sourced => c.outcome \in {"overlaid", "invalid"}
  /\ c.outcome = "overlaid" => c.phase = "replaced"

DescriptorInv ==
  /\ held \in Numbers(Names)
  /\ Sound(owner, held, <<>>)
  /\ \/ child = NoChild /\ DOMAIN held \cap ChannelNames = {}
     \/ EvaluatorOK(child) /\ DOMAIN held \cap ChannelNames = Transactions(child.script)
------------------------------------------------------------------------------
(* Numbers and names.                                                       *)

LEMMA NamesDiffer ==
    /\ \A m, n : Own(m) = Own(n) => m = n
    /\ \A m, n : End(m) = End(n) => m = n
    /\ \A m, n : Own(m) # End(n)
    /\ \A n : Own(n) # Closed /\ End(n) # Closed
    /\ \A n \in AnyName : Own(n) \notin Plain
    /\ \A n \in ChannelNames : End(n) \notin Plain
    /\ Closed \notin Files
<1>1. /\ \A m, n : Own(m) = Own(n) => m = n
      /\ \A m, n : End(m) = End(n) => m = n
      /\ \A m, n : Own(m) # End(n)
      /\ \A n : Own(n) # Closed /\ End(n) # Closed
  BY DEF Own, End, Closed
<1>2. \A n \in AnyName : Own(n) \notin Files
  BY FilesAssumption DEF AnyName
<1>3. \A n \in ChannelNames : End(n) \notin Files
  BY FilesAssumption
<1>4. Closed \notin Files
  BY FilesAssumption
<1> QED
  BY <1>1, <1>2, <1>3, <1>4 DEF Plain

LEMMA SpareLeast ==
    ASSUME NEW table, NEW least \in Nat, NEW avoid, Spare(table, least, avoid) # {}
    PROVE  LET at == Min(Spare(table, least, avoid))
           IN /\ at \in Fds /\ at >= least /\ at \notin avoid /\ table[at] = Closed
              /\ \A fd \in least..at - 1 : table[fd] # Closed \/ fd \in avoid
<1> DEFINE S == Spare(table, least, avoid)
<1>1. S \in SUBSET Nat /\ S # {}
  BY LimitAssumption DEF Spare
<1>2. PICK m \in S : \A n \in S : m <= n
  <2> HIDE DEF S
  <2> QED
    BY <1>1, LeastNatural
<1>3. Min(S) \in S /\ \A n \in S : Min(S) <= n
  <2> HIDE DEF S
  <2> QED
    BY <1>2, Zenon DEF Min
<1>4. \A n \in S : n \in Fds /\ n >= least /\ n \notin avoid /\ table[n] = Closed
  BY LimitAssumption DEF Spare, IsOpen, Fds
<1>5. ASSUME NEW fd \in least..Min(S) - 1
      PROVE  table[fd] # Closed \/ fd \in avoid
  <2>1. Min(S) \in Fds
    BY <1>3, <1>4
  <2>2. fd \notin S /\ fd \in least..Limit - 1
    BY <1>3, <1>5, <2>1, LimitAssumption DEF Fds
  <2> QED
    BY <2>2 DEF Spare, IsOpen
<1> QED
  BY <1>3, <1>4, <1>5

(* A walk with a step that stays within a set of states exists.            *)
WalkOf(step, start, n, at) ==
  at = [i \in 0..n |-> IF i = 0 THEN start
                       ELSE step[i][at[i - 1]]]

LEMMA WalkExists ==
    ASSUME NEW S, NEW start \in S, NEW n \in Nat, NEW step \in [1..n -> [S -> S]]
    PROVE  \E at : WalkOf(step, start, n, at) /\ \A i \in 0..n : at[i] \in S
<1> DEFINE Walks(at, m) == WalkOf(step, start, m, at)
           P == {m \in 0..n : \E at : Walks(at, m) /\ \A i \in 0..m : at[i] \in S}
<1>1. 0 \in P
  <2> DEFINE at == [i \in 0..0 |-> start]
  <2>1. Walks(at, 0) /\ \A i \in 0..0 : at[i] \in S
    BY DEF WalkOf
  <2> HIDE DEF at, Walks
  <2> QED
    BY <2>1
<1>2. ASSUME NEW m \in 1..n, m - 1 \in P
      PROVE  m \in P
  <2>1. PICK f : Walks(f, m - 1) /\ \A i \in 0..m - 1 : f[i] \in S
    BY <1>2
  <2> DEFINE next == step[m][f[m - 1]]
             g == [i \in 0..m |-> IF i = m THEN next ELSE f[i]]
  <2>2. f[m - 1] \in S /\ next \in S
    BY <2>1
  <2>3. \A i \in 0..m : g[i] \in S
    BY <2>1, <2>2
  <2>4. ASSUME NEW i \in 0..m
        PROVE  g[i] = IF i = 0 THEN start ELSE step[i][g[i - 1]]
    <3>1. CASE i = 0
      <4>1. f[0] = start
        BY <2>1 DEF WalkOf
      <4> QED
        BY <3>1, <4>1
    <3>2. CASE i \in 1..m - 1
      <4>1. f[i] = step[i][f[i - 1]]
        BY <2>1, <3>2 DEF WalkOf
      <4>2. g[i] = f[i] /\ g[i - 1] = f[i - 1]
        BY <3>2
      <4> HIDE DEF g
      <4> QED
        BY <3>2, <4>1, <4>2
    <3>3. CASE i = m
      <4>1. g[m] = next /\ g[m - 1] = f[m - 1]
        BY <1>2
      <4> HIDE DEF g
      <4> QED
        BY <3>3, <4>1, <1>2
    <3> QED
      BY <3>1, <3>2, <3>3
  <2>5. Walks(g, m)
    <3>1. g = [i \in 0..m |-> g[i]]
      OBVIOUS
    <3> HIDE DEF g
    <3> QED
      BY <2>4, <3>1 DEF WalkOf
  <2> HIDE DEF g, Walks
  <2> QED
    BY <2>3, <2>5
<1>3. n \in P
  <2>1. \A m \in 1..n : m - 1 \in P => m \in P
    BY <1>2
  <2> HIDE DEF P
  <2>2. \A m \in 0..n : m \in P
    BY <1>1, <2>1, StepByStep
  <2> QED
    BY <2>2
<1> QED
  BY <1>3

------------------------------------------------------------------------------
(* Redirections.                                                            *)

RedirectStates == [ok : BOOLEAN, table : TableType]

LEMMA ClosedTable ==
    ASSUME NEW table \in TableType, NEW fds
    PROVE  Close(table, fds) \in TableType
BY DEF TableType, Close, Values, Plain

LEMMA RedirectTyped ==
    ASSUME NEW s \in RedirectStates, NEW r \in RedirectionTypes, NEW refused
    PROVE  ApplyRedirect(s, r, refused) \in RedirectStates
<1>1. s.ok \in BOOLEAN /\ s.table \in TableType
  BY DEF RedirectStates
<1>2. Redirect(s.table, r) \in RedirectStates
  <2>1. CASE r.op = "close"
    <3>1. Redirect(s.table, r) = [ok |-> TRUE, table |-> Close(s.table, {r.to})]
      BY <2>1 DEF Redirect
    <3> QED
      BY <3>1, <1>1, ClosedTable DEF RedirectStates
  <2>2. CASE r.op = "dup"
    <3>1. r.from \in Fds /\ s.table[r.from] \in Values
      BY <2>2, <1>1 DEF RedirectionTypes, TableType
    <3> QED
      BY <3>1, <2>2, <1>1 DEF Redirect, RedirectStates, TableType
  <2>3. CASE r.op = "open"
    <3>1. r.file \in Values
      BY <2>3 DEF RedirectionTypes, Values, Plain
    <3> QED
      BY <3>1, <2>3, <1>1 DEF Redirect, RedirectStates, TableType
  <2> QED
    BY <2>1, <2>2, <2>3 DEF RedirectionTypes
<1>3. [s EXCEPT !.ok = FALSE] \in RedirectStates
  BY DEF RedirectStates
<1> QED
  BY <1>2, <1>3 DEF ApplyRedirect

\* The states that a sequence of redirections goes through.
Redirecting(at, table, redirects, refused) ==
  /\ at[0] = [ok |-> TRUE, table |-> table]
  /\ \A i \in 0..Len(redirects) : at[i] \in RedirectStates
  /\ \A i \in 1..Len(redirects) :
       at[i] = IF at[i - 1].ok THEN ApplyRedirect(at[i - 1], redirects[i], i = refused) ELSE at[i - 1]

LEMMA RedirectsRun ==
    ASSUME NEW table \in TableType, NEW redirects \in Seq(RedirectionTypes), NEW refused
    PROVE  \E at : Redirecting(at, table, redirects, refused) /\ ApplyRedirects(table, redirects, refused) = at[Len(redirects)]
<1> DEFINE n == Len(redirects)
           start == [ok |-> TRUE, table |-> table]
           step == [i \in 1..n |-> [s \in RedirectStates |-> IF s.ok THEN ApplyRedirect(s, redirects[i], i = refused) ELSE s]]
           Walks(f) == f = [i \in 0..n |-> IF i = 0 THEN start
                              ELSE IF f[i - 1].ok THEN ApplyRedirect(f[i - 1], redirects[i], i = refused) ELSE f[i - 1]]
           at == CHOOSE f : Walks(f)
<1>1. n \in Nat /\ start \in RedirectStates /\ \A i \in 1..n : redirects[i] \in RedirectionTypes
  BY DEF RedirectStates
<1>0. \A i \in 1..n : \A s \in RedirectStates : ApplyRedirect(s, redirects[i], i = refused) \in RedirectStates
  BY <1>1, RedirectTyped
<1>2. step \in [1..n -> [RedirectStates -> RedirectStates]]
  BY <1>0
<1>3. PICK f : WalkOf(step, start, n, f) /\ \A i \in 0..n : f[i] \in RedirectStates
  <2> HIDE DEF n, start, step
  <2> QED
    BY <1>1, <1>2, WalkExists
<1>4. Walks(f)
  <2>1. \A i \in 1..n : i - 1 \in 0..n /\ f[i - 1] \in RedirectStates
    BY <1>1, <1>3
  <2>2. \A i \in 1..n : step[i][f[i - 1]] = IF f[i - 1].ok THEN ApplyRedirect(f[i - 1], redirects[i], i = refused) ELSE f[i - 1]
    BY <2>1
  <2> HIDE DEF n, start, step
  <2> QED
    BY <1>1, <1>3, <2>2 DEF WalkOf
<1>5. Walks(at)
  <2> HIDE DEF Walks
  <2> QED
    BY <1>4
<1>6. \A i \in 1..n : at[i] = IF at[i - 1].ok THEN ApplyRedirect(at[i - 1], redirects[i], i = refused) ELSE at[i - 1]
  <2> HIDE DEF n, start, at
  <2> QED
    BY <1>1, <1>5
<1>7. at[0] = start
  <2> HIDE DEF n, start, at
  <2> QED
    BY <1>1, <1>5
<1>8. \A i \in 0..n : at[i] \in RedirectStates
  <2> DEFINE P == {i \in 0..n : at[i] \in RedirectStates}
  <2>1. 0 \in P
    <3> HIDE DEF n, start, at
    <3> QED
      BY <1>1, <1>7
  <2>2. ASSUME NEW i \in 1..n, i - 1 \in P
        PROVE  i \in P
    <3>1. at[i - 1] \in RedirectStates /\ i \in 0..n
      BY <2>2
    <3> HIDE DEF n, start, at
    <3> QED
      BY <1>0, <1>6, <3>1
  <2>3. \A i \in 0..n : i \in P
    <3> HIDE DEF n, start, at, P
    <3> QED
      BY <1>1, <2>1, <2>2, StepByStep
  <2> QED
    BY <2>3
<1>9. ApplyRedirects(table, redirects, refused) = at[Len(redirects)]
  BY Zenon DEF ApplyRedirects, Walk
<1> HIDE DEF at
<1> QED
  BY <1>6, <1>7, <1>8, <1>9 DEF Redirecting

LEMMA RedirectFrame ==
    ASSUME NEW s \in RedirectStates, NEW r \in RedirectionTypes, NEW refused
    PROVE  LET after == ApplyRedirect(s, r, refused)
           IN /\ \A fd \in Fds : fd # r.to => after.table[fd] = s.table[fd]
              /\ ~ after.ok => after.table = s.table
<1>1. s.table \in TableType
  BY DEF RedirectStates
<1>2. CASE refused /\ r.op = "open"
  BY <1>2 DEF ApplyRedirect, RedirectStates
<1>3. CASE ~ (refused /\ r.op = "open")
  <2>1. ApplyRedirect(s, r, refused) = Redirect(s.table, r)
    BY <1>3 DEF ApplyRedirect
  <2>2. CASE r.op = "close"
    BY <2>1, <2>2 DEF Redirect, Close
  <2>3. CASE r.op = "dup"
    BY <1>1, <2>1, <2>3 DEF Redirect, TableType
  <2>4. CASE r.op = "open"
    BY <1>1, <2>1, <2>4 DEF Redirect, TableType
  <2> QED
    BY <2>2, <2>3, <2>4 DEF RedirectionTypes
<1> QED
  BY <1>2, <1>3

(* Redirections change no other number than those they name.               *)
LEMMA RedirectsFrame ==
    ASSUME NEW table \in TableType, NEW redirects \in Seq(RedirectionTypes), NEW refused
    PROVE  LET after == ApplyRedirects(table, redirects, refused)
           IN /\ after \in RedirectStates
              /\ \A fd \in Fds \ Targets(redirects) : after.table[fd] = table[fd]
<1> DEFINE n == Len(redirects)
<1>1. n \in Nat /\ \A i \in 1..n : redirects[i] \in RedirectionTypes
                                   /\ redirects[i].to \in Targets(redirects)
  BY DEF Targets
<1>2. PICK at : /\ Redirecting(at, table, redirects, refused)
                /\ ApplyRedirects(table, redirects, refused) = at[n]
  BY RedirectsRun
<1> DEFINE P == {i \in 0..n : \A fd \in Fds \ Targets(redirects) : at[i].table[fd] = table[fd]}
<1>3. 0 \in P
  BY <1>1, <1>2 DEF Redirecting
<1>4. ASSUME NEW i \in 1..n, i - 1 \in P
      PROVE  i \in P
  <2>1. at[i - 1] \in RedirectStates
    BY <1>1, <1>2 DEF Redirecting
  <2>2. at[i] = IF at[i - 1].ok THEN ApplyRedirect(at[i - 1], redirects[i], i = refused)
                ELSE at[i - 1]
    BY <1>2 DEF Redirecting
  <2>3. \A fd \in Fds : fd # redirects[i].to => at[i].table[fd] = at[i - 1].table[fd]
    <3> HIDE DEF n
    <3> QED
      BY <1>1, <2>1, <2>2, RedirectFrame
  <2> HIDE DEF n
  <2> QED
    BY <1>1, <1>4, <2>3
<1>5. n \in P
  <2>1. \A i \in 1..n : i - 1 \in P => i \in P
    BY <1>4
  <2> HIDE DEF n, P
  <2>2. \A i \in 0..n : i \in P
    BY <1>1, <1>3, <2>1, StepByStep
  <2> QED
    BY <1>1, <2>2
<1> QED
  BY <1>1, <1>2, <1>5 DEF Redirecting

\* What a sequence of redirections must not name.
Avoids(redirects, own, ends) ==
  (Targets(redirects) \cup Sources(redirects)) \cap (RangeOf(own) \cup RangeOf(ends)) = {}

LEMMA ViewTyped ==
    ASSUME NEW table
    PROVE  UserView(table) \in Session!Tables
BY DEF UserView, Session!Tables

(* One redirection that names nobody else's number is one of the promise.  *)
LEMMA RedirectSound ==
    ASSUME NEW own, NEW ends, NEW s \in RedirectStates, Sound(s.table, own, ends),
           NEW r \in RedirectionTypes, NEW refused,
           r.to \notin RangeOf(own) \cup RangeOf(ends),
           r.op = "dup" => r.from \notin RangeOf(own) \cup RangeOf(ends)
    PROVE  LET after == ApplyRedirect(s, r, refused)
           IN /\ Sound(after.table, own, ends)
              /\ after.ok => /\ Session!Possible(UserView(s.table), r)
                             /\ UserView(after.table) = Session!After(UserView(s.table), r)
<1> DEFINE after == ApplyRedirect(s, r, refused)
           view == UserView(s.table)
<1>1. s.table \in TableType /\ after \in RedirectStates /\ after.table \in TableType
  BY RedirectTyped DEF RedirectStates
<1>2. /\ \A fd \in Fds : fd # r.to => after.table[fd] = s.table[fd]
      /\ ~ after.ok => after.table = s.table
  BY RedirectFrame
<1>3. r.to \in Fds /\ r.op \in {"close", "dup", "open"}
  BY DEF RedirectionTypes
<1>4. CASE ~ after.ok
  BY <1>2, <1>4
<1>5. ASSUME NEW value \in Plain, after.ok, after.table[r.to] = value,
             Session!Possible(view, r), Session!After(view, r) = [view EXCEPT ![r.to] = value]
      PROVE  /\ Sound(after.table, own, ends)
             /\ Session!Possible(view, r) /\ UserView(after.table) = Session!After(view, r)
  <2>1. Sound(after.table, own, ends)
    <3>1. \A name \in DOMAIN own : own[name] \in Fds /\ own[name] # r.to
      BY DEF Sound, RangeOf
    <3>2. \A channel \in DOMAIN ends : ends[channel] \in Fds /\ ends[channel] # r.to
      BY DEF Sound, RangeOf
    <3> HIDE DEF after
    <3> QED
      BY <1>1, <1>2, <1>3, <1>5, <3>1, <3>2 DEF Sound
  <2>2. \A fd \in Fds : UserView(after.table)[fd] = [view EXCEPT ![r.to] = value][fd]
    <3>1. value = IF value \in Files THEN value ELSE Closed
      BY <1>5 DEF Plain
    <3> HIDE DEF after
    <3> QED
      BY <1>2, <1>3, <1>5, <3>1 DEF UserView
  <2>3. UserView(after.table) = [view EXCEPT ![r.to] = value]
    <3> HIDE DEF after
    <3> QED
      BY <2>2 DEF UserView
  <2> QED
    BY <1>5, <2>1, <2>3
<1>6. CASE after.ok
  <2>1. after = Redirect(s.table, r)
    BY <1>6 DEF ApplyRedirect
  <2>2. CASE r.op = "close"
    <3>1. after.table[r.to] = Closed
      BY <1>3, <2>1, <2>2 DEF Redirect, Close
    <3>2. Session!Possible(view, r) /\ Session!After(view, r) = [view EXCEPT ![r.to] = Closed]
      BY <2>2 DEF Session!Possible, Session!After
    <3> QED
      BY <1>5, <1>6, <3>1, <3>2 DEF Plain
  <2>3. CASE r.op = "dup"
    <3>1. r.from \in Fds /\ s.table[r.from] # Closed /\ after.table[r.to] = s.table[r.from]
      BY <1>1, <1>3, <1>6, <2>1, <2>3 DEF Redirect, IsOpen, RedirectionTypes, TableType
    <3>2. s.table[r.from] \in Files
      BY <3>1, <2>3 DEF Sound, Plain
    <3>3. view[r.from] = s.table[r.from]
      BY <3>1, <3>2 DEF UserView
    <3>4. Session!Possible(view, r) /\ Session!After(view, r) = [view EXCEPT ![r.to] = s.table[r.from]]
      BY <2>3, <3>1, <3>3 DEF Session!Possible, Session!After
    <3> QED
      BY <1>5, <1>6, <3>1, <3>2, <3>4 DEF Plain
  <2>4. CASE r.op = "open"
    <3>1. r.file \in Files /\ after.table[r.to] = r.file
      BY <1>1, <1>3, <1>6, <2>1, <2>4 DEF Redirect, RedirectionTypes, TableType
    <3>2. Session!Possible(view, r) /\ Session!After(view, r) = [view EXCEPT ![r.to] = r.file]
      BY <2>4 DEF Session!Possible, Session!After
    <3> QED
      BY <1>5, <1>6, <3>1, <3>2 DEF Plain
  <2> QED
    BY <1>3, <2>2, <2>3, <2>4
<1> QED
  BY <1>4, <1>6

\* The tables that so many redirections of the promise lead to.
Leading(after, table, redirects) ==
  /\ after[0] = {table}
  /\ \A i \in 1..Len(redirects) :
       after[i] = {Session!After(t, redirects[i]) :
                     t \in {u \in after[i - 1] : Session!Possible(u, redirects[i])}}

LEMMA AfterTyped ==
    ASSUME NEW table \in Session!Tables, NEW r \in RedirectionTypes
    PROVE  Session!After(table, r) \in Session!Tables
<1>1. r.op = "dup" => table[r.from] \in Files \cup {Closed}
  BY DEF RedirectionTypes, Session!Tables
<1>2. r.op = "open" => r.file \in Files
  BY DEF RedirectionTypes
<1>3. r.op \in {"close", "dup", "open"}
  BY DEF RedirectionTypes
<1> QED
  BY <1>1, <1>2, <1>3 DEF Session!After, Session!Tables

LEMMA EffectsRun ==
    ASSUME NEW table \in Session!Tables, NEW redirects \in Seq(RedirectionTypes)
    PROVE  \E after : /\ Leading(after, table, redirects)
                      /\ \A i \in 0..Len(redirects) :
                           after[i] \subseteq Session!Effects(table, redirects)
<1> DEFINE n == Len(redirects)
           S == SUBSET Session!Tables
           start == {table}
           Next1(T, i) == {Session!After(t, redirects[i]) :
                             t \in {u \in T : Session!Possible(u, redirects[i])}}
           step == [i \in 1..n |-> [T \in S |-> Next1(T, i)]]
           Walks(f) == f = [i \in 0..n |-> IF i = 0 THEN start ELSE Next1(f[i - 1], i)]
           at == CHOOSE f : Walks(f)
<1>1. n \in Nat /\ start \in S /\ \A i \in 1..n : redirects[i] \in RedirectionTypes
  OBVIOUS
<1>0. ASSUME NEW i \in 1..n, NEW T \in S
      PROVE  Next1(T, i) \in S
  BY <1>0, <1>1, AfterTyped
<1>2. step \in [1..n -> [S -> S]]
  <2> HIDE DEF S, Next1
  <2> QED
    BY <1>0
<1>3. PICK f : WalkOf(step, start, n, f) /\ \A i \in 0..n : f[i] \in S
  <2> HIDE DEF n, start, step, S
  <2> QED
    BY <1>1, <1>2, WalkExists
<1>4. Walks(f)
  <2>1. \A i \in 1..n : i - 1 \in 0..n /\ f[i - 1] \in S
    BY <1>1, <1>3
  <2>2. \A i \in 1..n : step[i][f[i - 1]] = Next1(f[i - 1], i)
    <3> HIDE DEF S, Next1
    <3> QED
      BY <2>1
  <2> HIDE DEF n, start, step, S, Next1
  <2> QED
    BY <1>1, <1>3, <2>2 DEF WalkOf
<1>5. Walks(at)
  <2> HIDE DEF Walks
  <2> QED
    BY <1>4
<1>6. \A i \in 1..n : at[i] = Next1(at[i - 1], i)
  <2> HIDE DEF n, start, at, Next1
  <2> QED
    BY <1>1, <1>5
<1>7. at[0] = start
  <2> HIDE DEF n, start, at, Next1
  <2> QED
    BY <1>1, <1>5
<1>8. Session!Effects(table, redirects) = UNION {at[i] : i \in 0..n}
  BY Zenon DEF Session!Effects
<1> HIDE DEF at
<1> QED
  BY <1>6, <1>7, <1>8 DEF Leading

(* Redirections that name nobody else's numbers have one of the effects    *)
(* that are promised, and disturb nobody.                                  *)
LEMMA RedirectsSound ==
    ASSUME NEW own, NEW ends, NEW table, Sound(table, own, ends),
           NEW redirects \in Seq(RedirectionTypes), Avoids(redirects, own, ends), NEW refused
    PROVE  LET after == ApplyRedirects(table, redirects, refused)
           IN /\ Sound(after.table, own, ends)
              /\ UserView(after.table) \in Session!Effects(UserView(table), redirects)
<1> DEFINE n == Len(redirects)
           view == UserView(table)
<1>0. table \in TableType /\ view \in Session!Tables
  BY ViewTyped DEF Sound
<1>1. n \in Nat /\ \A i \in 1..n :
        /\ redirects[i] \in RedirectionTypes
        /\ redirects[i].to \notin RangeOf(own) \cup RangeOf(ends)
        /\ redirects[i].op = "dup" => redirects[i].from \notin RangeOf(own) \cup RangeOf(ends)
  BY DEF Avoids, Targets, Sources
<1>2. PICK at : /\ Redirecting(at, table, redirects, refused)
                /\ ApplyRedirects(table, redirects, refused) = at[n]
  BY <1>0, RedirectsRun
<1>3. PICK lead : /\ Leading(lead, view, redirects)
                  /\ \A i \in 0..n : lead[i] \subseteq Session!Effects(view, redirects)
  BY <1>0, EffectsRun
<1> DEFINE Good(i) == /\ Sound(at[i].table, own, ends)
                      /\ UserView(at[i].table) \in Session!Effects(view, redirects)
                      /\ at[i].ok => UserView(at[i].table) \in lead[i]
           P == {i \in 0..n : Good(i)}
<1>4. 0 \in P
  <2>1. at[0].table = table
    BY <1>2 DEF Redirecting
  <2>2. view \in lead[0] /\ view \in Session!Effects(view, redirects)
    BY <1>1, <1>3 DEF Leading
  <2> HIDE DEF n, view
  <2> QED
    BY <1>1, <2>1, <2>2 DEF view
<1>5. ASSUME NEW i \in 1..n, i - 1 \in P
      PROVE  i \in P
  <2>1. at[i - 1] \in RedirectStates /\ i \in 0..n
    BY <1>1, <1>2 DEF Redirecting
  <2>2. at[i] = IF at[i - 1].ok THEN ApplyRedirect(at[i - 1], redirects[i], i = refused)
                ELSE at[i - 1]
    BY <1>2 DEF Redirecting
  <2>3. Good(i - 1)
    BY <1>5
  <2>4. CASE ~ at[i - 1].ok
    <3>1. at[i] = at[i - 1]
      BY <2>2, <2>4
    <3>2. Good(i)
      BY <2>3, <2>4, <3>1
    <3> QED
      BY <2>1, <3>2
  <2>5. CASE at[i - 1].ok
    <3>1. at[i] = ApplyRedirect(at[i - 1], redirects[i], i = refused)
      BY <2>2, <2>5
    <3>2. /\ Sound(at[i].table, own, ends)
          /\ at[i].ok => /\ Session!Possible(UserView(at[i - 1].table), redirects[i])
                         /\ UserView(at[i].table)
                              = Session!After(UserView(at[i - 1].table), redirects[i])
          /\ ~ at[i].ok => at[i].table = at[i - 1].table
      <4> HIDE DEF n
      <4> QED
        BY <1>1, <2>1, <2>3, <3>1, RedirectSound, RedirectFrame
    <3>3. CASE at[i].ok
      <4>1. UserView(at[i].table) \in lead[i]
        BY <1>3, <2>3, <2>5, <3>2, <3>3 DEF Leading
      <4>2. Good(i)
        BY <1>3, <2>1, <3>2, <4>1
      <4> QED
        BY <2>1, <4>2
    <3>4. CASE ~ at[i].ok
      <4>1. Good(i)
        BY <2>3, <3>2, <3>4
      <4> QED
        BY <2>1, <4>1
    <3> QED
      BY <3>3, <3>4
  <2> QED
    BY <2>4, <2>5
<1>6. n \in P
  <2>1. \A i \in 1..n : i - 1 \in P => i \in P
    BY <1>5
  <2> HIDE DEF n, P
  <2>2. \A i \in 0..n : i \in P
    BY <1>1, <1>4, <2>1, StepByStep
  <2> QED
    BY <1>1, <2>2
<1> QED
  BY <1>2, <1>6

------------------------------------------------------------------------------
(* A builtin borrows.                                                       *)

LEMMA AboveAll ==
    ASSUME NEW T \in SUBSET Fds
    PROVE  LET least == Max({2} \cup T) + 1
           IN least \in Nat /\ least >= 3 /\ \A fd \in T : fd < least
<1> DEFINE S == {2} \cup T
           f == [i \in S |-> i]
<1>1. S # {} /\ \A i \in S : f[i] \in 0..Limit + 2
  BY LimitAssumption DEF Fds
<1>2. PICK m \in S : \A j \in S : f[j] <= f[m]
  <2>1. Limit + 2 \in Nat
    BY LimitAssumption
  <2> HIDE DEF S, f
  <2> QED
    BY <1>1, <2>1, GreatestKey
<1>3. \A j \in S : j \in Nat /\ f[j] = j
  BY LimitAssumption DEF Fds
<1>4. Max(S) \in S /\ \A j \in S : Max(S) >= j
  <2>1. \A j \in S : m >= j
    BY <1>2, <1>3
  <2> HIDE DEF S
  <2> QED
    BY <2>1, Zenon DEF Max
<1>5. 2 \in S /\ T \subseteq S
  OBVIOUS
<1>6. /\ Max(S) + 1 \in Nat /\ Max(S) + 1 >= 3
      /\ \A fd \in T : fd < Max(S) + 1
  <2> HIDE DEF f, S
  <2> QED
    BY <1>3, <1>4, <1>5
<1> QED
  BY <1>6

Entries == [fd : Fds, at : Fds \cup {-1}]
SaveStates == [ok : BOOLEAN, table : TableType, saved : Seq(Entries)]

LEMMA SaveTyped ==
    ASSUME NEW s \in SaveStates, NEW fd \in Fds, NEW least \in Nat
    PROVE  SaveOne(s, fd, least) \in SaveStates
<1> DEFINE at == Min(Spare(s.table, least, {}))
<1>1. s.ok \in BOOLEAN /\ s.table \in TableType /\ s.saved \in Seq(Entries)
  BY DEF SaveStates
<1>2. CASE \E i \in DOMAIN s.saved : s.saved[i].fd = fd
  BY <1>2 DEF SaveOne
<1>3. CASE /\ ~ \E i \in DOMAIN s.saved : s.saved[i].fd = fd
           /\ ~ IsOpen(s.table, fd)
  <2>1. SaveOne(s, fd, least) = [s EXCEPT !.saved = Append(@, [fd |-> fd, at |-> -1])]
    BY <1>3 DEF SaveOne
  <2>2. Append(s.saved, [fd |-> fd, at |-> -1]) \in Seq(Entries)
    BY <1>1 DEF Entries
  <2> QED
    BY <2>1, <2>2 DEF SaveStates
<1>4. CASE /\ ~ \E i \in DOMAIN s.saved : s.saved[i].fd = fd
           /\ IsOpen(s.table, fd) /\ Spare(s.table, least, {}) = {}
  <2>1. SaveOne(s, fd, least)
          = [s EXCEPT !.ok = FALSE, !.table = Close(@, Copies(s.saved))]
    BY <1>4 DEF SaveOne
  <2>2. Close(s.table, Copies(s.saved)) \in TableType
    BY <1>1, ClosedTable
  <2> QED
    BY <2>1, <2>2 DEF SaveStates
<1>5. CASE /\ ~ \E i \in DOMAIN s.saved : s.saved[i].fd = fd
           /\ IsOpen(s.table, fd) /\ Spare(s.table, least, {}) # {}
  <2>1. SaveOne(s, fd, least) = [s EXCEPT !.table[at] = s.table[fd],
                                          !.saved = Append(@, [fd |-> fd, at |-> at])]
    BY <1>5 DEF SaveOne
  <2>2. at \in Fds
    BY <1>5, SpareLeast
  <2> HIDE DEF at
  <2>3. Append(s.saved, [fd |-> fd, at |-> at]) \in Seq(Entries)
    BY <1>1, <2>2 DEF Entries
  <2>4. [s.table EXCEPT ![at] = s.table[fd]] \in TableType
    BY <1>1, <2>2 DEF TableType
  <2> QED
    BY <2>1, <2>3, <2>4 DEF SaveStates
<1> QED
  BY <1>2, <1>3, <1>4, <1>5

LEMMA LeastSavedAbove ==
    ASSUME NEW redirects \in Seq(RedirectionTypes)
    PROVE  /\ LeastSaved(redirects) \in Nat /\ LeastSaved(redirects) >= 3
           /\ Targets(redirects) \in SUBSET Fds
           /\ \A fd \in Targets(redirects) : fd < LeastSaved(redirects)
<1>1. Targets(redirects) \in SUBSET Fds
  BY DEF Targets, RedirectionTypes
<1> QED
  BY <1>1, AboveAll DEF LeastSaved

\* The states that saving goes through.
Saving(at, table, redirects) ==
  /\ at[0] = [ok |-> TRUE, table |-> table, saved |-> <<>>]
  /\ \A i \in 0..Len(redirects) : at[i] \in SaveStates
  /\ \A i \in 1..Len(redirects) :
       at[i] = IF at[i - 1].ok THEN SaveOne(at[i - 1], redirects[i].to, LeastSaved(redirects)) ELSE at[i - 1]

LEMMA SaveRun ==
    ASSUME NEW table \in TableType, NEW redirects \in Seq(RedirectionTypes)
    PROVE  \E at : Saving(at, table, redirects) /\ Save(table, redirects) = at[Len(redirects)]
<1> DEFINE n == Len(redirects)
           start == [ok |-> TRUE, table |-> table, saved |-> <<>>]
           step == [i \in 1..n |-> [s \in SaveStates |-> IF s.ok THEN SaveOne(s, redirects[i].to, LeastSaved(redirects)) ELSE s]]
           Walks(f) == f = [i \in 0..n |-> IF i = 0 THEN start
                              ELSE IF f[i - 1].ok THEN SaveOne(f[i - 1], redirects[i].to, LeastSaved(redirects)) ELSE f[i - 1]]
           at == CHOOSE f : Walks(f)
<1>1. n \in Nat /\ start \in SaveStates /\ \A i \in 1..n : redirects[i].to \in Fds
  BY DEF SaveStates, RedirectionTypes
<1>0. \A i \in 1..n : \A s \in SaveStates : SaveOne(s, redirects[i].to, LeastSaved(redirects)) \in SaveStates
  BY <1>1, SaveTyped, LeastSavedAbove
<1>2. step \in [1..n -> [SaveStates -> SaveStates]]
  BY <1>0
<1>3. PICK f : WalkOf(step, start, n, f) /\ \A i \in 0..n : f[i] \in SaveStates
  <2> HIDE DEF n, start, step
  <2> QED
    BY <1>1, <1>2, WalkExists
<1>4. Walks(f)
  <2>1. \A i \in 1..n : i - 1 \in 0..n /\ f[i - 1] \in SaveStates
    BY <1>1, <1>3
  <2>2. \A i \in 1..n : step[i][f[i - 1]] = IF f[i - 1].ok THEN SaveOne(f[i - 1], redirects[i].to, LeastSaved(redirects)) ELSE f[i - 1]
    BY <2>1
  <2> HIDE DEF n, start, step
  <2> QED
    BY <1>1, <1>3, <2>2 DEF WalkOf
<1>5. Walks(at)
  <2> HIDE DEF Walks
  <2> QED
    BY <1>4
<1>6. \A i \in 1..n : at[i] = IF at[i - 1].ok THEN SaveOne(at[i - 1], redirects[i].to, LeastSaved(redirects)) ELSE at[i - 1]
  <2> HIDE DEF n, start, at
  <2> QED
    BY <1>1, <1>5
<1>7. at[0] = start
  <2> HIDE DEF n, start, at
  <2> QED
    BY <1>1, <1>5
<1>8. \A i \in 0..n : at[i] \in SaveStates
  <2> DEFINE P == {i \in 0..n : at[i] \in SaveStates}
  <2>1. 0 \in P
    <3> HIDE DEF n, start, at
    <3> QED
      BY <1>1, <1>7
  <2>2. ASSUME NEW i \in 1..n, i - 1 \in P
        PROVE  i \in P
    <3>1. at[i - 1] \in SaveStates /\ i \in 0..n
      BY <2>2
    <3> HIDE DEF n, start, at
    <3> QED
      BY <1>0, <1>6, <3>1
  <2>3. \A i \in 0..n : i \in P
    <3> HIDE DEF n, start, at, P
    <3> QED
      BY <1>1, <2>1, <2>2, StepByStep
  <2> QED
    BY <2>3
<1>9. Save(table, redirects) = at[Len(redirects)]
  BY Zenon DEF Save, Walk
<1> HIDE DEF at
<1> QED
  BY <1>6, <1>7, <1>8, <1>9 DEF Saving


\* What has been saved so far, of so many redirections.
Saved(s, table, redirects, n) ==
  LET m == Len(s.saved)
  IN /\ \A k \in 1..m : s.saved[k] \in Entries /\ s.saved[k].fd \in Targets(redirects)
     /\ \A k, l \in 1..m : s.saved[k].fd = s.saved[l].fd => k = l
     /\ \A k \in 1..m : s.saved[k].at = -1 => table[s.saved[k].fd] = Closed
     /\ \A k \in 1..m : s.saved[k].at # -1 =>
          /\ s.saved[k].at >= LeastSaved(redirects) /\ table[s.saved[k].at] = Closed
          /\ table[s.saved[k].fd] # Closed
          /\ s.table[s.saved[k].at] = table[s.saved[k].fd]
     /\ \A k, l \in 1..m : s.saved[k].at # -1 /\ s.saved[k].at = s.saved[l].at => k = l
     /\ \A fd \in Fds : (\A k \in 1..m : s.saved[k].at # fd) => s.table[fd] = table[fd]
     /\ \A j \in 1..n : \E k \in 1..m : s.saved[k].fd = redirects[j].to

LEMMA SaveOneKeeps ==
    ASSUME NEW table \in TableType, NEW redirects \in Seq(RedirectionTypes),
           NEW n \in 1..Len(redirects), NEW s \in SaveStates, s.ok,
           Saved(s, table, redirects, n - 1)
    PROVE  LET after == SaveOne(s, redirects[n].to, LeastSaved(redirects))
           IN IF after.ok THEN Saved(after, table, redirects, n) ELSE after.table = table
<1> DEFINE least == LeastSaved(redirects)
           fd == redirects[n].to
           at == Min(Spare(s.table, least, {}))
           after == SaveOne(s, fd, least)
<1>1. /\ s.ok \in BOOLEAN /\ s.table \in TableType /\ s.saved \in Seq(Entries)
      /\ fd \in Fds /\ fd \in Targets(redirects) /\ least \in Nat /\ fd < least
  BY LeastSavedAbove DEF SaveStates, RedirectionTypes, Targets
<1>2. CASE \E i \in DOMAIN s.saved : s.saved[i].fd = fd
  <2>1. after = s
    BY <1>2 DEF SaveOne
  <2>2. \A j \in 1..n : j \in 1..n - 1 \/ j = n
    OBVIOUS
  <2>3. \A j \in 1..n : \E k \in 1..Len(s.saved) : s.saved[k].fd = redirects[j].to
    <3>1. DOMAIN s.saved = 1..Len(s.saved)
      BY <1>1
    <3> QED
      BY <1>2, <2>2, <3>1 DEF Saved
  <2>4. Saved(s, table, redirects, n)
    BY <2>3 DEF Saved
  <2> QED
    BY <2>1, <2>4
<1>3. ASSUME NEW number \in Fds \cup {-1}, after.ok,
             ~ \E i \in DOMAIN s.saved : s.saved[i].fd = fd,
             after.saved = Append(s.saved, [fd |-> fd, at |-> number]),
             IF number = -1
             THEN table[fd] = Closed /\ after.table = s.table
             ELSE /\ number >= least /\ s.table[number] = Closed /\ s.table[fd] # Closed
                  /\ after.table = [s.table EXCEPT ![number] = s.table[fd]]
      PROVE  Saved(after, table, redirects, n)
  <2> DEFINE e == [fd |-> fd, at |-> number]
             m == Len(s.saved)
             old == s.saved
             new == after.saved
             t == after.table
  <2>1. /\ m \in Nat /\ DOMAIN old = 1..m /\ DOMAIN new = 1..m + 1
        /\ \A k \in 1..m : new[k] = old[k]
        /\ new[m + 1] = e
    <3>1. e \in Entries
      BY <1>1 DEF Entries
    <3>2. new = Append(old, e)
      BY <1>3
    <3>3. old \in Seq(Entries)
      BY <1>1
    <3>4. new \in Seq(Entries)
      BY <3>1, <3>2, <3>3, AppendProperties
    <3>5. Len(new) = m + 1
      BY <3>1, <3>2, <3>3, AppendProperties
    <3>6. \A k \in 1..m : new[k] = old[k]
      BY <3>1, <3>2, <3>3, AppendProperties
    <3>7. new[m + 1] = e
      BY <3>1, <3>2, <3>3, AppendProperties
    <3> HIDE DEF new, e
    <3> QED
      BY <1>1, <3>4, <3>5, <3>6, <3>7
  <2>2. e.fd = fd /\ e.at = number /\ e \in Entries
    BY <1>1 DEF Entries
  <2>3. /\ \A k \in 1..m : old[k] \in Entries /\ old[k].fd \in Targets(redirects) /\ old[k].fd # fd
        /\ \A k, l \in 1..m : old[k].fd = old[l].fd => k = l
        /\ \A k \in 1..m : old[k].at = -1 => table[old[k].fd] = Closed
        /\ \A k \in 1..m : old[k].at # -1 =>
             /\ old[k].at >= least /\ table[old[k].at] = Closed /\ table[old[k].fd] # Closed
             /\ s.table[old[k].at] = table[old[k].fd]
        /\ \A k, l \in 1..m : old[k].at # -1 /\ old[k].at = old[l].at => k = l
        /\ \A f \in Fds : (\A k \in 1..m : old[k].at # f) => s.table[f] = table[f]
        /\ \A j \in 1..n - 1 : \E k \in 1..m : old[k].fd = redirects[j].to
    <3>1. DOMAIN s.saved = 1..m
      BY <2>1
    <3>2. \A k \in 1..m : s.saved[k].fd # fd
      BY <1>3, <3>1
    <3> QED
      BY <3>2 DEF Saved
  <2>4. /\ number # -1 => \A k \in 1..m : old[k].at # number
        /\ s.table[fd] = table[fd]
        /\ number # -1 => table[number] = Closed /\ table[fd] # Closed
        /\ number # -1 => t[number] = table[fd]
        /\ \A f \in Fds : f # number => t[f] = s.table[f]
    <3>1. \A k \in 1..m : number # -1 => old[k].at # number
      <4>1. number # -1 => s.table[number] = Closed
        BY <1>3
      <4> HIDE DEF m, old
      <4> QED
        BY <2>3, <4>1, SMTT(30)
    <3>2. \A k \in 1..m : old[k].at # fd
      <4>1. \A k \in 1..m : old[k].at = -1 \/ old[k].at >= least
        BY <2>3
      <4>2. fd \in Nat /\ fd < least
        BY <1>1, LimitAssumption DEF Fds
      <4>3. \A k \in 1..m : old[k].at \in Fds \cup {-1}
        BY <2>3 DEF Entries
      <4> HIDE DEF fd, least, m, old
      <4> QED
        BY <1>1, <4>1, <4>2, <4>3, LimitAssumption DEF Fds
    <3>3. s.table[fd] = table[fd]
      BY <1>1, <2>3, <3>2
    <3>4. number # -1 => table[number] = s.table[number]
      BY <1>1, <2>3, <3>1
    <3>5. number # -1 => t = [s.table EXCEPT ![number] = s.table[fd]] /\ number \in Fds
      BY <1>3
    <3>6. number # -1 => t[number] = s.table[fd] /\ \A f \in Fds : f # number => t[f] = s.table[f]
      <4> HIDE DEF after, t
      <4> QED
        BY <1>1, <3>5 DEF TableType
    <3>7. number = -1 => t = s.table
      BY <1>3
    <3> HIDE DEF after, t
    <3> QED
      BY <1>3, <3>1, <3>3, <3>4, <3>6, <3>7
  <2>5. /\ \A k \in 1..m + 1 : new[k] \in Entries /\ new[k].fd \in Targets(redirects)
        /\ \A k, l \in 1..m + 1 : new[k].fd = new[l].fd => k = l
    <3>1. \A k \in 1..m + 1 : k \in 1..m \/ k = m + 1
      BY <2>1
    <3>2. new[m + 1].fd = fd /\ new[m + 1] \in Entries
      BY <2>1, <2>2
    <3>3. \A k \in 1..m : new[k] = old[k]
      BY <2>1
    <3>4. fd \in Targets(redirects)
      BY <1>1
    <3> HIDE DEF e, old, new, m, after, fd
    <3> QED
      BY <2>3, <3>1, <3>2, <3>3, <3>4
  <2>6. /\ \A k \in 1..m + 1 : new[k].at = -1 => table[new[k].fd] = Closed
        /\ \A k \in 1..m + 1 : new[k].at # -1 =>
             /\ new[k].at >= least /\ table[new[k].at] = Closed /\ table[new[k].fd] # Closed
             /\ t[new[k].at] = table[new[k].fd]
    <3>1. ASSUME NEW k \in 1..m, old[k].at # -1
          PROVE  t[old[k].at] = table[old[k].fd]
      <4>1. old[k].at \in Fds /\ old[k].at # number
        BY <2>3, <2>4, <3>1 DEF Entries
      <4> QED
        BY <2>3, <2>4, <3>1, <4>1
    <3>2. ASSUME NEW k \in 1..m + 1
          PROVE  k \in 1..m \/ k = m + 1
      BY <2>1
    <3>3. number = -1 => table[fd] = Closed
      BY <1>3
    <3>4. number # -1 => number >= least
      BY <1>3
    <3>5. ASSUME NEW k \in 1..m
          PROVE  /\ new[k].at = -1 => table[new[k].fd] = Closed
                 /\ new[k].at # -1 =>
                      /\ new[k].at >= least /\ table[new[k].at] = Closed
                      /\ table[new[k].fd] # Closed /\ t[new[k].at] = table[new[k].fd]
      <4>1. new[k] = old[k]
        BY <2>1
      <4> HIDE DEF e, old, new, m, after, t, least
      <4> QED
        BY <2>3, <3>1, <4>1
    <3>6. /\ new[m + 1].at = -1 => table[new[m + 1].fd] = Closed
          /\ new[m + 1].at # -1 =>
               /\ new[m + 1].at >= least /\ table[new[m + 1].at] = Closed
               /\ table[new[m + 1].fd] # Closed /\ t[new[m + 1].at] = table[new[m + 1].fd]
      <4>1. new[m + 1].fd = fd /\ new[m + 1].at = number
        BY <2>1, <2>2
      <4> HIDE DEF e, old, new, m, after, t, least, fd
      <4> QED
        BY <2>4, <3>3, <3>4, <4>1
    <3> HIDE DEF e, old, new, m, after, t, least
    <3> QED
      BY <3>2, <3>5, <3>6
  <2>7. \A k, l \in 1..m + 1 : new[k].at # -1 /\ new[k].at = new[l].at => k = l
    <3>1. \A k \in 1..m + 1 : k \in 1..m \/ k = m + 1
      BY <2>1
    <3> HIDE DEF e, old, new, m, after, t, least
    <3> QED
      BY <2>1, <2>2, <2>3, <2>4, <3>1
  <2>8. \A f \in Fds : (\A k \in 1..m + 1 : new[k].at # f) => t[f] = table[f]
    <3>1. 1..m \subseteq 1..m + 1 /\ m + 1 \in 1..m + 1
      BY <2>1
    <3> HIDE DEF e, old, new, m, after, t, least
    <3> QED
      BY <2>1, <2>2, <2>3, <2>4, <3>1
  <2>9. \A j \in 1..n : \E k \in 1..m + 1 : new[k].fd = redirects[j].to
    <3>1. 1..m \subseteq 1..m + 1 /\ m + 1 \in 1..m + 1
      BY <2>1
    <3>2. \A j \in 1..n : j \in 1..n - 1 \/ j = n
      OBVIOUS
    <3>3. ASSUME NEW j \in 1..n - 1
          PROVE  \E k \in 1..m + 1 : new[k].fd = redirects[j].to
      <4>1. PICK k \in 1..m : old[k].fd = redirects[j].to
        BY <2>3
      <4>2. new[k] = old[k]
        BY <2>1
      <4> HIDE DEF new, m, old
      <4> QED
        BY <3>1, <4>1, <4>2
    <3>4. new[m + 1].fd = redirects[n].to
      BY <2>1, <2>2
    <3>5. ASSUME NEW j \in 1..n
          PROVE  \E k \in 1..m + 1 : new[k].fd = redirects[j].to
      <4> HIDE DEF new, m
      <4> QED
        BY <3>1, <3>2, <3>3, <3>4, <3>5
    <3> QED
      BY <3>5
  <2>10. Len(new) = m + 1
    BY <1>1, <1>3
  <2> HIDE DEF e, old, after
  <2> QED
    BY <2>5, <2>6, <2>7, <2>8, <2>9, <2>10 DEF Saved
<1>4. CASE /\ ~ \E i \in DOMAIN s.saved : s.saved[i].fd = fd
           /\ ~ IsOpen(s.table, fd)
  <2>1. after = [s EXCEPT !.saved = Append(@, [fd |-> fd, at |-> -1])]
    BY <1>4 DEF SaveOne
  <2>2. \A k \in 1..Len(s.saved) : s.saved[k].at # fd
    <3>1. \A k \in 1..Len(s.saved) : s.saved[k].at = -1 \/ s.saved[k].at >= least
      BY DEF Saved
    <3>2. fd \in Nat /\ fd < least
      BY <1>1, LimitAssumption DEF Fds
    <3> HIDE DEF fd, least
    <3> QED
      BY <1>1, <3>1, <3>2
  <2>3. table[fd] = Closed
    BY <1>1, <1>4, <2>2 DEF Saved, IsOpen
  <2>4. after.ok = s.ok /\ after.table = s.table
        /\ after.saved = Append(s.saved, [fd |-> fd, at |-> -1])
    BY <2>1 DEF SaveStates
  <2>5. Saved(after, table, redirects, n)
    <3>1. /\ after.ok /\ ~ \E i \in DOMAIN s.saved : s.saved[i].fd = fd
          /\ table[fd] = Closed /\ after.table = s.table
          /\ after.saved = Append(s.saved, [fd |-> fd, at |-> -1]) /\ -1 \in Fds \cup {-1}
      BY <1>4, <2>3, <2>4
    <3> HIDE DEF after, fd, at, least
    <3> QED
      BY <1>3, <3>1
  <2> QED
    BY <2>4, <2>5
<1>5. CASE /\ ~ \E i \in DOMAIN s.saved : s.saved[i].fd = fd
           /\ IsOpen(s.table, fd) /\ Spare(s.table, least, {}) # {}
  <2>1. after = [s EXCEPT !.table[at] = s.table[fd],
                          !.saved = Append(@, [fd |-> fd, at |-> at])]
    BY <1>5 DEF SaveOne
  <2>2. at \in Fds /\ at >= least /\ s.table[at] = Closed /\ at # -1
    <3>1. at \in Fds /\ at >= least /\ s.table[at] = Closed
      BY <1>1, <1>5, SpareLeast
    <3> HIDE DEF at, least
    <3> QED
      BY <3>1 DEF Fds
  <2>3. after.ok /\ after.table = [s.table EXCEPT ![at] = s.table[fd]]
        /\ after.saved = Append(s.saved, [fd |-> fd, at |-> at])
    <3> HIDE DEF after, at
    <3> QED
      BY <2>1 DEF SaveStates
  <2>4. Saved(after, table, redirects, n)
    <3>1. /\ after.ok /\ ~ \E i \in DOMAIN s.saved : s.saved[i].fd = fd
          /\ at >= least /\ s.table[at] = Closed /\ s.table[fd] # Closed /\ at # -1
          /\ after.table = [s.table EXCEPT ![at] = s.table[fd]]
          /\ after.saved = Append(s.saved, [fd |-> fd, at |-> at]) /\ at \in Fds \cup {-1}
      BY <1>5, <2>2, <2>3 DEF IsOpen
    <3> HIDE DEF after, fd, at, least
    <3> QED
      BY <1>3, <3>1
  <2> QED
    BY <2>3, <2>4
<1>6. CASE /\ ~ \E i \in DOMAIN s.saved : s.saved[i].fd = fd
           /\ IsOpen(s.table, fd) /\ Spare(s.table, least, {}) = {}
  <2>1. after = [s EXCEPT !.ok = FALSE, !.table = Close(@, Copies(s.saved))]
    BY <1>6 DEF SaveOne
  <2>2. ~ after.ok /\ after.table = Close(s.table, Copies(s.saved))
    BY <2>1 DEF SaveStates
  <2>3. \A f \in Fds : f \in Copies(s.saved) => table[f] = Closed
    <3>1. \A k \in DOMAIN s.saved : s.saved[k].at \in Fds => table[s.saved[k].at] = Closed
      <4>1. DOMAIN s.saved = 1..Len(s.saved) /\ -1 \notin Fds
        BY <1>1, LimitAssumption DEF Fds
      <4> QED
        BY <4>1 DEF Saved
    <3> QED
      BY <3>1 DEF Copies
  <2>4. \A f \in Fds : f \notin Copies(s.saved) => s.table[f] = table[f]
    <3>1. DOMAIN s.saved = 1..Len(s.saved)
      BY <1>1
    <3>2. \A f \in Fds : (\A k \in 1..Len(s.saved) : s.saved[k].at # f) => s.table[f] = table[f]
      BY DEF Saved
    <3>3. \A f : f \notin Copies(s.saved) => \A k \in 1..Len(s.saved) : s.saved[k].at # f
      BY <3>1 DEF Copies
    <3> QED
      BY <3>2, <3>3
  <2>5. Close(s.table, Copies(s.saved)) = table
    BY <2>3, <2>4 DEF Close, TableType
  <2> QED
    BY <2>2, <2>5
<1> QED
  BY <1>2, <1>4, <1>5, <1>6

(* What is saved stays as it was; when saving fails nothing has changed.    *)
LEMMA SaveKeeps ==
    ASSUME NEW table \in TableType, NEW redirects \in Seq(RedirectionTypes)
    PROVE  LET saving == Save(table, redirects)
           IN /\ saving \in SaveStates
              /\ IF saving.ok THEN Saved(saving, table, redirects, Len(redirects))
                 ELSE saving.table = table
<1> DEFINE n == Len(redirects)
<1>1. n \in Nat /\ \A i \in 1..n : redirects[i] \in RedirectionTypes
  OBVIOUS
<1>2. PICK at : Saving(at, table, redirects) /\ Save(table, redirects) = at[n]
  BY SaveRun
<1> DEFINE Good(i) == IF at[i].ok THEN Saved(at[i], table, redirects, i) ELSE at[i].table = table
           P == {i \in 0..n : Good(i)}
<1>3. Good(0)
  <2>1. at[0].ok /\ at[0].table = table /\ at[0].saved = <<>> /\ Len(at[0].saved) = 0
    BY <1>2 DEF Saving
  <2> QED
    BY <2>1 DEF Saved
<1>4. ASSUME NEW i \in 1..n, i - 1 \in P
      PROVE  i \in P
  <2>1. at[i - 1] \in SaveStates /\ Good(i - 1)
    BY <1>1, <1>2, <1>4 DEF Saving
  <2>2. at[i] = IF at[i - 1].ok
                THEN SaveOne(at[i - 1], redirects[i].to, LeastSaved(redirects))
                ELSE at[i - 1]
    BY <1>2 DEF Saving
  <2>3. Good(i)
    <3>1. CASE at[i - 1].ok
      BY <2>1, <2>2, <3>1, SaveOneKeeps
    <3>2. CASE ~ at[i - 1].ok
      BY <2>1, <2>2, <3>2
    <3> QED
      BY <3>1, <3>2
  <2> QED
    BY <1>1, <2>3
<1>5. n \in P
  <2>1. 0 \in P /\ \A i \in 1..n : i - 1 \in P => i \in P
    BY <1>1, <1>3, <1>4
  <2> HIDE DEF n, P
  <2>2. \A i \in 0..n : i \in P
    BY <1>1, <2>1, StepByStep
  <2> QED
    BY <1>1, <2>2
<1>6. at[n] \in SaveStates
  BY <1>1, <1>2 DEF Saving
<1> QED
  BY <1>2, <1>5, <1>6

LEMMA RestoreTyped ==
    ASSUME NEW s \in RedirectStates, NEW e \in Entries
    PROVE  RestoreOne(s, e) \in RedirectStates
<1>1. s.table \in TableType
  BY DEF RedirectStates
<1>2. CASE e.at = -1
  BY <1>1, <1>2, ClosedTable DEF RestoreOne, RedirectStates
<1>3. CASE e.at # -1
  <2>1. e.fd \in Fds /\ e.at \in Fds
    BY <1>3 DEF Entries
  <2>2. [s.table EXCEPT ![e.fd] = s.table[e.at]] \in TableType
    BY <1>1, <2>1 DEF TableType
  <2> QED
    BY <1>3, <2>2, ClosedTable DEF RestoreOne, RedirectStates
<1> QED
  BY <1>2, <1>3

\* The states that restoring goes through.
Restoring(at, table, saved) ==
  /\ at[0] = [ok |-> TRUE, table |-> table]
  /\ \A i \in 0..Len(saved) : at[i] \in RedirectStates
  /\ \A i \in 1..Len(saved) :
       at[i] = IF at[i - 1].ok THEN RestoreOne(at[i - 1], saved[Len(saved) + 1 - i]) ELSE at[i - 1]

LEMMA RestoreRun ==
    ASSUME NEW table \in TableType, NEW saved \in Seq(Entries)
    PROVE  \E at : Restoring(at, table, saved) /\ Restore(table, saved) = at[Len(saved)].table
<1> DEFINE n == Len(saved)
           start == [ok |-> TRUE, table |-> table]
           step == [i \in 1..n |-> [s \in RedirectStates |-> IF s.ok THEN RestoreOne(s, saved[Len(saved) + 1 - i]) ELSE s]]
           Walks(f) == f = [i \in 0..n |-> IF i = 0 THEN start
                              ELSE IF f[i - 1].ok THEN RestoreOne(f[i - 1], saved[Len(saved) + 1 - i]) ELSE f[i - 1]]
           at == CHOOSE f : Walks(f)
<1>1. n \in Nat /\ start \in RedirectStates /\ \A i \in 1..n : saved[Len(saved) + 1 - i] \in Entries
  BY DEF RedirectStates
<1>0. \A i \in 1..n : \A s \in RedirectStates : RestoreOne(s, saved[Len(saved) + 1 - i]) \in RedirectStates
  BY <1>1, RestoreTyped
<1>2. step \in [1..n -> [RedirectStates -> RedirectStates]]
  BY <1>0
<1>3. PICK f : WalkOf(step, start, n, f) /\ \A i \in 0..n : f[i] \in RedirectStates
  <2> HIDE DEF n, start, step
  <2> QED
    BY <1>1, <1>2, WalkExists
<1>4. Walks(f)
  <2>1. \A i \in 1..n : i - 1 \in 0..n /\ f[i - 1] \in RedirectStates
    BY <1>1, <1>3
  <2>2. \A i \in 1..n : step[i][f[i - 1]] = IF f[i - 1].ok THEN RestoreOne(f[i - 1], saved[Len(saved) + 1 - i]) ELSE f[i - 1]
    BY <2>1
  <2> HIDE DEF n, start, step
  <2> QED
    BY <1>1, <1>3, <2>2 DEF WalkOf
<1>5. Walks(at)
  <2> HIDE DEF Walks
  <2> QED
    BY <1>4
<1>6. \A i \in 1..n : at[i] = IF at[i - 1].ok THEN RestoreOne(at[i - 1], saved[Len(saved) + 1 - i]) ELSE at[i - 1]
  <2> HIDE DEF n, start, at
  <2> QED
    BY <1>1, <1>5
<1>7. at[0] = start
  <2> HIDE DEF n, start, at
  <2> QED
    BY <1>1, <1>5
<1>8. \A i \in 0..n : at[i] \in RedirectStates
  <2> DEFINE P == {i \in 0..n : at[i] \in RedirectStates}
  <2>1. 0 \in P
    <3> HIDE DEF n, start, at
    <3> QED
      BY <1>1, <1>7
  <2>2. ASSUME NEW i \in 1..n, i - 1 \in P
        PROVE  i \in P
    <3>1. at[i - 1] \in RedirectStates /\ i \in 0..n
      BY <2>2
    <3> HIDE DEF n, start, at
    <3> QED
      BY <1>0, <1>6, <3>1
  <2>3. \A i \in 0..n : i \in P
    <3> HIDE DEF n, start, at, P
    <3> QED
      BY <1>1, <2>1, <2>2, StepByStep
  <2> QED
    BY <2>3
<1>9. Restore(table, saved) = at[Len(saved)].table
  BY Zenon DEF Restore, Walk
<1> HIDE DEF at
<1> QED
  BY <1>6, <1>7, <1>8, <1>9 DEF Restoring


(* A builtin leaves the descriptors as it found them.                       *)
LEMMA BorrowIsNothing ==
    ASSUME NEW table \in TableType, NEW redirects \in Seq(RedirectionTypes), NEW refused
    PROVE  Borrow(table, redirects, refused) = table
<1> DEFINE saving == Save(table, redirects)
           applied == ApplyRedirects(saving.table, redirects, refused)
           saved == saving.saved
           n == Len(saved)
<1>1. /\ saving \in SaveStates
      /\ IF saving.ok THEN Saved(saving, table, redirects, Len(redirects))
         ELSE saving.table = table
  BY SaveKeeps
<1>2. CASE ~ saving.ok
  BY <1>1, <1>2 DEF Borrow
<1>3. CASE saving.ok
  <2>1. saving.table \in TableType /\ saved \in Seq(Entries) /\ n \in Nat
    BY <1>1 DEF SaveStates
  <2> HIDE DEF saving
  <2>2. applied \in RedirectStates /\ applied.table \in TableType
        /\ \A fd \in Fds \ Targets(redirects) : applied.table[fd] = saving.table[fd]
    <3>1. applied \in RedirectStates
          /\ \A fd \in Fds \ Targets(redirects) : applied.table[fd] = saving.table[fd]
      BY <2>1, RedirectsFrame
    <3> QED
      BY <3>1 DEF RedirectStates
  <2> HIDE DEF applied
  <2>3. PICK at : Restoring(at, applied.table, saved) /\ Restore(applied.table, saved) = at[n].table
    BY <2>1, <2>2, RestoreRun
  <2>4. /\ \A k \in 1..n : /\ saved[k].fd \in Fds /\ saved[k].at \in Fds \cup {-1}
                           /\ saved[k].fd \in Targets(redirects)
                           /\ saved[k].fd < LeastSaved(redirects)
        /\ \A k, l \in 1..n : saved[k].fd = saved[l].fd => k = l
        /\ \A k \in 1..n : saved[k].at = -1 => table[saved[k].fd] = Closed
        /\ \A k \in 1..n : saved[k].at # -1 =>
             /\ saved[k].at >= LeastSaved(redirects) /\ table[saved[k].at] = Closed
             /\ saving.table[saved[k].at] = table[saved[k].fd]
        /\ \A k, l \in 1..n : saved[k].at # -1 /\ saved[k].at = saved[l].at => k = l
        /\ \A fd \in Fds : (\A k \in 1..n : saved[k].at # fd) => saving.table[fd] = table[fd]
        /\ \A fd \in Targets(redirects) : \E k \in 1..n : saved[k].fd = fd
    <3>1. \A fd \in Targets(redirects) : \E j \in 1..Len(redirects) : fd = redirects[j].to
      BY DEF Targets
    <3>2. Saved(saving, table, redirects, Len(redirects))
      BY <1>1, <1>3
    <3>3. \A fd \in Targets(redirects) : \E k \in 1..n : saved[k].fd = fd
      <4>1. \A j \in 1..Len(redirects) : \E k \in 1..n : saved[k].fd = redirects[j].to
        BY <3>2 DEF Saved
      <4> HIDE DEF n, saved
      <4> QED
        BY <3>1, <4>1
    <3>4. \A k \in 1..n : /\ saved[k].fd \in Fds /\ saved[k].at \in Fds \cup {-1}
                          /\ saved[k].fd \in Targets(redirects)
                          /\ saved[k].fd < LeastSaved(redirects)
      BY <3>2, LeastSavedAbove DEF Saved, Entries
    <3> QED
      BY <3>2, <3>3, <3>4 DEF Saved
  <2>5. \A k \in 1..n : saved[k].at \in Fds =>
             applied.table[saved[k].at] = table[saved[k].fd]
    <3>1. ASSUME NEW k \in 1..n, saved[k].at \in Fds
          PROVE  saved[k].at # -1 /\ saved[k].at \notin Targets(redirects)
      <4>1. \A fd \in Targets(redirects) : fd \in Int /\ fd < LeastSaved(redirects)
        BY LeastSavedAbove DEF Fds
      <4>2. saved[k].at # -1
        BY <3>1, LimitAssumption DEF Fds
      <4>3. saved[k].at >= LeastSaved(redirects)
        BY <2>4, <4>2
      <4> HIDE DEF n, saved
      <4> QED
        BY <3>1, <4>1, <4>2, <4>3, LeastSavedAbove, LimitAssumption DEF Fds
    <3> QED
      BY <2>2, <2>4, <3>1
  <2> DEFINE left(i) == 1..n - i
             done(i) == n - i + 1..n
             Good(i) == at[i].ok /\
               \A fd \in Fds :
                 IF \E k \in done(i) : saved[k].fd = fd \/ saved[k].at = fd
                 THEN at[i].table[fd] = table[fd] ELSE at[i].table[fd] = applied.table[fd]
             P == {i \in 0..n : Good(i)}
  <2>6. Good(0)
    <3>1. at[0].ok /\ at[0].table = applied.table /\ done(0) = {}
      BY <2>1, <2>3 DEF Restoring
    <3> QED
      BY <3>1
  <2>7. ASSUME NEW i \in 1..n, i - 1 \in P
        PROVE  i \in P
    <3> DEFINE k == n + 1 - i
               e == saved[k]
               s == at[i - 1]
               t == at[i].table
    <3>1. /\ k \in 1..n /\ e \in Entries /\ s \in RedirectStates /\ s.table \in TableType
          /\ Good(i - 1) /\ i \in 0..n
      <4>1. k \in 1..n /\ i - 1 \in 0..n
        BY <2>1
      <4>2. s \in RedirectStates
        BY <2>3, <4>1 DEF Restoring
      <4> QED
        BY <2>1, <2>7, <4>1, <4>2 DEF RedirectStates
    <3>2. done(i) = done(i - 1) \cup {k} /\ k \notin done(i - 1)
      BY <2>1
    <3>3. at[i] = RestoreOne(s, e)
      BY <2>3, <3>1 DEF Restoring
    <3>4. at[i].ok
      BY <3>1, <3>3 DEF RestoreOne, RedirectStates
    <3>5. CASE e.at = -1
      <4>1. t = Close(s.table, {e.fd})
        BY <3>1, <3>3, <3>5 DEF RestoreOne, RedirectStates
      <4>2. table[e.fd] = Closed
        BY <2>4, <3>1, <3>5
      <4>3. \A fd \in Fds : IF fd = e.fd THEN t[fd] = table[fd] ELSE t[fd] = s.table[fd]
        <5> HIDE DEF t, s, e
        <5> QED
          BY <4>1, <4>2 DEF Close
      <4>4. -1 \notin Fds
        BY LimitAssumption DEF Fds
      <4>5. \A fd \in Fds : (\E l \in done(i) : saved[l].fd = fd \/ saved[l].at = fd)
               <=> fd = e.fd \/ \E l \in done(i - 1) : saved[l].fd = fd \/ saved[l].at = fd
        <5> HIDE DEF done, k, saved
        <5> QED
          BY <3>2, <3>5, <4>4
      <4>6. Good(i)
        <5> HIDE DEF done, saved, t, s, e
        <5> QED
          BY <3>1, <3>4, <4>3, <4>5 DEF t, s
      <4> QED
        BY <3>1, <4>6
    <3>6. CASE e.at # -1
      <4>1. /\ e.fd \in Fds /\ e.at \in Fds /\ e.fd # e.at
            /\ e.at >= LeastSaved(redirects) /\ e.fd < LeastSaved(redirects)
        <5>1. /\ e.fd \in Fds /\ e.at \in Fds
              /\ e.at >= LeastSaved(redirects) /\ e.fd < LeastSaved(redirects)
          BY <2>4, <3>1, <3>6 DEF Entries
        <5> HIDE DEF e
        <5> QED
          BY <5>1, LeastSavedAbove, LimitAssumption DEF Fds
      <4>2. t = Close([s.table EXCEPT ![e.fd] = s.table[e.at]], {e.at})
        BY <3>1, <3>3, <3>6 DEF RestoreOne, RedirectStates
      <4>3. ~ \E l \in done(i - 1) : saved[l].fd = e.at \/ saved[l].at = e.at
        <5>1. \A l \in done(i - 1) : l \in 1..n /\ l # k
          BY <2>1, <3>2
        <5>2. ASSUME NEW l \in 1..n, l # k
              PROVE  saved[l].fd # e.at /\ saved[l].at # e.at
          <6>1. saved[l].at # saved[k].at
            BY <2>4, <3>1, <3>6, <5>2
          <6>2. saved[l].fd \in Fds /\ saved[l].fd < LeastSaved(redirects)
            BY <2>4
          <6>3. saved[l].fd # e.at
            <7> HIDE DEF e, saved, n
            <7> QED
              BY <4>1, <6>2, LeastSavedAbove, LimitAssumption DEF Fds
          <6> QED
            BY <6>1, <6>3
        <5> HIDE DEF done, k
        <5> QED
          BY <5>1, <5>2
      <4>4. s.table[e.at] = table[e.fd] /\ table[e.at] = Closed
        <5>1. s.table[e.at] = applied.table[e.at]
          BY <3>1, <4>1, <4>3
        <5> QED
          BY <2>4, <2>5, <3>1, <3>6, <4>1, <5>1
      <4>5. \A fd \in Fds : IF fd = e.fd \/ fd = e.at THEN t[fd] = table[fd] ELSE t[fd] = s.table[fd]
        <5>1. s.table \in [Fds -> Values]
          BY <3>1 DEF TableType
        <5> HIDE DEF t, s, e
        <5> QED
          BY <4>1, <4>2, <4>4, <5>1 DEF Close
      <4>6. \A fd \in Fds : (\E l \in done(i) : saved[l].fd = fd \/ saved[l].at = fd)
               <=> fd = e.fd \/ fd = e.at \/ \E l \in done(i - 1) : saved[l].fd = fd \/ saved[l].at = fd
        <5> HIDE DEF done, k, saved
        <5> QED
          BY <3>2, <3>6
      <4>7. Good(i)
        <5> HIDE DEF done, saved, t, s, e
        <5> QED
          BY <3>1, <3>4, <4>5, <4>6 DEF t, s
      <4> QED
        BY <3>1, <4>7
    <3> QED
      BY <3>5, <3>6
  <2>8. Good(n)
    <3>1. 0 \in P /\ \A i \in 1..n : i - 1 \in P => i \in P
      BY <2>1, <2>6, <2>7
    <3>2. n \in P
      <4> HIDE DEF n, P
      <4>1. \A i \in 0..n : i \in P
        BY <2>1, <3>1, StepByStep
      <4> QED
        BY <2>1, <4>1
    <3> QED
      BY <3>2
  <2>9. ASSUME NEW fd \in Fds
        PROVE  at[n].table[fd] = table[fd]
    <3>1. done(n) = 1..n
      BY <2>1
    <3>2. CASE \E k \in 1..n : saved[k].fd = fd \/ saved[k].at = fd
      BY <2>8, <3>1, <3>2
    <3>3. CASE ~ \E k \in 1..n : saved[k].fd = fd \/ saved[k].at = fd
      <4>1. fd \notin Targets(redirects)
        BY <2>4, <3>3
      <4>2. at[n].table[fd] = applied.table[fd]
        BY <2>8, <3>1, <3>3
      <4>3. saving.table[fd] = table[fd]
        BY <2>4, <3>3
      <4> QED
        BY <2>2, <4>1, <4>2, <4>3
    <3> QED
      BY <3>2, <3>3
  <2>10. at[n].table = table
    <3>1. at[n].table \in TableType
      BY <2>1, <2>3 DEF Restoring, RedirectStates
    <3> HIDE DEF n
    <3> QED
      BY <2>9, <3>1 DEF TableType
  <2>11. Borrow(table, redirects, refused) = Restore(applied.table, saved)
    BY <1>3 DEF Borrow, saving, applied
  <2> QED
    BY <2>3, <2>10, <2>11
<1> QED
  BY <1>2, <1>3
------------------------------------------------------------------------------
(* Out of the user's way.                                                   *)

MoveStates(D) == [ok : BOOLEAN, table : TableType, fds : [D -> Fds]]

LEMMA MoveTyped ==
    ASSUME NEW D, NEW s \in MoveStates(D), NEW key, NEW taken, NEW least \in Nat, NEW avoid
    PROVE  MoveOne(s, key, taken, least, avoid) \in MoveStates(D)
<1> DEFINE spare == Spare(s.table, least, avoid)
           at == Min(spare)
           after == MoveOne(s, key, taken, least, avoid)
<1>1. s.ok \in BOOLEAN /\ s.table \in TableType /\ s.fds \in [D -> Fds]
  BY DEF MoveStates
<1>2. CASE key \notin DOMAIN s.fds \/ s.fds[key] \notin taken
  BY <1>2 DEF MoveOne
<1>3. CASE ~ (key \notin DOMAIN s.fds \/ s.fds[key] \notin taken) /\ spare = {}
  BY <1>3 DEF MoveOne, MoveStates
<1>4. CASE ~ (key \notin DOMAIN s.fds \/ s.fds[key] \notin taken) /\ spare # {}
  <2>1. after = [s EXCEPT !.table = Move(@, s.fds[key], at), !.fds[key] = at]
    BY <1>4 DEF MoveOne
  <2>2. at \in Fds /\ key \in D /\ s.fds[key] \in Fds
    BY <1>1, <1>4, SpareLeast
  <2> HIDE DEF at, after
  <2>3. Move(s.table, s.fds[key], at) \in TableType
    <3>1. Closed \in Values
      BY DEF Values, Plain
    <3> QED
      BY <1>1, <2>2, <3>1 DEF Move, TableType
  <2>4. [s.fds EXCEPT ![key] = at] \in [D -> Fds]
    BY <1>1, <2>2
  <2>5. after \in MoveStates(D)
    BY <1>1, <2>1, <2>3, <2>4 DEF MoveStates
  <2> QED
    BY <2>5 DEF after
<1> QED
  BY <1>2, <1>3, <1>4

\* The states that moving goes through.
Moving(at, table, fds, keys, taken, least, avoid) ==
  /\ at[0] = [ok |-> TRUE, table |-> table, fds |-> fds]
  /\ \A i \in 0..Len(keys) : at[i] \in MoveStates(DOMAIN fds)
  /\ \A i \in 1..Len(keys) :
       at[i] = IF at[i - 1].ok THEN MoveOne(at[i - 1], keys[i], taken, least, avoid) ELSE at[i - 1]

LEMMA MoveRun ==
    ASSUME NEW table \in TableType, NEW D, NEW fds \in [D -> Fds], NEW K, NEW keys \in Seq(K),
           NEW taken, NEW least \in Nat, NEW avoid
    PROVE  \E at : Moving(at, table, fds, keys, taken, least, avoid) /\ MoveEach(table, fds, keys, taken, least, avoid) = at[Len(keys)]
<1> DEFINE n == Len(keys)
           start == [ok |-> TRUE, table |-> table, fds |-> fds]
           step == [i \in 1..n |-> [s \in MoveStates(DOMAIN fds) |-> IF s.ok THEN MoveOne(s, keys[i], taken, least, avoid) ELSE s]]
           Walks(f) == f = [i \in 0..n |-> IF i = 0 THEN start
                              ELSE IF f[i - 1].ok THEN MoveOne(f[i - 1], keys[i], taken, least, avoid) ELSE f[i - 1]]
           at == CHOOSE f : Walks(f)
<1>1. n \in Nat /\ start \in MoveStates(DOMAIN fds) /\ \A i \in 1..n : keys[i] \in K
  BY DEF MoveStates
<1>0. \A i \in 1..n : \A s \in MoveStates(DOMAIN fds) : MoveOne(s, keys[i], taken, least, avoid) \in MoveStates(DOMAIN fds)
  BY <1>1, MoveTyped
<1>2. step \in [1..n -> [MoveStates(DOMAIN fds) -> MoveStates(DOMAIN fds)]]
  BY <1>0
<1>3. PICK f : WalkOf(step, start, n, f) /\ \A i \in 0..n : f[i] \in MoveStates(DOMAIN fds)
  <2> HIDE DEF n, start, step
  <2> QED
    BY <1>1, <1>2, WalkExists
<1>4. Walks(f)
  <2>1. \A i \in 1..n : i - 1 \in 0..n /\ f[i - 1] \in MoveStates(DOMAIN fds)
    BY <1>1, <1>3
  <2>2. \A i \in 1..n : step[i][f[i - 1]] = IF f[i - 1].ok THEN MoveOne(f[i - 1], keys[i], taken, least, avoid) ELSE f[i - 1]
    BY <2>1
  <2> HIDE DEF n, start, step
  <2> QED
    BY <1>1, <1>3, <2>2 DEF WalkOf
<1>5. Walks(at)
  <2> HIDE DEF Walks
  <2> QED
    BY <1>4
<1>6. \A i \in 1..n : at[i] = IF at[i - 1].ok THEN MoveOne(at[i - 1], keys[i], taken, least, avoid) ELSE at[i - 1]
  <2> HIDE DEF n, start, at
  <2> QED
    BY <1>1, <1>5
<1>7. at[0] = start
  <2> HIDE DEF n, start, at
  <2> QED
    BY <1>1, <1>5
<1>8. \A i \in 0..n : at[i] \in MoveStates(DOMAIN fds)
  <2> DEFINE P == {i \in 0..n : at[i] \in MoveStates(DOMAIN fds)}
  <2>1. 0 \in P
    <3> HIDE DEF n, start, at
    <3> QED
      BY <1>1, <1>7
  <2>2. ASSUME NEW i \in 1..n, i - 1 \in P
        PROVE  i \in P
    <3>1. at[i - 1] \in MoveStates(DOMAIN fds) /\ i \in 0..n
      BY <2>2
    <3> HIDE DEF n, start, at
    <3> QED
      BY <1>0, <1>6, <3>1
  <2>3. \A i \in 0..n : i \in P
    <3> HIDE DEF n, start, at, P
    <3> QED
      BY <1>1, <2>1, <2>2, StepByStep
  <2> QED
    BY <2>3
<1>9. MoveEach(table, fds, keys, taken, least, avoid) = at[Len(keys)]
  BY Zenon DEF MoveEach, Walk
<1> HIDE DEF at
<1> QED
  BY <1>6, <1>7, <1>8, <1>9 DEF Moving


\* What has moved so far, and where to.
Moved(s, table, fds, taken, least, avoid) ==
  LET D == DOMAIN fds
  IN /\ \A k \in D : \/ s.fds[k] = fds[k]
                     \/ /\ fds[k] \in taken /\ s.fds[k] \notin taken /\ s.fds[k] \notin avoid
                        /\ s.fds[k] >= least /\ table[s.fds[k]] = Closed
     /\ \A k, l \in D : s.fds[k] = s.fds[l] => k = l
     /\ \A k \in D : s.table[s.fds[k]] = table[fds[k]]
     /\ \A fd \in Fds : (\A k \in D : fds[k] # fd /\ s.fds[k] # fd) => s.table[fd] = table[fd]
     /\ \A k \in D : (\A l \in D : s.fds[l] # fds[k]) => s.table[fds[k]] = Closed

\* What may be moved: numbers in use, and what is taken is no place to go.
Movable(table, fds, taken, least, avoid) ==
  /\ \A k \in DOMAIN fds : table[fds[k]] # Closed
  /\ \A k, l \in DOMAIN fds : fds[k] = fds[l] => k = l
  /\ \A fd \in Fds : fd \in taken => fd < least \/ fd \in avoid

LEMMA MoveOneKeeps ==
    ASSUME NEW table \in TableType, NEW D, NEW fds \in [D -> Fds],
           NEW taken, NEW least \in Nat, NEW avoid,
           Movable(table, fds, taken, least, avoid),
           NEW s \in MoveStates(D), Moved(s, table, fds, taken, least, avoid), NEW key
    PROVE  LET after == MoveOne(s, key, taken, least, avoid)
           IN /\ Moved(after, table, fds, taken, least, avoid)
              /\ after.ok /\ key \in D => after.fds[key] \notin taken
              /\ s.ok /\ after.ok => \A k \in D : s.fds[k] \notin taken => after.fds[k] \notin taken
<1> DEFINE spare == Spare(s.table, least, avoid)
           at == Min(spare)
           after == MoveOne(s, key, taken, least, avoid)
<1>1. s.ok \in BOOLEAN /\ s.table \in TableType /\ s.fds \in [D -> Fds]
  BY DEF MoveStates
<1>2. CASE key \notin DOMAIN s.fds \/ s.fds[key] \notin taken
  <2>1. after = s
    BY <1>2 DEF MoveOne
  <2> QED
    BY <1>1, <1>2, <2>1
<1>3. CASE ~ (key \notin DOMAIN s.fds \/ s.fds[key] \notin taken) /\ spare = {}
  <2>1. after = [s EXCEPT !.ok = FALSE]
    BY <1>3 DEF MoveOne
  <2>2. ~ after.ok /\ after.table = s.table /\ after.fds = s.fds
    BY <2>1 DEF MoveStates
  <2>3. Moved(after, table, fds, taken, least, avoid)
    BY <2>2 DEF Moved
  <2> QED
    BY <2>2, <2>3
<1>4. CASE ~ (key \notin DOMAIN s.fds \/ s.fds[key] \notin taken) /\ spare # {}
  <2> DEFINE from == s.fds[key]
  <2>1. after = [s EXCEPT !.table = Move(@, from, at), !.fds[key] = at]
    BY <1>4 DEF MoveOne
  <2>2. /\ key \in D /\ from \in Fds /\ from \in taken
        /\ at \in Fds /\ at >= least /\ at \notin avoid /\ s.table[at] = Closed
    BY <1>1, <1>4, SpareLeast
  <2> HIDE DEF at, after, spare
  <2>3. /\ after.ok = s.ok /\ after.fds = [s.fds EXCEPT ![key] = at]
        /\ after.table = [s.table EXCEPT ![at] = s.table[from], ![from] = Closed]
    BY <2>1 DEF MoveStates, Move
  <2>4. at \notin taken
    <3>1. \A fd \in Fds : fd \in taken => fd < least \/ fd \in avoid
      BY DEF Movable
    <3> HIDE DEF from
    <3> QED
      BY <2>2, <3>1, LimitAssumption DEF Fds
  <2>5. DOMAIN fds = D
    OBVIOUS
  <2>6. /\ from = fds[key] /\ s.table[from] # Closed /\ at # from
        /\ \A k \in D : s.fds[k] # at /\ s.table[s.fds[k]] # Closed
        /\ \A k \in D : k # key => s.fds[k] # from
    <3>1. from = fds[key]
      BY <2>2, <2>5 DEF Moved
    <3>2. \A k \in D : s.table[s.fds[k]] # Closed
      BY <2>5 DEF Moved, Movable
    <3>3. \A k \in D : s.fds[k] # at
      BY <2>2, <3>2
    <3>4. \A k \in D : k # key => s.fds[k] # from
      BY <2>2, <2>5 DEF Moved
    <3> QED
      BY <2>2, <3>1, <3>2, <3>3, <3>4
  <2>7. table[at] = Closed
    <3>1. CASE \E k \in D : fds[k] = at
      <4>1. PICK k \in D : fds[k] = at
        BY <3>1
      <4>2. fds[k] \notin taken
        BY <2>4, <4>1
      <4>3. s.fds[k] = fds[k]
        BY <2>5, <4>2 DEF Moved
      <4> QED
        BY <2>6, <4>1, <4>3
    <3>2. CASE ~ \E k \in D : fds[k] = at
      BY <2>2, <2>5, <2>6, <3>2 DEF Moved
    <3> QED
      BY <3>1, <3>2
  <2>8. /\ after.table[at] = s.table[from] /\ after.table[from] = Closed
        /\ \A fd \in Fds : fd # at /\ fd # from => after.table[fd] = s.table[fd]
        /\ after.fds[key] = at
        /\ \A k \in D : k # key => after.fds[k] = s.fds[k]
    <3>1. s.table \in [Fds -> Values]
      BY <1>1 DEF TableType
    <3> HIDE DEF from
    <3> QED
      BY <1>1, <2>2, <2>3, <2>6, <3>1
  <2> HIDE DEF from
  <2>9. \A k \in D : \/ after.fds[k] = fds[k]
                     \/ /\ fds[k] \in taken /\ after.fds[k] \notin taken /\ after.fds[k] \notin avoid
                        /\ after.fds[k] >= least /\ table[after.fds[k]] = Closed
    <3>1. ASSUME NEW k \in D
          PROVE  \/ after.fds[k] = fds[k]
                 \/ /\ fds[k] \in taken /\ after.fds[k] \notin taken /\ after.fds[k] \notin avoid
                    /\ after.fds[k] >= least /\ table[after.fds[k]] = Closed
      <4>1. CASE k = key
        BY <2>2, <2>4, <2>6, <2>7, <2>8, <4>1
      <4>2. CASE k # key
        BY <2>5, <2>8, <4>2 DEF Moved
      <4> QED
        BY <4>1, <4>2
    <3> QED
      BY <3>1
  <2>10. \A k, l \in D : after.fds[k] = after.fds[l] => k = l
    <3>1. \A k, l \in D : s.fds[k] = s.fds[l] => k = l
      BY <2>5 DEF Moved
    <3> QED
      BY <2>6, <2>8, <3>1
  <2>11. \A k \in D : after.table[after.fds[k]] = table[fds[k]]
    <3>1. \A k \in D : s.table[s.fds[k]] = table[fds[k]] /\ s.fds[k] \in Fds
      BY <1>1, <2>5 DEF Moved
    <3>2. s.fds[key] = from
      BY DEF from
    <3> QED
      BY <2>2, <2>6, <2>8, <3>1, <3>2
  <2>12. ASSUME NEW fd \in Fds, \A k \in D : fds[k] # fd /\ after.fds[k] # fd
         PROVE  after.table[fd] = table[fd]
    <3>1. fd # at /\ fd # from
      BY <2>2, <2>6, <2>8, <2>12
    <3>2. \A k \in D : fds[k] # fd /\ s.fds[k] # fd
      BY <2>6, <2>8, <2>12, <3>1 DEF from
    <3> QED
      BY <2>5, <2>8, <3>1, <3>2 DEF Moved
  <2>13. ASSUME NEW k \in D, \A l \in D : after.fds[l] # fds[k]
         PROVE  after.table[fds[k]] = Closed
    <3>1. fds[k] # at /\ fds[k] \in Fds
      BY <2>2, <2>8, <2>13
    <3>2. CASE fds[k] = from
      BY <2>8, <3>2
    <3>3. CASE fds[k] # from
      <4>1. \A l \in D : s.fds[l] # fds[k]
        BY <2>8, <2>13, <3>3 DEF from
      <4>2. s.table[fds[k]] = Closed
        BY <2>5, <4>1 DEF Moved
      <4> QED
        BY <2>8, <3>1, <3>3, <4>2
    <3> QED
      BY <3>2, <3>3
  <2>14. Moved(after, table, fds, taken, least, avoid)
    BY <2>5, <2>9, <2>10, <2>11, <2>12, <2>13 DEF Moved
  <2>15. /\ after.fds[key] \notin taken
         /\ \A k \in D : s.fds[k] \notin taken => after.fds[k] \notin taken
    BY <2>4, <2>8
  <2> QED
    BY <2>14, <2>15 DEF after
<1> QED
  BY <1>2, <1>3, <1>4

(* What is among the taken goes elsewhere; the others stay, and nothing of  *)
(* anyone else's is touched.                                                *)
LEMMA MoveKeeps ==
    ASSUME NEW table \in TableType, NEW D, NEW fds \in [D -> Fds], NEW K, NEW keys \in Seq(K),
           NEW taken, NEW least \in Nat, NEW avoid,
           Movable(table, fds, taken, least, avoid)
    PROVE  LET after == MoveEach(table, fds, keys, taken, least, avoid)
           IN /\ after \in MoveStates(D)
              /\ Moved(after, table, fds, taken, least, avoid)
              /\ after.ok => \A j \in 1..Len(keys) :
                               keys[j] \in D => after.fds[keys[j]] \notin taken
<1> DEFINE n == Len(keys)
<1>1. n \in Nat /\ \A i \in 1..n : keys[i] \in K
  OBVIOUS
<1>2. PICK at : /\ Moving(at, table, fds, keys, taken, least, avoid)
                /\ MoveEach(table, fds, keys, taken, least, avoid) = at[n]
  BY MoveRun
<1>3. \A i \in 0..n : at[i] \in MoveStates(D)
  BY <1>2 DEF Moving
<1> DEFINE Good(i) == /\ Moved(at[i], table, fds, taken, least, avoid)
                      /\ at[i].ok => \A j \in 1..i : keys[j] \in D => at[i].fds[keys[j]] \notin taken
           P == {i \in 0..n : Good(i)}
<1>4. Good(0)
  <2>1. at[0].table = table /\ at[0].fds = fds
    BY <1>2 DEF Moving
  <2>2. \A k, l \in DOMAIN fds : fds[k] = fds[l] => k = l
    BY DEF Movable
  <2>3. Moved(at[0], table, fds, taken, least, avoid)
    BY <2>1, <2>2 DEF Moved
  <2> QED
    BY <2>3
<1>5. ASSUME NEW i \in 1..n, i - 1 \in P
      PROVE  i \in P
  <2>1. i \in 0..n /\ i - 1 \in 0..n /\ Good(i - 1) /\ at[i - 1] \in MoveStates(D)
    BY <1>1, <1>3, <1>5
  <2>2. at[i] = IF at[i - 1].ok THEN MoveOne(at[i - 1], keys[i], taken, least, avoid)
                ELSE at[i - 1]
    BY <1>2 DEF Moving
  <2>3. CASE ~ at[i - 1].ok
    BY <2>1, <2>2, <2>3
  <2>4. CASE at[i - 1].ok
    <3>1. at[i] = MoveOne(at[i - 1], keys[i], taken, least, avoid)
      BY <2>2, <2>4
    <3>2. /\ Moved(at[i], table, fds, taken, least, avoid)
          /\ at[i].ok /\ keys[i] \in D => at[i].fds[keys[i]] \notin taken
          /\ at[i].ok => \A k \in D : at[i - 1].fds[k] \notin taken => at[i].fds[k] \notin taken
      <4>1. Moved(at[i - 1], table, fds, taken, least, avoid)
        BY <2>1
      <4> HIDE DEF n, P, Good
      <4> QED
        BY <2>1, <2>4, <3>1, <4>1, MoveOneKeeps
    <3>3. at[i].ok => \A j \in 1..i : keys[j] \in D => at[i].fds[keys[j]] \notin taken
      <4>1. \A j \in 1..i : j \in 1..i - 1 \/ j = i
        OBVIOUS
      <4> QED
        BY <2>1, <2>4, <3>2, <4>1
    <3> QED
      BY <2>1, <3>2, <3>3
  <2> QED
    BY <2>3, <2>4
<1>6. n \in P
  <2>1. 0 \in P /\ \A i \in 1..n : i - 1 \in P => i \in P
    BY <1>1, <1>4, <1>5
  <2> HIDE DEF n, P
  <2>2. \A i \in 0..n : i \in P
    BY <1>1, <2>1, StepByStep
  <2> QED
    BY <1>1, <2>2
<1> QED
  BY <1>1, <1>2, <1>3, <1>6

(* What a move leaves alone.                                                *)
LEMMA MovedFrame ==
    ASSUME NEW table \in TableType, NEW D, NEW fds \in [D -> Fds],
           NEW taken, NEW least, NEW avoid, NEW s \in MoveStates(D),
           Moved(s, table, fds, taken, least, avoid)
    PROVE  /\ \A fd \in Fds : fd \notin RangeOf(fds) /\ table[fd] # Closed =>
                s.table[fd] = table[fd] /\ fd \notin RangeOf(s.fds)
           /\ \A fd \in Fds : \/ s.table[fd] = table[fd] /\ fd \notin RangeOf(s.fds)
                              \/ \E k \in D : fd = s.fds[k] /\ s.table[fd] = table[fds[k]]
                              \/ /\ fd \in RangeOf(fds) \ RangeOf(s.fds)
                                 /\ s.table[fd] = Closed
           /\ \A fd \in RangeOf(s.fds) : fd \in RangeOf(fds) \/ table[fd] = Closed
           /\ s.table \in TableType
<1>1. s.table \in TableType /\ s.fds \in [D -> Fds] /\ DOMAIN fds = D
  BY DEF MoveStates
<1>2. \A fd \in RangeOf(s.fds) : fd \in RangeOf(fds) \/ table[fd] = Closed
  BY <1>1 DEF Moved, RangeOf
<1>3. ASSUME NEW fd \in Fds
      PROVE  \/ s.table[fd] = table[fd] /\ fd \notin RangeOf(s.fds)
             \/ \E k \in D : fd = s.fds[k] /\ s.table[fd] = table[fds[k]]
             \/ fd \in RangeOf(fds) \ RangeOf(s.fds) /\ s.table[fd] = Closed
  <2>1. CASE \E k \in D : fd = s.fds[k]
    BY <1>1, <2>1 DEF Moved
  <2>2. CASE (~ \E k \in D : fd = s.fds[k]) /\ \E k \in D : fd = fds[k]
    <3>1. PICK k \in D : fd = fds[k]
      BY <2>2
    <3>2. s.table[fds[k]] = Closed
      BY <1>1, <2>2, <3>1 DEF Moved
    <3> QED
      BY <1>1, <2>2, <3>1, <3>2 DEF RangeOf
  <2>3. CASE (~ \E k \in D : fd = s.fds[k]) /\ ~ \E k \in D : fd = fds[k]
    BY <1>1, <2>3 DEF Moved, RangeOf
  <2> QED
    BY <2>1, <2>2, <2>3
<1>4. ASSUME NEW fd \in Fds, fd \notin RangeOf(fds), table[fd] # Closed
      PROVE  s.table[fd] = table[fd] /\ fd \notin RangeOf(s.fds)
  <2>1. fd \notin RangeOf(s.fds)
    BY <1>2, <1>4
  <2> QED
    BY <1>1, <1>3, <1>4, <2>1 DEF RangeOf
<1> QED
  BY <1>1, <1>2, <1>3, <1>4

LEMMA MovedView ==
    ASSUME NEW table \in TableType, NEW D, NEW fds \in [D -> Fds],
           NEW taken, NEW least, NEW avoid, NEW s \in MoveStates(D),
           Moved(s, table, fds, taken, least, avoid),
           \A k \in D : table[fds[k]] \notin Files
    PROVE  UserView(s.table) = UserView(table)
<1>1. ASSUME NEW fd \in Fds
      PROVE  \/ s.table[fd] = table[fd]
             \/ s.table[fd] \notin Files /\ table[fd] \notin Files
  <2>1. /\ \/ s.table[fd] = table[fd]
           \/ \E k \in D : fd = s.fds[k] /\ s.table[fd] = table[fds[k]]
           \/ fd \in RangeOf(fds) \ RangeOf(s.fds) /\ s.table[fd] = Closed
        /\ \A x \in RangeOf(s.fds) : x \in RangeOf(fds) \/ table[x] = Closed
    BY MovedFrame
  <2>2. s.fds \in [D -> Fds]
    BY DEF MoveStates
  <2> QED
    BY <2>1, <2>2, NamesDiffer DEF RangeOf
<1> QED
  BY <1>1 DEF UserView

LEMMA SoundMovable ==
    ASSUME NEW table, NEW own, NEW ends, Sound(table, own, ends),
           NEW taken, NEW least, NEW avoid,
           \A fd \in Fds : fd \in taken => fd < least \/ fd \in avoid
    PROVE  /\ Movable(table, own, taken, least, avoid)
           /\ Movable(table, ends, taken, least, avoid)
BY NamesDiffer DEF Sound, Movable

(* The reactor's own numbers move, and everybody keeps what is his.         *)
LEMMA OwnMoved ==
    ASSUME NEW table, NEW D \in SUBSET AnyName, NEW own \in [D -> Fds],
           NEW ends, Sound(table, own, ends),
           NEW taken, NEW least, NEW avoid, NEW s \in MoveStates(D),
           Moved(s, table, own, taken, least, avoid)
    PROVE  Sound(s.table, s.fds, ends) /\ UserView(s.table) = UserView(table)
<1>1. table \in TableType /\ s.fds \in [D -> Fds]
  BY DEF Sound, MoveStates
<1>2. /\ \A fd \in Fds : fd \notin RangeOf(own) /\ table[fd] # Closed => s.table[fd] = table[fd]
      /\ \A fd \in Fds : \/ s.table[fd] = table[fd] /\ fd \notin RangeOf(s.fds)
                         \/ \E k \in D : fd = s.fds[k] /\ s.table[fd] = table[own[k]]
                         \/ fd \in RangeOf(own) \ RangeOf(s.fds) /\ s.table[fd] = Closed
      /\ s.table \in TableType
  BY <1>1, MovedFrame
<1>3. \A name \in D : table[own[name]] = Own(name)
  BY DEF Sound
<1>4. UserView(s.table) = UserView(table)
  <2>1. \A k \in D : table[own[k]] \notin Files
    BY <1>3, NamesDiffer DEF Plain
  <2> QED
    BY <1>1, <2>1, MovedView
<1>5. \A name \in D : s.table[s.fds[name]] = Own(name)
  BY <1>3 DEF Moved
<1>6. ASSUME NEW channel \in DOMAIN ends
      PROVE  ends[channel] \in Fds /\ s.table[ends[channel]] = End(channel)
  <2>1. ends[channel] \in Fds /\ table[ends[channel]] = End(channel)
    BY DEF Sound
  <2>2. ends[channel] \notin RangeOf(own)
    BY <1>3, <2>1, NamesDiffer DEF RangeOf
  <2> QED
    BY <1>2, <2>1, <2>2, NamesDiffer
<1>7. ASSUME NEW fd \in Fds
      PROVE  s.table[fd] \in Plain \/ fd \in RangeOf(s.fds) \/ fd \in RangeOf(ends)
  <2>1. CASE fd \in RangeOf(s.fds)
    BY <2>1
  <2>2. CASE s.table[fd] = Closed
    BY <2>2 DEF Plain
  <2>3. CASE s.table[fd] = table[fd] /\ s.table[fd] # Closed /\ fd \notin RangeOf(s.fds)
    <3>1. CASE fd \in RangeOf(own)
      <4>1. PICK name \in D : fd = own[name]
        BY <3>1 DEF RangeOf
      <4>2. s.fds[name] # fd /\ s.fds[name] \in Fds
        BY <1>1, <2>3 DEF RangeOf
      <4>3. \E k \in D : s.fds[k] = own[name]
        BY <2>3, <4>1 DEF Moved
      <4> QED
        BY <1>1, <2>3, <4>1, <4>3 DEF RangeOf
    <3>2. CASE fd \notin RangeOf(own)
      BY <2>3, <3>2 DEF Sound
    <3> QED
      BY <3>1, <3>2
  <2> QED
    BY <1>1, <1>2, <2>1, <2>2, <2>3 DEF RangeOf
<1> QED
  BY <1>1, <1>2, <1>4, <1>5, <1>6, <1>7 DEF Sound

(* So do an evaluator's ends of its channels.                               *)
LEMMA EndsMoved ==
    ASSUME NEW table, NEW D \in SUBSET ChannelNames, NEW ends \in [D -> Fds],
           NEW own, Sound(table, own, ends), 
           NEW taken, NEW least, NEW avoid, NEW s \in MoveStates(D),
           Moved(s, table, ends, taken, least, avoid)
    PROVE  Sound(s.table, own, s.fds) /\ UserView(s.table) = UserView(table)
<1>1. table \in TableType /\ s.fds \in [D -> Fds]
  BY DEF Sound, MoveStates
<1>2. /\ \A fd \in Fds : fd \notin RangeOf(ends) /\ table[fd] # Closed => s.table[fd] = table[fd]
      /\ \A fd \in Fds : \/ s.table[fd] = table[fd] /\ fd \notin RangeOf(s.fds)
                         \/ \E k \in D : fd = s.fds[k] /\ s.table[fd] = table[ends[k]]
                         \/ fd \in RangeOf(ends) \ RangeOf(s.fds) /\ s.table[fd] = Closed
      /\ s.table \in TableType
  BY <1>1, MovedFrame
<1>3. \A channel \in D : table[ends[channel]] = End(channel)
  BY DEF Sound
<1>4. UserView(s.table) = UserView(table)
  <2>1. \A k \in D : table[ends[k]] \notin Files
    BY <1>3, NamesDiffer DEF Plain
  <2> QED
    BY <1>1, <2>1, MovedView
<1>5. \A channel \in D : s.table[s.fds[channel]] = End(channel)
  BY <1>3 DEF Moved
<1>6. ASSUME NEW name \in DOMAIN own
      PROVE  own[name] \in Fds /\ s.table[own[name]] = Own(name)
  <2>1. own[name] \in Fds /\ table[own[name]] = Own(name)
    BY DEF Sound
  <2>2. own[name] \notin RangeOf(ends)
    BY <1>3, <2>1, NamesDiffer DEF RangeOf
  <2> QED
    BY <1>2, <2>1, <2>2, NamesDiffer
<1>7. ASSUME NEW fd \in Fds
      PROVE  s.table[fd] \in Plain \/ fd \in RangeOf(own) \/ fd \in RangeOf(s.fds)
  <2>1. CASE fd \in RangeOf(s.fds)
    BY <2>1
  <2>2. CASE s.table[fd] = Closed
    BY <2>2 DEF Plain
  <2>3. CASE s.table[fd] = table[fd] /\ s.table[fd] # Closed /\ fd \notin RangeOf(s.fds)
    <3>1. CASE fd \in RangeOf(ends)
      <4>1. PICK channel \in D : fd = ends[channel]
        BY <3>1 DEF RangeOf
      <4>2. \E k \in D : s.fds[k] = ends[channel]
        BY <2>3, <4>1 DEF Moved
      <4> QED
        BY <1>1, <2>3, <4>1, <4>2 DEF RangeOf
    <3>2. CASE fd \notin RangeOf(ends)
      BY <2>3, <3>2 DEF Sound
    <3> QED
      BY <3>1, <3>2
  <2> QED
    BY <1>1, <1>2, <2>1, <2>2, <2>3 DEF RangeOf
<1> QED
  BY <1>1, <1>2, <1>4, <1>5, <1>6, <1>7 DEF Sound

\* What protecting promises of a table.
Guarded(safe, table, own, targets) ==
  /\ safe.held \in [DOMAIN own -> Fds] /\ safe.ok \in BOOLEAN
  /\ Sound(safe.table, safe.held, <<>>)
  /\ UserView(safe.table) = UserView(table)
  /\ \A fd \in Fds : fd \notin RangeOf(own) /\ table[fd] # Closed => safe.table[fd] = table[fd]
  /\ safe.ok => RangeOf(safe.held) \cap targets = {}

(* Protecting keeps the reactor's own in use and shows the user no change;  *)
(* when it succeeds none of it is a target.                                 *)
LEMMA ProtectKeeps ==
    ASSUME NEW table, NEW D \in SUBSET Names, NEW own \in [D -> Fds],
           Sound(table, own, <<>>), NEW targets \in SUBSET Fds
    PROVE  Guarded(ProtectOwner(table, own, targets), table, own, targets)
<1> DEFINE least == LeastOwn(targets)
           moved == MoveEach(table, own, OwnOrder, targets, least, {})
           safe == ProtectOwner(table, own, targets)
<1>1. least \in Nat /\ \A fd \in targets : fd < least
  BY AboveAll DEF LeastOwn
<1>2. table \in TableType /\ DOMAIN own = D
  BY DEF Sound
<1>3. OwnOrder \in Seq(Names) /\ \A name \in Names : \E j \in 1..Len(OwnOrder) : OwnOrder[j] = name
  <2>1. OwnOrder \in Seq(Names)
    BY DEF OwnOrder, Names
  <2>2. DOMAIN OwnOrder = 1..Len(OwnOrder)
    BY <2>1
  <2> HIDE DEF OwnOrder
  <2> QED
    BY <2>1, <2>2 DEF Names
<1>4. Movable(table, own, targets, least, {})
  <2> HIDE DEF least
  <2> QED
    BY <1>1, SoundMovable
<1>5. /\ moved \in MoveStates(D)
      /\ Moved(moved, table, own, targets, least, {})
      /\ moved.ok => \A j \in 1..Len(OwnOrder) :
                       OwnOrder[j] \in D => moved.fds[OwnOrder[j]] \notin targets
  <2> HIDE DEF least
  <2> QED
    BY <1>1, <1>2, <1>3, <1>4, MoveKeeps
<1>6. safe.ok = moved.ok /\ safe.table = moved.table /\ safe.held = moved.fds
  BY DEF ProtectOwner
<1> HIDE DEF moved, safe, least
<1>7. Sound(moved.table, moved.fds, <<>>) /\ UserView(moved.table) = UserView(table)
  <2>1. D \in SUBSET AnyName
    BY DEF AnyName
  <2> QED
    BY <1>2, <1>5, <2>1, OwnMoved
<1>8. \A fd \in Fds : fd \notin RangeOf(own) /\ table[fd] # Closed => moved.table[fd] = table[fd]
  BY <1>2, <1>5, MovedFrame
<1>9. moved.ok => RangeOf(moved.fds) \cap targets = {}
  <2>1. \A name \in D : \E j \in 1..Len(OwnOrder) : OwnOrder[j] = name
    BY <1>3
  <2>2. moved.fds \in [D -> Fds]
    BY <1>5 DEF MoveStates
  <2> QED
    BY <1>5, <2>1, <2>2 DEF RangeOf
<1>10. moved.ok \in BOOLEAN /\ moved.fds \in [D -> Fds]
  BY <1>5 DEF MoveStates
<1> QED
  BY <1>2, <1>6, <1>7, <1>8, <1>9, <1>10 DEF safe, Guarded

------------------------------------------------------------------------------
(* Channels.                                                                *)

LEMMA WithNumbers ==
    ASSUME NEW D, NEW own \in Numbers(D), NEW name \in D, NEW fd \in Fds
    PROVE  /\ With(own, name, fd) \in Numbers(D)
           /\ DOMAIN With(own, name, fd) = DOMAIN own \cup {name}
           /\ With(own, name, fd)[name] = fd
           /\ \A n \in DOMAIN own : n # name => With(own, name, fd)[n] = own[n]
           /\ \A n \in DOMAIN own : own[n] \in Fds
           /\ DOMAIN own \subseteq D
<1>1. PICK S \in SUBSET D : own \in [S -> Fds]
  BY DEF Numbers
<1>2. With(own, name, fd) \in [S \cup {name} -> Fds]
  BY <1>1 DEF With
<1>3. S \cup {name} \in SUBSET D
  BY <1>1
<1> QED
  BY <1>1, <1>2, <1>3 DEF Numbers, With

\* The two lowest numbers that are not in use.
LEMMA PairOfSpares ==
    ASSUME NEW table, Spare(table, 0, {}) # {}, Spare(table, 0, {}) # {Min(Spare(table, 0, {}))}
    PROVE  LET low == Min(Spare(table, 0, {}))
               high == Min(Spare(table, 0, {}) \ {low})
           IN /\ low \in Fds /\ high \in Fds /\ low < high
              /\ table[low] = Closed /\ table[high] = Closed
              /\ \A fd \in 0..high : fd # low /\ fd # high => table[fd] # Closed
<1> DEFINE low == Min(Spare(table, 0, {}))
           high == Min(Spare(table, 0, {}) \ {low})
<1>1. /\ low \in Fds /\ low >= 0 /\ table[low] = Closed
      /\ \A fd \in 0..low - 1 : table[fd] # Closed
  BY SpareLeast
<1>2. Spare(table, 0, {}) \ {low} = Spare(table, 0, {low})
  BY DEF Spare
<1>3. Spare(table, 0, {low}) # {}
  BY <1>2
<1>4. high = Min(Spare(table, 0, {low}))
  BY <1>2
<1> HIDE DEF low, high
<1>5. /\ high \in Fds /\ high # low /\ table[high] = Closed
      /\ \A fd \in 0..high - 1 : table[fd] # Closed \/ fd = low
  BY <1>3, <1>4, SpareLeast
<1>6. low < high
  BY <1>1, <1>5, LimitAssumption DEF Fds
<1>7. \A fd \in 0..high : fd # low /\ fd # high => table[fd] # Closed
  BY <1>5, LimitAssumption DEF Fds
<1> QED
  BY <1>1, <1>5, <1>6, <1>7 DEF low, high

OpenStates == [ok : BOOLEAN, table : TableType, held : Numbers(AnyName), fds : Numbers(ChannelNames)]

LEMMA OpenTyped ==
    ASSUME NEW s \in OpenStates, NEW channel \in ChannelNames
    PROVE  OpenChannel(s, channel) \in OpenStates
<1> DEFINE spare == Spare(s.table, 0, {})
           low == Min(spare)
           high == Min(spare \ {low})
           mine == IF channel = "gate" THEN high ELSE low
           its == IF channel = "gate" THEN low ELSE high
<1>1. s.table \in TableType /\ s.held \in Numbers(AnyName) /\ s.fds \in Numbers(ChannelNames)
  BY DEF OpenStates
<1>2. CASE spare = {} \/ spare = {low}
  BY <1>2 DEF OpenChannel, OpenStates
<1>3. CASE ~ (spare = {} \/ spare = {low})
  <2>1. OpenChannel(s, channel) =
          [ok |-> TRUE, fds |-> With(s.fds, channel, its),
           table |-> [s.table EXCEPT ![mine] = Own(channel), ![its] = End(channel)],
           held |-> With(s.held, channel, mine)]
    BY <1>3 DEF OpenChannel
  <2>2. mine \in Fds /\ its \in Fds
    BY <1>3, PairOfSpares
  <2> HIDE DEF mine, its
  <2>3. Own(channel) \in Values /\ End(channel) \in Values /\ channel \in AnyName
    BY DEF Values, AnyName
  <2>4. [s.table EXCEPT ![mine] = Own(channel), ![its] = End(channel)] \in TableType
    BY <1>1, <2>2, <2>3 DEF TableType
  <2>5. With(s.fds, channel, its) \in Numbers(ChannelNames)
    BY <1>1, <2>2, WithNumbers
  <2>6. With(s.held, channel, mine) \in Numbers(AnyName)
    BY <1>1, <2>2, <2>3, WithNumbers
  <2> QED
    BY <2>1, <2>4, <2>5, <2>6 DEF OpenStates
<1> QED
  BY <1>2, <1>3

LEMMA NoNumbers ==
    ASSUME NEW D
    PROVE  <<>> \in Numbers(D) /\ DOMAIN <<>> = {} /\ RangeOf(<<>>) = {}
<1>1. <<>> \in [{} -> Fds]
  OBVIOUS
<1>2. <<>> \in Numbers(D)
  BY <1>1 DEF Numbers
<1> QED
  BY <1>2 DEF RangeOf

\* The states that opening channels goes through.
Opening(at, table, own, channels) ==
  /\ at[0] = [ok |-> TRUE, table |-> table, held |-> own, fds |-> <<>>]
  /\ \A i \in 0..Len(channels) : at[i] \in OpenStates
  /\ \A i \in 1..Len(channels) :
       at[i] = IF at[i - 1].ok THEN OpenChannel(at[i - 1], channels[i]) ELSE at[i - 1]

LEMMA OpenRun ==
    ASSUME NEW table \in TableType, NEW own \in Numbers(AnyName),
           NEW channels \in Seq(ChannelNames)
    PROVE  \E at : Opening(at, table, own, channels) /\ OpenChannels(table, own, channels) = at[Len(channels)]
<1> DEFINE n == Len(channels)
           start == [ok |-> TRUE, table |-> table, held |-> own, fds |-> <<>>]
           step == [i \in 1..n |-> [s \in OpenStates |-> IF s.ok THEN OpenChannel(s, channels[i]) ELSE s]]
           Walks(f) == f = [i \in 0..n |-> IF i = 0 THEN start
                              ELSE IF f[i - 1].ok THEN OpenChannel(f[i - 1], channels[i]) ELSE f[i - 1]]
           at == CHOOSE f : Walks(f)
<1>1. n \in Nat /\ start \in OpenStates /\ \A i \in 1..n : channels[i] \in ChannelNames
  BY NoNumbers DEF OpenStates
<1>0. \A i \in 1..n : \A s \in OpenStates : OpenChannel(s, channels[i]) \in OpenStates
  BY <1>1, OpenTyped
<1>2. step \in [1..n -> [OpenStates -> OpenStates]]
  BY <1>0
<1>3. PICK f : WalkOf(step, start, n, f) /\ \A i \in 0..n : f[i] \in OpenStates
  <2> HIDE DEF n, start, step
  <2> QED
    BY <1>1, <1>2, WalkExists
<1>4. Walks(f)
  <2>1. \A i \in 1..n : i - 1 \in 0..n /\ f[i - 1] \in OpenStates
    BY <1>1, <1>3
  <2>2. \A i \in 1..n : step[i][f[i - 1]] = IF f[i - 1].ok THEN OpenChannel(f[i - 1], channels[i]) ELSE f[i - 1]
    BY <2>1
  <2> HIDE DEF n, start, step
  <2> QED
    BY <1>1, <1>3, <2>2 DEF WalkOf
<1>5. Walks(at)
  <2> HIDE DEF Walks
  <2> QED
    BY <1>4
<1>6. \A i \in 1..n : at[i] = IF at[i - 1].ok THEN OpenChannel(at[i - 1], channels[i]) ELSE at[i - 1]
  <2> HIDE DEF n, start, at
  <2> QED
    BY <1>1, <1>5
<1>7. at[0] = start
  <2> HIDE DEF n, start, at
  <2> QED
    BY <1>1, <1>5
<1>8. \A i \in 0..n : at[i] \in OpenStates
  <2> DEFINE P == {i \in 0..n : at[i] \in OpenStates}
  <2>1. 0 \in P
    <3> HIDE DEF n, start, at
    <3> QED
      BY <1>1, <1>7
  <2>2. ASSUME NEW i \in 1..n, i - 1 \in P
        PROVE  i \in P
    <3>1. at[i - 1] \in OpenStates /\ i \in 0..n
      BY <2>2
    <3> HIDE DEF n, start, at
    <3> QED
      BY <1>0, <1>6, <3>1
  <2>3. \A i \in 0..n : i \in P
    <3> HIDE DEF n, start, at, P
    <3> QED
      BY <1>1, <2>1, <2>2, StepByStep
  <2> QED
    BY <2>3
<1>9. OpenChannels(table, own, channels) = at[Len(channels)]
  BY Zenon DEF OpenChannels, Walk
<1> HIDE DEF at
<1> QED
  BY <1>6, <1>7, <1>8, <1>9 DEF Opening


\* What has been opened so far.
Opened(s, table, own, channels, n) ==
  /\ Sound(s.table, s.held, s.fds)
  /\ UserView(s.table) = UserView(table)
  /\ DOMAIN s.held = DOMAIN own \cup {channels[j] : j \in 1..n}
  /\ \A name \in DOMAIN own : s.held[name] = own[name]
  /\ DOMAIN s.fds = {channels[j] : j \in 1..n}
  /\ n >= 1 => \A fd \in Fds : fd < 2 => s.table[fd] # Closed
  /\ \A channel \in DOMAIN s.fds : channel # "gate" => s.fds[channel] > 2

LEMMA OpenOneKeeps ==
    ASSUME NEW table \in TableType, NEW own \in Numbers(AnyName),
           NEW channels \in Seq(ChannelNames), NEW n \in 1..Len(channels),
           channels[n] = "gate" <=> n = 1,
           channels[n] \notin DOMAIN own, \A j \in 1..n - 1 : channels[j] # channels[n],
           NEW s \in OpenStates, Opened(s, table, own, channels, n - 1),
           OpenChannel(s, channels[n]).ok, s.ok
    PROVE  Opened(OpenChannel(s, channels[n]), table, own, channels, n)
<1> DEFINE channel == channels[n]
           spare == Spare(s.table, 0, {})
           low == Min(spare)
           high == Min(spare \ {low})
           mine == IF channel = "gate" THEN high ELSE low
           its == IF channel = "gate" THEN low ELSE high
           after == OpenChannel(s, channel)
<1>1. /\ s.table \in TableType /\ s.held \in Numbers(AnyName) /\ s.fds \in Numbers(ChannelNames)
      /\ channel \in ChannelNames /\ channel \in AnyName
  BY DEF OpenStates, AnyName
<1>2. ~ (spare = {} \/ spare = {low})
  <2>1. ASSUME spare = {} \/ spare = {low}
        PROVE  FALSE
    <3>1. after = [s EXCEPT !.ok = FALSE]
      BY <2>1 DEF OpenChannel
    <3> HIDE DEF after
    <3>2. ~ after.ok
      BY <3>1 DEF OpenStates
    <3> QED
      BY <3>2 DEF after
  <2> QED
    BY <2>1
<1>3. /\ after.fds = With(s.fds, channel, its)
      /\ after.table = [s.table EXCEPT ![mine] = Own(channel), ![its] = End(channel)]
      /\ after.held = With(s.held, channel, mine)
  BY <1>2 DEF OpenChannel
<1>4. /\ low \in Fds /\ high \in Fds /\ low < high
      /\ s.table[low] = Closed /\ s.table[high] = Closed
      /\ \A fd \in 0..high : fd # low /\ fd # high => s.table[fd] # Closed
  BY <1>2, PairOfSpares
<1>5. mine \in Fds /\ its \in Fds /\ mine # its /\ s.table[mine] = Closed /\ s.table[its] = Closed
  <2> HIDE DEF low, high
  <2> QED
    BY <1>4, LimitAssumption DEF Fds
<1>6. n > 1 => its > 2
  <2>1. n > 1 => low # 0 /\ low # 1
    <3> HIDE DEF low, high
    <3> QED
      BY <1>4, LimitAssumption DEF Opened, Fds
  <2>2. n > 1 => its = high
    OBVIOUS
  <2> HIDE DEF low, high, its
  <2> QED
    BY <1>4, <2>1, <2>2, LimitAssumption DEF Fds
<1>7. \A fd \in Fds : fd < 2 => fd = low \/ fd = high \/ s.table[fd] # Closed
  <2> HIDE DEF low, high
  <2>1. high \in Nat /\ low \in Nat /\ high >= 1
    BY <1>4, LimitAssumption DEF Fds
  <2>2. \A fd \in Fds : fd \in Nat
    BY LimitAssumption DEF Fds
  <2> QED
    BY <1>4, <2>1, <2>2
<1> HIDE DEF after, spare
<1>8. /\ after.table \in TableType
      /\ after.table[mine] = Own(channel) /\ after.table[its] = End(channel)
      /\ \A fd \in Fds : fd # mine /\ fd # its => after.table[fd] = s.table[fd]
  <2>1. s.table \in [Fds -> Values] /\ Own(channel) \in Values /\ End(channel) \in Values
    BY <1>1 DEF TableType, Values
  <2> HIDE DEF mine, its, low, high
  <2> QED
    BY <1>3, <1>5, <2>1 DEF TableType
<1>9. /\ DOMAIN after.held = DOMAIN s.held \cup {channel} /\ after.held[channel] = mine
      /\ \A name \in DOMAIN s.held : name # channel => after.held[name] = s.held[name]
      /\ DOMAIN after.fds = DOMAIN s.fds \cup {channel} /\ after.fds[channel] = its
      /\ \A name \in DOMAIN s.fds : name # channel => after.fds[name] = s.fds[name]
  <2> HIDE DEF mine, its, low, high
  <2>1. /\ DOMAIN after.held = DOMAIN s.held \cup {channel} /\ after.held[channel] = mine
        /\ \A name \in DOMAIN s.held : name # channel => after.held[name] = s.held[name]
    <3>1. after.held = With(s.held, channel, mine) /\ s.held \in Numbers(AnyName)
      BY <1>1, <1>3
    <3>2. /\ DOMAIN With(s.held, channel, mine) = DOMAIN s.held \cup {channel}
          /\ With(s.held, channel, mine)[channel] = mine
          /\ \A m \in DOMAIN s.held : m # channel => With(s.held, channel, mine)[m] = s.held[m]
      BY DEF With
    <3> QED
      BY <3>1, <3>2
  <2>2. /\ DOMAIN after.fds = DOMAIN s.fds \cup {channel} /\ after.fds[channel] = its
        /\ \A name \in DOMAIN s.fds : name # channel => after.fds[name] = s.fds[name]
    <3>1. after.fds = With(s.fds, channel, its) /\ s.fds \in Numbers(ChannelNames)
      BY <1>1, <1>3
    <3>2. /\ DOMAIN With(s.fds, channel, its) = DOMAIN s.fds \cup {channel}
          /\ With(s.fds, channel, its)[channel] = its
          /\ \A m \in DOMAIN s.fds : m # channel => With(s.fds, channel, its)[m] = s.fds[m]
      BY DEF With
    <3> QED
      BY <3>1, <3>2
  <2> QED
    BY <2>1, <2>2
<1> HIDE DEF mine, its, low, high
<1>10. channel \notin DOMAIN s.held /\ channel \notin DOMAIN s.fds
  BY DEF Opened
<1>11. /\ \A name \in DOMAIN s.held : /\ s.held[name] \in Fds /\ s.table[s.held[name]] = Own(name)
                                      /\ s.held[name] # mine /\ s.held[name] # its
       /\ \A name \in DOMAIN s.fds : /\ s.fds[name] \in Fds /\ s.table[s.fds[name]] = End(name)
                                     /\ s.fds[name] # mine /\ s.fds[name] # its
  BY <1>5, NamesDiffer DEF Opened, Sound
<1>12. Sound(after.table, after.held, after.fds)
  <2>1. \A name \in DOMAIN after.held :
          after.held[name] \in Fds /\ after.table[after.held[name]] = Own(name)
    BY <1>5, <1>8, <1>9, <1>11
  <2>2. \A name \in DOMAIN after.fds :
          after.fds[name] \in Fds /\ after.table[after.fds[name]] = End(name)
    BY <1>5, <1>8, <1>9, <1>11
  <2>3. ASSUME NEW fd \in Fds
        PROVE  after.table[fd] \in Plain \/ fd \in RangeOf(after.held) \/ fd \in RangeOf(after.fds)
    <3>1. CASE fd = mine
      BY <1>9, <3>1 DEF RangeOf
    <3>2. CASE fd = its
      BY <1>9, <3>2 DEF RangeOf
    <3>3. CASE fd # mine /\ fd # its
      <4>1. s.table[fd] \in Plain \/ fd \in RangeOf(s.held) \/ fd \in RangeOf(s.fds)
        BY DEF Opened, Sound
      <4>2. RangeOf(s.held) \subseteq RangeOf(after.held) /\ RangeOf(s.fds) \subseteq RangeOf(after.fds)
        BY <1>9, <1>10 DEF RangeOf
      <4> QED
        BY <1>8, <3>3, <4>1, <4>2
    <3> QED
      BY <3>1, <3>2, <3>3
  <2> QED
    BY <1>8, <2>1, <2>2, <2>3 DEF Sound
<1>13. UserView(after.table) = UserView(table)
  <2>1. \A fd \in Fds : \/ after.table[fd] = s.table[fd]
                        \/ after.table[fd] \notin Files /\ s.table[fd] \notin Files
    BY <1>1, <1>5, <1>8, NamesDiffer DEF Plain
  <2>2. UserView(after.table) = UserView(s.table)
    BY <2>1 DEF UserView
  <2> QED
    BY <2>2 DEF Opened
<1>14. {channels[j] : j \in 1..n} = {channels[j] : j \in 1..n - 1} \cup {channel}
  <2>1. 1..n = 1..n - 1 \cup {n}
    OBVIOUS
  <2> QED
    BY <2>1
<1>15. /\ DOMAIN after.held = DOMAIN own \cup {channels[j] : j \in 1..n}
       /\ DOMAIN after.fds = {channels[j] : j \in 1..n}
       /\ \A name \in DOMAIN own : after.held[name] = own[name]
  <2> HIDE DEF channel
  <2> QED
    BY <1>9, <1>10, <1>14 DEF Opened
<1>16. \A fd \in Fds : fd < 2 => after.table[fd] # Closed
  BY <1>5, <1>7, <1>8, NamesDiffer DEF mine, its
<1>17. \A c \in DOMAIN after.fds : c # "gate" => after.fds[c] > 2
  <2>1. \A c \in DOMAIN s.fds : c # "gate" => s.fds[c] > 2
    BY DEF Opened
  <2>2. channel # "gate" => n > 1
    OBVIOUS
  <2> HIDE DEF channel
  <2> QED
    BY <1>6, <1>9, <2>1, <2>2
<1> QED
  BY <1>12, <1>13, <1>15, <1>16, <1>17 DEF Opened, after

\* Channels of which only the first is the gate, and none is there yet.
Fresh(channels, own) ==
  /\ \A i \in 1..Len(channels) : (channels[i] = "gate" <=> i = 1) /\ channels[i] \notin DOMAIN own
  /\ \A i, j \in 1..Len(channels) : channels[i] = channels[j] => i = j

(* Channels take numbers that nobody uses, and after the gate they are no   *)
(* standard descriptors.                                                    *)
LEMMA OpenKeeps ==
    ASSUME NEW table, NEW own \in Numbers(AnyName), Sound(table, own, <<>>),
           NEW channels \in Seq(ChannelNames), Fresh(channels, own)
    PROVE  LET made == OpenChannels(table, own, channels)
           IN /\ made \in OpenStates
              /\ made.ok => Opened(made, table, own, channels, Len(channels))
<1> DEFINE n == Len(channels)
<1>1. n \in Nat /\ table \in TableType
  BY DEF Sound
<1>2. PICK at : Opening(at, table, own, channels) /\ OpenChannels(table, own, channels) = at[n]
  BY <1>1, OpenRun
<1>3. \A i \in 0..n : at[i] \in OpenStates
  BY <1>2 DEF Opening
<1> DEFINE Good(i) == at[i].ok => Opened(at[i], table, own, channels, i)
           P == {i \in 0..n : Good(i)}
<1>4. Good(0)
  <2>1. at[0].table = table /\ at[0].held = own /\ at[0].fds = <<>> /\ DOMAIN <<>> = {}
    BY <1>2, NoNumbers DEF Opening
  <2>2. {channels[j] : j \in 1..0} = {}
    OBVIOUS
  <2>3. Sound(at[0].table, at[0].held, at[0].fds)
    BY <2>1
  <2>4. DOMAIN at[0].fds = {} /\ DOMAIN at[0].held = DOMAIN own
    BY <2>1
  <2>5. Opened(at[0], table, own, channels, 0)
    <3>1. DOMAIN at[0].held = DOMAIN own \cup {channels[j] : j \in 1..0}
      BY <2>2, <2>4
    <3>2. DOMAIN at[0].fds = {channels[j] : j \in 1..0}
      BY <2>2, <2>4
    <3>3. \A name \in DOMAIN own : at[0].held[name] = own[name]
      BY <2>1
    <3>4. \A channel \in DOMAIN at[0].fds : channel # "gate" => at[0].fds[channel] > 2
      BY <2>4
    <3>5. UserView(at[0].table) = UserView(table)
      BY <2>1
    <3>6. ~ (0 >= 1)
      OBVIOUS
    <3> QED
      BY <2>3, <3>1, <3>2, <3>3, <3>4, <3>5, <3>6, Zenon DEF Opened
  <2> QED
    BY <2>5
<1>5. ASSUME NEW i \in 1..n, i - 1 \in P
      PROVE  i \in P
  <2>1. i \in 0..n /\ i - 1 \in 0..n /\ Good(i - 1) /\ at[i - 1] \in OpenStates
    BY <1>1, <1>3, <1>5
  <2>2. at[i] = IF at[i - 1].ok THEN OpenChannel(at[i - 1], channels[i]) ELSE at[i - 1]
    BY <1>2 DEF Opening
  <2>3. ASSUME at[i].ok
        PROVE  Opened(at[i], table, own, channels, i)
    <3>1. at[i - 1].ok /\ at[i] = OpenChannel(at[i - 1], channels[i])
      BY <2>2, <2>3
    <3>2. /\ channels[i] = "gate" <=> i = 1
          /\ channels[i] \notin DOMAIN own
          /\ \A j \in 1..i - 1 : channels[j] # channels[i]
      BY DEF Fresh
    <3>3. Opened(at[i - 1], table, own, channels, i - 1)
      BY <2>1, <3>1
    <3> HIDE DEF P, Good
    <3> QED
      BY <1>1, <2>1, <2>3, <3>1, <3>2, <3>3, OpenOneKeeps
  <2> QED
    BY <2>1, <2>3
<1>6. n \in P
  <2>1. 0 \in P /\ \A i \in 1..n : i - 1 \in P => i \in P
    BY <1>1, <1>4, <1>5
  <2> HIDE DEF n, P
  <2>2. \A i \in 0..n : i \in P
    BY <1>1, <2>1, StepByStep
  <2> QED
    BY <1>1, <2>2
<1> QED
  BY <1>1, <1>2, <1>3, <1>6

(* What a process closes of its own or of an evaluator's, it no longer has. *)
LEMMA SoundClose ==
    ASSUME NEW table, NEW own, NEW ends, Sound(table, own, ends),
           DOMAIN own \subseteq AnyName, DOMAIN ends \subseteq ChannelNames,
           NEW less, DOMAIN less \subseteq DOMAIN own,
           \A name \in DOMAIN less : less[name] = own[name],
           NEW fewer, DOMAIN fewer \subseteq DOMAIN ends,
           \A channel \in DOMAIN fewer : fewer[channel] = ends[channel],
           NEW fds,
           \A fd \in Fds : fd \in RangeOf(own) \ RangeOf(less) => fd \in fds,
           \A fd \in Fds : fd \in RangeOf(ends) \ RangeOf(fewer) => fd \in fds,
           fds \cap (RangeOf(less) \cup RangeOf(fewer)) = {},
           fds \subseteq RangeOf(own) \cup RangeOf(ends)
    PROVE  Sound(Close(table, fds), less, fewer) /\ UserView(Close(table, fds)) = UserView(table)
<1>1. table \in TableType /\ Close(table, fds) \in TableType
  BY ClosedTable DEF Sound
<1>2. \A fd \in Fds : Close(table, fds)[fd] = IF fd \in fds THEN Closed ELSE table[fd]
  BY DEF Close
<1>3. \A name \in DOMAIN less : less[name] \in Fds /\ less[name] \notin fds /\ table[less[name]] = Own(name)
  BY DEF Sound, RangeOf
<1>4. \A name \in DOMAIN fewer : fewer[name] \in Fds /\ fewer[name] \notin fds /\ table[fewer[name]] = End(name)
  BY DEF Sound, RangeOf
<1>5. \A fd \in Fds : Close(table, fds)[fd] \in Plain \/ fd \in RangeOf(less) \/ fd \in RangeOf(fewer)
  BY <1>2 DEF Sound, Plain
<1>6. Sound(Close(table, fds), less, fewer)
  BY <1>1, <1>2, <1>3, <1>4, <1>5 DEF Sound
<1>7. \A fd \in Fds : fd \in fds => table[fd] \notin Files
  <2>1. \A name \in DOMAIN own : table[own[name]] \notin Files
    BY NamesDiffer DEF Sound, Plain
  <2>2. \A channel \in DOMAIN ends : table[ends[channel]] \notin Files
    BY NamesDiffer DEF Sound, Plain
  <2> QED
    BY <2>1, <2>2 DEF RangeOf
<1>8. UserView(Close(table, fds)) = UserView(table)
  BY <1>2, <1>7, NamesDiffer DEF UserView
<1> QED
  BY <1>6, <1>8

LEMMA ChannelsFresh ==
    ASSUME NEW script \in Scripts, NEW own, DOMAIN own \cap ChannelNames = {}
    PROVE  LET channels == Channels(script)
           IN /\ channels \in Seq(ChannelNames) /\ Fresh(channels, own)
              /\ {channels[i] : i \in 1..Len(channels)} = {"gate"} \cup Transactions(script)
              /\ \A c \in {"gate"} \cup Transactions(script) :
                   \E i \in 1..Len(channels) : channels[i] = c
<1> DEFINE channels == Channels(script)
<1>1. \/ channels = <<"gate", "commit">> /\ Transactions(script) = {"commit"}
      \/ /\ channels = <<"gate", "commit", "outcome", "descriptors">>
         /\ Transactions(script) = {"commit", "outcome", "descriptors"}
  BY DEF Channels, Transactions
<1> HIDE DEF channels
<1>2. channels \in Seq(ChannelNames)
  <2>1. CASE channels = <<"gate", "commit">>
    BY <2>1 DEF ChannelNames
  <2>2. CASE channels = <<"gate", "commit", "outcome", "descriptors">>
    BY <2>2 DEF ChannelNames
  <2> QED
    BY <1>1, <2>1, <2>2
<1>3. CASE channels = <<"gate", "commit">> /\ Transactions(script) = {"commit"}
  <2>1. 1..Len(channels) = {1, 2} /\ channels[1] = "gate" /\ channels[2] = "commit"
    BY <1>3
  <2>2. Fresh(channels, own)
    BY <2>1 DEF Fresh, ChannelNames
  <2>3. {channels[i] : i \in 1..Len(channels)} = {"gate"} \cup Transactions(script)
    BY <1>3, <2>1
  <2> QED
    BY <1>2, <2>2, <2>3 DEF channels
<1>4. CASE /\ channels = <<"gate", "commit", "outcome", "descriptors">>
           /\ Transactions(script) = {"commit", "outcome", "descriptors"}
  <2>1. /\ 1..Len(channels) = {1, 2, 3, 4} /\ channels[1] = "gate" /\ channels[2] = "commit"
        /\ channels[3] = "outcome" /\ channels[4] = "descriptors"
    BY <1>4
  <2>2. Fresh(channels, own)
    BY <2>1 DEF Fresh, ChannelNames
  <2>3. {channels[i] : i \in 1..Len(channels)} = {"gate"} \cup Transactions(script)
    BY <1>4, <2>1
  <2> QED
    BY <1>2, <2>2, <2>3 DEF channels
<1> QED
  BY <1>1, <1>3, <1>4

(* The evaluator starts with the user's descriptors and its channels, which *)
(* are nothing a command of it names; the shell keeps its ends of them.     *)
LEMMA LaunchSound ==
    ASSUME NEW script \in Scripts, NEW table, NEW own \in Numbers(Names),
           Sound(table, own, <<>>), DOMAIN own \cap ChannelNames = {},
           OpenChannels(table, own, Channels(script)).ok
    PROVE  LET made == OpenChannels(table, own, Channels(script))
               safe == IF ExecPossible(script)
                       THEN MoveAway(made.table, made.fds, Channels(script), Protected(script))
                       ELSE [ok |-> TRUE, table |-> made.table, fds |-> made.fds]
               ends == Without(safe.fds, {"gate"})
               left == Without(made.held, {"gate"})
               its == EvaluatorTable(safe.table, made.held, safe.fds)
               mine == ShellTable(safe.table, made.held, safe.fds)
           IN safe.ok =>
                /\ ends \in Numbers(ChannelNames) /\ DOMAIN ends = Transactions(script)
                /\ left \in Numbers(Names) /\ DOMAIN left \cap ChannelNames = Transactions(script)
                /\ Sound(its, <<>>, ends) /\ UserView(its) = UserView(table)
                /\ Sound(mine, left, <<>>) /\ UserView(mine) = UserView(table)
                /\ \A channel \in DOMAIN ends : ends[channel] > 2
                /\ ExecPossible(script) => RangeOf(ends) \cap Protected(script) = {}
<1> DEFINE channels == Channels(script)
           made == OpenChannels(table, own, channels)
           taken == Protected(script)
           moved == MoveAway(made.table, made.fds, channels, taken)
           safe == IF ExecPossible(script) THEN moved
                   ELSE [ok |-> TRUE, table |-> made.table, fds |-> made.fds]
           D == {"gate"} \cup Transactions(script)
           ends == Without(safe.fds, {"gate"})
           left == Without(made.held, {"gate"})
<1> SUFFICES ASSUME safe.ok
             PROVE  /\ ends \in Numbers(ChannelNames) /\ DOMAIN ends = Transactions(script)
                    /\ left \in Numbers(Names)
                    /\ DOMAIN left \cap ChannelNames = Transactions(script)
                    /\ Sound(EvaluatorTable(safe.table, made.held, safe.fds), <<>>, ends)
                    /\ UserView(EvaluatorTable(safe.table, made.held, safe.fds)) = UserView(table)
                    /\ Sound(ShellTable(safe.table, made.held, safe.fds), left, <<>>)
                    /\ UserView(ShellTable(safe.table, made.held, safe.fds)) = UserView(table)
                    /\ \A channel \in DOMAIN ends : ends[channel] > 2
                    /\ ExecPossible(script) => RangeOf(ends) \cap Protected(script) = {}
  BY Zenon
<1>1. /\ channels \in Seq(ChannelNames) /\ Fresh(channels, own)
      /\ {channels[i] : i \in 1..Len(channels)} = D
      /\ \A c \in D : \E i \in 1..Len(channels) : channels[i] = c
  BY ChannelsFresh
<1>2. own \in Numbers(AnyName)
  BY DEF Numbers, AnyName
<1> HIDE DEF channels
<1>3. made \in OpenStates /\ Opened(made, table, own, channels, Len(channels))
  BY <1>1, <1>2, OpenKeeps DEF channels
<1> HIDE DEF made
<1>4. /\ made.table \in TableType /\ made.held \in Numbers(AnyName) /\ made.fds \in [D -> Fds]
      /\ Sound(made.table, made.held, made.fds) /\ UserView(made.table) = UserView(table)
      /\ DOMAIN made.held = DOMAIN own \cup D
      /\ \A c \in D : c # "gate" => made.fds[c] > 2
  <2>1. /\ made.table \in TableType /\ made.held \in Numbers(AnyName)
        /\ made.fds \in Numbers(ChannelNames)
    BY <1>3 DEF OpenStates
  <2>2. /\ Sound(made.table, made.held, made.fds) /\ UserView(made.table) = UserView(table)
        /\ DOMAIN made.held = DOMAIN own \cup {channels[j] : j \in 1..Len(channels)}
        /\ DOMAIN made.fds = {channels[j] : j \in 1..Len(channels)}
        /\ \A c \in DOMAIN made.fds : c # "gate" => made.fds[c] > 2
    BY <1>3 DEF Opened
  <2>3. DOMAIN made.fds = D
    BY <1>1, <2>2
  <2> HIDE DEF D
  <2>4. made.fds \in [D -> Fds]
    BY <2>1, <2>3 DEF Numbers
  <2> QED
    BY <1>1, <2>1, <2>2, <2>3, <2>4
<1>5. D \in SUBSET ChannelNames /\ Transactions(script) \in SUBSET Names
      /\ "gate" \notin Transactions(script) /\ "gate" \notin Names
  <2>1. Names = {"tty", "signal_read", "worker", "commit", "outcome", "descriptors",
                 "completion", "signal_write", "pty"}
    <3>1. DOMAIN OwnOrder = 1..9
      BY DEF OwnOrder
    <3>2. 1..9 = {1, 2, 3, 4, 5, 6, 7, 8, 9}
      OBVIOUS
    <3> QED
      BY <3>1, <3>2 DEF Names, OwnOrder
  <2> QED
    BY <2>1 DEF Transactions, ChannelNames
<1>6. /\ safe.fds \in [D -> Fds] /\ Sound(safe.table, made.held, safe.fds)
      /\ UserView(safe.table) = UserView(table)
      /\ \A c \in D : c # "gate" => safe.fds[c] > 2
      /\ ExecPossible(script) => \A c \in D : safe.fds[c] \notin taken
  <2>1. CASE ~ ExecPossible(script)
    BY <1>4, <2>1
  <2>2. CASE ExecPossible(script)
    <3>1. moved = MoveEach(made.table, made.fds, channels, taken, 3, taken)
      BY DEF MoveAway
    <3>2. Movable(made.table, made.fds, taken, 3, taken)
      <4> HIDE DEF taken
      <4> QED
        BY <1>4, SoundMovable
    <3>3. /\ moved \in MoveStates(D)
          /\ Moved(moved, made.table, made.fds, taken, 3, taken)
          /\ moved.ok => \A j \in 1..Len(channels) :
                           channels[j] \in D => moved.fds[channels[j]] \notin taken
      <4> HIDE DEF taken, D, moved
      <4> QED
        BY <1>1, <1>4, <3>1, <3>2, MoveKeeps
    <3> HIDE DEF moved, taken
    <3>4. Sound(moved.table, made.held, moved.fds) /\ UserView(moved.table) = UserView(made.table)
      <4> HIDE DEF D
      <4> QED
        BY <1>4, <1>5, <3>3, EndsMoved
    <3>5. moved.ok
      BY <2>2
    <3>6. \A c \in D : moved.fds[c] \notin taken
      BY <1>1, <3>3, <3>5
    <3>7. \A c \in D : c # "gate" => moved.fds[c] > 2
      <4>1. \A c \in D : moved.fds[c] = made.fds[c] \/ moved.fds[c] >= 3
        BY <1>4, <3>3 DEF Moved
      <4>2. \A c \in D : moved.fds[c] \in Nat
        <5>1. moved.fds \in [D -> Fds]
          BY <3>3 DEF MoveStates
        <5>2. Fds \subseteq Nat
          BY LimitAssumption DEF Fds
        <5> HIDE DEF D
        <5> QED
          BY <5>1, <5>2
      <4>3. \A c \in D : c # "gate" => made.fds[c] > 2
        BY <1>4
      <4> HIDE DEF D
      <4> QED
        BY <4>1, <4>2, <4>3
    <3>8. moved.fds \in [D -> Fds]
      BY <3>3 DEF MoveStates
    <3> QED
      BY <1>4, <2>2, <3>4, <3>6, <3>7, <3>8
  <2> QED
    BY <2>1, <2>2
<1> HIDE DEF safe, taken
<1>7. /\ DOMAIN ends = Transactions(script) /\ ends \in [Transactions(script) -> Fds]
      /\ \A c \in Transactions(script) : ends[c] = safe.fds[c]
  BY <1>5, <1>6 DEF Without
<1>8. ends \in Numbers(ChannelNames)
  BY <1>5, <1>7 DEF Numbers
<1>9. /\ DOMAIN left = DOMAIN own \cup Transactions(script)
      /\ \A name \in DOMAIN left : left[name] = made.held[name] /\ left[name] \in Fds
      /\ DOMAIN own \in SUBSET Names
  <2>1. DOMAIN own \in SUBSET Names
    BY DEF Numbers
  <2>2. DOMAIN left = (DOMAIN own \cup D) \ {"gate"}
    BY <1>4 DEF Without
  <2>3. \A name \in DOMAIN left : left[name] = made.held[name]
    BY DEF Without
  <2>4. \A name \in DOMAIN left : name \in DOMAIN made.held
    BY <1>4, <2>2
  <2>5. \A name \in DOMAIN made.held : made.held[name] \in Fds
    BY <1>4 DEF Sound
  <2> HIDE DEF left
  <2> QED
    BY <1>5, <2>1, <2>2, <2>3, <2>4, <2>5
<1>10. left \in Numbers(Names) /\ DOMAIN left \cap ChannelNames = Transactions(script)
  <2>1. left = [name \in DOMAIN left |-> left[name]]
    BY DEF Without
  <2>2. DOMAIN left \in SUBSET Names
    BY <1>5, <1>9
  <2> HIDE DEF left
  <2>3. left \in [DOMAIN left -> Fds]
    BY <1>9, <2>1
  <2>4. left \in Numbers(Names)
    BY <2>2, <2>3 DEF Numbers
  <2> QED
    BY <1>5, <1>9, <2>4
<1>11. /\ Sound(EvaluatorTable(safe.table, made.held, safe.fds), <<>>, ends)
       /\ UserView(EvaluatorTable(safe.table, made.held, safe.fds)) = UserView(table)
  <2> DEFINE fds == RangeOf(made.held) \cup {safe.fds["gate"]}
             none == <<>>
  <2>0. DOMAIN none = {} /\ RangeOf(none) = {}
    BY NoNumbers
  <2>1. /\ DOMAIN made.held \subseteq AnyName /\ DOMAIN safe.fds \subseteq ChannelNames
        /\ DOMAIN ends \subseteq DOMAIN safe.fds
    BY <1>4, <1>5, <1>6, <1>7, <1>9 DEF AnyName
  <2>2. fds \subseteq RangeOf(made.held) \cup RangeOf(safe.fds)
    BY <1>6 DEF RangeOf
  <2>3. \A fd \in RangeOf(safe.fds) : fd \in RangeOf(ends) \/ fd \in fds
    <3>1. DOMAIN safe.fds = D /\ DOMAIN ends = Transactions(script)
      BY <1>6, <1>7
    <3> HIDE DEF ends
    <3> QED
      BY <1>7, <3>1 DEF RangeOf
  <2>4. fds \cap RangeOf(ends) = {}
    <3>1. \A c \in Transactions(script) : safe.table[ends[c]] = End(c)
      BY <1>6, <1>7 DEF Sound
    <3>2. \A name \in DOMAIN made.held : safe.table[made.held[name]] = Own(name)
      BY <1>6 DEF Sound
    <3>3. safe.table[safe.fds["gate"]] = End("gate")
      BY <1>6 DEF Sound
    <3> HIDE DEF ends
    <3> QED
      BY <1>5, <1>7, <3>1, <3>2, <3>3, NamesDiffer DEF RangeOf
  <2>5. \A fd \in RangeOf(made.held) : fd \in fds
    OBVIOUS
  <2> HIDE DEF fds, ends, D, none
  <2>6. Sound(Close(safe.table, fds), none, ends) /\ UserView(Close(safe.table, fds)) = UserView(safe.table)
    BY <1>6, <1>7, <2>0, <2>1, <2>2, <2>3, <2>4, <2>5, SoundClose
  <2> QED
    BY <1>6, <2>6 DEF EvaluatorTable, fds, none
<1>12. /\ Sound(ShellTable(safe.table, made.held, safe.fds), left, <<>>)
       /\ UserView(ShellTable(safe.table, made.held, safe.fds)) = UserView(table)
  <2> DEFINE fds == RangeOf(safe.fds) \cup {made.held["gate"]}
             none == <<>>
  <2>0. DOMAIN none = {} /\ RangeOf(none) = {}
    BY NoNumbers
  <2>1. /\ DOMAIN made.held \subseteq AnyName /\ DOMAIN safe.fds \subseteq ChannelNames
        /\ DOMAIN left \subseteq DOMAIN made.held
    BY <1>4, <1>5, <1>6, <1>9 DEF AnyName
  <2>2. fds \subseteq RangeOf(made.held) \cup RangeOf(safe.fds)
    BY <1>4 DEF RangeOf
  <2>3. \A fd \in RangeOf(made.held) : fd \in RangeOf(left) \/ fd \in fds
    <3> HIDE DEF left
    <3> QED
      BY <1>4, <1>9 DEF RangeOf
  <2>4. fds \cap RangeOf(left) = {}
    <3>1. \A name \in DOMAIN left : safe.table[left[name]] = Own(name) /\ name # "gate"
      BY <1>6, <1>5, <1>9, <2>1 DEF Sound
    <3>2. \A c \in DOMAIN safe.fds : safe.table[safe.fds[c]] = End(c)
      BY <1>6 DEF Sound
    <3>3. safe.table[made.held["gate"]] = Own("gate")
      BY <1>4, <1>6 DEF Sound
    <3> HIDE DEF left
    <3> QED
      BY <3>1, <3>2, <3>3, NamesDiffer DEF RangeOf
  <2>5. \A fd \in RangeOf(safe.fds) : fd \in fds
    OBVIOUS
  <2> HIDE DEF fds, left, D, none
  <2>6. Sound(Close(safe.table, fds), left, none) /\ UserView(Close(safe.table, fds)) = UserView(safe.table)
    BY <1>6, <1>9, <2>0, <2>1, <2>2, <2>3, <2>4, <2>5, SoundClose
  <2> QED
    BY <1>6, <2>6 DEF ShellTable, fds, none
<1>13. /\ \A channel \in DOMAIN ends : ends[channel] > 2
       /\ ExecPossible(script) => RangeOf(ends) \cap Protected(script) = {}
  <2> HIDE DEF ends
  <2> QED
    BY <1>5, <1>6, <1>7 DEF RangeOf, taken
<1> QED
  BY <1>7, <1>8, <1>10, <1>11, <1>12, <1>13
------------------------------------------------------------------------------
(* The descriptors of an evaluator.                                         *)

ReceiveStates == [ok : BOOLEAN, table : TableType, fds : Numbers(Fds)]

LEMMA ReceiveTyped ==
    ASSUME NEW T \in SUBSET Fds, NEW objects \in [T -> Files], NEW s \in ReceiveStates, NEW fd
    PROVE  ReceiveOne(s, fd, objects) \in ReceiveStates
<1> DEFINE spare == Spare(s.table, 0, {})
           at == Min(spare)
           after == ReceiveOne(s, fd, objects)
<1>1. s.table \in TableType /\ s.fds \in Numbers(Fds)
  BY DEF ReceiveStates
<1>2. CASE fd \notin DOMAIN objects
  BY <1>2 DEF ReceiveOne
<1>3. CASE fd \in DOMAIN objects /\ spare = {}
  BY <1>3 DEF ReceiveOne, ReceiveStates
<1>4. CASE fd \in DOMAIN objects /\ spare # {}
  <2>1. after = [s EXCEPT !.table[at] = objects[fd], !.fds = With(@, fd, at)]
    BY <1>4 DEF ReceiveOne
  <2>2. at \in Fds
    BY <1>4, SpareLeast
  <2> HIDE DEF at, after
  <2>3. fd \in T /\ objects[fd] \in Values /\ fd \in Fds
    BY <1>4 DEF Values, Plain
  <2>4. [s.table EXCEPT ![at] = objects[fd]] \in TableType
    BY <1>1, <2>2, <2>3 DEF TableType
  <2>5. With(s.fds, fd, at) \in Numbers(Fds)
    BY <1>1, <2>2, <2>3, WithNumbers
  <2>6. after \in ReceiveStates
    BY <1>1, <2>1, <2>4, <2>5 DEF ReceiveStates
  <2> QED
    BY <2>6 DEF after
<1> QED
  BY <1>2, <1>3, <1>4

\* The states that receiving goes through.
Receiving(at, table, objects) ==
  /\ at[0] = [ok |-> TRUE, table |-> table, fds |-> <<>>]
  /\ \A i \in 0..Limit : at[i] \in ReceiveStates
  /\ \A i \in 1..Limit :
       at[i] = IF at[i - 1].ok THEN ReceiveOne(at[i - 1], Ascending[i], objects) ELSE at[i - 1]

LEMMA ReceiveRun ==
    ASSUME NEW table \in TableType, NEW T \in SUBSET Fds, NEW objects \in [T -> Files]
    PROVE  \E at : Receiving(at, table, objects) /\ ReceiveRights(table, objects) = at[Limit]
<1> DEFINE n == Limit
           start == [ok |-> TRUE, table |-> table, fds |-> <<>>]
           step == [i \in 1..n |-> [s \in ReceiveStates |-> IF s.ok THEN ReceiveOne(s, Ascending[i], objects) ELSE s]]
           Walks(f) == f = [i \in 0..n |-> IF i = 0 THEN start
                              ELSE IF f[i - 1].ok THEN ReceiveOne(f[i - 1], Ascending[i], objects) ELSE f[i - 1]]
           at == CHOOSE f : Walks(f)
<1>1. n \in Nat /\ start \in ReceiveStates /\ \A i \in 1..n : Ascending[i] = i - 1
  BY NoNumbers, LimitAssumption DEF ReceiveStates, Ascending
<1>0. \A i \in 1..n : \A s \in ReceiveStates : ReceiveOne(s, Ascending[i], objects) \in ReceiveStates
  BY <1>1, ReceiveTyped
<1>2. step \in [1..n -> [ReceiveStates -> ReceiveStates]]
  BY <1>0
<1>3. PICK f : WalkOf(step, start, n, f) /\ \A i \in 0..n : f[i] \in ReceiveStates
  <2> HIDE DEF n, start, step
  <2> QED
    BY <1>1, <1>2, WalkExists
<1>4. Walks(f)
  <2>1. \A i \in 1..n : i - 1 \in 0..n /\ f[i - 1] \in ReceiveStates
    BY <1>1, <1>3
  <2>2. \A i \in 1..n : step[i][f[i - 1]] = IF f[i - 1].ok THEN ReceiveOne(f[i - 1], Ascending[i], objects) ELSE f[i - 1]
    BY <2>1
  <2> HIDE DEF n, start, step
  <2> QED
    BY <1>1, <1>3, <2>2 DEF WalkOf
<1>5. Walks(at)
  <2> HIDE DEF Walks
  <2> QED
    BY <1>4
<1>6. \A i \in 1..n : at[i] = IF at[i - 1].ok THEN ReceiveOne(at[i - 1], Ascending[i], objects) ELSE at[i - 1]
  <2> HIDE DEF n, start, at
  <2> QED
    BY <1>1, <1>5
<1>7. at[0] = start
  <2> HIDE DEF n, start, at
  <2> QED
    BY <1>1, <1>5
<1>8. \A i \in 0..n : at[i] \in ReceiveStates
  <2> DEFINE P == {i \in 0..n : at[i] \in ReceiveStates}
  <2>1. 0 \in P
    <3> HIDE DEF n, start, at
    <3> QED
      BY <1>1, <1>7
  <2>2. ASSUME NEW i \in 1..n, i - 1 \in P
        PROVE  i \in P
    <3>1. at[i - 1] \in ReceiveStates /\ i \in 0..n
      BY <2>2
    <3> HIDE DEF n, start, at
    <3> QED
      BY <1>0, <1>6, <3>1
  <2>3. \A i \in 0..n : i \in P
    <3> HIDE DEF n, start, at, P
    <3> QED
      BY <1>1, <2>1, <2>2, StepByStep
  <2> QED
    BY <2>3
<1>9. ReceiveRights(table, objects) = at[Limit]
  BY Zenon DEF ReceiveRights, Walk
<1> HIDE DEF at
<1> QED
  BY <1>6, <1>7, <1>8, <1>9 DEF Receiving


\* What has been received so far, of the descriptors below n.
Received(s, table, objects, n) ==
  /\ DOMAIN s.fds \subseteq DOMAIN objects
  /\ \A k \in DOMAIN s.fds : k < n
  /\ s.ok => \A k \in DOMAIN objects : k < n => k \in DOMAIN s.fds
  /\ \A k, l \in DOMAIN s.fds : s.fds[k] = s.fds[l] => k = l
  /\ \A k \in DOMAIN s.fds : /\ s.fds[k] \in Fds
                             /\ table[s.fds[k]] = Closed /\ s.table[s.fds[k]] = objects[k]
  /\ \A fd \in Fds : fd \notin RangeOf(s.fds) => s.table[fd] = table[fd]

LEMMA ReceiveOneKeeps ==
    ASSUME NEW table \in TableType, NEW T \in SUBSET Fds, NEW objects \in [T -> Files],
           NEW s \in ReceiveStates, s.ok, NEW n \in 1..Limit,
           Received(s, table, objects, n - 1)
    PROVE  Received(ReceiveOne(s, n - 1, objects), table, objects, n)
<1> DEFINE spare == Spare(s.table, 0, {})
           at == Min(spare)
           fd == n - 1
           after == ReceiveOne(s, fd, objects)
<1>1. s.table \in TableType /\ s.fds \in Numbers(Fds) /\ DOMAIN objects = T
  BY DEF ReceiveStates
<1>2. /\ n \in Nat /\ \A k \in T : k \in Nat
      /\ \A k \in DOMAIN s.fds : k \in T
  BY <1>1, LimitAssumption DEF Fds, Received
<1>3. CASE fd \notin T
  <2>1. after = s
    BY <1>1, <1>3 DEF ReceiveOne
  <2>2. \A k \in T : k < n => k < n - 1
    BY <1>2, <1>3
  <2>3. \A k \in DOMAIN s.fds : k < n
    BY <1>2 DEF Received
  <2>4. Received(s, table, objects, n)
    BY <1>1, <2>2, <2>3 DEF Received
  <2> QED
    BY <2>1, <2>4
<1>4. CASE fd \in T /\ spare = {}
  <2>1. after = [s EXCEPT !.ok = FALSE]
    BY <1>1, <1>4 DEF ReceiveOne
  <2> HIDE DEF after
  <2>2. ~ after.ok /\ after.table = s.table /\ after.fds = s.fds
    BY <2>1 DEF ReceiveStates
  <2>3. \A k \in DOMAIN s.fds : k < n
    BY <1>2 DEF Received
  <2>4. Received(after, table, objects, n)
    BY <2>2, <2>3 DEF Received
  <2> QED
    BY <2>4 DEF after
<1>5. CASE fd \in T /\ spare # {}
  <2>1. after = [s EXCEPT !.table[at] = objects[fd], !.fds = With(@, fd, at)]
    BY <1>1, <1>5 DEF ReceiveOne
  <2>2. at \in Fds /\ s.table[at] = Closed
    BY <1>5, SpareLeast
  <2> HIDE DEF at, after, spare
  <2>3. /\ after.ok = s.ok /\ after.table = [s.table EXCEPT ![at] = objects[fd]]
        /\ after.fds = With(s.fds, fd, at)
    BY <2>1 DEF ReceiveStates
  <2>4. /\ after.table[at] = objects[fd]
        /\ \A x \in Fds : x # at => after.table[x] = s.table[x]
    BY <1>1, <2>2, <2>3 DEF TableType
  <2>5. fd \notin DOMAIN s.fds
    BY <1>2 DEF Received
  <2>6. /\ DOMAIN after.fds = DOMAIN s.fds \cup {fd} /\ after.fds[fd] = at
        /\ \A k \in DOMAIN s.fds : after.fds[k] = s.fds[k]
    BY <2>3, <2>5 DEF With
  <2>7. \A k \in DOMAIN s.fds : /\ s.fds[k] \in Fds /\ table[s.fds[k]] = Closed
                                /\ s.table[s.fds[k]] = objects[k] /\ objects[k] # Closed
                                /\ s.fds[k] # at
    BY <1>1, <1>2, <2>2, NamesDiffer DEF Received
  <2>8. at \notin RangeOf(s.fds) /\ table[at] = Closed
    <3>1. at \notin RangeOf(s.fds)
      BY <2>7 DEF RangeOf
    <3> QED
      BY <2>2, <3>1 DEF Received
  <2>9. RangeOf(s.fds) \subseteq RangeOf(after.fds) /\ at \in RangeOf(after.fds)
    BY <2>6 DEF RangeOf
  <2>10. \A x \in Fds : x \notin RangeOf(after.fds) => after.table[x] = table[x]
    BY <2>4, <2>9 DEF Received
  <2>11. \A k, l \in DOMAIN after.fds : after.fds[k] = after.fds[l] => k = l
    <3>1. \A k, l \in DOMAIN s.fds : s.fds[k] = s.fds[l] => k = l
      BY DEF Received
    <3> QED
      BY <2>6, <2>7, <3>1
  <2>12. \A k \in DOMAIN after.fds : k < n
    <3>1. \A k \in DOMAIN s.fds : k < n
      BY <1>2 DEF Received
    <3>2. fd < n
      BY <1>2
    <3> HIDE DEF fd
    <3> QED
      BY <2>6, <3>1, <3>2
  <2>13. \A k \in T : k < n => k \in DOMAIN after.fds
    <3>1. \A k \in T : k < n => k = fd \/ k < n - 1
      BY <1>2
    <3>2. \A k \in T : k < n - 1 => k \in DOMAIN s.fds
      BY <1>1 DEF Received
    <3> HIDE DEF fd
    <3> QED
      BY <2>6, <3>1, <3>2
  <2>14. \A k \in DOMAIN after.fds : /\ after.fds[k] \in Fds /\ table[after.fds[k]] = Closed
                                     /\ after.table[after.fds[k]] = objects[k]
    <3> HIDE DEF fd
    <3> QED
      BY <2>2, <2>4, <2>6, <2>7, <2>8
  <2>15. DOMAIN after.fds \subseteq T
    <3> HIDE DEF fd
    <3> QED
      BY <1>2, <1>5, <2>6
  <2>16. Received(after, table, objects, n)
    BY <1>1, <2>10, <2>11, <2>12, <2>13, <2>14, <2>15 DEF Received
  <2> QED
    BY <2>16 DEF after
<1> QED
  BY <1>3, <1>4, <1>5

LEMMA ReceiveKeeps ==
    ASSUME NEW table \in TableType, NEW T \in SUBSET Fds, NEW objects \in [T -> Files]
    PROVE  LET received == ReceiveRights(table, objects)
           IN /\ received \in ReceiveStates
              /\ Received(received, table, objects, Limit)
<1>1. PICK at : Receiving(at, table, objects) /\ ReceiveRights(table, objects) = at[Limit]
  BY ReceiveRun
<1>2. Limit \in Nat /\ \A i \in 0..Limit : at[i] \in ReceiveStates
  BY <1>1, LimitAssumption DEF Receiving
<1> DEFINE P == {i \in 0..Limit : Received(at[i], table, objects, i)}
<1>3. 0 \in P
  <2>1. at[0].table = table /\ at[0].fds = <<>> /\ DOMAIN at[0].fds = {}
    BY <1>1, NoNumbers DEF Receiving
  <2>2. \A k \in T : ~ (k < 0)
    BY <1>2 DEF Fds
  <2>3. Received(at[0], table, objects, 0)
    BY <2>1, <2>2 DEF Received
  <2> QED
    BY <1>2, <2>3
<1>4. ASSUME NEW i \in 1..Limit, i - 1 \in P
      PROVE  i \in P
  <2>1. i \in 0..Limit /\ i - 1 \in 0..Limit /\ Received(at[i - 1], table, objects, i - 1)
        /\ at[i - 1] \in ReceiveStates /\ Ascending[i] = i - 1
    BY <1>2, <1>4 DEF Ascending
  <2>2. at[i] = IF at[i - 1].ok THEN ReceiveOne(at[i - 1], i - 1, objects) ELSE at[i - 1]
    BY <1>1, <2>1 DEF Receiving
  <2>3. CASE at[i - 1].ok
    <3>1. Received(at[i], table, objects, i)
      BY <2>1, <2>2, <2>3, ReceiveOneKeeps
    <3> QED
      BY <2>1, <3>1
  <2>4. CASE ~ at[i - 1].ok
    <3>1. at[i] = at[i - 1]
      BY <2>2, <2>4
    <3>2. DOMAIN at[i].fds \subseteq T
      BY <2>1, <3>1 DEF Received
    <3>3. \A k \in DOMAIN at[i].fds : k < i
      <4>1. \A k \in DOMAIN at[i].fds : k < i - 1 /\ k \in Fds
        BY <2>1, <3>1, <3>2 DEF Received
      <4> QED
        BY <1>2, <4>1 DEF Fds
    <3>4. Received(at[i], table, objects, i)
      BY <2>1, <2>4, <3>1, <3>3 DEF Received
    <3> QED
      BY <2>1, <3>4
  <2> QED
    BY <2>3, <2>4
<1>5. Limit \in P
  <2>1. \A i \in 1..Limit : i - 1 \in P => i \in P
    BY <1>4
  <2> HIDE DEF P
  <2>2. \A i \in 0..Limit : i \in P
    BY <1>2, <1>3, <2>1, StepByStep
  <2> QED
    BY <1>2, <2>2
<1> QED
  BY <1>1, <1>2, <1>5

\* What applying a commit promises.
Applied(applied, table, own, rights, targets) ==
  /\ Sound(applied.table, own, <<>>) /\ applied.ok \in BOOLEAN
  /\ \A fd \in Fds :
       UserView(applied.table)[fd] =
         CASE applied.ok /\ fd \in DOMAIN rights -> table[rights[fd]]
           [] applied.ok /\ fd \in targets \ DOMAIN rights -> Closed
           [] ~ (applied.ok /\ fd \in targets) /\ fd \in RangeOf(rights) -> Closed
           [] OTHER -> UserView(table)[fd]

(* The rights stand aside of every target; then each target gets its own.   *)
LEMMA ApplyKeeps ==
    ASSUME NEW targets \in SUBSET Fds, NEW T \in SUBSET targets, NEW rights \in [T -> Fds],
           NEW table, NEW own, DOMAIN own \subseteq AnyName,
           Sound(table, own, <<>>), RangeOf(own) \cap targets = {},
           \A k \in T : table[rights[k]] \in Files,
           \A k, l \in T : rights[k] = rights[l] => k = l
    PROVE  Applied(ApplyCommit(table, rights, targets), table, own, rights, targets)
<1> DEFINE aside == MoveAway(table, rights, Ascending, targets)
           placed == [fd \in Fds |->
                        IF fd \notin targets THEN aside.table[fd]
                        ELSE IF fd \in DOMAIN rights THEN aside.table[aside.fds[fd]]
                        ELSE Closed]
           applied == ApplyCommit(table, rights, targets)
           after == applied.table
<1>1. table \in TableType /\ DOMAIN rights = T /\ T \in SUBSET Fds
  BY DEF Sound
<1>2. /\ Ascending \in Seq(Nat) /\ Len(Ascending) = Limit
      /\ \A fd \in Fds : \E j \in 1..Len(Ascending) : Ascending[j] = fd
  <2>1. Ascending \in [1..Limit -> Nat]
    BY LimitAssumption DEF Ascending
  <2>2. Ascending \in Seq(Nat) /\ Len(Ascending) = Limit
    BY <2>1, LimitAssumption
  <2>3. ASSUME NEW fd \in Fds
        PROVE  \E j \in 1..Limit : Ascending[j] = fd
    <3>1. fd + 1 \in 1..Limit /\ Ascending[fd + 1] = fd
      BY LimitAssumption DEF Fds, Ascending
    <3> QED
      BY <3>1
  <2> QED
    BY <2>2, <2>3
<1>3. Movable(table, rights, targets, 3, targets)
  BY <1>1, NamesDiffer DEF Movable
<1>4. /\ aside \in MoveStates(T) /\ Moved(aside, table, rights, targets, 3, targets)
      /\ aside.ok => \A k \in T : aside.fds[k] \notin targets
  <2>1. aside = MoveEach(table, rights, Ascending, targets, 3, targets)
    BY DEF MoveAway
  <2> HIDE DEF aside
  <2>2. /\ aside \in MoveStates(T) /\ Moved(aside, table, rights, targets, 3, targets)
        /\ aside.ok => \A j \in 1..Len(Ascending) :
                         Ascending[j] \in T => aside.fds[Ascending[j]] \notin targets
    BY <1>1, <1>2, <1>3, <2>1, MoveKeeps
  <2> QED
    BY <1>1, <1>2, <2>2
<1>5. /\ applied.ok = aside.ok
      /\ after = Close(IF aside.ok THEN placed ELSE aside.table, RangeOf(aside.fds))
  BY DEF ApplyCommit
<1> HIDE DEF aside, applied
<1>6. /\ aside.ok \in BOOLEAN /\ aside.table \in TableType /\ aside.fds \in [T -> Fds]
      /\ \A k \in T : aside.table[aside.fds[k]] = table[rights[k]]
  BY <1>1, <1>4 DEF MoveStates, Moved
<1>7. /\ \A fd \in Fds : \/ aside.table[fd] = table[fd] /\ fd \notin RangeOf(aside.fds)
                         \/ \E k \in T : fd = aside.fds[k] /\ aside.table[fd] = table[rights[k]]
                         \/ /\ fd \in RangeOf(rights) \ RangeOf(aside.fds)
                            /\ aside.table[fd] = Closed
      /\ \A fd \in RangeOf(aside.fds) : fd \in RangeOf(rights) \/ table[fd] = Closed
      /\ \A fd \in Fds : fd \notin RangeOf(rights) /\ table[fd] # Closed =>
           aside.table[fd] = table[fd] /\ fd \notin RangeOf(aside.fds)
  BY <1>1, <1>4, MovedFrame
<1>8. \A fd \in Fds : after[fd] =
        IF fd \in RangeOf(aside.fds) THEN Closed
        ELSE IF aside.ok /\ fd \in targets
             THEN IF fd \in T THEN table[rights[fd]] ELSE Closed
             ELSE aside.table[fd]
  BY <1>1, <1>5, <1>6 DEF Close
<1>9. aside.ok => \A fd \in targets : fd \notin RangeOf(aside.fds)
  BY <1>4, <1>6 DEF RangeOf
<1>10. ASSUME NEW fd \in Fds, fd \in RangeOf(rights), ~ (aside.ok /\ fd \in targets)
       PROVE  after[fd] = Closed
  <2>1. CASE fd \in RangeOf(aside.fds)
    BY <1>8, <2>1
  <2>2. CASE fd \notin RangeOf(aside.fds)
    <3>1. PICK k \in T : fd = rights[k]
      BY <1>1, <1>10 DEF RangeOf
    <3>2. aside.table[fd] = Closed
      BY <1>1, <1>4, <1>6, <2>2, <3>1 DEF Moved, RangeOf
    <3> QED
      BY <1>8, <1>10, <2>2, <3>2
  <2> QED
    BY <2>1, <2>2
<1>11. ASSUME NEW fd \in Fds, fd \notin RangeOf(rights), ~ (aside.ok /\ fd \in targets)
       PROVE  after[fd] = table[fd]
  <2>1. CASE fd \in RangeOf(aside.fds)
    BY <1>7, <1>8, <1>11, <2>1
  <2>2. CASE fd \notin RangeOf(aside.fds)
    <3>1. aside.table[fd] = table[fd]
      BY <1>6, <1>7, <1>11, <2>2 DEF RangeOf
    <3> QED
      BY <1>8, <1>11, <2>2, <3>1
  <2> QED
    BY <2>1, <2>2
<1>12. after \in TableType
  <2>1. \A fd \in Fds : after[fd] \in Values
    <3>1. Closed \in Values /\ \A k \in T : table[rights[k]] \in Values
      BY DEF Values, Plain
    <3>2. \A fd \in Fds : aside.table[fd] \in Values
      BY <1>6 DEF TableType
    <3> QED
      BY <1>8, <3>1, <3>2
  <2>2. after = [fd \in Fds |-> after[fd]]
    BY <1>5 DEF Close
  <2> HIDE DEF after
  <2> QED
    BY <2>1, <2>2 DEF TableType
<1>13. \A name \in DOMAIN own : own[name] \in Fds /\ after[own[name]] = Own(name)
  <2>1. ASSUME NEW name \in DOMAIN own
        PROVE  own[name] \in Fds /\ after[own[name]] = Own(name)
    <3>1. own[name] \in Fds /\ table[own[name]] = Own(name) /\ own[name] \notin targets
      BY DEF Sound, RangeOf
    <3>2. Own(name) \notin Files
      BY NamesDiffer DEF Plain
    <3>3. own[name] \notin RangeOf(rights)
      BY <1>1, <3>1, <3>2 DEF RangeOf
    <3> QED
      BY <1>11, <3>1, <3>3
  <2> QED
    BY <2>1
<1>14. ASSUME NEW fd \in Fds
       PROVE  after[fd] \in Plain \/ fd \in RangeOf(own)
  <2>1. table[fd] \in Plain \/ fd \in RangeOf(own)
    BY NoNumbers DEF Sound
  <2>2. CASE aside.ok /\ fd \in targets
    BY <1>8, <2>2 DEF Plain
  <2>3. CASE ~ (aside.ok /\ fd \in targets)
    BY <1>10, <1>11, <2>1, <2>3 DEF Plain
  <2> QED
    BY <2>2, <2>3
<1>15. Sound(after, own, <<>>)
  <2> HIDE DEF after
  <2> QED
    BY <1>12, <1>13, <1>14, NoNumbers DEF Sound
<1>16. ASSUME NEW fd \in Fds
       PROVE  UserView(after)[fd] =
                CASE aside.ok /\ fd \in T -> table[rights[fd]]
                  [] aside.ok /\ fd \in targets \ T -> Closed
                  [] ~ (aside.ok /\ fd \in targets) /\ fd \in RangeOf(rights) -> Closed
                  [] OTHER -> UserView(table)[fd]
  <2>1. CASE aside.ok /\ fd \in T
    <3>1. after[fd] = table[rights[fd]] /\ after[fd] \in Files
      BY <1>8, <1>9, <2>1
    <3> QED
      BY <2>1, <3>1 DEF UserView
  <2>2. CASE aside.ok /\ fd \in targets \ T
    <3>1. after[fd] = Closed
      BY <1>8, <1>9, <2>2
    <3> QED
      BY <2>2, <3>1, NamesDiffer DEF UserView
  <2>3. CASE ~ (aside.ok /\ fd \in targets) /\ fd \in RangeOf(rights)
    <3>1. after[fd] = Closed
      BY <1>10, <2>3
    <3> QED
      BY <2>3, <3>1, NamesDiffer DEF UserView
  <2>4. CASE ~ (aside.ok /\ fd \in targets) /\ fd \notin RangeOf(rights)
    <3>1. after[fd] = table[fd]
      BY <1>11, <2>4
    <3> QED
      BY <2>4, <3>1 DEF UserView
  <2> QED
    BY <2>1, <2>2, <2>3, <2>4
<1> QED
  BY <1>1, <1>5, <1>6, <1>15, <1>16 DEF applied, Applied

\* What receiving promises of a table.
Delivered(result, D, table, targets) ==
  /\ result.held \in [D -> Fds] /\ result.ok \in BOOLEAN
  /\ Sound(result.table, result.held, <<>>)
  /\ UserView(result.table) =
       IF result.ok THEN [fd \in Fds |-> IF fd \in targets THEN UserView(child.table)[fd]
                                         ELSE UserView(table)[fd]]
       ELSE UserView(table)

(* A commit that is received is the evaluator's view of what its commands   *)
(* name, and the user's of the rest; one that fails leaves the user's.      *)
LEMMA ReceiveSound ==
    ASSUME NEW D \in SUBSET Names, NEW own \in [D -> Fds], NEW table, Sound(table, own, <<>>),
           NEW targets, targets = Recorded(child.script), targets \subseteq Fds,
           \A fd \in targets : child.table[fd] \in Plain
    PROVE  Delivered(ReceiveDescriptors(table, own), D, table, targets)
<1> DEFINE T == {t \in targets : IsOpen(child.table, t)}
           objects == [fd \in T |-> child.table[fd]]
           received == ReceiveRights(table, objects)
           rights == received.fds
           safe == ProtectOwner(received.table, own, targets)
           applied == ApplyCommit(safe.table, rights, targets)
           result == ReceiveDescriptors(table, own)
<1> SUFFICES /\ result.held \in [D -> Fds] /\ result.ok \in BOOLEAN
             /\ Sound(result.table, result.held, <<>>)
             /\ UserView(result.table) =
                  IF result.ok THEN [fd \in Fds |-> IF fd \in targets THEN UserView(child.table)[fd]
                                                    ELSE UserView(table)[fd]]
                  ELSE UserView(table)
  BY DEF Delivered
<1>0. result = IF ~ received.ok
               THEN [ok |-> FALSE, table |-> Close(received.table, RangeOf(rights)), held |-> own]
               ELSE IF ~ safe.ok
               THEN [ok |-> FALSE, table |-> Close(safe.table, RangeOf(rights)), held |-> safe.held]
               ELSE [ok |-> applied.ok, table |-> applied.table, held |-> safe.held]
  BY DEF ReceiveDescriptors
<1>1. /\ table \in TableType /\ T \in SUBSET Fds /\ objects \in [T -> Files]
      /\ \A k \in T : objects[k] = child.table[k] /\ UserView(child.table)[k] = child.table[k]
      /\ \A fd \in targets \ T : UserView(child.table)[fd] = Closed
  <2>1. \A k \in T : child.table[k] \in Files
    BY DEF IsOpen, Plain
  <2>2. \A fd \in targets \ T : child.table[fd] = Closed
    BY DEF IsOpen
  <2>3. \A fd \in targets \ T : UserView(child.table)[fd] = Closed
    BY <2>2, NamesDiffer DEF UserView
  <2>4. \A k \in T : UserView(child.table)[k] = child.table[k]
    BY <2>1 DEF UserView
  <2> QED
    BY <2>1, <2>3, <2>4 DEF Sound
<1> HIDE DEF result, T, objects
<1>2. received \in ReceiveStates /\ Received(received, table, objects, Limit)
  BY <1>1, ReceiveKeeps
<1> HIDE DEF received
<1>3. /\ received.table \in TableType /\ received.ok \in BOOLEAN
      /\ DOMAIN rights \in SUBSET T /\ rights \in [DOMAIN rights -> Fds]
      /\ received.ok => DOMAIN rights = T
      /\ \A k, l \in DOMAIN rights : rights[k] = rights[l] => k = l
      /\ \A k \in DOMAIN rights : /\ table[rights[k]] = Closed
                                  /\ received.table[rights[k]] = objects[k]
                                  /\ objects[k] \in Files
      /\ \A fd \in Fds : fd \notin RangeOf(rights) => received.table[fd] = table[fd]
  <2>1. received.table \in TableType /\ received.ok \in BOOLEAN /\ rights \in Numbers(Fds)
    BY <1>2 DEF ReceiveStates
  <2>2. DOMAIN objects = T /\ \A k \in T : k < Limit
    BY <1>1, LimitAssumption DEF Fds
  <2>3. rights \in [DOMAIN rights -> Fds]
    BY <2>1 DEF Numbers
  <2>4. DOMAIN rights \in SUBSET T
    BY <1>2, <2>2 DEF Received
  <2>5. received.ok => DOMAIN rights = T
    BY <1>2, <2>2, <2>4 DEF Received
  <2> QED
    BY <1>1, <1>2, <2>1, <2>3, <2>4, <2>5 DEF Received
<1> HIDE DEF rights
<1>4. DOMAIN own = D /\ D \subseteq AnyName
  BY DEF AnyName
<1>5. Sound(received.table, own, <<>>)
  <2>1. \A name \in DOMAIN own : own[name] \in Fds /\ received.table[own[name]] = Own(name)
    <3>1. \A name \in DOMAIN own : own[name] \in Fds /\ table[own[name]] = Own(name)
      BY DEF Sound
    <3>2. \A name \in DOMAIN own : own[name] \notin RangeOf(rights)
      BY <1>3, <3>1, NamesDiffer DEF RangeOf
    <3> QED
      BY <1>3, <3>1, <3>2
  <2>2. \A fd \in Fds : received.table[fd] \in Plain \/ fd \in RangeOf(own)
    <3>1. \A fd \in Fds : table[fd] \in Plain \/ fd \in RangeOf(own)
      BY NoNumbers DEF Sound
    <3> QED
      BY <1>3, <3>1 DEF RangeOf, Plain
  <2> QED
    BY <1>3, <2>1, <2>2, NoNumbers DEF Sound
<1>6. \A fd \in Fds : fd \in RangeOf(rights) => table[fd] = Closed /\ UserView(table)[fd] = Closed
  <2>1. \A fd \in Fds : fd \in RangeOf(rights) => table[fd] = Closed
    BY <1>3 DEF RangeOf
  <2> QED
    BY <2>1, NamesDiffer DEF UserView
<1>7. CASE ~ received.ok
  <2>1. Close(received.table, RangeOf(rights)) = table
    BY <1>1, <1>3, <1>6 DEF Close, TableType
  <2>2. result = [ok |-> FALSE, table |-> table, held |-> own]
    BY <1>0, <1>7, <2>1
  <2> QED
    BY <2>2 DEF result
<1>8. CASE received.ok
  <2>1. /\ safe.held \in [D -> Fds] /\ Sound(safe.table, safe.held, <<>>)
        /\ UserView(safe.table) = UserView(received.table)
        /\ \A fd \in Fds : fd \notin RangeOf(own) /\ received.table[fd] # Closed =>
                             safe.table[fd] = received.table[fd]
        /\ safe.ok => RangeOf(safe.held) \cap targets = {}
        /\ safe.ok \in BOOLEAN
    <3>1. targets \in SUBSET Fds
      OBVIOUS
    <3>2. Guarded(safe, received.table, own, targets)
      BY <1>5, <3>1, ProtectKeeps
    <3> HIDE DEF safe
    <3> QED
      BY <1>4, <3>2 DEF Guarded
  <2> HIDE DEF safe
  <2>2. \A k \in DOMAIN rights : safe.table[rights[k]] = objects[k]
    <3>1. \A k \in DOMAIN rights : rights[k] \notin RangeOf(own)
      <4>1. \A name \in DOMAIN own : received.table[own[name]] = Own(name)
        BY <1>5 DEF Sound
      <4> QED
        BY <1>3, <1>4, <4>1, NamesDiffer DEF RangeOf, Plain
    <3> QED
      BY <1>3, <2>1, <3>1, NamesDiffer
  <2>3. \A fd \in Fds : fd \notin RangeOf(rights) => UserView(safe.table)[fd] = UserView(table)[fd]
    <3>1. \A fd \in Fds : fd \notin RangeOf(rights) => UserView(received.table)[fd] = UserView(table)[fd]
      BY <1>3 DEF UserView
    <3> QED
      BY <2>1, <3>1
  <2>4. CASE ~ safe.ok
    <3> DEFINE after == Close(safe.table, RangeOf(rights))
    <3>1. result = [ok |-> FALSE, table |-> after, held |-> safe.held]
      BY <1>0, <1>8, <2>4
    <3>2. after \in TableType /\ \A fd \in Fds : after[fd] = IF fd \in RangeOf(rights) THEN Closed
                                                             ELSE safe.table[fd]
      <4>1. safe.table \in TableType
        BY <2>1 DEF Sound
      <4>2. after \in TableType
        BY <4>1, ClosedTable
      <4> QED
        BY <4>2 DEF Close
    <3> HIDE DEF after
    <3>3. \A name \in DOMAIN safe.held : /\ safe.held[name] \in Fds
                                         /\ after[safe.held[name]] = Own(name)
      <4>1. \A name \in DOMAIN safe.held : /\ safe.held[name] \in Fds /\ name \in AnyName
                                           /\ safe.table[safe.held[name]] = Own(name)
        BY <1>4, <2>1 DEF Sound
      <4>2. \A name \in DOMAIN safe.held : safe.held[name] \notin RangeOf(rights)
        BY <1>3, <2>2, <4>1, NamesDiffer DEF RangeOf, Plain
      <4> QED
        BY <3>2, <4>1, <4>2
    <3>4. \A fd \in Fds : after[fd] \in Plain \/ fd \in RangeOf(safe.held)
      <4>1. \A fd \in Fds : safe.table[fd] \in Plain \/ fd \in RangeOf(safe.held)
        BY <2>1, NoNumbers DEF Sound
      <4> QED
        BY <3>2, <4>1 DEF Plain
    <3>5. Sound(after, safe.held, <<>>)
      BY <3>2, <3>3, <3>4, NoNumbers DEF Sound
    <3>6. \A fd \in Fds : UserView(after)[fd] = UserView(table)[fd]
      <4>1. \A fd \in Fds : fd \in RangeOf(rights) => UserView(after)[fd] = Closed
        BY <3>2, NamesDiffer DEF UserView
      <4>2. \A fd \in Fds : fd \notin RangeOf(rights) => UserView(after)[fd] = UserView(safe.table)[fd]
        BY <3>2 DEF UserView
      <4> QED
        BY <1>6, <2>3, <4>1, <4>2
    <3>7. UserView(after) = UserView(table)
      BY <3>6 DEF UserView
    <3> QED
      BY <2>1, <3>1, <3>5, <3>7 DEF result
  <2>5. CASE safe.ok
    <3>1. result = [ok |-> applied.ok, table |-> applied.table, held |-> safe.held]
      BY <1>0, <1>8, <2>5
    <3>2. /\ DOMAIN rights = T /\ rights \in [T -> Fds] /\ T \in SUBSET targets
          /\ \A k \in T : safe.table[rights[k]] \in Files /\ safe.table[rights[k]] = child.table[k]
      BY <1>1, <1>3, <1>8, <2>2 DEF T
    <3>3. /\ Sound(applied.table, safe.held, <<>>) /\ applied.ok \in BOOLEAN
          /\ \A fd \in Fds :
               UserView(applied.table)[fd] =
                 CASE applied.ok /\ fd \in T -> safe.table[rights[fd]]
                   [] applied.ok /\ fd \in targets \ T -> Closed
                   [] ~ (applied.ok /\ fd \in targets) /\ fd \in RangeOf(rights) -> Closed
                   [] OTHER -> UserView(safe.table)[fd]
      <4>1. targets \in SUBSET Fds /\ DOMAIN safe.held \subseteq AnyName
            /\ RangeOf(safe.held) \cap targets = {}
            /\ \A k, l \in T : rights[k] = rights[l] => k = l
        BY <1>3, <1>4, <2>1, <2>5, <3>2
      <4>2. T \in SUBSET targets /\ Sound(safe.table, safe.held, <<>>)
        BY <2>1, <3>2
      <4>3. Applied(applied, safe.table, safe.held, rights, targets)
        BY <3>2, <4>1, <4>2, ApplyKeeps
      <4> HIDE DEF applied
      <4> QED
        BY <3>2, <4>3 DEF Applied
    <3> HIDE DEF applied
    <3>4. CASE applied.ok
      <4>1. \A fd \in Fds : UserView(applied.table)[fd] =
               IF fd \in targets THEN UserView(child.table)[fd] ELSE UserView(table)[fd]
        <5>1. ASSUME NEW fd \in T
              PROVE  UserView(applied.table)[fd] = UserView(child.table)[fd]
          BY <1>1, <3>2, <3>3, <3>4
        <5>2. ASSUME NEW fd \in targets \ T
              PROVE  UserView(applied.table)[fd] = UserView(child.table)[fd]
          BY <1>1, <3>3, <3>4
        <5>3. ASSUME NEW fd \in Fds \ targets, fd \in RangeOf(rights)
              PROVE  UserView(applied.table)[fd] = UserView(table)[fd]
          BY <1>6, <3>2, <3>3, <3>4, <5>3
        <5>4. ASSUME NEW fd \in Fds \ targets, fd \notin RangeOf(rights)
              PROVE  UserView(applied.table)[fd] = UserView(table)[fd]
          BY <2>3, <3>2, <3>3, <3>4, <5>4
        <5> QED
          BY <5>1, <5>2, <5>3, <5>4
      <4>2. UserView(applied.table) = [fd \in Fds |-> IF fd \in targets THEN UserView(child.table)[fd]
                                                     ELSE UserView(table)[fd]]
        <5>1. UserView(applied.table) = [fd \in Fds |-> UserView(applied.table)[fd]]
          BY DEF UserView
        <5> QED
          BY <4>1, <5>1
      <4> QED
        BY <2>1, <3>1, <3>3, <3>4, <4>2 DEF result
    <3>5. CASE ~ applied.ok
      <4>1. \A fd \in Fds : UserView(applied.table)[fd] = UserView(table)[fd]
        BY <1>6, <2>3, <3>3, <3>5
      <4>2. UserView(applied.table) = UserView(table)
        BY <4>1 DEF UserView
      <4> QED
        BY <2>1, <3>1, <3>3, <3>5, <4>2 DEF result
    <3> QED
      BY <3>3, <3>4, <3>5
  <2> QED
    BY <2>1, <2>4, <2>5
<1> QED
  BY <1>3, <1>7, <1>8

------------------------------------------------------------------------------
(* The steps.                                                               *)

\* The reactor has numbers for these names, and the user sees no change.
Same(after, now, table, names) ==
  /\ now \in Numbers(Names) /\ DOMAIN now = names
  /\ Sound(after, now, <<>>) /\ UserView(after) = UserView(table)

LEMMA SoundOpen ==
    ASSUME NEW table, NEW own \in Numbers(Names), Sound(table, own, <<>>),
           NEW fd \in Fds, table[fd] = Closed, NEW name \in Names, name \notin DOMAIN own
    PROVE  Same([table EXCEPT ![fd] = Own(name)], With(own, name, fd),
                table, DOMAIN own \cup {name})
<1> DEFINE after == [table EXCEPT ![fd] = Own(name)]
           now == With(own, name, fd)
<1>1. /\ now \in Numbers(Names) /\ DOMAIN now = DOMAIN own \cup {name} /\ now[name] = fd
      /\ \A n \in DOMAIN own : now[n] = own[n]
      /\ \A n \in DOMAIN own : own[n] \in Fds
  <2>1. now \in Numbers(Names)
    BY WithNumbers
  <2>2. /\ DOMAIN now = DOMAIN own \cup {name} /\ now[name] = fd
        /\ \A n \in DOMAIN own : now[n] = own[n]
    BY DEF With
  <2> QED
    BY <2>1, <2>2 DEF Sound
<1>2. table \in TableType /\ name \in AnyName /\ Own(name) \in Values /\ Own(name) \notin Plain
  BY NamesDiffer DEF Sound, AnyName, Values
<1>3. /\ after \in TableType /\ after[fd] = Own(name)
      /\ \A x \in Fds : x # fd => after[x] = table[x]
  BY <1>2 DEF TableType
<1> HIDE DEF after, now
<1>4. \A n \in DOMAIN now : now[n] \in Fds /\ after[now[n]] = Own(n)
  <2>1. \A n \in DOMAIN own : own[n] \in Fds /\ table[own[n]] = Own(n) /\ own[n] # fd
    BY NamesDiffer DEF Sound
  <2> QED
    BY <1>1, <1>3, <2>1
<1>5. \A x \in Fds : after[x] \in Plain \/ x \in RangeOf(now)
  <2>1. \A x \in Fds : table[x] \in Plain \/ x \in RangeOf(own)
    BY NoNumbers DEF Sound
  <2>2. RangeOf(own) \subseteq RangeOf(now) /\ fd \in RangeOf(now)
    BY <1>1 DEF RangeOf
  <2> QED
    BY <1>3, <2>1, <2>2
<1>6. Sound(after, now, <<>>)
  BY <1>3, <1>4, <1>5, NoNumbers DEF Sound
<1>7. UserView(after) = UserView(table)
  <2>1. \A x \in Fds : after[x] = table[x] \/ {after[x], table[x]} \cap Files = {}
    <3>1. Own(name) \notin Files /\ Closed \notin Files
      BY <1>2, NamesDiffer DEF Plain
    <3>2. after[fd] \notin Files /\ table[fd] \notin Files
      BY <1>3, <3>1
    <3>3. \A x \in Fds : x # fd => after[x] = table[x]
      BY <1>3
    <3> QED
      BY <3>2, <3>3
  <2> QED
    BY <2>1 DEF UserView
<1> QED
  BY <1>1, <1>6, <1>7 DEF after, now, Same

(* The reactor closes what it has under some names.                         *)
LEMMA SoundWithout ==
    ASSUME NEW table, NEW own \in Numbers(Names), Sound(table, own, <<>>), NEW names
    PROVE  Same(Close(table, NumbersOf(own, names)), Without(own, names),
                table, DOMAIN own \ names)
<1> DEFINE fds == NumbersOf(own, names)
           left == Without(own, names)
           none == <<>>
<1>1. /\ DOMAIN left = DOMAIN own \ names /\ left \in [DOMAIN own \ names -> Fds]
      /\ \A n \in DOMAIN left : left[n] = own[n]
      /\ DOMAIN own \in SUBSET Names
  BY DEF Without, Numbers
<1>2. left \in Numbers(Names)
  BY <1>1 DEF Numbers
<1>3. DOMAIN none = {} /\ RangeOf(none) = {} /\ DOMAIN own \subseteq AnyName
  BY <1>1, NoNumbers DEF AnyName
<1>4. \A n \in DOMAIN own : table[own[n]] = Own(n) /\ own[n] \in Fds
  BY DEF Sound
<1>5. \A fd \in RangeOf(own) : fd \in RangeOf(left) \/ fd \in fds
  BY <1>1 DEF RangeOf, NumbersOf
<1>6. fds \cap RangeOf(left) = {}
  BY <1>1, <1>4, NamesDiffer DEF RangeOf, NumbersOf
<1>7. fds \subseteq RangeOf(own)
  BY DEF RangeOf, NumbersOf
<1> HIDE DEF fds, left, none
<1>8. Sound(Close(table, fds), left, none) /\ UserView(Close(table, fds)) = UserView(table)
  BY <1>1, <1>3, <1>5, <1>6, <1>7, SoundClose DEF none
<1> QED
  BY <1>1, <1>2, <1>8 DEF fds, left, none, Same

LEMMA ScriptTypes ==
    ASSUME NEW script \in Scripts
    PROVE  /\ script.commands \in Seq(CommandTypes) /\ script.sourced \in BOOLEAN
           /\ \A i \in 1..Len(script.commands) :
                /\ script.commands[i].kind \in {"exec", "exec utility", "builtin"}
                /\ script.commands[i].redirects \in Redirections
                /\ script.commands[i].redirects \in Seq(RedirectionTypes)
           /\ Recorded(script) \subseteq Fds /\ Protected(script) \subseteq Fds
           /\ ~ script.sourced => Recorded(script) = Claimed(script)
           /\ Claimed(script) \subseteq Fds
<1>1. script.commands \in Seq(CommandTypes) /\ script.sourced \in BOOLEAN
  BY CommandsAssumption
<1>2. \A i \in 1..Len(script.commands) :
        /\ script.commands[i].kind \in {"exec", "exec utility", "builtin"}
        /\ script.commands[i].redirects \in Redirections
        /\ script.commands[i].redirects \in Seq(RedirectionTypes)
  <2>1. \A i \in 1..Len(script.commands) : script.commands[i] \in CommandTypes
    BY <1>1
  <2> QED
    BY <2>1, RedirectionsAssumption DEF CommandTypes
<1>3. \A rs \in Seq(RedirectionTypes) : Targets(rs) \subseteq Fds /\ Sources(rs) \subseteq Fds
  BY DEF Targets, Sources, RedirectionTypes
<1>4. \A rs \in ExecRedirects(script) : rs \in Seq(RedirectionTypes)
  <2>1. DOMAIN script.commands = 1..Len(script.commands)
    BY <1>1
  <2> QED
    BY <1>2, <2>1 DEF ExecRedirects, Execs
<1>5. Claimed(script) \subseteq Fds /\ UNION {Sources(rs) : rs \in ExecRedirects(script)} \subseteq Fds
  BY <1>3, <1>4 DEF Claimed
<1> QED
  BY <1>1, <1>2, <1>5 DEF Recorded, Protected, Claimed


(* The evaluator is there in a phase of its own.                            *)
LEMMA Phases ==
    /\ NoChild.phase = "none"
    /\ \A c \in Evaluators : c # NoChild /\ c.phase # "none"
BY DEF NoChild, Evaluators

LEMMA InitKeeps ==
    ASSUME Init
    PROVE  DescriptorInv /\ Session!SessionInit
<1>1. owner \in Initial /\ child = NoChild /\ told = "done"
  BY DEF Init
<1>2. /\ owner \in [Fds -> Plain \cup {Own(name) : name \in Names \ ChannelNames}]
      /\ \A fd, other \in Fds : owner[fd] = owner[other] /\ owner[fd] \notin Plain => fd = other
  BY <1>1, InitialAssumption
<1>3. owner \in TableType /\ DOMAIN owner = Fds
  BY <1>2 DEF TableType, Values, AnyName
<1> DEFINE D == {n \in Names : Own(n) \in RangeOf(owner)}
<1>4. held = [name \in D |-> CHOOSE fd \in Fds : owner[fd] = Own(name)]
  BY DEF Init
<1>5. ASSUME NEW name \in D
      PROVE  held[name] \in Fds /\ owner[held[name]] = Own(name)
  <2>1. \E fd \in Fds : owner[fd] = Own(name)
    BY <1>3 DEF RangeOf
  <2> HIDE DEF D
  <2> QED
    BY <1>4, <2>1
<1>6. DOMAIN held = D /\ held \in Numbers(Names)
  <2>1. held \in [D -> Fds]
    <3> HIDE DEF D
    <3> QED
      BY <1>4, <1>5
  <2> QED
    BY <2>1 DEF Numbers
<1>7. ASSUME NEW fd \in Fds, owner[fd] \notin Plain
      PROVE  fd \in RangeOf(held)
  <2>1. PICK name \in Names : owner[fd] = Own(name)
    BY <1>2, <1>7
  <2>2. name \in D
    BY <1>3, <2>1 DEF RangeOf
  <2>3. held[name] = fd
    BY <1>2, <1>5, <1>7, <2>1, <2>2
  <2> QED
    BY <1>6, <2>2, <2>3 DEF RangeOf
<1>8. Sound(owner, held, <<>>)
  BY <1>3, <1>5, <1>6, <1>7, NoNumbers DEF Sound
<1>9. DOMAIN held \cap ChannelNames = {}
  <2> SUFFICES ASSUME NEW name \in D, name \in ChannelNames PROVE FALSE
    BY <1>6
  <2>1. PICK fd \in Fds : owner[fd] = Own(name)
    BY <1>3 DEF RangeOf
  <2> QED
    BY <1>2, <2>1, NamesDiffer DEF AnyName
<1>10. DescriptorInv
  BY <1>1, <1>6, <1>8, <1>9 DEF DescriptorInv
<1>11. Session!SessionInit
  BY <1>1, Phases, ViewTyped DEF Session!SessionInit, WorkOf
<1> QED
  BY <1>10, <1>11

(* The invariant after a step, from what it says of the new values.         *)
LEMMA InvAfter ==
    ASSUME held' \in Numbers(Names), Sound(owner', held', <<>>),
           \/ child' = NoChild /\ DOMAIN held' \cap ChannelNames = {}
           \/ EvaluatorOK(child') /\ DOMAIN held' \cap ChannelNames = Transactions(child'.script)
    PROVE  DescriptorInv'
BY DEF DescriptorInv

LEMMA LaunchKeeps ==
    ASSUME DescriptorInv, NEW script \in Scripts, Launch(script)
    PROVE  DescriptorInv' /\ (Session!Begin \/ Session!Refuse)
<1> DEFINE made == OpenChannels(owner, held, Channels(script))
           moved == MoveAway(made.table, made.fds, Channels(script), Protected(script))
           safe == IF made.ok /\ ExecPossible(script) THEN moved
                   ELSE [ok |-> made.ok, table |-> made.table, fds |-> made.fds]
           its == EvaluatorTable(safe.table, made.held, safe.fds)
           mine == ShellTable(safe.table, made.held, safe.fds)
           ends == Without(safe.fds, {"gate"})
           left == Without(made.held, {"gate"})
           c == [phase |-> "running", script |-> script, next |-> 1, dirty |-> FALSE,
                 outcome |-> "none", table |-> its, ends |-> ends]
<1>1. /\ child = NoChild /\ held \in Numbers(Names) /\ Sound(owner, held, <<>>)
      /\ DOMAIN held \cap ChannelNames = {}
  BY Phases DEF DescriptorInv, Launch, EvaluatorOK
<1>2. \/ safe.ok /\ child' = c /\ owner' = mine /\ held' = left /\ told' = told
      \/ ~ safe.ok /\ told' = "refused" /\ UNCHANGED <<owner, held, child>>
  BY DEF Launch
<1>3. CASE ~ safe.ok
  <2>1. DescriptorInv'
    BY <1>2, <1>3 DEF DescriptorInv, EvaluatorOK, EvaluatorSound
  <2>2. Session!Refuse
    BY <1>1, <1>2, <1>3, Phases DEF Session!Refuse, WorkOf, UserView, Claimed
  <2> QED
    BY <2>1, <2>2
<1>4. CASE safe.ok
  <2>0. made.ok
    BY <1>4
  <2>1. /\ ends \in Numbers(ChannelNames) /\ DOMAIN ends = Transactions(script)
        /\ left \in Numbers(Names) /\ DOMAIN left \cap ChannelNames = Transactions(script)
        /\ Sound(its, <<>>, ends) /\ UserView(its) = UserView(owner)
        /\ Sound(mine, left, <<>>) /\ UserView(mine) = UserView(owner)
        /\ \A channel \in DOMAIN ends : ends[channel] > 2
        /\ ExecPossible(script) => RangeOf(ends) \cap Protected(script) = {}
    BY <1>1, <1>4, <2>0, LaunchSound
  <2> HIDE DEF its, mine, ends, left
  <2>2. EvaluatorOK(c) /\ c.script = script /\ c # NoChild
    <3>1. c \in Evaluators
      BY <2>1 DEF Evaluators, Outcomes, Sound
    <3>2. EvaluatorSound(c)
      BY <2>1 DEF EvaluatorSound
    <3>3. Changing(c) = {}
      BY DEF Changing
    <3>4. Len(script.commands) \in Nat
      <4>1. script.commands \in Seq(CommandTypes)
        BY ScriptTypes
      <4> QED
        BY <4>1
    <3>5. /\ c.phase = "running" /\ c.script = script /\ c.next = 1 /\ ~ c.dirty
          /\ c.outcome = "none" /\ c.ends = ends /\ c.table = its
      OBVIOUS
    <3> HIDE DEF c
    <3> QED
      BY <2>1, <3>1, <3>2, <3>3, <3>4, <3>5, Phases DEF EvaluatorOK
  <2>3. DescriptorInv'
    <3> HIDE DEF c, safe
    <3> QED
      BY <1>2, <1>4, <2>1, <2>2, InvAfter
  <2>4. Session!Begin
    <3>1. /\ child' = c /\ owner' = mine /\ told' = told
      BY <1>2, <1>4
    <3>2. WorkOf = "idle" /\ WorkOf' = "working"
      BY <1>1, <3>1, Phases DEF WorkOf
    <3>3. Claimed(script) \subseteq Fds
      BY ScriptTypes
    <3>4. UserView(owner') = UserView(owner) /\ UserView(child'.table) = UserView(owner)
      BY <2>1, <3>1
    <3> QED
      BY <1>1, <2>2, <3>1, <3>2, <3>3, <3>4 DEF Session!Begin
  <2> QED
    BY <2>3, <2>4
<1> QED
  BY <1>3, <1>4

\* What a step does that only concerns the evaluator.
MappedStep == Session!SessionNext \/ UNCHANGED Session!sessionVars

(* What an evaluator is, read off the invariant.                            *)
LEMMA EvaluatorThere ==
    ASSUME DescriptorInv, child # NoChild
    PROVE  /\ EvaluatorOK(child) /\ child \in Evaluators /\ child.script \in Scripts
           /\ child.next \in 1..Len(child.script.commands) + 1
           /\ Len(child.script.commands) \in Nat
           /\ child.table \in TableType /\ child.ends \in Numbers(ChannelNames)
           /\ child.phase \in {"running", "sent", "over", "killed", "replaced"}
           /\ child.dirty \in BOOLEAN /\ child.outcome \in Outcomes
           /\ DOMAIN child.ends = Transactions(child.script)
           /\ DOMAIN held \cap ChannelNames = Transactions(child.script)
<1>1. EvaluatorOK(child) /\ DOMAIN held \cap ChannelNames = Transactions(child.script)
  BY DEF DescriptorInv
<1>2. child \in Evaluators /\ child.next \in 1..Len(child.script.commands) + 1
      /\ DOMAIN child.ends = Transactions(child.script)
  BY <1>1 DEF EvaluatorOK
<1>3. /\ child.script \in Scripts /\ child.table \in TableType
      /\ child.ends \in Numbers(ChannelNames) /\ child.dirty \in BOOLEAN
      /\ child.outcome \in Outcomes
      /\ child.phase \in {"running", "sent", "over", "killed", "replaced"}
  BY <1>2 DEF Evaluators
<1>4. child.script.commands \in Seq(CommandTypes)
  BY <1>3, ScriptTypes
<1>5. Len(child.script.commands) \in Nat
  BY <1>4
<1> QED
  BY <1>1, <1>2, <1>3, <1>5

(* Only the evaluator has changed, and it is as it has to be.               *)
LEMMA EvaluatorAfter ==
    ASSUME DescriptorInv, child # NoChild, UNCHANGED <<owner, held>>,
           EvaluatorOK(child'), child'.script = child.script
    PROVE  DescriptorInv'
<1>1. /\ held \in Numbers(Names) /\ Sound(owner, held, <<>>)
      /\ DOMAIN held \cap ChannelNames = Transactions(child.script)
  BY DEF DescriptorInv
<1> QED
  BY <1>1, InvAfter

(* Its ends answer, unless the commands came from a file.                   *)
LEMMA EndsAnswer ==
    ASSUME DescriptorInv, child # NoChild, ~ child.script.sourced, Execs(child.script) # {},
           NEW channel \in {"commit", "outcome", "descriptors"}
    PROVE  Reaches(channel) /\ child.ends[channel] > 2
<1>1. /\ DOMAIN child.ends = Transactions(child.script)
      /\ Sound(child.table, <<>>, child.ends)
      /\ \A c \in DOMAIN child.ends : child.ends[c] > 2
  BY EvaluatorThere DEF EvaluatorOK, EvaluatorSound
<1>2. channel \in DOMAIN child.ends
  BY <1>1 DEF Transactions, ExecPossible
<1>3. child.table[child.ends[channel]] = End(channel)
  BY <1>1, <1>2 DEF Sound
<1> QED
  BY <1>1, <1>2, <1>3 DEF Reaches

LEMMA EvaluatorDiesKeeps ==
    ASSUME DescriptorInv, EvaluatorDies
    PROVE  DescriptorInv' /\ Session!Lose
<1>1. /\ child.phase = "running" /\ child' = [child EXCEPT !.phase = "killed"]
      /\ UNCHANGED <<owner, held, told>>
  BY DEF EvaluatorDies
<1>2. child # NoChild
  BY <1>1, Phases
<1>3. EvaluatorOK(child) /\ child \in Evaluators
  BY <1>2, EvaluatorThere
<1>4. /\ child' \in Evaluators /\ child'.phase = "killed" /\ child'.script = child.script
      /\ child'.next = child.next /\ child'.dirty = child.dirty
      /\ child'.outcome = child.outcome
      /\ child'.table = child.table /\ child'.ends = child.ends
  BY <1>1, <1>3 DEF Evaluators
<1>5. Changing(child') = Changing(child) /\ EvaluatorSound(child') = EvaluatorSound(child)
  BY <1>4 DEF Changing, EvaluatorSound
<1>6. EvaluatorOK(child')
  BY <1>1, <1>3, <1>4, <1>5 DEF EvaluatorOK
<1>7. DescriptorInv'
  BY <1>1, <1>2, <1>4, <1>6, EvaluatorAfter
<1>8. WorkOf = "working" /\ WorkOf' = "lost" /\ child' # NoChild
  BY <1>1, <1>4, Phases DEF WorkOf
<1>9. Session!Lose
  BY <1>1, <1>2, <1>4, <1>8 DEF Session!Lose
<1> QED
  BY <1>7, <1>9

LEMMA SendDescriptorsKeeps ==
    ASSUME DescriptorInv, SendDescriptors
    PROVE  DescriptorInv' /\ UNCHANGED Session!sessionVars
<1> DEFINE phase == IF child.dirty /\ Reaches("descriptors") THEN "sent" ELSE "over"
<1>1. /\ child.phase = "running" /\ child.next > Len(child.script.commands)
      /\ child' = [child EXCEPT !.phase = phase]
      /\ UNCHANGED <<owner, held, told>>
  BY DEF SendDescriptors
<1>2. child # NoChild
  BY <1>1, Phases
<1>3. EvaluatorOK(child) /\ child \in Evaluators
  BY <1>2, EvaluatorThere
<1>4. /\ child' \in Evaluators /\ child'.phase = phase /\ child'.script = child.script
      /\ child'.next = child.next /\ child'.dirty = child.dirty
      /\ child'.outcome = child.outcome
      /\ child'.table = child.table /\ child'.ends = child.ends
  <2>1. phase \in {"sent", "over"}
    OBVIOUS
  <2> HIDE DEF phase
  <2> QED
    BY <1>1, <1>3, <2>1 DEF Evaluators
<1>5. Changing(child') = Changing(child) /\ EvaluatorSound(child') = EvaluatorSound(child)
  BY <1>4 DEF Changing, EvaluatorSound
<1>6. child'.next = Len(child'.script.commands) + 1
  BY <1>1, <1>2, <1>4, EvaluatorThere
<1>7. phase = "over" /\ ~ child.script.sourced => ~ child.dirty
  BY <1>2, <1>3, EndsAnswer DEF EvaluatorOK
<1>8. phase = "sent" => "descriptors" \in DOMAIN child.ends
  BY DEF Reaches
<1>9. phase \in {"sent", "over"}
  OBVIOUS
<1>10. EvaluatorOK(child')
  <2> HIDE DEF phase
  <2> QED
    BY <1>1, <1>3, <1>4, <1>5, <1>6, <1>7, <1>8, <1>9 DEF EvaluatorOK
<1>11. DescriptorInv'
  <2> HIDE DEF phase
  <2> QED
    BY <1>1, <1>2, <1>4, <1>10, EvaluatorAfter
<1>12. WorkOf = "working" /\ WorkOf' = "working" /\ child' # NoChild
  <2> HIDE DEF phase
  <2> QED
    BY <1>1, <1>4, <1>9, Phases DEF WorkOf
<1>13. UNCHANGED Session!sessionVars
  <2> HIDE DEF phase
  <2> QED
    BY <1>1, <1>2, <1>4, <1>12 DEF Session!sessionVars
<1> QED
  BY <1>11, <1>13

(* A command that has been evaluated: what exec changed in it has been      *)
(* noticed.                                                                 *)
LEMMA NextCommand ==
    ASSUME DescriptorInv, child.phase = "running", child.next <= Len(child.script.commands),
           UNCHANGED <<owner, held>>,
           NEW table \in TableType, NEW dirty \in BOOLEAN, NEW outcome \in Outcomes,
           NEW phase \in {"running", "replaced"},
           child' = [child EXCEPT !.next = @ + 1, !.table = table, !.dirty = dirty,
                                  !.outcome = outcome, !.phase = phase],
           ~ child.script.sourced => Sound(table, <<>>, child.ends),
           child.dirty => dirty, dirty => Execs(child.script) # {},
           phase = "replaced" => Execs(child.script) # {},
           phase = "replaced" /\ ~ child.script.sourced => outcome \in {"overlaid", "invalid"},
           outcome = "overlaid" => phase = "replaced",
           child.next \in Execs(child.script) =>
             dirty \/ child.script.commands[child.next].redirects = <<>>
    PROVE  DescriptorInv'
<1>1. child # NoChild
  BY Phases
<1>2. /\ EvaluatorOK(child) /\ child \in Evaluators
      /\ child.next \in 1..Len(child.script.commands)
      /\ Len(child.script.commands) \in Nat
  BY <1>1, EvaluatorThere
<1>3. /\ child' \in Evaluators /\ child'.phase = phase /\ child'.script = child.script
      /\ child'.next = child.next + 1 /\ child'.dirty = dirty /\ child'.outcome = outcome
      /\ child'.table = table /\ child'.ends = child.ends
  <2>1. child.next + 1 \in Nat
    BY <1>2
  <2>2. child' = [phase |-> phase, script |-> child.script, next |-> child.next + 1,
                  dirty |-> dirty, outcome |-> outcome, table |-> table, ends |-> child.ends]
    BY <1>2 DEF Evaluators
  <2>3. child.script \in Scripts /\ child.ends \in Numbers(ChannelNames)
    BY <1>2 DEF Evaluators
  <2> QED
    BY <2>1, <2>2, <2>3 DEF Evaluators
<1>4. ASSUME ~ dirty
      PROVE  Changing(child') = {}
  <2>1. Changing(child) = {}
    BY <1>2, <1>4 DEF EvaluatorOK
  <2>2. ASSUME NEW i \in Changing(child')
        PROVE  FALSE
    <3>1. /\ i \in 1..child.next /\ i \in Execs(child.script)
          /\ child.script.commands[i].redirects # <<>>
      BY <1>2, <1>3, <2>2 DEF Changing
    <3>2. i # child.next
      BY <1>4, <3>1
    <3>3. i \in 1..child.next - 1
      BY <1>2, <3>1, <3>2
    <3> QED
      BY <2>1, <3>1, <3>3 DEF Changing
  <2> QED
    BY <2>2
<1>5. ~ child.script.sourced => EvaluatorSound(child')
  BY <1>2, <1>3 DEF EvaluatorOK, EvaluatorSound
<1>6. EvaluatorOK(child')
  BY <1>2, <1>3, <1>4, <1>5 DEF EvaluatorOK
<1> QED
  BY <1>1, <1>3, <1>6, EvaluatorAfter

LEMMA EvaluateCommandKeeps ==
    ASSUME DescriptorInv, EvaluateCommand
    PROVE  DescriptorInv' /\ (~ child.script.sourced => MappedStep)
<1> DEFINE command == child.script.commands[child.next]
           redirects == command.redirects
<1>1. /\ child.phase = "running" /\ child.next <= Len(child.script.commands)
      /\ UNCHANGED <<owner, held, told>>
  BY DEF EvaluateCommand
<1>2. child # NoChild
  BY <1>1, Phases
<1>3. /\ EvaluatorOK(child) /\ child \in Evaluators /\ child.script \in Scripts
      /\ child.table \in TableType /\ child.dirty \in BOOLEAN /\ child.outcome \in Outcomes
      /\ child.outcome # "overlaid"
      /\ child.next \in 1..Len(child.script.commands)
      /\ child.ends \in Numbers(ChannelNames)
  BY <1>1, <1>2, EvaluatorThere DEF EvaluatorOK
<1>4. /\ redirects \in Seq(RedirectionTypes) /\ redirects \in Redirections
      /\ command.kind \in {"exec", "exec utility", "builtin"}
      /\ DOMAIN child.script.commands = 1..Len(child.script.commands)
  <2>1. child.script.commands \in Seq(CommandTypes)
    BY <1>3, ScriptTypes
  <2>2. DOMAIN child.script.commands = 1..Len(child.script.commands)
    BY <2>1
  <2> QED
    BY <1>3, <2>2, ScriptTypes
<1>5. ~ child.script.sourced => Sound(child.table, <<>>, child.ends)
  BY <1>3 DEF EvaluatorOK, EvaluatorSound
<1>6. child.dirty => Execs(child.script) # {}
  BY <1>3 DEF EvaluatorOK
<1>7. child.next \in Execs(child.script) <=> command.kind # "builtin"
  BY <1>3, <1>4 DEF Execs
<1>8. PICK refused \in MayRefuse(redirects) :
        LET applied == ApplyRedirects(child.table, redirects, refused)
            tried == command.kind = "exec utility" /\ applied.ok
        IN \/ /\ command.kind = "builtin"
              /\ child' = [child EXCEPT !.next = @ + 1,
                                        !.table = Borrow(@, redirects, refused)]
           \/ /\ command.kind # "builtin"
              /\ \E replaced \in {FALSE, tried} :
                   child' = [child EXCEPT !.next = @ + 1, !.table = applied.table,
                                          !.dirty = @ \/ redirects # <<>>,
                                          !.outcome = IF tried
                                            THEN OutcomeAfter(applied.table, replaced) ELSE @,
                                          !.phase = IF replaced THEN "replaced" ELSE @]
  BY DEF EvaluateCommand
<1> HIDE DEF command, redirects
<1>9. CASE command.kind = "builtin"
  <2>1. child' = [child EXCEPT !.next = @ + 1, !.table = child.table,
                               !.dirty = child.dirty, !.outcome = child.outcome,
                               !.phase = "running"]
    <3>1. Borrow(child.table, redirects, refused) = child.table
      BY <1>3, <1>4, BorrowIsNothing
    <3>2. child' = [child EXCEPT !.next = @ + 1, !.table = child.table]
      BY <1>8, <1>9, <3>1
    <3> QED
      BY <1>1, <1>3, <3>2 DEF Evaluators
  <2>2. DescriptorInv'
    <3>1. child.next \notin Execs(child.script)
      BY <1>7, <1>9
    <3> QED
      BY <1>1, <1>3, <1>5, <1>6, <2>1, <3>1, NextCommand
  <2>3. /\ child'.phase = "running" /\ child'.script = child.script /\ child'.table = child.table
    BY <1>3, <2>1 DEF Evaluators
  <2>4. WorkOf = "working" /\ WorkOf' = "working" /\ child' # NoChild
    BY <1>1, <2>3, Phases DEF WorkOf
  <2>5. UNCHANGED Session!sessionVars
    BY <1>1, <1>2, <2>3, <2>4 DEF Session!sessionVars
  <2> QED
    BY <2>2, <2>5 DEF MappedStep
<1>10. CASE command.kind # "builtin"
  <2> DEFINE applied == ApplyRedirects(child.table, redirects, refused)
             dirty == child.dirty \/ redirects # <<>>
             tried == command.kind = "exec utility" /\ applied.ok
  <2>0. PICK replaced \in {FALSE, tried} :
          child' = [child EXCEPT !.next = @ + 1, !.table = applied.table,
                                 !.dirty = @ \/ redirects # <<>>,
                                 !.outcome = IF tried
                                   THEN OutcomeAfter(applied.table, replaced) ELSE @,
                                 !.phase = IF replaced THEN "replaced" ELSE @]
    BY <1>8, <1>10
  <2> DEFINE phase == IF replaced THEN "replaced" ELSE "running"
             outcome == IF tried THEN OutcomeAfter(applied.table, replaced) ELSE child.outcome
  <2>1. child' = [child EXCEPT !.next = @ + 1, !.table = applied.table, !.dirty = dirty,
                               !.outcome = outcome, !.phase = phase]
    BY <1>1, <2>0
  <2>2. /\ applied \in RedirectStates /\ applied.table \in TableType
        /\ \A fd \in Fds \ Targets(redirects) : applied.table[fd] = child.table[fd]
    <3>1. /\ applied \in RedirectStates
          /\ \A fd \in Fds \ Targets(redirects) : applied.table[fd] = child.table[fd]
      BY <1>3, <1>4, RedirectsFrame
    <3> QED
      BY <3>1 DEF RedirectStates
  <2>3. child.next \in Execs(child.script)
    BY <1>7, <1>10
  <2>4. redirects \in ExecRedirects(child.script)
    BY <2>3 DEF ExecRedirects, redirects, command
  <2>5. ASSUME ~ child.script.sourced
        PROVE  /\ Sound(applied.table, <<>>, child.ends)
               /\ UserView(applied.table) \in Session!Effects(UserView(child.table), redirects)
    <3>1. ExecPossible(child.script)
      BY <2>3, <2>5 DEF ExecPossible
    <3>2. RangeOf(child.ends) \cap Protected(child.script) = {}
      BY <1>3, <2>5, <3>1 DEF EvaluatorOK, EvaluatorSound
    <3>3. Targets(redirects) \cup Sources(redirects) \subseteq Protected(child.script)
      BY <2>4, <2>5 DEF Protected, Recorded
    <3>4. Avoids(redirects, <<>>, child.ends)
      BY <3>2, <3>3, NoNumbers DEF Avoids
    <3>5. Sound(child.table, <<>>, child.ends)
      BY <1>5, <2>5
    <3> QED
      BY <1>4, <3>4, <3>5, RedirectsSound
  <2>10. /\ outcome \in Outcomes /\ phase \in {"running", "replaced"}
         /\ outcome = "overlaid" => phase = "replaced"
    BY <1>3 DEF OutcomeAfter, Outcomes
  <2>11. ASSUME phase = "replaced", ~ child.script.sourced
         PROVE  outcome \in {"overlaid", "invalid"}
    <3>1. replaced /\ tried
      BY <2>0, <2>11
    <3>2. /\ DOMAIN child.ends = Transactions(child.script)
          /\ \A channel \in DOMAIN child.ends : child.ends[channel] > 2
      BY <1>3, <2>11 DEF EvaluatorOK, EvaluatorSound
    <3>3. "outcome" \in DOMAIN child.ends
      BY <2>3, <2>11, <3>2 DEF Transactions, ExecPossible
    <3>4. Notifies(applied.table)
      BY <2>5, <2>11, <3>2, <3>3 DEF Notifies, Sound
    <3> QED
      BY <3>1, <3>4 DEF OutcomeAfter
  <2> HIDE DEF applied, outcome, phase
  <2>6. DescriptorInv'
    <3>1. dirty \in BOOLEAN /\ (child.dirty => dirty)
      BY <1>3
    <3>2. dirty \/ child.script.commands[child.next].redirects = <<>>
      BY DEF redirects, command
    <3>3. Execs(child.script) # {}
      BY <2>3
    <3>4. ~ child.script.sourced => Sound(applied.table, <<>>, child.ends)
      BY <2>5
    <3> HIDE DEF dirty
    <3> QED
      BY <1>1, <2>1, <2>2, <2>10, <2>11, <3>1, <3>2, <3>3, <3>4, NextCommand
  <2>7. /\ child'.phase = phase /\ child'.script = child.script /\ child'.table = applied.table
    <3> HIDE DEF dirty
    <3>1. child' = [phase |-> phase, script |-> child.script, next |-> child.next + 1,
                    dirty |-> dirty, outcome |-> outcome, table |-> applied.table,
                    ends |-> child.ends]
      BY <1>3, <2>1 DEF Evaluators
    <3> QED
      BY <3>1
  <2>8. WorkOf = "working" /\ WorkOf' \in {"working", "replaced"} /\ child' # NoChild
    BY <1>1, <2>7, <2>10, Phases DEF WorkOf
  <2>9. ASSUME ~ child.script.sourced
        PROVE  Session!Evaluate
    <3>1. Targets(redirects) \subseteq Claimed(child.script)
      BY <2>4 DEF Claimed
    <3>2. \A fd \in Fds \ Claimed(child.script) :
            UserView(applied.table)[fd] = UserView(child.table)[fd]
      BY <2>2, <3>1 DEF UserView
    <3>3. UserView(applied.table) \in Session!Effects(UserView(child.table), redirects)
      BY <2>5, <2>9
    <3> QED
      BY <1>1, <1>2, <1>4, <2>7, <2>8, <3>2, <3>3 DEF Session!Evaluate
  <2> QED
    BY <2>6, <2>9 DEF MappedStep, Session!SessionNext
<1> QED
  BY <1>9, <1>10

\* What the reactor reads of the end of an evaluator.
Exec == {"outcome", "descriptors"}
Remaining == Without(held, Exec)
Beginning == Close(owner, NumbersOf(held, Exec))

(* What is received at the end of an evaluator is what it did to the        *)
(* descriptors its commands name.                                           *)
LEMMA FinishReceives ==
    ASSUME DescriptorInv, child # NoChild
    PROVE  LET result == IF child.phase = "sent" THEN ReceiveDescriptors(Beginning, Remaining)
                         ELSE [ok |-> TRUE, table |-> Beginning, held |-> Remaining]
           IN /\ result.held \in Numbers(Names) /\ result.ok \in BOOLEAN
              /\ DOMAIN result.held = DOMAIN held \ Exec
              /\ Sound(result.table, result.held, <<>>)
              /\ UserView(result.table) =
                   IF child.phase = "sent" /\ result.ok
                   THEN [fd \in Fds |-> IF fd \in Recorded(child.script)
                                        THEN UserView(child.table)[fd] ELSE UserView(owner)[fd]]
                   ELSE UserView(owner)
<1>1. /\ EvaluatorOK(child) /\ child.script \in Scripts
      /\ DOMAIN child.ends = Transactions(child.script)
  BY EvaluatorThere
<1>2. held \in Numbers(Names) /\ Sound(owner, held, <<>>)
  BY DEF DescriptorInv
<1>3. /\ Remaining \in Numbers(Names) /\ DOMAIN Remaining = DOMAIN held \ Exec
      /\ Sound(Beginning, Remaining, <<>>) /\ UserView(Beginning) = UserView(owner)
  BY <1>2, SoundWithout DEF Remaining, Beginning, Same
<1> DEFINE D == DOMAIN Remaining
           targets == Recorded(child.script)
<1>4. D \in SUBSET Names /\ Remaining \in [D -> Fds]
  BY <1>3 DEF Numbers
<1>5. CASE child.phase = "sent"
  <2>1. targets \subseteq Fds
    BY <1>1, ScriptTypes
  <2>2. \A fd \in targets : child.table[fd] \in Plain
    <3>1. CASE child.script.sourced
      BY <3>1 DEF Recorded
    <3>2. CASE ~ child.script.sourced
      <4>1. "descriptors" \in Transactions(child.script)
        BY <1>1, <1>5 DEF EvaluatorOK
      <4>2. ExecPossible(child.script)
        BY <4>1 DEF Transactions
      <4>3. Sound(child.table, <<>>, child.ends) /\ RangeOf(child.ends) \cap Protected(child.script) = {}
        BY <1>1, <3>2, <4>2 DEF EvaluatorOK, EvaluatorSound
      <4>4. targets \subseteq Protected(child.script)
        BY <3>2 DEF Protected
      <4> QED
        BY <2>1, <4>3, <4>4, NoNumbers DEF Sound
    <3> QED
      BY <3>1, <3>2
  <2> DEFINE result == ReceiveDescriptors(Beginning, Remaining)
  <2>3. /\ result.held \in [D -> Fds] /\ result.ok \in BOOLEAN
        /\ Sound(result.table, result.held, <<>>)
        /\ UserView(result.table) =
             IF result.ok THEN [fd \in Fds |-> IF fd \in targets THEN UserView(child.table)[fd]
                                               ELSE UserView(Beginning)[fd]]
             ELSE UserView(Beginning)
    <3>1. Delivered(ReceiveDescriptors(Beginning, Remaining), D, Beginning, targets)
      <4> HIDE DEF D, targets
      <4>1. targets = Recorded(child.script)
        BY DEF targets
      <4> QED
        BY <1>3, <1>4, <2>1, <2>2, <4>1, ReceiveSound
    <3> QED
      BY <3>1 DEF Delivered
  <2>4. DOMAIN result.held = D /\ result.held \in Numbers(Names)
    <3> HIDE DEF D, result
    <3> QED
      BY <1>4, <2>3 DEF Numbers
  <2> HIDE DEF result
  <2>5. UserView(result.table) =
          IF result.ok THEN [fd \in Fds |-> IF fd \in targets THEN UserView(child.table)[fd]
                                            ELSE UserView(owner)[fd]]
          ELSE UserView(owner)
    BY <1>3, <2>3
  <2> QED
    BY <1>3, <1>5, <2>3, <2>4, <2>5 DEF result
<1>6. CASE child.phase # "sent"
  BY <1>3, <1>6
<1> QED
  BY <1>5, <1>6

(* An evaluator whose descriptors are not sent has changed none of them.    *)
LEMMA NothingClaimed ==
    ASSUME DescriptorInv, child.phase = "over", ~ child.script.sourced
    PROVE  Claimed(child.script) = {}
<1>1. child # NoChild
  BY Phases
<1>2. EvaluatorOK(child) /\ child.script \in Scripts
  BY <1>1, EvaluatorThere
<1>3. Changing(child) = {} /\ child.next = Len(child.script.commands) + 1
  BY <1>2 DEF EvaluatorOK
<1>4. child.script.commands \in Seq(CommandTypes)
  BY <1>2, ScriptTypes
<1>5. ASSUME NEW rs \in ExecRedirects(child.script)
      PROVE  Targets(rs) = {}
  <2>1. PICK i \in Execs(child.script) : rs = child.script.commands[i].redirects
    BY DEF ExecRedirects
  <2>2. i \in 1..child.next - 1
    BY <1>3, <1>4, <2>1 DEF Execs
  <2>3. rs = <<>>
    BY <1>3, <2>1, <2>2 DEF Changing
  <2> QED
    BY <2>3 DEF Targets
<1> QED
  BY <1>5 DEF Claimed

LEMMA FinishJobKeeps ==
    ASSUME DescriptorInv, FinishJob
    PROVE  DescriptorInv' /\ (~ child.script.sourced => Session!TakeOver \/ Session!GiveUp)
<1> DEFINE result == IF child.phase = "sent" THEN ReceiveDescriptors(Beginning, Remaining)
                     ELSE [ok |-> TRUE, table |-> Beginning, held |-> Remaining]
           changed == [fd \in Fds |-> IF fd \in Recorded(child.script)
                                      THEN UserView(child.table)[fd] ELSE UserView(owner)[fd]]
<1>1. /\ child.phase \in {"sent", "over", "killed", "replaced"}
      /\ owner' = Close(result.table, NumbersOf(result.held, {"commit"}))
      /\ held' = Without(result.held, {"commit"})
      /\ told' = IF child.outcome = "overlaid" THEN "ended"
                 ELSE IF ~ result.ok THEN "rejected"
                 ELSE IF child.outcome = "invalid" THEN "failed"
                 ELSE IF child.phase = "killed" THEN "killed" ELSE "done"
      /\ child' = NoChild
  BY Zenon DEF FinishJob, Exec, Remaining, Beginning
<1>2. child # NoChild
  BY <1>1, Phases
<1>3. /\ result.held \in Numbers(Names) /\ result.ok \in BOOLEAN
      /\ DOMAIN result.held = DOMAIN held \ Exec
      /\ Sound(result.table, result.held, <<>>)
      /\ UserView(result.table) = IF child.phase = "sent" /\ result.ok THEN changed
                                  ELSE UserView(owner)
  BY <1>2, FinishReceives
<1>4. child.phase # "sent" => result.ok
  OBVIOUS
<1> HIDE DEF result, changed
<1>5. /\ held' \in Numbers(Names) /\ DOMAIN held' = DOMAIN result.held \ {"commit"}
      /\ Sound(owner', held', <<>>) /\ UserView(owner') = UserView(result.table)
  <2>1. PICK table, own : table = result.table /\ own = result.held
    OBVIOUS
  <2>2. own \in Numbers(Names) /\ Sound(table, own, <<>>)
    BY <1>3, <2>1
  <2>3. Same(Close(table, NumbersOf(own, {"commit"})), Without(own, {"commit"}),
             table, DOMAIN own \ {"commit"})
    BY <2>2, SoundWithout
  <2> QED
    BY <1>1, <2>1, <2>3 DEF Same
<1>6. DescriptorInv'
  <2>1. DOMAIN held \cap ChannelNames = Transactions(child.script)
    BY <1>2, EvaluatorThere
  <2>2. DOMAIN held' \cap ChannelNames = {}
    BY <1>3, <1>5, <2>1 DEF Transactions, Exec
  <2> QED
    BY <1>1, <1>5, <2>2, InvAfter
<1>7. ASSUME ~ child.script.sourced
      PROVE  Session!TakeOver \/ Session!GiveUp
  <2>1. WorkOf' = "idle" /\ child' = NoChild
    BY <1>1, Phases DEF WorkOf
  <2>2. child.script \in Scripts
    BY <1>2, EvaluatorThere
  <2>3. Recorded(child.script) = Claimed(child.script) /\ Claimed(child.script) \subseteq Fds
    BY <1>7, <2>2, ScriptTypes
  <2>4. /\ child.phase = "replaced" => child.outcome \in {"overlaid", "invalid"}
        /\ child.outcome = "overlaid" => child.phase = "replaced"
    BY <1>2, <1>7, EvaluatorThere DEF EvaluatorOK
  <2>5. CASE child.phase \in {"sent", "over"} /\ result.ok
    <3>1. told' \in {"done", "failed"} /\ WorkOf = "working"
      BY <1>1, <2>4, <2>5 DEF WorkOf
    <3>2. UserView(owner') = changed
      <4>1. CASE child.phase = "sent"
        BY <1>3, <1>5, <2>5, <4>1
      <4>2. CASE child.phase = "over"
        <5>1. Recorded(child.script) = {}
          BY <1>7, <2>3, <4>2, NothingClaimed
        <5>2. changed = UserView(owner)
          BY <5>1 DEF changed, UserView
        <5> QED
          BY <1>3, <1>5, <4>2, <5>2
      <4> QED
        BY <2>5, <4>1, <4>2
    <3>3. Session!TakeOver
      BY <1>2, <2>1, <2>3, <3>1, <3>2 DEF Session!TakeOver, changed
    <3> QED
      BY <3>3
  <2>6. CASE ~ (child.phase \in {"sent", "over"} /\ result.ok)
    <3>1. UserView(owner') = UserView(owner)
      BY <1>1, <1>3, <1>4, <1>5, <2>6
    <3>2. \/ WorkOf = "working" /\ told' = "rejected"
          \/ WorkOf = "lost" /\ told' \in {"killed", "failed"}
          \/ WorkOf = "replaced" /\ told' \in {"ended", "failed"}
      <4>1. CASE child.phase = "sent"
        BY <1>1, <2>4, <2>6, <4>1 DEF WorkOf
      <4>2. CASE child.phase = "killed"
        BY <1>1, <1>4, <2>4, <4>2 DEF WorkOf
      <4>3. CASE child.phase = "replaced"
        BY <1>1, <1>4, <2>4, <4>3 DEF WorkOf
      <4>4. child.phase # "over"
        BY <1>4, <2>6
      <4> QED
        BY <1>1, <4>1, <4>2, <4>3, <4>4
    <3>3. Session!GiveUp
      BY <2>1, <3>1, <3>2 DEF Session!GiveUp
    <3> QED
      BY <3>3
  <2> QED
    BY <2>5, <2>6
<1> QED
  BY <1>6, <1>7

(* Redirections may always end before the first.                            *)
LEMMA NoEffect ==
    ASSUME NEW table \in Session!Tables, NEW redirects \in Seq(RedirectionTypes)
    PROVE  table \in Session!Effects(table, redirects)
<1>1. PICK after : /\ Leading(after, table, redirects)
                   /\ \A i \in 0..Len(redirects) :
                        after[i] \subseteq Session!Effects(table, redirects)
  BY EffectsRun
<1>2. table \in after[0] /\ 0 \in 0..Len(redirects)
  BY <1>1 DEF Leading
<1> QED
  BY <1>1, <1>2

\* The shell's state without or with another worker, as the user sees it.
Kept(state, table, own) ==
  /\ state.held \in Numbers(Names) /\ Sound(state.table, state.held, <<>>)
  /\ DOMAIN state.held \cap ChannelNames = DOMAIN own \cap ChannelNames
  /\ UserView(state.table) = UserView(table)

LEMMA WithoutWorkerKeeps ==
    ASSUME NEW table, NEW own \in Numbers(Names), Sound(table, own, <<>>), NEW ok
    PROVE  /\ Kept(WithoutWorker([ok |-> ok, table |-> table, held |-> own]), table, own)
           /\ "worker" \notin DOMAIN WithoutWorker([ok |-> ok, table |-> table, held |-> own]).held
           /\ \E after, left : WithoutWorker([ok |-> ok, table |-> table, held |-> own])
                                = [ok |-> ok, table |-> after, held |-> left]
<1> DEFINE state == [ok |-> ok, table |-> table, held |-> own]
           names == {"worker"}
<1>1. Same(Close(table, NumbersOf(own, names)), Without(own, names), table, DOMAIN own \ names)
  <2> HIDE DEF names
  <2> QED
    BY SoundWithout
<1>2. PICK after, left : after = Close(table, NumbersOf(own, names)) /\ left = Without(own, names)
  OBVIOUS
<1>3. WithoutWorker(state) = [ok |-> ok, table |-> after, held |-> left]
  <2>1. state.table = table /\ state.held = own
    OBVIOUS
  <2>2. WithoutWorker(state) = [state EXCEPT !.table = after, !.held = left]
    BY <1>2, <2>1 DEF WithoutWorker
  <2> QED
    BY <2>2
<1>4. /\ left \in Numbers(Names) /\ DOMAIN left = DOMAIN own \ names
      /\ Sound(after, left, <<>>) /\ UserView(after) = UserView(table)
  BY <1>1, <1>2 DEF Same
<1>5. "worker" \in names /\ names \cap ChannelNames = {}
  BY DEF ChannelNames
<1> HIDE DEF state, names
<1> QED
  <2>1. \E a, l : WithoutWorker(state) = [ok |-> ok, table |-> a, held |-> l]
    BY <1>3
  <2>2. Kept(WithoutWorker(state), table, own) /\ "worker" \notin DOMAIN WithoutWorker(state).held
    BY <1>3, <1>4, <1>5 DEF Kept
  <2> QED
    BY <2>1, <2>2 DEF state

LEMMA WithWorkerKeeps ==
    ASSUME NEW state, state.held \in Numbers(Names), Sound(state.table, state.held, <<>>),
           state = [ok |-> state.ok, table |-> state.table, held |-> state.held],
           "worker" \notin DOMAIN state.held
    PROVE  Kept(WithWorker(state), state.table, state.held)
<1> DEFINE spare == Spare(state.table, 0, {})
           low == Min(spare)
<1>1. CASE spare = {} \/ spare = {low}
  BY <1>1 DEF WithWorker, Kept
<1>2. CASE ~ (spare = {} \/ spare = {low})
  <2>1. PICK table, own, fd : table = state.table /\ own = state.held /\ fd = low
    OBVIOUS
  <2>2. fd \in Fds /\ table[fd] = Closed
    BY <1>2, <2>1, SpareLeast
  <2>3. WithWorker(state) = [ok |-> state.ok, table |-> [table EXCEPT ![fd] = Own("worker")],
                             held |-> With(own, "worker", fd)]
    BY <1>2, <2>1 DEF WithWorker
  <2>4. own \in Numbers(Names) /\ Sound(table, own, <<>>) /\ "worker" \in Names
        /\ "worker" \notin DOMAIN own
    BY <2>1 DEF Names, OwnOrder
  <2>5. Same([table EXCEPT ![fd] = Own("worker")], With(own, "worker", fd),
             table, DOMAIN own \cup {"worker"})
    BY <2>2, <2>4, SoundOpen
  <2>6. "worker" \notin ChannelNames
    BY DEF ChannelNames
  <2>7. PICK after, now : after = [table EXCEPT ![fd] = Own("worker")] /\ now = With(own, "worker", fd)
    OBVIOUS
  <2>8. WithWorker(state) = [ok |-> state.ok, table |-> after, held |-> now]
    BY <2>3, <2>7
  <2>9. /\ now \in Numbers(Names) /\ DOMAIN now = DOMAIN own \cup {"worker"}
        /\ Sound(after, now, <<>>) /\ UserView(after) = UserView(table)
    BY <2>5, <2>7 DEF Same
  <2> QED
    BY <2>1, <2>6, <2>8, <2>9 DEF Kept
<1> QED
  BY <1>1, <1>2

LEMMA ReactorOpensKeeps ==
    ASSUME DescriptorInv, NEW name \in Transient, ReactorOpens(name)
    PROVE  DescriptorInv' /\ UNCHANGED Session!sessionVars
<1> DEFINE fd == Min(Spare(owner, 0, {}))
<1>1. /\ name \notin DOMAIN held /\ Spare(owner, 0, {}) # {}
      /\ owner' = [owner EXCEPT ![fd] = Own(name)] /\ held' = With(held, name, fd)
      /\ UNCHANGED <<child, told>>
  BY DEF ReactorOpens
<1>2. fd \in Fds /\ owner[fd] = Closed
  BY <1>1, SpareLeast
<1>3. name \in Names /\ name \notin ChannelNames
  BY TransientAssumption
<1>4. held \in Numbers(Names) /\ Sound(owner, held, <<>>)
  BY DEF DescriptorInv
<1> HIDE DEF fd
<1>5. /\ held' \in Numbers(Names) /\ DOMAIN held' = DOMAIN held \cup {name}
      /\ Sound(owner', held', <<>>) /\ UserView(owner') = UserView(owner)
  <2>1. Same([owner EXCEPT ![fd] = Own(name)], With(held, name, fd), owner, DOMAIN held \cup {name})
    BY <1>1, <1>2, <1>3, <1>4, SoundOpen
  <2> QED
    BY <1>1, <2>1 DEF Same
<1>6. DescriptorInv'
  BY <1>1, <1>3, <1>5, InvAfter DEF DescriptorInv
<1>7. UNCHANGED Session!sessionVars
  BY <1>1, <1>5 DEF Session!sessionVars, WorkOf
<1> QED
  BY <1>6, <1>7

LEMMA ReactorClosesKeeps ==
    ASSUME DescriptorInv, NEW name \in Transient, ReactorCloses(name)
    PROVE  DescriptorInv' /\ UNCHANGED Session!sessionVars
<1>1. /\ name \in DOMAIN held
      /\ owner' = Close(owner, {held[name]}) /\ held' = Without(held, {name})
      /\ UNCHANGED <<child, told>>
  BY DEF ReactorCloses
<1>2. {held[name]} = NumbersOf(held, {name})
  BY <1>1 DEF NumbersOf
<1>3. name \in Names /\ name \notin ChannelNames
  BY TransientAssumption
<1>4. held \in Numbers(Names) /\ Sound(owner, held, <<>>)
  BY DEF DescriptorInv
<1>5. /\ held' \in Numbers(Names) /\ DOMAIN held' = DOMAIN held \ {name}
      /\ Sound(owner', held', <<>>) /\ UserView(owner') = UserView(owner)
  <2>1. Same(Close(owner, NumbersOf(held, {name})), Without(held, {name}), owner, DOMAIN held \ {name})
    BY <1>4, SoundWithout
  <2> QED
    BY <1>1, <1>2, <2>1 DEF Same
<1>6. DescriptorInv'
  BY <1>1, <1>3, <1>5, InvAfter DEF DescriptorInv
<1>7. UNCHANGED Session!sessionVars
  BY <1>1, <1>5 DEF Session!sessionVars, WorkOf
<1> QED
  BY <1>6, <1>7

(* The shell runs exec itself: its own is out of the way before the first   *)
(* redirection, and when it is not nothing is redirected.                   *)
LEMMA RunExecKeeps ==
    ASSUME DescriptorInv, NEW command \in Commands, RunExec(command)
    PROVE  DescriptorInv' /\ Session!RunItself
<1> DEFINE redirects == command.redirects
           taken == Targets(redirects) \cup Sources(redirects)
           now == [ok |-> TRUE, table |-> owner, held |-> held]
           safe == IF redirects = <<>> THEN now ELSE ProtectOwner(owner, held, taken)
           applied(refused) == ApplyRedirects(safe.table, redirects, refused)
           after(refused) == [safe EXCEPT !.table = applied(refused).table]
           runs(refused) == command.kind = "exec utility" /\ applied(refused).ok
           result(refused, end) ==
             IF ~ safe.ok THEN safe
             ELSE IF end = "ended" THEN WithoutWorker(after(refused))
             ELSE IF runs(refused) THEN WithWorker(WithoutWorker(after(refused))) ELSE after(refused)
<1>1. PICK refused \in MayRefuse(redirects), end \in {"rejected", "done", "ended"} :
        /\ (end = "rejected") = ~ safe.ok
        /\ end = "ended" => runs(refused)
        /\ owner' = result(refused, end).table /\ held' = result(refused, end).held /\ told' = end
  BY Zenon DEF RunExec
<1>2. UNCHANGED child
  BY DEF RunExec
<1>3. redirects \in Redirections /\ redirects \in Seq(RedirectionTypes)
  BY CommandsAssumption, RedirectionsAssumption DEF CommandTypes
<1>4. held \in Numbers(Names) /\ Sound(owner, held, <<>>)
  BY DEF DescriptorInv
<1>5. taken \in SUBSET Fds
  <2> HIDE DEF redirects
  <2> QED
    BY <1>3 DEF Targets, Sources, RedirectionTypes
<1> HIDE DEF redirects
<1>6. /\ safe.ok \in BOOLEAN /\ safe.held \in [DOMAIN held -> Fds]
      /\ safe = [ok |-> safe.ok, table |-> safe.table, held |-> safe.held]
      /\ Sound(safe.table, safe.held, <<>>) /\ UserView(safe.table) = UserView(owner)
      /\ safe.ok => Avoids(redirects, safe.held, <<>>)
  <2>1. CASE redirects = <<>>
    <3>1. safe = now
      BY <2>1
    <3>2. Avoids(redirects, held, <<>>)
      BY <2>1 DEF Avoids, Targets, Sources
    <3> HIDE DEF safe
    <3> QED
      BY <1>4, <3>1, <3>2 DEF Numbers
  <2>2. CASE redirects # <<>>
    <3>1. safe = ProtectOwner(owner, held, taken)
      BY <2>2
    <3>2. DOMAIN held \in SUBSET Names /\ held \in [DOMAIN held -> Fds]
      BY <1>4 DEF Numbers
    <3>3. Guarded(ProtectOwner(owner, held, taken), owner, held, taken)
      <4> HIDE DEF taken
      <4> QED
        BY <1>4, <1>5, <3>2, ProtectKeeps
    <3>4. safe = [ok |-> safe.ok, table |-> safe.table, held |-> safe.held]
      <4> HIDE DEF taken
      <4> QED
        BY <3>1 DEF ProtectOwner
    <3> HIDE DEF safe
    <3> QED
      BY <3>1, <3>3, <3>4, NoNumbers DEF Guarded, Avoids
  <2> QED
    BY <2>1, <2>2
<1> HIDE DEF safe
<1>7. safe.held \in Numbers(Names) /\ DOMAIN safe.held = DOMAIN held
  BY <1>4, <1>6 DEF Numbers
<1>8. UserView(owner) \in Session!Effects(UserView(owner), redirects)
  BY <1>3, ViewTyped, NoEffect
<1>9. PICK t, own : t = safe.table /\ own = safe.held
  OBVIOUS
<1>10. safe.ok => /\ Sound(applied(refused).table, own, <<>>)
                  /\ UserView(applied(refused).table) \in Session!Effects(UserView(owner), redirects)
  <2> SUFFICES ASSUME safe.ok
               PROVE  /\ Sound(applied(refused).table, own, <<>>)
                      /\ UserView(applied(refused).table) \in Session!Effects(UserView(owner), redirects)
    OBVIOUS
  <2>1. Sound(t, own, <<>>) /\ Avoids(redirects, own, <<>>)
    BY <1>6, <1>9
  <2>2. LET a == ApplyRedirects(t, redirects, refused)
        IN Sound(a.table, own, <<>>) /\ UserView(a.table) \in Session!Effects(UserView(t), redirects)
    BY <1>3, <2>1, RedirectsSound
  <2> QED
    BY <1>6, <1>9, <2>2
<1>11. PICK table : table = applied(refused).table
  OBVIOUS
<1>12. after(refused) = [ok |-> safe.ok, table |-> table, held |-> own]
  <2> HIDE DEF applied
  <2> QED
    BY <1>6, <1>9, <1>11
<1> HIDE DEF applied, after
<1>13. /\ held' \in Numbers(Names) /\ Sound(owner', held', <<>>)
       /\ DOMAIN held' \cap ChannelNames = DOMAIN held \cap ChannelNames
       /\ UserView(owner') \in Session!Effects(UserView(owner), redirects)
  <2>1. CASE ~ safe.ok
    <3>1. end # "ended" /\ result(refused, end) = safe
      BY <1>1, <2>1, <1>12
    <3> QED
      BY <1>1, <1>6, <1>7, <1>8, <3>1
  <2>2. CASE safe.ok
    <3>1. own \in Numbers(Names) /\ Sound(table, own, <<>>) /\ DOMAIN own = DOMAIN held
          /\ UserView(table) \in Session!Effects(UserView(owner), redirects)
      BY <1>7, <1>9, <1>10, <1>11, <2>2
    <3> DEFINE gone == WithoutWorker(after(refused))
    <3>2. Kept(gone, table, own) /\ "worker" \notin DOMAIN gone.held
      BY <1>12, <3>1, WithoutWorkerKeeps
    <3>3. Kept(WithWorker(gone), gone.table, gone.held)
      <4>1. gone = [ok |-> gone.ok, table |-> gone.table, held |-> gone.held]
        <5>0. PICK ok : ok = safe.ok
          OBVIOUS
        <5>2. \E a, l : WithoutWorker([ok |-> ok, table |-> table, held |-> own])
                        = [ok |-> ok, table |-> a, held |-> l]
          BY <3>1, WithoutWorkerKeeps
        <5>1. PICK a, l : gone = [ok |-> ok, table |-> a, held |-> l]
          BY <1>12, <5>0, <5>2
        <5> HIDE DEF gone
        <5> QED
          BY <5>1
      <4> HIDE DEF gone
      <4>2. gone.held \in Numbers(Names) /\ Sound(gone.table, gone.held, <<>>)
        BY <3>2 DEF Kept
      <4> QED
        BY <3>2, <4>1, <4>2, WithWorkerKeeps
    <3>4. result(refused, end) \in {gone, WithWorker(gone), after(refused)}
      BY <2>2
    <3> HIDE DEF gone, result
    <3>5. CASE result(refused, end) = gone
      BY <1>1, <3>1, <3>2, <3>5 DEF Kept
    <3>6. CASE result(refused, end) = WithWorker(gone)
      BY <1>1, <3>1, <3>2, <3>3, <3>6 DEF Kept
    <3>7. CASE result(refused, end) = after(refused)
      <4>1. owner' = table /\ held' = own
        <5>1. result(refused, end) = [ok |-> safe.ok, table |-> table, held |-> own]
          BY <1>12, <3>7
        <5>2. owner' = result(refused, end).table /\ held' = result(refused, end).held
          BY <1>1
        <5> QED
          BY <5>1, <5>2
      <4>2. own \in Numbers(Names) /\ Sound(table, own, <<>>)
        BY <3>1
      <4>3. DOMAIN own = DOMAIN held
        BY <3>1
      <4>4. UserView(table) \in Session!Effects(UserView(owner), redirects)
        BY <3>1
      <4> QED
        BY <4>1, <4>2, <4>3, <4>4
    <3> QED
      BY <3>4, <3>5, <3>6, <3>7
  <2> QED
    BY <1>6, <2>1, <2>2
<1>14. DescriptorInv'
  BY <1>2, <1>13, InvAfter DEF DescriptorInv
<1>15. Session!RunItself
  <2>1. WorkOf' = WorkOf
    BY <1>2 DEF WorkOf
  <2>2. child = NoChild <=> WorkOf = "idle"
    <3>1. child # NoChild => child \in Evaluators
      BY EvaluatorThere
    <3> QED
      BY <3>1, Phases DEF WorkOf, Evaluators
  <2> HIDE DEF result
  <2> QED
    BY <1>1, <1>2, <1>3, <1>13, <2>1, <2>2 DEF Session!RunItself
<1> QED
  BY <1>14, <1>15

(* Every step preserves the invariant.                                      *)
LEMMA StepKeeps ==
    ASSUME DescriptorInv, [Next]_vars
    PROVE  DescriptorInv'
<1>1. CASE UNCHANGED vars
  <2>1. UNCHANGED <<owner, held, child>>
    BY <1>1 DEF vars
  <2> QED
    BY <2>1, InvAfter DEF DescriptorInv
<1>2. CASE Next
  <2>1. CASE \E script \in Scripts : Launch(script)
    BY <2>1, LaunchKeeps
  <2>2. CASE EvaluateCommand
    BY <2>2, EvaluateCommandKeeps
  <2>3. CASE EvaluatorDies
    BY <2>3, EvaluatorDiesKeeps
  <2>4. CASE SendDescriptors
    BY <2>4, SendDescriptorsKeeps
  <2>5. CASE FinishJob
    BY <2>5, FinishJobKeeps
  <2>6. CASE \E command \in Commands : RunExec(command)
    BY <2>6, RunExecKeeps
  <2>7. CASE \E name \in Transient : ReactorOpens(name) \/ ReactorCloses(name)
    BY <2>7, ReactorOpensKeeps, ReactorClosesKeeps
  <2> QED
    BY <1>2, <2>1, <2>2, <2>3, <2>4, <2>5, <2>6, <2>7 DEF Next
<1> QED
  BY <1>1, <1>2

(* Every step is one of the promise, or one that the user does not see,     *)
(* when the preflight has seen the commands of the evaluator.               *)
LEMMA StepMaps ==
    ASSUME NothingSourced, DescriptorInv, [Next]_vars
    PROVE  [Session!SessionNext]_(Session!sessionVars)
<1>1. child # NoChild => ~ child.script.sourced
  BY EvaluatorThere DEF NothingSourced
<1>2. CASE UNCHANGED vars
  BY <1>2 DEF vars, Session!sessionVars, WorkOf
<1>3. CASE Next
  <2>1. CASE \E script \in Scripts : Launch(script)
    BY <2>1, LaunchKeeps DEF Session!SessionNext
  <2>2. CASE EvaluateCommand
    <3>1. child # NoChild
      BY <2>2, Phases DEF EvaluateCommand
    <3> QED
      BY <1>1, <2>2, <3>1, EvaluateCommandKeeps DEF MappedStep
  <2>3. CASE EvaluatorDies
    BY <2>3, EvaluatorDiesKeeps DEF Session!SessionNext
  <2>4. CASE SendDescriptors
    BY <2>4, SendDescriptorsKeeps
  <2>5. CASE FinishJob
    <3>1. child # NoChild
      BY <2>5, Phases DEF FinishJob
    <3> QED
      BY <1>1, <2>5, <3>1, FinishJobKeeps DEF Session!SessionNext
  <2>6. CASE \E command \in Commands : RunExec(command)
    BY <2>6, RunExecKeeps DEF Session!SessionNext
  <2>7. CASE \E name \in Transient : ReactorOpens(name) \/ ReactorCloses(name)
    BY <2>7, ReactorOpensKeeps, ReactorClosesKeeps
  <2> QED
    BY <1>3, <2>1, <2>2, <2>3, <2>4, <2>5, <2>6, <2>7 DEF Next
<1> QED
  BY <1>2, <1>3

------------------------------------------------------------------------------
(* The theorems.                                                            *)

(* The inductive invariant: every number is the user's, or in use by the    *)
(* one who takes it for his, in the shell and in the evaluator.             *)
THEOREM DescriptorsInvariant == Spec => []DescriptorInv
<1>1. Init => DescriptorInv
  BY InitKeeps
<1>2. DescriptorInv /\ [Next]_vars => DescriptorInv'
  BY StepKeeps
<1> QED
  BY <1>1, <1>2, PTL DEF Spec

(* Nothing of the reactor's is taken over by a redirection, and nothing of  *)
(* a transaction is left behind, whatever scripts run                       *)
(* (protect_exec_owner_descriptors, receive_exec_descriptor_commit).        *)
THEOREM OwnIsKept == Spec => []ReactorKeepsItsOwn
<1>1. DescriptorInv => ReactorKeepsItsOwn
  <2> SUFFICES ASSUME DescriptorInv PROVE ReactorKeepsItsOwn
    OBVIOUS
  <2>1. held \in Numbers(Names) /\ Sound(owner, held, <<>>)
    BY DEF DescriptorInv
  <2>2. /\ \A name \in DOMAIN held : held[name] \in Fds /\ owner[held[name]] = Own(name)
        /\ \A fd \in Fds : owner[fd] \in Plain \/ fd \in RangeOf(held)
    BY <2>1, NoNumbers DEF Sound
  <2>3. \A fd \in RangeOf(held) : \E name \in DOMAIN held : owner[fd] = Own(name)
    BY <2>2 DEF RangeOf
  <2> QED
    BY <2>2, <2>3 DEF ReactorKeepsItsOwn, Plain
<1> QED
  BY <1>1, DescriptorsInvariant, PTL

(* No redirection of an evaluator whose commands the preflight has seen     *)
(* reaches the channels it reports through                                  *)
(* (protect_exec_transaction_descriptors).                                  *)
THEOREM ChannelsKept == ASSUME NothingSourced PROVE Spec => []ChannelsAreKept
<1>1. DescriptorInv => ChannelsAreKept
  <2> SUFFICES ASSUME DescriptorInv, child # NoChild,
                      NEW channel \in DOMAIN child.ends
               PROVE  child.table[child.ends[channel]] = End(channel) /\ child.ends[channel] > 2
    BY DEF ChannelsAreKept
  <2>1. EvaluatorOK(child) /\ ~ child.script.sourced
    BY EvaluatorThere DEF NothingSourced
  <2> QED
    BY <2>1 DEF EvaluatorOK, EvaluatorSound, Sound
<1> QED
  BY <1>1, DescriptorsInvariant, PTL

(* What exec promises: the descriptors its commands name are taken over as  *)
(* the evaluator left them, no other changes, and the user is told when     *)
(* they are not (send_exec_descriptor_commit, apply_exec_descriptor_commit).*)
THEOREM ExecKeepsItsPromise == ASSUME NothingSourced PROVE Spec => KeepsDescriptors
<1>1. Init => Session!SessionInit
  BY InitKeeps
<1>2. DescriptorInv /\ [Next]_vars => [Session!SessionNext]_(Session!sessionVars)
  BY StepMaps
<1> QED
  BY <1>1, <1>2, DescriptorsInvariant, PTL DEF Spec, KeepsDescriptors, Session!SessionSpec
=============================================================================
