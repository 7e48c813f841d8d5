---------------------------- MODULE StorageProofs ----------------------------
(***************************************************************************)
(* Theorems about what shells keep on disk, for any number of shells: a    *)
(* record is never appended behind a torn one, a loss is reported, and the *)
(* history file is a log to which a shell appends its whole session, once; *)
(* and what is read of the history and of the journal is the newest.       *)
(***************************************************************************)
EXTENDS Storage, NaturalMinimum

(***************************************************************************)
(* The history.                                                            *)
(***************************************************************************)
ShellFields == {"at", "rings", "ready", "told"}

(* A shell whose session is lost has said so when it could not read the    *)
(* history, when the lock was not free, or when the disk was full.         *)
ShellSound(s) ==
    /\ DOMAIN shell[s] = ShellFields
    /\ shell[s].at = "running" /\ ~shell[s].ready => shell[s].told
    /\ shell[s].at = "release" => s \in saved \/ shell[s].told
    /\ shell[s].at = "gone" =>
          \/ s \in saved \/ shell[s].told
          \/ shell[s].rings.session.count = 0

HistoryInv == DOMAIN shell = Shells /\ \A s \in Shells : ShellSound(s)

LEMMA InitHistory == HistoryInit => HistoryInv
BY DEF HistoryInit, HistoryInv, ShellSound, ShellFields

(* A step of one shell leaves the others alone.                            *)
LEMMA OtherShells ==
    ASSUME HistoryInv, NEW s \in Shells, NEW record,
           shell' = [shell EXCEPT ![s] = record], ShellSound(s)',
           saved \subseteq saved'
    PROVE  HistoryInv'
<1>1. DOMAIN shell' = Shells
  BY DEF HistoryInv
<1>2. ASSUME NEW t \in Shells, t # s PROVE ShellSound(t)'
  <2>1. shell'[t] = shell[t] /\ ShellSound(t)
    BY <1>2 DEF HistoryInv
  <2> QED
    BY <2>1 DEF ShellSound
<1> QED
  BY <1>1, <1>2 DEF HistoryInv

LEMMA HistoryKept ==
    ASSUME HistoryInv, NEW s \in Shells, HistoryStep(s)
    PROVE  HistoryInv'
<1>1. ShellSound(s) /\ DOMAIN shell = Shells
  BY DEF HistoryInv
<1>2. DOMAIN shell[s] = ShellFields
  BY <1>1 DEF ShellSound
<1>3. CASE AcquireLock(s)
  <2>1. PICK to \in {"load", "merge"} :
           shell' = [shell EXCEPT ![s] = [shell[s] EXCEPT !.at = to]]
    BY <1>3 DEF AcquireLock, Goes
  <2>2. ShellSound(s)' /\ saved' = saved
    BY <1>1, <1>2, <1>3, <2>1 DEF ShellSound, ShellFields, AcquireLock
  <2> QED
    BY <2>1, <2>2, OtherShells
<1>4. CASE AcquireFails(s)
  <2>1. PICK to \in {"running", "gone"} :
           shell' = [shell EXCEPT ![s] = [shell[s] EXCEPT !.at = to, !.told = TRUE]]
    BY <1>4 DEF AcquireFails
  <2>2. ShellSound(s)' /\ saved' = saved
    BY <1>1, <1>2, <1>4, <2>1 DEF ShellSound, ShellFields, AcquireFails
  <2> QED
    BY <2>1, <2>2, OtherShells
<1>5. CASE InitializeFile(s)
  <2>1. shell' = [shell EXCEPT ![s] = [shell[s] EXCEPT !.at = "running", !.ready = TRUE,
                                          !.rings = [@ EXCEPT !.ring = LoadHistory(file)]]]
    BY <1>5 DEF InitializeFile
  <2>2. ShellSound(s)' /\ saved' = saved
    BY <1>1, <1>2, <1>5, <2>1 DEF ShellSound, ShellFields, InitializeFile
  <2> QED
    BY <2>1, <2>2, OtherShells
<1>6. CASE Exit(s)
  <2> DEFINE to == IF shell[s].ready /\ shell[s].rings.session.count # 0 THEN "exit" ELSE "gone"
  <2>1. shell' = [shell EXCEPT ![s] = [shell[s] EXCEPT !.at = to]] /\ shell[s].at = "running"
    BY <1>6 DEF Exit, Goes
  <2>2. ShellSound(s)' /\ saved' = saved
    BY <1>1, <1>2, <1>6, <2>1 DEF ShellSound, ShellFields, Exit
  <2> HIDE DEF to
  <2> QED
    BY <2>1, <2>2, OtherShells
<1>7. CASE MergeSession(s)
  <2> DEFINE merged == AddAll(LoadHistory(file), Entries(shell[s].rings.session), Deduplicate[s])
  <2>1. shell' = [shell EXCEPT ![s] = [shell[s] EXCEPT !.at = "create",
                                          !.rings = [@ EXCEPT !.ring = merged]]]
    BY <1>7 DEF MergeSession
  <2> HIDE DEF merged
  <2>2. ShellSound(s)' /\ saved' = saved
    BY <1>1, <1>2, <1>7, <2>1 DEF ShellSound, ShellFields, MergeSession
  <2> QED
    BY <2>1, <2>2, OtherShells
<1>8. CASE CreateTemporary(s) \/ WriteTemporary(s)
  <2>1. PICK to \in {"write", "rename"} :
           shell' = [shell EXCEPT ![s] = [shell[s] EXCEPT !.at = to]]
    BY <1>8 DEF CreateTemporary, WriteTemporary, Goes
  <2>2. ShellSound(s)' /\ saved' = saved
    BY <1>1, <1>2, <1>8, <2>1 DEF ShellSound, ShellFields, CreateTemporary, WriteTemporary
  <2> QED
    BY <2>1, <2>2, OtherShells
<1>9. CASE WriteFails(s)
  <2>1. shell' = [shell EXCEPT ![s] = [shell[s] EXCEPT !.at = "release", !.told = TRUE]]
    BY <1>9 DEF WriteFails
  <2>2. ShellSound(s)' /\ saved' = saved
    BY <1>1, <1>2, <1>9, <2>1 DEF ShellSound, ShellFields, WriteFails
  <2> QED
    BY <2>1, <2>2, OtherShells
<1>10. CASE ReplaceHistory(s)
  <2>1. shell' = [shell EXCEPT ![s] = [shell[s] EXCEPT !.at = "release"]]
        /\ saved' = saved \cup {s}
    BY <1>10 DEF ReplaceHistory, Goes
  <2>2. ShellSound(s)'
    BY <1>1, <1>2, <2>1 DEF ShellSound, ShellFields
  <2> QED
    BY <2>1, <2>2, OtherShells
<1>11. CASE ReleaseLock(s)
  <2>1. shell' = [shell EXCEPT ![s] = [shell[s] EXCEPT !.at = "gone"]]
        /\ shell[s].at = "release" /\ saved' = saved
    BY <1>11 DEF ReleaseLock, Goes
  <2>2. ShellSound(s)'
    BY <1>1, <1>2, <2>1 DEF ShellSound, ShellFields
  <2> QED
    BY <2>1, <2>2, OtherShells
<1>12. CASE Killed(s)
  <2>1. shell' = [shell EXCEPT ![s] = [shell[s] EXCEPT !.at = "killed"]] /\ saved' = saved
    BY <1>12 DEF Killed
  <2>2. ShellSound(s)'
    BY <1>1, <1>2, <2>1 DEF ShellSound, ShellFields
  <2> QED
    BY <2>1, <2>2, OtherShells
<1>13. ASSUME NEW c \in Commands, RecordHistory(s, c) PROVE HistoryInv'
  <2>1. PICK rings : shell' = [shell EXCEPT ![s] = [shell[s] EXCEPT !.rings = rings]]
    <3> DEFINE old == shell[s].rings
               added == Add(old.ring, c, Deduplicate[s])
               new == IF added = old.ring THEN old
                      ELSE [ring |-> added, session |-> Add(old.session, c, FALSE)]
    <3>1. shell' = [shell EXCEPT ![s] = [shell[s] EXCEPT !.rings = new]]
      BY <1>13 DEF RecordHistory
    <3> HIDE DEF new
    <3> QED
      BY <3>1
  <2>2. shell[s].at = "running" /\ saved' = saved
    BY <1>13 DEF RecordHistory
  <2>3. ShellSound(s)'
    BY <1>1, <1>2, <2>1, <2>2 DEF ShellSound, ShellFields
  <2> QED
    BY <2>1, <2>2, <2>3, OtherShells
<1> QED
  BY <1>3, <1>4, <1>5, <1>6, <1>7, <1>8, <1>9, <1>10, <1>11, <1>12, <1>13 DEF HistoryStep

LEMMA HistorySaved == ASSUME HistoryInv, NEW s \in Shells PROVE SessionSaved(s)
<1>1. shell[s].rings.session.count = 0 => SessionOf(s) = <<>>
  BY DEF SessionOf, Entries
<1> QED
  BY <1>1 DEF HistoryInv, ShellSound, SessionSaved

(***************************************************************************)
(* The journal: types.                                                     *)
(***************************************************************************)
Part == Owners \X Nat \X Nat
JournalRecord == [whole : BOOLEAN, of : Owners, number : Nat,
                  kind : {"prompt", "answer", "command"}]
Holding == {"rotate", "unlink", "rename", "header", "text", "unlock"}
QueueType == [accepted : Nat, pending : Seq(Part), warned : BOOLEAN,
              at : {"open", "finish", "done", "killed"}]
PipeType == [parts : Seq(Part), closed : BOOLEAN]
WorkerType == [at : Holding \cup {"read", "lock", "end"}, parts : Seq(Part),
               status : {"running", "exited", "failed", "reaped"}]

JournalType ==
    /\ journal \in [current : Seq(JournalRecord), previous : Seq(JournalRecord)]
    /\ queue \in [Owners -> QueueType]
    /\ pipe \in [Owners -> PipeType]
    /\ worker \in [Owners -> WorkerType]

LEMMA TypedFields ==
    ASSUME JournalType, NEW o \in Owners
    PROVE  /\ queue[o] \in QueueType /\ pipe[o] \in PipeType /\ worker[o] \in WorkerType
           /\ queue[o].accepted \in Nat /\ queue[o].pending \in Seq(Part)
           /\ queue[o].warned \in BOOLEAN /\ pipe[o].parts \in Seq(Part)
           /\ worker[o].parts \in Seq(Part)
BY DEF JournalType, QueueType, PipeType, WorkerType

(***************************************************************************)
(* The parts on their way.                                                 *)
(***************************************************************************)
(* The part after part x of an owner, and the part a worker waits for that *)
(* has k parts of record n.                                                *)
NextPart(x) == IF x[3] = FrameSize THEN <<x[1], x[2] + 1, 1>> ELSE <<x[1], x[2], x[3] + 1>>
After(o, n, k) == IF k = FrameSize THEN <<o, n + 1, 1>> ELSE <<o, n, k + 1>>

(* The parts of s are those from part a on, up to the one before part b.   *)
At(s, i, b) == IF i = Len(s) + 1 THEN b ELSE s[i]
Follows(a, s, b) ==
    /\ At(s, 1, b) = a
    /\ \A i \in 1..Len(s) : At(s, i + 1, b) = NextPart(s[i])

LEMMA NothingFollows == ASSUME NEW a PROVE Follows(a, <<>>, a)
BY DEF Follows, At

LEMMA FollowsConcat ==
    ASSUME NEW a, NEW b, NEW c, NEW s \in Seq(Part), NEW t \in Seq(Part),
           Follows(a, s, b), Follows(b, t, c)
    PROVE  Follows(a, s \o t, c)
<1> DEFINE u == s \o t
<1>1. /\ u \in Seq(Part) /\ Len(u) = Len(s) + Len(t)
      /\ Len(s) \in Nat /\ Len(t) \in Nat
      /\ \A i \in 1..Len(s) : u[i] = s[i]
      /\ \A i \in 1..Len(t) : u[Len(s) + i] = t[i]
  OBVIOUS
<1> HIDE DEF u
<1>2. ASSUME NEW i \in 1..Len(s) + 1 PROVE At(u, i, c) = At(s, i, b)
  <2>1. CASE i \in 1..Len(s)
    BY <1>1, <2>1 DEF At
  <2>2. CASE i = Len(s) + 1 /\ Len(t) = 0
    BY <1>1, <2>2 DEF At, Follows
  <2>3. CASE i = Len(s) + 1 /\ Len(t) # 0
    <3>1. u[Len(s) + 1] = t[1] /\ t[1] = b
      BY <1>1, <2>3 DEF At, Follows
    <3> QED
      BY <1>1, <2>3, <3>1 DEF At
  <2> QED
    BY <1>1, <2>1, <2>2, <2>3
<1>3. ASSUME NEW j \in 1..Len(t) + 1 PROVE At(u, Len(s) + j, c) = At(t, j, c)
  <2>1. CASE j \in 1..Len(t)
    <3>1. /\ u[Len(s) + j] = t[j] /\ j # Len(t) + 1
          /\ Len(s) + j # Len(u) + 1
      BY <1>1, <2>1
    <3> QED
      BY <3>1 DEF At
  <2>2. CASE j = Len(t) + 1
    <3>1. Len(s) + j = Len(u) + 1
      BY <1>1, <2>2
    <3> QED
      BY <2>2, <3>1 DEF At
  <2> QED
    BY <1>1, <2>1, <2>2
<1>4. ASSUME NEW i \in 1..Len(u) PROVE At(u, i + 1, c) = NextPart(u[i])
  <2>1. CASE i \in 1..Len(s)
    <3>1. i + 1 \in 1..Len(s) + 1
      BY <1>1, <2>1
    <3> QED
      BY <1>1, <1>2, <2>1, <3>1 DEF Follows
  <2>2. CASE i \notin 1..Len(s)
    <3>1. PICK j \in 1..Len(t) : i = Len(s) + j
      <4>1. i - Len(s) \in 1..Len(t) /\ i = Len(s) + (i - Len(s))
        BY <1>1, <2>2
      <4> QED
        BY <4>1
    <3>2. j + 1 \in 1..Len(t) + 1 /\ i + 1 = Len(s) + (j + 1)
      BY <1>1, <3>1
    <3>3. At(u, i + 1, c) = At(t, j + 1, c)
      BY <1>3, <3>2
    <3> QED
      BY <1>1, <3>1, <3>3 DEF Follows
  <2> QED
    BY <2>1, <2>2
<1>5. At(u, 1, c) = a
  <2>1. 1 \in 1..Len(s) + 1
    BY <1>1
  <2> QED
    BY <1>2, <2>1 DEF Follows
<1> QED
  BY <1>4, <1>5 DEF Follows, u

(* What comes first, and what is left then.                                *)
LEMMA FollowsSplit ==
    ASSUME NEW a, NEW c, NEW s \in Seq(Part), NEW n \in 1..Len(s), Follows(a, s, c)
    PROVE  \E b : Follows(a, SubSeq(s, 1, n), b) /\ Follows(b, Rest(s, n), c)
<1> DEFINE first == SubSeq(s, 1, n)
           rest == Rest(s, n)
           b == At(s, n + 1, c)
<1>1. /\ Len(s) \in Nat /\ n \in Nat
      /\ Len(first) = n /\ \A i \in 1..n : first[i] = s[i]
  OBVIOUS
<1>2. Len(rest) = Len(s) - n /\ \A i \in 1..Len(s) - n : rest[i] = s[n + i]
  BY DEF Rest
<1> HIDE DEF first, rest, b
<1>3. ASSUME NEW i \in 1..n + 1 PROVE At(first, i, b) = At(s, i, c)
  BY <1>1, <1>3 DEF At, b
<1>4. ASSUME NEW i \in 1..Len(s) - n + 1 PROVE At(rest, i, c) = At(s, n + i, c)
  <2>1. CASE i \in 1..Len(s) - n
    <3>1. rest[i] = s[n + i] /\ i # Len(rest) + 1 /\ n + i # Len(s) + 1
      BY <1>1, <1>2, <2>1
    <3> QED
      BY <3>1 DEF At
  <2>2. CASE i = Len(s) - n + 1
    <3>1. i = Len(rest) + 1 /\ n + i = Len(s) + 1
      BY <1>1, <1>2, <2>2
    <3> QED
      BY <3>1 DEF At
  <2> QED
    BY <1>1, <2>1, <2>2
<1>5. Follows(a, first, b)
  <2>1. ASSUME NEW i \in 1..n PROVE At(first, i + 1, b) = NextPart(first[i])
    <3>1. i \in 1..Len(s) /\ i + 1 \in 1..n + 1
      BY <1>1
    <3> QED
      BY <1>1, <1>3, <3>1 DEF Follows
  <2>2. At(first, 1, b) = a
    <3>1. 1 \in 1..n + 1
      BY <1>1
    <3> QED
      BY <1>3, <3>1 DEF Follows
  <2> QED
    BY <1>1, <2>1, <2>2 DEF Follows
<1>6. Follows(b, rest, c)
  <2>1. ASSUME NEW i \in 1..Len(rest) PROVE At(rest, i + 1, c) = NextPart(rest[i])
    <3>1. /\ i + 1 \in 1..Len(s) - n + 1 /\ n + i \in 1..Len(s)
          /\ n + (i + 1) = (n + i) + 1 /\ rest[i] = s[n + i]
      BY <1>1, <1>2
    <3>2. At(rest, i + 1, c) = At(s, n + (i + 1), c)
      BY <1>4, <3>1
    <3> QED
      BY <3>1, <3>2 DEF Follows
  <2>2. At(rest, 1, c) = b
    <3>1. 1 \in 1..Len(s) - n + 1
      BY <1>1
    <3> QED
      BY <1>4, <3>1 DEF b
  <2> QED
    BY <2>1, <2>2 DEF Follows
<1> QED
  BY <1>5, <1>6 DEF first, rest

LEMMA FollowsTail ==
    ASSUME NEW a, NEW c, NEW s \in Seq(Part), s # <<>>, Follows(a, s, c)
    PROVE  Head(s) = a /\ Follows(NextPart(a), Tail(s), c)
<1>1. Len(s) \in Nat /\ Len(s) >= 1 /\ Head(s) = s[1]
  OBVIOUS
<1> DEFINE t == Tail(s)
<1>2. Len(t) = Len(s) - 1 /\ \A i \in 1..Len(s) - 1 : t[i] = s[i + 1]
  OBVIOUS
<1> HIDE DEF t
<1>3. s[1] = a
  BY <1>1 DEF Follows, At
<1>4. ASSUME NEW i \in 1..Len(s) PROVE At(t, i, c) = At(s, i + 1, c)
  BY <1>1, <1>2, <1>4 DEF At
<1>5. At(t, 1, c) = NextPart(a)
  <2>1. 1 \in 1..Len(s)
    BY <1>1
  <2>2. At(s, 1 + 1, c) = NextPart(s[1])
    BY <2>1 DEF Follows
  <2> QED
    BY <1>3, <1>4, <2>1, <2>2
<1>6. ASSUME NEW i \in 1..Len(t) PROVE At(t, i + 1, c) = NextPart(t[i])
  <2>1. i + 1 \in 1..Len(s) /\ t[i] = s[i + 1]
    BY <1>1, <1>2
  <2>2. At(s, (i + 1) + 1, c) = NextPart(s[i + 1])
    BY <2>1 DEF Follows
  <2> QED
    BY <1>4, <2>1, <2>2
<1> QED
  BY <1>1, <1>3, <1>5, <1>6 DEF Follows, t

LEMMA FrameFollows ==
    ASSUME NEW o \in Owners, NEW n \in Nat
    PROVE  /\ Frame(o, n) \in Seq(Part)
           /\ Follows(<<o, n, 1>>, Frame(o, n), <<o, n + 1, 1>>)
<1> DEFINE f == Frame(o, n)
<1>1. /\ f \in Seq(Part) /\ Len(f) = FrameSize
      /\ \A i \in 1..FrameSize : f[i] = <<o, n, i>>
  BY JournalAssumption DEF Frame, Part
<1> HIDE DEF f
<1>2. At(f, 1, <<o, n + 1, 1>>) = <<o, n, 1>>
  BY <1>1, JournalAssumption DEF At
<1>3. ASSUME NEW i \in 1..FrameSize PROVE At(f, i + 1, <<o, n + 1, 1>>) = NextPart(f[i])
  <2>1. CASE i = FrameSize
    BY <1>1, <2>1, JournalAssumption DEF At, NextPart
  <2>2. CASE i # FrameSize
    <3>1. i + 1 \in 1..FrameSize /\ i + 1 # Len(f) + 1
      BY <1>1, <2>2, JournalAssumption
    <3>2. f[i + 1] = <<o, n, i + 1>> /\ f[i] = <<o, n, i>>
      BY <1>1, <3>1
    <3> QED
      BY <2>2, <3>1, <3>2 DEF At, NextPart
  <2> QED
    BY <2>1, <2>2
<1> QED
  BY <1>1, <1>2, <1>3 DEF Follows, f

(* What a turn may write is no more than there is.                         *)
LEMMA RoomIsBounded ==
    ASSUME NEW a \in Nat, NEW b \in Nat, NEW c \in Int
    PROVE  Min({a, b, c}) \in Int /\ Min({a, b, c}) <= a
<1>1. \E m \in {a, b, c} : \A n \in {a, b, c} : m <= n
  <2>1. CASE a <= b /\ a <= c
    BY <2>1
  <2>2. CASE b <= a /\ b <= c
    BY <2>2
  <2>3. CASE c <= a /\ c <= b
    BY <2>3
  <2> QED
    BY <2>1, <2>2, <2>3
<1> QED
  BY <1>1 DEF Min

LEMMA FlushedPart ==
    ASSUME JournalType, NEW o \in Owners,
           NEW n \in 1..Min({Len(queue[o].pending), ChunkCap, PipeCap - Len(pipe[o].parts)})
    PROVE  /\ n \in 1..Len(queue[o].pending)
           /\ SubSeq(queue[o].pending, 1, n) \in Seq(Part)
           /\ Rest(queue[o].pending, n) \in Seq(Part)
<1> DEFINE s == queue[o].pending
<1>1. Len(s) \in Nat /\ PipeCap - Len(pipe[o].parts) \in Int /\ s \in Seq(Part)
  BY TypedFields, JournalAssumption
<1> HIDE DEF s
<1>2. /\ Min({Len(s), ChunkCap, PipeCap - Len(pipe[o].parts)}) \in Int
      /\ Min({Len(s), ChunkCap, PipeCap - Len(pipe[o].parts)}) <= Len(s)
  BY <1>1, RoomIsBounded, JournalAssumption
<1>3. n \in 1..Len(s)
  BY <1>1, <1>2 DEF s
<1>4. SubSeq(s, 1, n) \in Seq(Part)
  BY <1>1, <1>3
<1>5. SubSeq(s, n + 1, Len(s)) \in Seq(Part)
  BY <1>1, <1>3
<1> QED
  BY <1>3, <1>4, <1>5 DEF Rest, s

(***************************************************************************)
(* One shell and its worker.                                               *)
(***************************************************************************)
(* The worker is at record n: it has the first parts of it, the rest up to *)
(* the last record accepted is in the pipe and in the queue, and the       *)
(* records before it are written.                                          *)
SavingFrom(o, n, q, p, w, done) ==
    /\ \A i \in 1..Len(w.parts) : w.parts[i] = <<o, n, i>>
    /\ \E b : /\ Follows(After(o, n, Len(w.parts)), p.parts, b)
              /\ Follows(b, q.pending, <<o, q.accepted + 1, 1>>)
    /\ \A m \in 1..n - 1 : <<o, m>> \in done
    /\ w.at = "unlock" => <<o, n>> \in done

(* Nothing has gone wrong, and the shell is there.                         *)
Healthy(q, w) ==
    /\ ~q.warned /\ q.at \in {"open", "finish"}
    /\ w.status \in {"running", "exited"}

(* Between records a worker has a part of a frame, and within one all of   *)
(* it; it ends by itself only when nothing can come any more.              *)
FrameRead(w) ==
    w.status = "running" =>
       /\ w.at # "end"
       /\ w.at = "read" => Len(w.parts) < FrameSize
       /\ w.at # "read" => Len(w.parts) = FrameSize

OwnerSound(o, q, p, w, done) ==
    /\ FrameRead(w)
    /\ w.status = "exited" => p.closed /\ p.parts = <<>> /\ w.parts = <<>>
    /\ Healthy(q, w) =>
          /\ p.closed => q.pending = <<>>
          /\ \E n \in Nat \ {0} : SavingFrom(o, n, q, p, w, done)
    /\ q.at = "open" /\ w.status = "reaped" => q.warned
    /\ q.at = "done" /\ ~q.warned => \A m \in 1..q.accepted : <<o, m>> \in done

OwnersInv == \A o \in Owners : OwnerSound(o, queue[o], pipe[o], worker[o], written)

LEMMA SoundGrows ==
    ASSUME NEW o, NEW q, NEW p, NEW w, NEW done, NEW more,
           OwnerSound(o, q, p, w, done), done \subseteq more
    PROVE  OwnerSound(o, q, p, w, more)
<1>1. ASSUME NEW n, SavingFrom(o, n, q, p, w, done) PROVE SavingFrom(o, n, q, p, w, more)
  BY <1>1 DEF SavingFrom
<1> QED
  BY <1>1 DEF OwnerSound

(* A step of one shell or of its worker.                                   *)
Updates(o, q, p, w) ==
    /\ q \in QueueType /\ queue' = [queue EXCEPT ![o] = q]
    /\ p \in PipeType /\ pipe' = [pipe EXCEPT ![o] = p]
    /\ w \in WorkerType /\ worker' = [worker EXCEPT ![o] = w]

OwnerTypes ==
    /\ queue \in [Owners -> QueueType]
    /\ pipe \in [Owners -> PipeType]
    /\ worker \in [Owners -> WorkerType]

LEMMA OwnerStep ==
    ASSUME JournalType, OwnersInv, NEW o \in Owners, NEW q, NEW p, NEW w,
           Updates(o, q, p, w), written \subseteq written',
           OwnerSound(o, q, p, w, written')
    PROVE  OwnerTypes' /\ OwnersInv'
<1>1. OwnerTypes'
  BY DEF JournalType, Updates, OwnerTypes
<1>2. queue'[o] = q /\ pipe'[o] = p /\ worker'[o] = w
  BY DEF JournalType, Updates
<1>3. ASSUME NEW r \in Owners, r # o
      PROVE  OwnerSound(r, queue'[r], pipe'[r], worker'[r], written')
  <2>1. queue'[r] = queue[r] /\ pipe'[r] = pipe[r] /\ worker'[r] = worker[r]
    BY <1>3 DEF JournalType, Updates
  <2>2. OwnerSound(r, queue[r], pipe[r], worker[r], written)
    BY DEF OwnersInv
  <2> QED
    BY <2>1, <2>2, SoundGrows
<1> QED
  BY <1>1, <1>2, <1>3 DEF OwnersInv

LEMMA InitOwners == JournalInit => JournalType /\ OwnersInv
<1> SUFFICES ASSUME JournalInit PROVE JournalType /\ OwnersInv
  OBVIOUS
<1>1. JournalType
  BY DEF JournalInit, JournalType, QueueType, PipeType, WorkerType
<1>2. ASSUME NEW o \in Owners PROVE OwnerSound(o, queue[o], pipe[o], worker[o], written)
  <2>1. /\ queue[o] = [accepted |-> 0, pending |-> <<>>, warned |-> FALSE, at |-> "open"]
        /\ pipe[o] = [parts |-> <<>>, closed |-> FALSE]
        /\ worker[o] = [at |-> "read", parts |-> <<>>, status |-> "running"]
    BY DEF JournalInit
  <2>2. After(o, 1, Len(worker[o].parts)) = <<o, 1, 1>>
    BY <2>1, JournalAssumption DEF After
  <2>3. SavingFrom(o, 1, queue[o], pipe[o], worker[o], written)
    <3>1. /\ Follows(<<o, 1, 1>>, pipe[o].parts, <<o, 1, 1>>)
          /\ Follows(<<o, 1, 1>>, queue[o].pending, <<o, queue[o].accepted + 1, 1>>)
      BY <2>1, NothingFollows
    <3> QED
      BY <2>1, <2>2, <3>1 DEF SavingFrom
  <2>4. FrameRead(worker[o])
    BY <2>1, JournalAssumption DEF FrameRead
  <2> QED
    BY <2>1, <2>3, <2>4 DEF OwnerSound
<1> QED
  BY <1>1, <1>2 DEF OwnersInv

(***************************************************************************)
(* The reactor.                                                            *)
(***************************************************************************)
OwnersKept == OwnerTypes' /\ OwnersInv'

LEMMA EnqueueOwners ==
    ASSUME JournalType, OwnersInv, NEW o \in Owners, Enqueue(o)
    PROVE  OwnersKept
<1> DEFINE q == queue[o]  p == pipe[o]  w == worker[o]  n == q.accepted + 1
           full == p.closed \/ FrameSize > PendingCap - Len(q.pending)
           r == IF full THEN [q EXCEPT !.warned = TRUE]
                ELSE [q EXCEPT !.accepted = n, !.pending = q.pending \o Frame(o, n)]
<1>1. OwnerSound(o, q, p, w, written) /\ written' = written
  BY DEF OwnersInv, Enqueue, QueueUnchanged
<1>2. /\ queue' = [queue EXCEPT ![o] = r]
      /\ pipe' = pipe /\ worker' = worker /\ q.at = "open"
  <2>1. queue' = [queue EXCEPT ![o] = r]
    <3>1. CASE full
      BY <3>1 DEF Enqueue
    <3>2. CASE ~full
      <4>1. queue' = [queue EXCEPT ![o].accepted = n, ![o].pending = @ \o Frame(o, n)]
        BY <3>2 DEF Enqueue
      <4> QED
        BY <3>2, <4>1
    <3> QED
      BY <3>1, <3>2
  <2>2. pipe' = pipe /\ worker' = worker /\ q.at = "open"
    BY DEF Enqueue, QueueUnchanged
  <2> QED
    BY <2>1, <2>2
<1>3. /\ q \in QueueType /\ p \in PipeType /\ w \in WorkerType
      /\ q.accepted \in Nat /\ q.pending \in Seq(Part)
  BY TypedFields
<1>4. n \in Nat /\ Frame(o, n) \in Seq(Part) /\ Follows(<<o, n, 1>>, Frame(o, n), <<o, n + 1, 1>>)
  <2>1. n \in Nat
    BY <1>3
  <2> HIDE DEF n
  <2> QED
    BY <2>1, FrameFollows
<1>5. r \in QueueType
  <2>1. q.pending \o Frame(o, n) \in Seq(Part)
    BY <1>3, <1>4
  <2>2. [q EXCEPT !.warned = TRUE] \in QueueType
    BY <1>3 DEF QueueType
  <2>3. [q EXCEPT !.accepted = n, !.pending = q.pending \o Frame(o, n)] \in QueueType
    BY <1>3, <1>4, <2>1 DEF QueueType
  <2> QED
    BY <2>2, <2>3
<1>6. pipe' = [pipe EXCEPT ![o] = p] /\ worker' = [worker EXCEPT ![o] = w]
  BY <1>2 DEF JournalType
<1>7. OwnerSound(o, r, p, w, written')
  <2>1. CASE full
    <3>1. r = [q EXCEPT !.warned = TRUE]
      BY <2>1
    <3>2. r.warned = TRUE /\ r.at = "open"
      BY <1>2, <1>3, <3>1 DEF QueueType
    <3> HIDE DEF r
    <3> QED
      BY <1>1, <3>2 DEF OwnerSound, Healthy
  <2>2. CASE ~full
    <3>1. /\ r.accepted = n /\ r.pending = q.pending \o Frame(o, n)
          /\ r.warned = q.warned /\ r.at = q.at
      BY <1>3, <2>2 DEF QueueType
    <3>2. ~p.closed
      BY <2>2
    <3> HIDE DEF r, full
    <3>3. ASSUME Healthy(r, w) PROVE \E k \in Nat \ {0} : SavingFrom(o, k, r, p, w, written')
      <4>1. PICK k \in Nat \ {0} : SavingFrom(o, k, q, p, w, written)
        BY <1>1, <3>1, <3>3 DEF OwnerSound, Healthy
      <4>2. PICK b : /\ Follows(After(o, k, Len(w.parts)), p.parts, b)
                     /\ Follows(b, q.pending, <<o, n, 1>>)
        BY <4>1 DEF SavingFrom
      <4>3. Follows(b, r.pending, <<o, r.accepted + 1, 1>>)
        BY <1>3, <1>4, <3>1, <4>2, FollowsConcat
      <4> HIDE DEF w, p, q
      <4>4. SavingFrom(o, k, r, p, w, written')
        BY <1>1, <4>1, <4>2, <4>3 DEF SavingFrom
      <4> QED
        BY <4>4
    <3> QED
      BY <1>1, <1>2, <3>1, <3>2, <3>3 DEF OwnerSound
  <2> QED
    BY <2>1, <2>2
<1> HIDE DEF r, full
<1>8. Updates(o, r, p, w)
  BY <1>2, <1>3, <1>5, <1>6 DEF Updates
<1> QED
  BY <1>1, <1>7, <1>8, OwnerStep DEF OwnersKept

LEMMA FlushOwners ==
    ASSUME JournalType, OwnersInv, NEW o \in Owners, Flush(o)
    PROVE  OwnersKept
<1> DEFINE q == queue[o]  p == pipe[o]  w == worker[o]
<1>1. OwnerSound(o, q, p, w, written) /\ written' = written /\ worker' = worker
  BY DEF OwnersInv, Flush, QueueUnchanged
<1>2. q.at \in {"open", "finish"} /\ ~p.closed /\ q.pending # <<>>
  BY DEF Flush
<1>3. /\ q \in QueueType /\ p \in PipeType /\ w \in WorkerType
      /\ q.accepted \in Nat /\ q.pending \in Seq(Part) /\ p.parts \in Seq(Part)
      /\ q.warned \in BOOLEAN
  BY TypedFields
<1>4. worker' = [worker EXCEPT ![o] = w]
  BY <1>1 DEF JournalType
<1>5. ASSUME NEW n \in 1..Min({Len(q.pending), ChunkCap, PipeCap - Len(p.parts)}),
             pipe' = [pipe EXCEPT ![o].parts = @ \o SubSeq(q.pending, 1, n)],
             queue' = [queue EXCEPT ![o].pending = Rest(@, n)]
      PROVE  OwnersKept
  <2> DEFINE sent == SubSeq(q.pending, 1, n)
             left == Rest(q.pending, n)
             r == [q EXCEPT !.pending = left]
             d == [p EXCEPT !.parts = p.parts \o sent]
  <2>1. n \in 1..Len(q.pending) /\ sent \in Seq(Part) /\ left \in Seq(Part)
    BY FlushedPart
  <2>2. queue' = [queue EXCEPT ![o] = r] /\ pipe' = [pipe EXCEPT ![o] = d]
    BY <1>5
  <2>3. ASSUME NEW a, NEW c, Follows(a, q.pending, c)
        PROVE  \E b : Follows(a, sent, b) /\ Follows(b, left, c)
    BY <1>3, <2>1, <2>3, FollowsSplit
  <2> HIDE DEF sent, left
  <2>4. r \in QueueType /\ d \in PipeType
    <3>1. p.parts \o sent \in Seq(Part)
      BY <1>3, <2>1
    <3>2. r \in QueueType
      BY <1>3, <2>1 DEF QueueType
    <3>3. d \in PipeType
      BY <1>3, <3>1 DEF PipeType
    <3> QED
      BY <3>2, <3>3
  <2>5. /\ r.pending = left /\ r.accepted = q.accepted /\ r.warned = q.warned /\ r.at = q.at
        /\ d.parts = p.parts \o sent /\ d.closed = p.closed
    BY <1>3 DEF QueueType, PipeType
  <2> HIDE DEF r, d
  <2>6. ASSUME Healthy(r, w) PROVE \E k \in Nat \ {0} : SavingFrom(o, k, r, d, w, written')
    <3>1. PICK k \in Nat \ {0} : SavingFrom(o, k, q, p, w, written)
      BY <1>1, <2>5, <2>6 DEF OwnerSound, Healthy
    <3>2. PICK b : /\ Follows(After(o, k, Len(w.parts)), p.parts, b)
                   /\ Follows(b, q.pending, <<o, q.accepted + 1, 1>>)
      BY <3>1 DEF SavingFrom
    <3>3. PICK c : Follows(b, sent, c) /\ Follows(c, left, <<o, q.accepted + 1, 1>>)
      BY <2>3, <3>2
    <3>4. Follows(After(o, k, Len(w.parts)), d.parts, c)
      BY <1>3, <2>1, <2>5, <3>2, <3>3, FollowsConcat
    <3>5. Follows(c, r.pending, <<o, r.accepted + 1, 1>>)
      BY <2>5, <3>3
    <3> HIDE DEF w, p, q
    <3>6. SavingFrom(o, k, r, d, w, written')
      BY <1>1, <3>1, <3>4, <3>5 DEF SavingFrom
    <3> QED
      BY <3>6
  <2>7. ~(w.status = "exited") /\ ~d.closed
    BY <1>1, <1>2, <2>5 DEF OwnerSound
  <2>8. OwnerSound(o, r, d, w, written')
    BY <1>1, <2>5, <2>6, <2>7 DEF OwnerSound
  <2>9. Updates(o, r, d, w)
    BY <1>3, <1>4, <2>2, <2>4 DEF Updates
  <2> QED
    BY <1>1, <2>8, <2>9, OwnerStep DEF OwnersKept
<1>6. ASSUME w.status # "running", ClosedPipe(o),
             queue' = [queue EXCEPT ![o].pending = <<>>, ![o].warned = @ \/ q.at = "open"]
      PROVE  OwnersKept
  <2> DEFINE r == [q EXCEPT !.pending = <<>>, !.warned = q.warned \/ q.at = "open"]
             d == [p EXCEPT !.closed = TRUE]
  <2>1. queue' = [queue EXCEPT ![o] = r]
    BY <1>6
  <2>2. pipe' = [pipe EXCEPT ![o] = d]
    BY <1>6 DEF ClosedPipe
  <2>3. r \in QueueType /\ d \in PipeType
    <3>1. <<>> \in Seq(Part) /\ (q.warned \/ q.at = "open") \in BOOLEAN
      BY <1>3
    <3>2. d \in PipeType
      BY <1>3 DEF PipeType
    <3>3. r \in QueueType
      BY <1>3, <3>1 DEF QueueType
    <3> QED
      BY <3>2, <3>3
  <2>4. r.at = q.at /\ (q.at = "open" => r.warned)
    BY <1>3 DEF QueueType
  <2> HIDE DEF r, d
  <2>5. w.status \in {"failed", "reaped"}
    BY <1>1, <1>2, <1>3, <1>6 DEF OwnerSound, WorkerType
  <2>6. OwnerSound(o, r, d, w, written')
    BY <1>1, <1>2, <2>4, <2>5 DEF OwnerSound, Healthy
  <2>7. Updates(o, r, d, w)
    BY <1>3, <1>4, <2>1, <2>2, <2>3 DEF Updates
  <2> QED
    BY <1>1, <2>6, <2>7, OwnerStep DEF OwnersKept
<1> QED
  BY <1>5, <1>6 DEF Flush

LEMMA ReapOwners ==
    ASSUME JournalType, OwnersInv, NEW o \in Owners, ReapJournalWorker(o)
    PROVE  OwnersKept
<1> DEFINE q == queue[o]  p == pipe[o]  w == worker[o]
           r == [q EXCEPT !.pending = <<>>, !.warned = TRUE]
           d == [p EXCEPT !.closed = TRUE]
           v == [w EXCEPT !.status = "reaped"]
<1>1. /\ queue' = [queue EXCEPT ![o] = r] /\ pipe' = [pipe EXCEPT ![o] = d]
      /\ worker' = [worker EXCEPT ![o] = v] /\ written' = written /\ q.at = "open"
  BY DEF ReapJournalWorker, ClosedPipe
<1>2. q \in QueueType /\ p \in PipeType /\ w \in WorkerType
  BY TypedFields
<1>3. r \in QueueType /\ d \in PipeType /\ v \in WorkerType
  <2>1. r \in QueueType
    <3>1. <<>> \in Seq(Part)
      OBVIOUS
    <3> QED
      BY <1>2, <3>1 DEF QueueType
  <2>2. d \in PipeType
    BY <1>2 DEF PipeType
  <2>3. v \in WorkerType
    BY <1>2 DEF WorkerType
  <2> QED
    BY <2>1, <2>2, <2>3
<1>4. r.at = "open" /\ r.warned /\ v.status = "reaped"
  <2>1. r.at = "open" /\ r.warned
    BY <1>1, <1>2 DEF QueueType
  <2>2. v.status = "reaped"
    BY <1>2 DEF WorkerType
  <2> QED
    BY <2>1, <2>2
<1> HIDE DEF r, d, v
<1>5. OwnerSound(o, r, d, v, written')
  BY <1>4 DEF OwnerSound, Healthy, FrameRead
<1> QED
  BY <1>1, <1>3, <1>5, OwnerStep DEF Updates, OwnersKept

LEMMA FinishStartOwners ==
    ASSUME JournalType, OwnersInv, NEW o \in Owners, FinishStart(o)
    PROVE  OwnersKept
<1> DEFINE q == queue[o]  p == pipe[o]  w == worker[o]
           to == IF w.status = "reaped" THEN "done" ELSE "finish"
           r == [q EXCEPT !.at = to]
<1>1. OwnerSound(o, q, p, w, written)
  BY DEF OwnersInv
<1>2. /\ queue' = [queue EXCEPT ![o] = r] /\ pipe' = pipe
      /\ worker' = worker /\ written' = written /\ q.at = "open"
  BY DEF FinishStart, QueueUnchanged
<1>3. q \in QueueType /\ p \in PipeType /\ w \in WorkerType
  BY TypedFields
<1>4. to \in {"finish", "done"} /\ (to = "done" <=> w.status = "reaped")
  OBVIOUS
<1> HIDE DEF to
<1>5. /\ r \in QueueType /\ r.at = to /\ r.warned = q.warned
      /\ r.pending = q.pending /\ r.accepted = q.accepted
  BY <1>3, <1>4 DEF QueueType
<1> HIDE DEF r
<1>6. ASSUME NEW n, SavingFrom(o, n, q, p, w, written)
      PROVE  SavingFrom(o, n, r, p, w, written)
  BY <1>5, <1>6 DEF SavingFrom
<1>7. Healthy(r, w) => Healthy(q, w)
  BY <1>2, <1>5 DEF Healthy
<1> HIDE DEF q, p, w
<1>8. OwnerSound(o, r, p, w, written')
  BY <1>1, <1>2, <1>4, <1>5, <1>6, <1>7 DEF OwnerSound
<1>9. pipe' = [pipe EXCEPT ![o] = p] /\ worker' = [worker EXCEPT ![o] = w]
  BY <1>2 DEF JournalType, p, w
<1> QED
  BY <1>2, <1>3, <1>5, <1>8, <1>9, OwnerStep DEF Updates, OwnersKept

LEMMA FinishCloseOwners ==
    ASSUME JournalType, OwnersInv, NEW o \in Owners, FinishClose(o)
    PROVE  OwnersKept
<1> DEFINE q == queue[o]  p == pipe[o]  w == worker[o]
           d == [p EXCEPT !.closed = TRUE]
<1>1. OwnerSound(o, q, p, w, written)
  BY DEF OwnersInv
<1>2. /\ queue' = queue /\ pipe' = [pipe EXCEPT ![o] = d] /\ worker' = worker
      /\ written' = written /\ q.pending = <<>> /\ ~p.closed
  BY DEF FinishClose, QueueUnchanged, ClosedPipe
<1>3. q \in QueueType /\ p \in PipeType /\ w \in WorkerType
  BY TypedFields
<1>4. d \in PipeType /\ d.parts = p.parts /\ d.closed
  BY <1>3 DEF PipeType
<1> HIDE DEF d
<1>5. ASSUME NEW n, SavingFrom(o, n, q, p, w, written)
      PROVE  SavingFrom(o, n, q, d, w, written)
  BY <1>4, <1>5 DEF SavingFrom
<1>6. queue' = [queue EXCEPT ![o] = q] /\ worker' = [worker EXCEPT ![o] = w]
  BY <1>2 DEF JournalType
<1> HIDE DEF q, p, w
<1>7. OwnerSound(o, q, d, w, written')
  BY <1>1, <1>2, <1>4, <1>5 DEF OwnerSound
<1> QED
  BY <1>2, <1>3, <1>4, <1>6, <1>7, OwnerStep DEF Updates, OwnersKept

(* A worker that ended by itself, with nobody having been warned, has      *)
(* written all that was accepted.                                          *)
LEMMA ExitedHasWritten ==
    ASSUME NEW o, NEW q, NEW p, NEW w, NEW done, q.accepted \in Nat,
           OwnerSound(o, q, p, w, done), Healthy(q, w), w.status = "exited"
    PROVE  \A m \in 1..q.accepted : <<o, m>> \in done
<1>1. q.pending = <<>> /\ p.parts = <<>> /\ w.parts = <<>>
  BY DEF OwnerSound
<1>2. PICK n \in Nat \ {0} : SavingFrom(o, n, q, p, w, done)
  BY DEF OwnerSound
<1>3. PICK b : /\ Follows(After(o, n, Len(w.parts)), p.parts, b)
               /\ Follows(b, q.pending, <<o, q.accepted + 1, 1>>)
  BY <1>2 DEF SavingFrom
<1>4. After(o, n, 0) = <<o, n, 1>>
  BY JournalAssumption DEF After
<1>5. <<o, n, 1>> = b /\ b = <<o, q.accepted + 1, 1>>
  BY <1>1, <1>3, <1>4 DEF Follows, At
<1>6. n - 1 = q.accepted
  BY <1>5
<1> QED
  BY <1>2, <1>6 DEF SavingFrom

LEMMA FinishReapOwners ==
    ASSUME JournalType, OwnersInv, NEW o \in Owners, FinishReap(o)
    PROVE  OwnersKept
<1> DEFINE q == queue[o]  p == pipe[o]  w == worker[o]
           r == [q EXCEPT !.at = "done", !.pending = <<>>,
                          !.warned = q.warned \/ w.status = "failed"]
           d == [p EXCEPT !.closed = TRUE]
           v == [w EXCEPT !.status = "reaped"]
<1>1. OwnerSound(o, q, p, w, written)
  BY DEF OwnersInv
<1>2. /\ queue' = [queue EXCEPT ![o] = r] /\ pipe' = [pipe EXCEPT ![o] = d]
      /\ worker' = [worker EXCEPT ![o] = v] /\ written' = written
      /\ q.at = "finish" /\ w.status \in {"exited", "failed"}
  BY DEF FinishReap, ClosedPipe
<1>3. /\ q \in QueueType /\ p \in PipeType /\ w \in WorkerType
      /\ q.accepted \in Nat /\ q.warned \in BOOLEAN
  BY TypedFields
<1>4. /\ r \in QueueType /\ r.at = "done" /\ r.accepted = q.accepted
      /\ r.warned = (q.warned \/ w.status = "failed")
  <2>1. (q.warned \/ w.status = "failed") \in BOOLEAN /\ <<>> \in Seq(Part)
    BY <1>3
  <2> QED
    BY <1>3, <2>1 DEF QueueType
<1>5. d \in PipeType /\ v \in WorkerType /\ v.status = "reaped"
  <2>1. d \in PipeType
    BY <1>3 DEF PipeType
  <2>2. v \in WorkerType /\ v.status = "reaped"
    BY <1>3 DEF WorkerType
  <2> QED
    BY <2>1, <2>2
<1> HIDE DEF r, d, v
<1>6. ~r.warned => \A m \in 1..r.accepted : <<o, m>> \in written
  <2> SUFFICES ASSUME ~r.warned PROVE \A m \in 1..q.accepted : <<o, m>> \in written
    BY <1>4
  <2>1. Healthy(q, w) /\ w.status = "exited"
    BY <1>2, <1>4 DEF Healthy
  <2> HIDE DEF q, p, w
  <2> QED
    BY <1>1, <1>3, <2>1, ExitedHasWritten
<1>7. OwnerSound(o, r, d, v, written')
  BY <1>2, <1>4, <1>5, <1>6 DEF OwnerSound, Healthy, FrameRead
<1> QED
  BY <1>2, <1>4, <1>5, <1>7, OwnerStep DEF Updates, OwnersKept

LEMMA FinishKillOwners ==
    ASSUME JournalType, OwnersInv, NEW o \in Owners, FinishKill(o)
    PROVE  OwnersKept
<1> DEFINE q == queue[o]  p == pipe[o]  w == worker[o]
           r == [q EXCEPT !.at = "done", !.pending = <<>>, !.warned = TRUE]
           d == [p EXCEPT !.closed = TRUE]
           v == [w EXCEPT !.status = "reaped", !.at = "end"]
<1>1. /\ queue' = [queue EXCEPT ![o] = r] /\ pipe' = [pipe EXCEPT ![o] = d]
      /\ worker' = [worker EXCEPT ![o] = v] /\ written' = written
  BY DEF FinishKill, ClosedPipe
<1>2. q \in QueueType /\ p \in PipeType /\ w \in WorkerType
  BY TypedFields
<1>3. r \in QueueType /\ r.at = "done" /\ r.warned
  <2>1. <<>> \in Seq(Part)
    OBVIOUS
  <2> QED
    BY <1>2, <2>1 DEF QueueType
<1>4. d \in PipeType /\ v \in WorkerType /\ v.status = "reaped"
  <2>1. d \in PipeType
    BY <1>2 DEF PipeType
  <2>2. v \in WorkerType /\ v.status = "reaped"
    BY <1>2 DEF WorkerType
  <2> QED
    BY <2>1, <2>2
<1> HIDE DEF r, d, v
<1>5. OwnerSound(o, r, d, v, written')
  BY <1>3, <1>4 DEF OwnerSound, Healthy, FrameRead
<1> QED
  BY <1>1, <1>3, <1>4, <1>5, OwnerStep DEF Updates, OwnersKept

LEMMA OwnerKilledOwners ==
    ASSUME JournalType, OwnersInv, NEW o \in Owners, OwnerKilled(o)
    PROVE  OwnersKept
<1> DEFINE q == queue[o]  p == pipe[o]  w == worker[o]
           r == [q EXCEPT !.at = "killed"]
           d == [p EXCEPT !.closed = TRUE]
<1>1. /\ queue' = [queue EXCEPT ![o] = r] /\ pipe' = [pipe EXCEPT ![o] = d]
      /\ worker' = worker /\ written' = written
  BY DEF OwnerKilled, ClosedPipe, QueueUnchanged
<1>2. /\ q \in QueueType /\ p \in PipeType /\ w \in WorkerType
      /\ OwnerSound(o, q, p, w, written)
  BY TypedFields DEF OwnersInv
<1>3. r \in QueueType /\ r.at = "killed"
  BY <1>2 DEF QueueType
<1>4. d \in PipeType /\ d.closed /\ d.parts = p.parts
  BY <1>2 DEF PipeType
<1>5. worker' = [worker EXCEPT ![o] = w]
  BY <1>1 DEF JournalType
<1> HIDE DEF r, d
<1>6. OwnerSound(o, r, d, w, written')
  BY <1>1, <1>2, <1>3, <1>4 DEF OwnerSound, Healthy
<1> QED
  BY <1>1, <1>2, <1>3, <1>4, <1>5, <1>6, OwnerStep DEF Updates, OwnersKept

(***************************************************************************)
(* The worker.                                                             *)
(***************************************************************************)
LEMMA ReadOwners ==
    ASSUME JournalType, OwnersInv, NEW o \in Owners, ReadFrame(o)
    PROVE  OwnersKept
<1> DEFINE q == queue[o]  p == pipe[o]  w == worker[o]
<1>1. /\ OwnerSound(o, q, p, w, written) /\ queue' = queue /\ written' = written
      /\ w.status = "running" /\ w.at = "read"
  BY DEF OwnersInv, ReadFrame
<1>2. /\ q \in QueueType /\ p \in PipeType /\ w \in WorkerType
      /\ p.parts \in Seq(Part) /\ w.parts \in Seq(Part)
  BY TypedFields
<1>3. queue' = [queue EXCEPT ![o] = q]
  BY <1>1 DEF JournalType
<1>4. Len(w.parts) \in Nat /\ Len(w.parts) < FrameSize
  BY <1>1, <1>2 DEF OwnerSound, FrameRead
<1>5. CASE p.parts # <<>>
  <2> DEFINE head == Head(p.parts)
             parts == Append(w.parts, head)
             to == IF Len(parts) = FrameSize THEN "lock" ELSE "read"
             d == [p EXCEPT !.parts = Tail(p.parts)]
             v == [w EXCEPT !.parts = parts, !.at = to]
  <2>1. pipe' = [pipe EXCEPT ![o] = d] /\ worker' = [worker EXCEPT ![o] = v]
    BY <1>5 DEF ReadFrame
  <2>2. head \in Part /\ Tail(p.parts) \in Seq(Part)
    BY <1>2, <1>5
  <2>3. /\ parts \in Seq(Part) /\ Len(parts) = Len(w.parts) + 1
        /\ parts[Len(w.parts) + 1] = head
        /\ \A i \in 1..Len(w.parts) : parts[i] = w.parts[i]
    BY <1>2, <2>2
  <2>4. to \in {"lock", "read"} /\ (to = "lock" <=> Len(parts) = FrameSize)
    OBVIOUS
  <2> HIDE DEF head, parts, to
  <2>5. d \in PipeType /\ d.parts = Tail(p.parts) /\ d.closed = p.closed
    BY <1>2, <2>2 DEF PipeType
  <2>6. v \in WorkerType /\ v.parts = parts /\ v.at = to /\ v.status = "running"
    BY <1>1, <1>2, <2>3, <2>4 DEF WorkerType
  <2> HIDE DEF d, v
  <2>7. ASSUME NEW n \in Nat \ {0}, SavingFrom(o, n, q, p, w, written)
        PROVE  SavingFrom(o, n, q, d, v, written)
    <3>1. PICK b : /\ Follows(After(o, n, Len(w.parts)), p.parts, b)
                   /\ Follows(b, q.pending, <<o, q.accepted + 1, 1>>)
      BY <2>7 DEF SavingFrom
    <3>2. After(o, n, Len(w.parts)) = <<o, n, Len(w.parts) + 1>>
      BY <1>4, JournalAssumption DEF After
    <3>3. /\ head = <<o, n, Len(w.parts) + 1>>
          /\ Follows(NextPart(<<o, n, Len(w.parts) + 1>>), d.parts, b)
      <4> DEFINE a == <<o, n, Len(w.parts) + 1>>
      <4>1. Follows(a, p.parts, b)
        BY <3>1, <3>2
      <4> HIDE DEF a
      <4>2. Head(p.parts) = a /\ Follows(NextPart(a), Tail(p.parts), b)
        BY <1>2, <1>5, <4>1, FollowsTail
      <4> QED
        BY <2>5, <4>2 DEF head, a
    <3>4. NextPart(<<o, n, Len(w.parts) + 1>>) = After(o, n, Len(parts))
      BY <1>4, <2>3, JournalAssumption DEF NextPart, After
    <3>5. \A i \in 1..Len(v.parts) : v.parts[i] = <<o, n, i>>
      <4>1. ASSUME NEW i \in 1..Len(w.parts) + 1 PROVE parts[i] = <<o, n, i>>
        <5>1. CASE i \in 1..Len(w.parts)
          BY <2>3, <2>7, <5>1 DEF SavingFrom
        <5>2. CASE i = Len(w.parts) + 1
          BY <2>3, <3>3, <5>2
        <5> QED
          BY <1>4, <5>1, <5>2
      <4> QED
        BY <2>3, <2>6, <4>1
    <3> QED
      BY <2>4, <2>6, <2>7, <3>1, <3>3, <3>4, <3>5 DEF SavingFrom
  <2>8. FrameRead(v)
    BY <1>4, <2>3, <2>4, <2>6, JournalAssumption DEF FrameRead
  <2>9. Healthy(q, v) => Healthy(q, w)
    BY <1>1 DEF Healthy
  <2> HIDE DEF q, p, w
  <2>10. OwnerSound(o, q, d, v, written')
    BY <1>1, <2>5, <2>6, <2>7, <2>8, <2>9 DEF OwnerSound
  <2> QED
    BY <1>1, <1>2, <1>3, <2>1, <2>5, <2>6, <2>10, OwnerStep DEF Updates, OwnersKept
<1>6. CASE p.parts = <<>>
  <2> DEFINE v == IF w.parts = <<>> THEN [w EXCEPT !.status = "exited"]
                  ELSE [w EXCEPT !.status = "failed", !.at = "end"]
  <2>1. p.closed /\ pipe' = pipe
    BY <1>6 DEF ReadFrame
  <2>2. worker' = [worker EXCEPT ![o] = v]
    BY <1>6 DEF ReadFrame, Failed
  <2>3. pipe' = [pipe EXCEPT ![o] = p]
    BY <2>1 DEF JournalType
  <2>4. /\ v \in WorkerType /\ v.parts = w.parts
        /\ w.parts = <<>> => v.status = "exited" /\ v.at = "read"
        /\ w.parts # <<>> => v.status = "failed"
    BY <1>1, <1>2 DEF WorkerType
  <2> HIDE DEF v
  <2>5. ASSUME NEW n, v.status = "exited", SavingFrom(o, n, q, p, w, written)
        PROVE  SavingFrom(o, n, q, p, v, written)
    BY <2>4, <2>5 DEF SavingFrom
  <2>6. Healthy(q, v) => Healthy(q, w) /\ v.status = "exited"
    BY <1>1, <2>4 DEF Healthy
  <2>7. FrameRead(v)
    BY <2>4 DEF FrameRead
  <2>8. v.status # "reaped"
    BY <2>4
  <2> HIDE DEF q, p, w
  <2>9. OwnerSound(o, q, p, v, written')
    BY <1>1, <1>6, <2>1, <2>4, <2>5, <2>6, <2>7, <2>8 DEF OwnerSound
  <2> QED
    BY <1>1, <1>2, <1>3, <2>2, <2>3, <2>4, <2>9, OwnerStep DEF Updates, OwnersKept
<1> QED
  BY <1>5, <1>6

(* The steps of a worker within a record, which leave queue and pipe.      *)
LEMMA WithinRecord ==
    ASSUME JournalType, OwnersInv, NEW o \in Owners,
           NEW to \in Holding, to = "unlock" => <<o, Number(o)>> \in written',
           worker[o].status = "running", worker[o].at # "read",
           worker' = [worker EXCEPT ![o].at = to], queue' = queue, pipe' = pipe,
           written \subseteq written'
    PROVE  OwnersKept
<1> DEFINE q == queue[o]  p == pipe[o]  w == worker[o]
           v == [w EXCEPT !.at = to]
<1>1. OwnerSound(o, q, p, w, written')
  BY SoundGrows DEF OwnersInv
<1>2. /\ q \in QueueType /\ p \in PipeType /\ w \in WorkerType
      /\ queue' = [queue EXCEPT ![o] = q] /\ pipe' = [pipe EXCEPT ![o] = p]
      /\ worker' = [worker EXCEPT ![o] = v]
  BY TypedFields DEF JournalType
<1>3. v \in WorkerType /\ v.parts = w.parts /\ v.at = to /\ v.status = "running"
  BY <1>2 DEF WorkerType
<1> HIDE DEF v
<1>4. Len(w.parts) = FrameSize
  BY <1>1 DEF OwnerSound, FrameRead
<1>5. ASSUME NEW n, SavingFrom(o, n, q, p, w, written')
      PROVE  SavingFrom(o, n, q, p, v, written')
  <2>1. w.parts[1] = <<o, n, 1>>
    BY <1>4, <1>5, JournalAssumption DEF SavingFrom
  <2>2. Number(o) = n
    BY <2>1 DEF Number
  <2> HIDE DEF q, p, w
  <2> QED
    BY <1>3, <1>5, <2>2 DEF SavingFrom
<1>6. FrameRead(v)
  BY <1>3, <1>4 DEF FrameRead, Holding
<1>7. Healthy(q, v) => Healthy(q, w)
  BY DEF Healthy
<1>8. OwnerSound(o, q, p, v, written')
  <2> HIDE DEF q, p, w
  <2> QED
    BY <1>1, <1>3, <1>5, <1>6, <1>7 DEF OwnerSound
<1> QED
  BY <1>2, <1>3, <1>8, OwnerStep DEF Updates, OwnersKept

LEMMA UnlockOwners ==
    ASSUME JournalType, OwnersInv, NEW o \in Owners, UnlockJournal(o)
    PROVE  OwnersKept
<1> DEFINE q == queue[o]  p == pipe[o]  w == worker[o]
           v == [w EXCEPT !.at = "read", !.parts = <<>>]
<1>1. /\ OwnerSound(o, q, p, w, written) /\ queue' = queue /\ pipe' = pipe
      /\ written' = written /\ w.status = "running" /\ w.at = "unlock"
      /\ worker' = [worker EXCEPT ![o] = v]
  BY DEF OwnersInv, UnlockJournal
<1>2. /\ q \in QueueType /\ p \in PipeType /\ w \in WorkerType
      /\ queue' = [queue EXCEPT ![o] = q] /\ pipe' = [pipe EXCEPT ![o] = p]
  BY <1>1, TypedFields DEF JournalType
<1>3. v \in WorkerType /\ v.parts = <<>> /\ v.at = "read" /\ v.status = "running"
  <2>1. <<>> \in Seq(Part)
    OBVIOUS
  <2> QED
    BY <1>1, <1>2, <2>1 DEF WorkerType
<1> HIDE DEF v
<1>4. Len(w.parts) = FrameSize
  BY <1>1 DEF OwnerSound, FrameRead
<1>5. ASSUME NEW n \in Nat \ {0}, SavingFrom(o, n, q, p, w, written)
      PROVE  SavingFrom(o, n + 1, q, p, v, written)
  <2>1. After(o, n, FrameSize) = <<o, n + 1, 1>> /\ After(o, n + 1, 0) = <<o, n + 1, 1>>
    BY JournalAssumption DEF After
  <2>2. <<o, n>> \in written
    BY <1>1, <1>5 DEF SavingFrom
  <2>3. ASSUME NEW m \in 1..(n + 1) - 1 PROVE <<o, m>> \in written
    <3>1. m \in 1..n - 1 \/ m = n
      OBVIOUS
    <3> QED
      BY <1>5, <2>2, <3>1 DEF SavingFrom
  <2> HIDE DEF q, p, w
  <2> QED
    BY <1>3, <1>4, <1>5, <2>1, <2>3 DEF SavingFrom
<1>6. FrameRead(v)
  BY <1>3, JournalAssumption DEF FrameRead
<1>7. Healthy(q, v) => Healthy(q, w)
  BY <1>1 DEF Healthy
<1>8. (\E n \in Nat \ {0} : SavingFrom(o, n, q, p, w, written)) =>
        (\E n \in Nat \ {0} : SavingFrom(o, n, q, p, v, written))
  <2>1. ASSUME NEW n \in Nat \ {0}, SavingFrom(o, n, q, p, w, written)
        PROVE  \E m \in Nat \ {0} : SavingFrom(o, m, q, p, v, written)
    BY <1>5, <2>1
  <2> QED
    BY <2>1
<1>9. OwnerSound(o, q, p, v, written')
  <2> HIDE DEF q, p, w
  <2> QED
    BY <1>1, <1>3, <1>6, <1>7, <1>8 DEF OwnerSound
<1> QED
  BY <1>1, <1>2, <1>3, <1>9, OwnerStep DEF Updates, OwnersKept

LEMMA FailOwners ==
    ASSUME JournalType, OwnersInv, NEW o \in Owners, WorkerFails(o)
    PROVE  OwnersKept
<1> DEFINE q == queue[o]  p == pipe[o]  w == worker[o]
           v == [w EXCEPT !.status = "failed", !.at = "end"]
<1>1. /\ OwnerSound(o, q, p, w, written) /\ queue' = queue /\ pipe' = pipe
      /\ written' = written /\ worker' = [worker EXCEPT ![o] = v]
  BY DEF OwnersInv, WorkerFails, Failed
<1>2. /\ q \in QueueType /\ p \in PipeType /\ w \in WorkerType
      /\ queue' = [queue EXCEPT ![o] = q] /\ pipe' = [pipe EXCEPT ![o] = p]
  BY <1>1, TypedFields DEF JournalType
<1>3. v \in WorkerType /\ v.status = "failed"
  BY <1>2 DEF WorkerType
<1> HIDE DEF v
<1>4. OwnerSound(o, q, p, v, written')
  BY <1>1, <1>3 DEF OwnerSound, Healthy, FrameRead
<1> QED
  BY <1>1, <1>2, <1>3, <1>4, OwnerStep DEF Updates, OwnersKept

(***************************************************************************)
(* The files.                                                              *)
(***************************************************************************)
FilesType == journal \in [current : Seq(JournalRecord), previous : Seq(JournalRecord)]
AllWhole(records) == \A i \in DOMAIN records : records[i].whole
TornAtEnd(records) == \A i \in DOMAIN records : records[i].whole \/ i = Len(records)

(* A worker within a record holds the lock, and once it has looked at the  *)
(* file, or has rotated it, every record there is whole.                   *)
WorkerLocks(o) ==
    /\ worker[o].status = "running" /\ worker[o].at \in Holding => journalLock = o
    /\ worker[o].status = "running" /\ worker[o].at = "header" => AllWhole(journal.current)

FilesInv ==
    /\ FilesType
    /\ \A o \in Owners : WorkerLocks(o)
    /\ TornAtEnd(journal.current) /\ TornAtEnd(journal.previous)

LEMMA InitFiles == JournalInit => FilesInv
<1> SUFFICES ASSUME JournalInit PROVE FilesInv
  OBVIOUS
<1>1. journal = [current |-> <<>>, previous |-> <<>>]
  BY DEF JournalInit
<1>2. FilesType
  BY <1>1 DEF FilesType
<1>3. ASSUME NEW o \in Owners PROVE worker[o].at = "read"
  BY DEF JournalInit
<1> QED
  BY <1>1, <1>2, <1>3 DEF FilesInv, WorkerLocks, TornAtEnd, Holding

(* A step of one worker that gives up the lock, or does not have it, and   *)
(* leaves the file.                                                        *)
LEMMA OutsideFiles ==
    ASSUME JournalType, FilesInv, NEW o \in Owners, NEW w,
           worker' = [worker EXCEPT ![o] = w], journal' = journal,
           ~(w.status = "running" /\ w.at \in Holding),
           \/ journalLock' = journalLock
           \/ journalLock \in {o, NoOwner} /\ journalLock' = NoOwner
    PROVE  FilesInv'
<1>1. worker'[o] = w
  BY DEF JournalType
<1>2. WorkerLocks(o)'
  BY <1>1 DEF WorkerLocks, Holding
<1>3. ASSUME NEW r \in Owners, r # o PROVE WorkerLocks(r)'
  <2>1. worker'[r] = worker[r] /\ WorkerLocks(r) /\ r # NoOwner
    BY <1>3, JournalAssumption DEF JournalType, FilesInv
  <2>2. CASE journalLock' = journalLock
    BY <2>1, <2>2 DEF WorkerLocks
  <2>3. CASE journalLock \in {o, NoOwner} /\ journalLock' = NoOwner
    BY <1>3, <2>1, <2>3 DEF WorkerLocks, Holding
  <2> QED
    BY <2>2, <2>3
<1> QED
  BY <1>2, <1>3 DEF FilesInv, FilesType

(* A step of the worker that has the lock.                                 *)
LEMMA InsideFiles ==
    ASSUME JournalType, FilesInv, NEW o \in Owners, NEW to \in Holding,
           worker' = [worker EXCEPT ![o].at = to],
           journalLock \in {o, NoOwner}, journalLock' = o,
           FilesType', TornAtEnd(journal.current)', TornAtEnd(journal.previous)',
           to = "header" => AllWhole(journal'.current)
    PROVE  FilesInv'
<1>1. worker'[o].at = to
  BY DEF JournalType, WorkerType
<1>2. WorkerLocks(o)'
  BY <1>1 DEF WorkerLocks
<1>3. ASSUME NEW r \in Owners, r # o PROVE WorkerLocks(r)'
  <2>1. worker'[r] = worker[r] /\ WorkerLocks(r) /\ r # NoOwner
    BY <1>3, JournalAssumption DEF JournalType, FilesInv
  <2>2. ~(worker[r].status = "running" /\ worker[r].at \in Holding)
    BY <1>3, <2>1 DEF WorkerLocks
  <2> QED
    BY <2>1, <2>2 DEF WorkerLocks, Holding
<1> QED
  BY <1>2, <1>3 DEF FilesInv

(* The readable records of a file are all of them only where none is torn. *)
LEMMA ReadableIsWhole ==
    ASSUME NEW records \in Seq(JournalRecord), Readable(records) = records
    PROVE  AllWhole(records)
<1> SUFFICES ASSUME ~AllWhole(records) PROVE FALSE
  OBVIOUS
<1> DEFINE torn == {i \in DOMAIN records : ~records[i].whole}
<1>1. DOMAIN records = 1..Len(records) /\ Len(records) \in Nat
  OBVIOUS
<1>2. torn \in SUBSET Nat /\ torn # {}
  BY <1>1 DEF AllWhole
<1>3. PICK m \in torn : \A i \in torn : m <= i
  BY <1>2, LeastNatural
<1>4. Min(torn) = m
  <2>1. ASSUME NEW x \in torn, \A i \in torn : x <= i PROVE x = m
    BY <1>2, <1>3, <2>1
  <2> HIDE DEF torn
  <2>2. Min(torn) \in torn /\ \A i \in torn : Min(torn) <= i
    BY <1>3 DEF Min
  <2> QED
    BY <2>1, <2>2
<1>5. Readable(records) = SubSeq(records, 1, m - 1)
  BY <1>2, <1>4 DEF Readable
<1>6. m \in 1..Len(records)
  BY <1>1
<1>7. Len(SubSeq(records, 1, m - 1)) = m - 1
  BY <1>6
<1> QED
  BY <1>1, <1>5, <1>6, <1>7

(* The record that is being written.                                       *)
LEMMA RecordType ==
    ASSUME JournalType, NEW o \in Owners, Len(worker[o].parts) = FrameSize
    PROVE  Record(o) \in JournalRecord /\ ~Record(o).whole
<1>1. worker[o].parts[1] \in Part
  BY TypedFields, JournalAssumption
<1>2. Number(o) \in Nat
  BY <1>1 DEF Part, Number
<1>3. KindOf(Number(o)) \in {"prompt", "answer", "command"}
  BY DEF KindOf
<1> QED
  BY <1>2, <1>3 DEF Record, JournalRecord

LEMMA TornIsTorn ==
    NothingBehindTorn <=> TornAtEnd(journal.current) /\ TornAtEnd(journal.previous)
BY DEF NothingBehindTorn, TornAtEnd

LEMMA InsideStep ==
    ASSUME JournalType, FilesInv, NEW o \in Owners, NEW from, NEW to, WorkerAt(o, from, to)
    PROVE  /\ worker' = [worker EXCEPT ![o].at = to]
           /\ worker[o].status = "running" /\ worker[o].at = from
           /\ queue' = queue /\ pipe' = pipe
           /\ from \in Holding => journalLock = o
BY DEF WorkerAt, FilesInv, WorkerLocks

(* The worker's steps within a record.                                     *)
LEMMA WriterKeeps ==
    ASSUME JournalType, OwnersInv, FilesInv, NEW o \in Owners,
           \/ LockJournal(o) \/ CheckRotation(o) \/ UnlinkPrevious(o) \/ RenameJournal(o)
           \/ AppendHeader(o) \/ AppendText(o)
    PROVE  OwnersKept /\ FilesInv'
<1>1. /\ journal.current \in Seq(JournalRecord) /\ journal.previous \in Seq(JournalRecord)
      /\ journal \in [current : Seq(JournalRecord), previous : Seq(JournalRecord)]
      /\ TornAtEnd(journal.current) /\ TornAtEnd(journal.previous)
  BY DEF FilesInv, FilesType
<1>2. ASSUME NEW from, NEW to \in Holding, WorkerAt(o, from, to), from # "read",
             to = "unlock" => <<o, Number(o)>> \in written', written \subseteq written'
      PROVE  OwnersKept
  BY <1>2, InsideStep, WithinRecord
<1>3. CASE LockJournal(o)
  <2>1. WorkerAt(o, "lock", "rotate") /\ journal' = journal /\ written' = written
        /\ journalLock = NoOwner /\ journalLock' = o
    BY <1>3 DEF LockJournal
  <2>2. "rotate" \in Holding
    BY DEF Holding
  <2>3. FilesType' /\ TornAtEnd(journal.current)' /\ TornAtEnd(journal.previous)'
    BY <1>1, <2>1 DEF FilesType
  <2> QED
    BY <1>2, <2>1, <2>2, <2>3, InsideStep, InsideFiles
<1>4. CASE CheckRotation(o)
  <2> DEFINE to == IF NeedsRotation(journal.current) THEN "unlink" ELSE "header"
  <2>1. WorkerAt(o, "rotate", to) /\ journal' = journal /\ written' = written
        /\ journalLock' = journalLock
    BY <1>4 DEF CheckRotation
  <2>2. to \in Holding /\ "rotate" \in Holding /\ to # "unlock"
    BY DEF Holding
  <2>3. FilesType' /\ TornAtEnd(journal.current)' /\ TornAtEnd(journal.previous)'
    BY <1>1, <2>1 DEF FilesType
  <2>4. to = "header" => AllWhole(journal'.current)
    <3>1. ASSUME ~NeedsRotation(journal.current) PROVE AllWhole(journal.current)
      <4>1. Readable(journal.current) = journal.current
        BY <3>1 DEF NeedsRotation
      <4> QED
        BY <1>1, <4>1, ReadableIsWhole
    <3> QED
      BY <2>1, <3>1
  <2> HIDE DEF to
  <2> QED
    BY <1>2, <2>1, <2>2, <2>3, <2>4, InsideStep, InsideFiles
<1>5. CASE UnlinkPrevious(o)
  <2>1. WorkerAt(o, "unlink", "rename") /\ written' = written /\ journalLock' = journalLock
        /\ journal' = [journal EXCEPT !.previous = <<>>]
        /\ <<>> \in Seq(JournalRecord)
    BY <1>5 DEF UnlinkPrevious
  <2>2. "unlink" \in Holding /\ "rename" \in Holding
    BY DEF Holding
  <2>3. journal'.current = journal.current /\ journal'.previous = <<>>
    BY <1>1, <2>1
  <2>4. FilesType'
    BY <1>1, <2>1 DEF FilesType
  <2>5. TornAtEnd(journal.current)' /\ TornAtEnd(journal.previous)'
    BY <1>1, <2>3 DEF TornAtEnd
  <2> QED
    BY <1>2, <2>1, <2>2, <2>4, <2>5, InsideStep, InsideFiles
<1>6. CASE RenameJournal(o)
  <2>1. WorkerAt(o, "rename", "header") /\ written' = written /\ journalLock' = journalLock
        /\ journal' = [current |-> <<>>, previous |-> journal.current]
        /\ <<>> \in Seq(JournalRecord)
    BY <1>6 DEF RenameJournal
  <2>2. "rename" \in Holding /\ "header" \in Holding
    BY DEF Holding
  <2>3. journal'.current = <<>> /\ journal'.previous = journal.current
    BY <2>1
  <2>4. FilesType'
    BY <1>1, <2>1 DEF FilesType
  <2>5. TornAtEnd(journal.current)' /\ TornAtEnd(journal.previous)' /\ AllWhole(journal'.current)
    BY <1>1, <2>3 DEF TornAtEnd, AllWhole
  <2> QED
    BY <1>2, <2>1, <2>2, <2>4, <2>5, InsideStep, InsideFiles
<1>7. CASE AppendHeader(o)
  <2> DEFINE old == journal.current
             new == Append(old, Record(o))
  <2>1. WorkerAt(o, "header", "text") /\ written' = written /\ journalLock' = journalLock
        /\ journal' = [journal EXCEPT !.current = new]
    BY <1>7 DEF AppendHeader
  <2>2. "header" \in Holding /\ "text" \in Holding
    BY DEF Holding
  <2>3. worker[o].status = "running" /\ worker[o].at = "header"
    BY <2>1 DEF WorkerAt
  <2>4. Len(worker[o].parts) = FrameSize
    BY <2>3 DEF OwnersInv, OwnerSound, FrameRead
  <2>5. Record(o) \in JournalRecord
    BY <2>4, RecordType
  <2>6. AllWhole(old)
    BY <2>3 DEF FilesInv, WorkerLocks
  <2>7. /\ new \in Seq(JournalRecord) /\ Len(new) = Len(old) + 1 /\ Len(old) \in Nat
        /\ \A i \in 1..Len(old) : new[i] = old[i]
    BY <1>1, <2>5
  <2>8. TornAtEnd(new)
    <3>1. ASSUME NEW i \in DOMAIN new PROVE new[i].whole \/ i = Len(new)
      <4>1. i \in 1..Len(old) \/ i = Len(new)
        BY <2>7
      <4> QED
        BY <1>1, <2>6, <2>7, <4>1 DEF AllWhole
    <3> QED
      BY <3>1 DEF TornAtEnd
  <2> HIDE DEF new, old
  <2>9. journal'.current = new /\ journal'.previous = journal.previous
    BY <1>1, <2>1
  <2>10. FilesType'
    BY <1>1, <2>1, <2>7 DEF FilesType
  <2>11. TornAtEnd(journal.current)' /\ TornAtEnd(journal.previous)'
    BY <1>1, <2>8, <2>9
  <2> QED
    BY <1>2, <2>1, <2>2, <2>10, <2>11, InsideStep, InsideFiles
<1>8. CASE AppendText(o)
  <2> DEFINE old == journal.current
             new == [old EXCEPT ![Len(old)].whole = TRUE]
  <2>1. WorkerAt(o, "text", "unlock") /\ journalLock' = journalLock
        /\ journal' = [journal EXCEPT !.current[Len(journal.current)].whole = TRUE]
        /\ written' = written \cup {<<o, Number(o)>>}
    BY <1>8 DEF AppendText
  <2>2. journal' = [journal EXCEPT !.current = new]
    BY <2>1
  <2>3. "text" \in Holding /\ "unlock" \in Holding
    BY DEF Holding
  <2>4. Len(old) \in Nat /\ DOMAIN old = 1..Len(old) /\ \A i \in 1..Len(old) : old[i] \in JournalRecord
    BY <1>1
  <2>5. DOMAIN new = 1..Len(old) /\ \A i \in 1..Len(old) : i # Len(old) => new[i] = old[i]
    BY <2>4
  <2>6. ASSUME NEW i \in 1..Len(old) PROVE new[i] \in JournalRecord
    <3>1. CASE i = Len(old)
      <4>1. new[i] = [old[i] EXCEPT !.whole = TRUE] /\ old[i] \in JournalRecord
        BY <2>4, <3>1
      <4> QED
        BY <4>1 DEF JournalRecord
    <3>2. CASE i # Len(old)
      BY <2>4, <2>5, <3>2
    <3> QED
      BY <3>1, <3>2
  <2>7. new = [i \in 1..Len(old) |-> new[i]]
    BY <2>4
  <2> HIDE DEF new
  <2>8. new \in Seq(JournalRecord) /\ Len(new) = Len(old)
    <3>1. new \in [1..Len(old) -> JournalRecord]
      BY <2>4, <2>6, <2>7
    <3> HIDE DEF old
    <3>2. new \in Seq(JournalRecord)
      BY <2>4, <3>1
    <3>3. Len(new) \in Nat /\ 1..Len(new) = 1..Len(old)
      BY <2>5, <3>2
    <3>4. \A k, m \in Nat : 1..k = 1..m => k = m
      <4> SUFFICES ASSUME NEW k \in Nat, NEW m \in Nat, 1..k = 1..m PROVE k = m
        OBVIOUS
      <4>1. k \in 1..k \/ k = 0
        OBVIOUS
      <4>2. m \in 1..m \/ m = 0
        OBVIOUS
      <4> QED
        BY <4>1, <4>2
    <3> QED
      BY <2>4, <3>2, <3>3, <3>4
  <2>9. TornAtEnd(new)
    BY <1>1, <2>4, <2>5, <2>8 DEF TornAtEnd
  <2> HIDE DEF old
  <2>10. journal'.current = new /\ journal'.previous = journal.previous
    BY <1>1, <2>2
  <2>11. FilesType'
    BY <1>1, <2>2, <2>8 DEF FilesType
  <2>12. TornAtEnd(journal.current)' /\ TornAtEnd(journal.previous)'
    BY <1>1, <2>9, <2>10
  <2>13. FilesInv'
    BY <2>1, <2>3, <2>11, <2>12, InsideStep, InsideFiles
  <2>14. OwnersKept
    BY <1>2, <2>1, <2>3
  <2> QED
    BY <2>13, <2>14
<1> QED
  BY <1>3, <1>4, <1>5, <1>6, <1>7, <1>8

(* The steps of the reactor, and those of the worker between records.      *)
LEMMA OthersKeep ==
    ASSUME JournalType, OwnersInv, FilesInv, NEW o \in Owners,
           \/ Enqueue(o) \/ Flush(o) \/ FinishStart(o) \/ FinishClose(o) \/ OwnerKilled(o)
           \/ ReapJournalWorker(o) \/ FinishReap(o) \/ FinishKill(o)
           \/ ReadFrame(o) \/ UnlockJournal(o) \/ WorkerFails(o)
    PROVE  OwnersKept /\ FilesInv'
<1> DEFINE w == worker[o]
<1>1. w \in WorkerType /\ WorkerLocks(o) /\ (w.status = "running" => w.at # "end")
  BY TypedFields DEF FilesInv, OwnersInv, OwnerSound, FrameRead
<1>2. CASE Enqueue(o) \/ Flush(o) \/ FinishStart(o) \/ FinishClose(o) \/ OwnerKilled(o)
  <2>1. worker' = worker /\ journal' = journal /\ journalLock' = journalLock
    BY <1>2 DEF Enqueue, Flush, FinishStart, FinishClose, OwnerKilled, QueueUnchanged
  <2>2. FilesInv'
    BY <2>1 DEF FilesInv, FilesType, WorkerLocks
  <2> QED
    BY <1>2, <2>2, EnqueueOwners, FlushOwners, FinishStartOwners, FinishCloseOwners,
       OwnerKilledOwners
<1>3. CASE ReapJournalWorker(o) \/ FinishReap(o)
  <2> DEFINE v == [w EXCEPT !.status = "reaped"]
  <2>1. worker' = [worker EXCEPT ![o] = v] /\ journal' = journal /\ journalLock' = journalLock
    BY <1>3 DEF ReapJournalWorker, FinishReap
  <2>2. v.status # "running"
    BY <1>1 DEF WorkerType
  <2> HIDE DEF v
  <2> QED
    BY <1>3, <2>1, <2>2, OutsideFiles, ReapOwners, FinishReapOwners
<1>4. CASE FinishKill(o)
  <2> DEFINE v == [w EXCEPT !.status = "reaped", !.at = "end"]
  <2>1. worker' = [worker EXCEPT ![o] = v] /\ journal' = journal
        /\ journalLock' = IF journalLock = o THEN NoOwner ELSE journalLock
    BY <1>4 DEF FinishKill
  <2>2. v.status # "running"
    BY <1>1 DEF WorkerType
  <2> HIDE DEF v
  <2> QED
    BY <1>4, <2>1, <2>2, OutsideFiles, FinishKillOwners
<1>5. CASE WorkerFails(o)
  <2> DEFINE v == [w EXCEPT !.status = "failed", !.at = "end"]
  <2>1. worker' = [worker EXCEPT ![o] = v] /\ journal' = journal
        /\ journalLock' = IF journalLock = o THEN NoOwner ELSE journalLock
    BY <1>5 DEF WorkerFails, Failed
  <2>2. v.status # "running"
    BY <1>1 DEF WorkerType
  <2> HIDE DEF v
  <2> QED
    BY <1>5, <2>1, <2>2, OutsideFiles, FailOwners
<1>6. CASE UnlockJournal(o)
  <2> DEFINE v == [w EXCEPT !.at = "read", !.parts = <<>>]
  <2>1. worker' = [worker EXCEPT ![o] = v] /\ journal' = journal
        /\ journalLock' = NoOwner /\ w.status = "running" /\ w.at = "unlock"
    BY <1>6 DEF UnlockJournal
  <2>2. v.at \notin Holding
    BY <1>1 DEF WorkerType, Holding
  <2>3. journalLock = o
    BY <1>1, <2>1 DEF WorkerLocks, Holding
  <2> HIDE DEF v
  <2> QED
    BY <1>6, <2>1, <2>2, <2>3, OutsideFiles, UnlockOwners
<1>7. CASE ReadFrame(o)
  <2> DEFINE parts == Append(w.parts, Head(pipe[o].parts))
             to == IF Len(parts) = FrameSize THEN "lock" ELSE "read"
             more == [w EXCEPT !.parts = parts, !.at = to]
             last == IF w.parts = <<>> THEN [w EXCEPT !.status = "exited"]
                     ELSE [w EXCEPT !.status = "failed", !.at = "end"]
  <2>1. w.status = "running" /\ w.at = "read" /\ journal' = journal /\ journalLock' = journalLock
    BY <1>7 DEF ReadFrame
  <2>2. worker' = [worker EXCEPT ![o] = more] \/ worker' = [worker EXCEPT ![o] = last]
    <3>1. CASE pipe[o].parts # <<>>
      BY <1>7, <3>1 DEF ReadFrame
    <3>2. CASE pipe[o].parts = <<>>
      BY <1>7, <3>2 DEF ReadFrame, Failed
    <3> QED
      BY <3>1, <3>2
  <2>3. more.at \notin Holding
    <3>1. to \notin Holding
      BY DEF Holding
    <3> HIDE DEF to, parts
    <3> QED
      BY <1>1, <3>1 DEF WorkerType
  <2>4. last.at \notin Holding
    BY <1>1, <2>1 DEF WorkerType, Holding
  <2> HIDE DEF more, last
  <2> QED
    BY <1>7, <2>1, <2>2, <2>3, <2>4, OutsideFiles, ReadOwners
<1> QED
  BY <1>2, <1>3, <1>4, <1>5, <1>6, <1>7

(***************************************************************************)
(* The journal's invariant, of which the promises are parts.               *)
(***************************************************************************)
JournalInv == JournalType /\ OwnersInv /\ FilesInv

LEMMA JournalKept ==
    ASSUME JournalInv, NEW o \in Owners, JournalStep(o)
    PROVE  JournalInv'
<1>1. OwnersKept /\ FilesInv'
  BY WriterKeeps, OthersKeep DEF JournalInv, JournalStep
<1>2. JournalType'
  BY <1>1 DEF OwnersKept, FilesInv, JournalType, FilesType, OwnerTypes
<1> QED
  BY <1>1, <1>2 DEF JournalInv, OwnersKept

LEMMA JournalSaved == ASSUME JournalInv, NEW o \in Owners PROVE RecordsSaved(o)
<1>1. OwnerSound(o, queue[o], pipe[o], worker[o], written)
  BY DEF JournalInv, OwnersInv
<1> QED
  BY <1>1 DEF OwnerSound, RecordsSaved

(***************************************************************************)
(* The theorems.                                                           *)
(***************************************************************************)
StorageInv == HistoryInv /\ JournalInv

(* A shell whose session is not in the file has told so; a worker within a *)
(* record holds the lock of the journal and has seen that the file ends    *)
(* with a whole record; and as long as nobody was warned, the records not  *)
(* yet written are, without a gap, in the worker, the pipe and the queue.  *)
THEOREM StorageInvariant == Spec => []StorageInv
<1>1. Init => StorageInv
  BY InitHistory, InitOwners, InitFiles DEF Init, StorageInv, JournalInv
<1>2. StorageInv /\ [Next]_vars => StorageInv'
  <2> SUFFICES ASSUME StorageInv, [Next]_vars PROVE StorageInv'
    OBVIOUS
  <2>1. ASSUME UNCHANGED historyVars PROVE HistoryInv'
    BY <2>1 DEF StorageInv, HistoryInv, ShellSound, historyVars
  <2>2. ASSUME UNCHANGED journalVars PROVE JournalInv'
    BY <2>2 DEF StorageInv, JournalInv, JournalType, OwnersInv, FilesInv, FilesType,
                WorkerLocks, journalVars
  <2>3. CASE HistoryNext
    BY <2>2, <2>3, HistoryKept DEF HistoryNext, StorageInv
  <2>4. CASE JournalNext
    BY <2>1, <2>4, JournalKept DEF JournalNext, StorageInv
  <2>5. CASE UNCHANGED vars
    BY <2>1, <2>2, <2>5 DEF vars, StorageInv
  <2> QED
    BY <2>3, <2>4, <2>5 DEF Next
<1> QED
  BY <1>1, <1>2, PTL DEF Spec

(* New records never remain behind corrupt data (llm_journal.c:271):       *)
(* whichever worker dies or meets a full disk, in the middle of a record   *)
(* or of a rotation, the next one rotates before it writes.                *)
THEOREM TornIsLast == Spec => []NothingBehindTorn
<1>1. StorageInv => NothingBehindTorn
  BY TornIsTorn DEF StorageInv, JournalInv, FilesInv
<1> QED
  BY <1>1, StorageInvariant, PTL

(* A shell that ends without a warning has its session in the history file *)
(* and every record it accepted in the journal (README.md:952).            *)
THEOREM LossIsTold == Spec => []LossIsReported
<1>1. StorageInv => LossIsReported
  BY HistorySaved, JournalSaved DEF StorageInv, LossIsReported
<1> QED
  BY <1>1, StorageInvariant, PTL

(***************************************************************************)
(* A fold over a sequence is what its steps do in order.                   *)
(***************************************************************************)
FoldsWithin(iter, S, start, n, step) ==
  /\ iter = [s \in SUBSET (1..n) |->
                IF s = {} THEN start ELSE step[Max(s)][iter[s \ {Max(s)}]]]
  /\ \A s \in SUBSET (1..n) : iter[s] \in S

LEMMA FoldExists ==
    ASSUME NEW S, NEW start \in S, NEW n \in Nat, NEW step \in [1..n -> [S -> S]]
    PROVE  \E iter : FoldsWithin(iter, S, start, n, step)
<1> DEFINE Folds(iter, m) == \A s \in SUBSET (1..m) :
             /\ iter[s] = IF s = {} THEN start ELSE step[Max(s)][iter[s \ {Max(s)}]]
             /\ iter[s] \in S
           P == {m \in 0..n : \E iter : Folds(iter, m)}
<1>1. 0 \in P
  <2> DEFINE iter == [s \in SUBSET (1..0) |-> start]
  <2>1. Folds(iter, 0)
    OBVIOUS
  <2> HIDE DEF Folds, iter
  <2> QED
    BY <2>1
<1>2. ASSUME NEW m \in 1..n, m - 1 \in P
      PROVE  m \in P
  <2>1. PICK f : Folds(f, m - 1)
    BY <1>2
  <2> DEFINE g == [s \in SUBSET (1..m) |->
                     IF m \in s THEN step[m][f[s \ {m}]] ELSE f[s]]
  <2>2. ASSUME NEW s \in SUBSET (1..m)
        PROVE  /\ g[s] = IF s = {} THEN start ELSE step[Max(s)][g[s \ {Max(s)}]]
               /\ g[s] \in S
    <3>1. CASE m \in s
      <4>1. s \ {m} \in SUBSET (1..m - 1) /\ s \ {m} \in SUBSET (1..m)
        BY <1>2
      <4>2. Max(s) = m
        <5>1. \A x \in s : m >= x
          BY <1>2
        <5>2. \A x \in s : (\A y \in s : x >= y) => x = m
          BY <1>2, <3>1
        <5> QED
          BY <3>1, <5>1, <5>2 DEF Max
      <4>3. f[s \ {m}] \in S
        BY <2>1, <4>1
      <4>4. g[s] = step[m][f[s \ {m}]] /\ g[s \ {m}] = f[s \ {m}]
        BY <3>1, <4>1
      <4>5. step[m][f[s \ {m}]] \in S /\ s # {}
        BY <3>1, <4>3
      <4> HIDE DEF g
      <4> QED
        BY <4>2, <4>4, <4>5
    <3>2. CASE m \notin s
      <4>1. s \in SUBSET (1..m - 1)
        BY <1>2, <3>2
      <4>2. g[s] = f[s]
        BY <3>2
      <4>3. CASE s = {}
        <5>1. f[s] = start /\ f[s] \in S
          BY <2>1, <4>1, <4>3
        <5> HIDE DEF g
        <5> QED
          BY <4>2, <4>3, <5>1
      <4>4. CASE s # {}
        <5> DEFINE t == s \ {Max(s)}
        <5>1. t \in SUBSET (1..m) /\ m \notin t
          BY <3>2
        <5>2. g[t] = f[t]
          BY <5>1
        <5>3. f[s] = step[Max(s)][f[t]] /\ f[s] \in S
          BY <2>1, <4>1, <4>4
        <5> HIDE DEF g
        <5> QED
          BY <4>2, <4>4, <5>2, <5>3
      <4> QED
        BY <4>3, <4>4
    <3> QED
      BY <3>1, <3>2
  <2>3. Folds(g, m)
    BY <2>2
  <2> HIDE DEF g, Folds
  <2> QED
    BY <2>3
<1>3. PICK f : Folds(f, n)
  <2>1. \A m \in 1..n : m - 1 \in P => m \in P
    BY <1>2
  <2> HIDE DEF P, Folds
  <2>2. \A m \in 0..n : m \in P
    BY <1>1, <2>1, StepByStep
  <2>3. n \in P
    BY <2>2
  <2> QED
    BY <2>3 DEF P
<1> DEFINE iter == [s \in SUBSET (1..n) |-> f[s]]
<1>4. ASSUME NEW s \in SUBSET (1..n)
      PROVE  /\ iter[s] = IF s = {} THEN start ELSE step[Max(s)][iter[s \ {Max(s)}]]
             /\ iter[s] \in S
  <2>1. iter[s] = f[s] /\ iter[s \ {Max(s)}] = f[s \ {Max(s)}]
    OBVIOUS
  <2>2. /\ f[s] = IF s = {} THEN start ELSE step[Max(s)][f[s \ {Max(s)}]]
        /\ f[s] \in S
    BY <1>3
  <2> HIDE DEF iter, Folds
  <2> QED
    BY <2>1, <2>2
<1>5. iter = [s \in SUBSET (1..n) |-> iter[s]]
  OBVIOUS
<1> HIDE DEF iter
<1>6. iter = [s \in SUBSET (1..n) |->
                IF s = {} THEN start ELSE step[Max(s)][iter[s \ {Max(s)}]]]
  BY <1>4, <1>5
<1> QED
  BY <1>4, <1>6 DEF FoldsWithin

LEMMA GreatestIsOne ==
    ASSUME NEW n \in Nat, NEW s \in SUBSET (1..n), s # {}
    PROVE  Max(s) \in 1..n /\ s \ {Max(s)} \in SUBSET (1..n)
<1>1. PICK m \in s : \A y \in s : m >= y
  <2> DEFINE g == [x \in s |-> x]
  <2>1. \A x \in s : g[x] \in 0..n /\ g[x] = x /\ x \in Nat
    OBVIOUS
  <2> HIDE DEF g
  <2>2. \E i \in s : \A j \in s : g[j] <= g[i]
    BY <2>1, GreatestKey
  <2> QED
    BY <2>1, <2>2
<1>2. Max(s) \in s
  BY <1>1 DEF Max
<1> QED
  BY <1>2

(* The last of the first i numbers, and what is before it. *)
LEMMA FirstNumbers ==
    ASSUME NEW n \in Nat, NEW i \in 1..n
    PROVE  /\ 1..i \in SUBSET (1..n) /\ 1..i # {}
           /\ Max(1..i) = i /\ (1..i) \ {i} = 1..(i - 1)
<1>1. i \in 1..i /\ \A y \in 1..i : i >= y
  OBVIOUS
<1>2. \A x \in 1..i : (\A y \in 1..i : x >= y) => x = i
  OBVIOUS
<1>3. Max(1..i) = i
  BY <1>1, <1>2 DEF Max
<1> QED
  BY <1>1, <1>3

Unfolds(iter, S, start, n, step) ==
  /\ iter[{}] = start
  /\ \A s \in SUBSET (1..n) : s # {} =>
       \A r \in S : iter[s \ {Max(s)}] = r => iter[s] = step[Max(s)][r]
RunsFrom(at, S, start, n, step) ==
  /\ at[0] = start
  /\ \A i \in 0..n : at[i] \in S
  /\ \A i \in 1..n : at[i] = step[i][at[i - 1]]

LEMMA FoldRuns ==
    ASSUME NEW S, NEW start \in S, NEW n \in Nat, NEW step \in [1..n -> [S -> S]],
           NEW iter, Unfolds(iter, S, start, n, step)
    PROVE  \E at : RunsFrom(at, S, start, n, step) /\ at[n] = iter[1..n]
<1> DEFINE at == [i \in 0..n |-> iter[1..i]]
           P == {i \in 0..n : at[i] \in S}
<1>1. at[0] = start /\ at[n] = iter[1..n]
  <2>1. 1..0 = {}
    OBVIOUS
  <2> QED
    BY <2>1 DEF Unfolds
<1>2. ASSUME NEW i \in 1..n, at[i - 1] \in S
      PROVE  at[i] = step[i][at[i - 1]] /\ at[i] \in S
  <2>1. at[i] = iter[1..i] /\ at[i - 1] = iter[1..(i - 1)]
    OBVIOUS
  <2>2. /\ 1..i \in SUBSET (1..n) /\ 1..i # {}
        /\ Max(1..i) = i /\ (1..i) \ {i} = 1..(i - 1)
    BY FirstNumbers
  <2> HIDE DEF at
  <2>3. at[i] = step[i][at[i - 1]]
    <3> DEFINE s == 1..i
    <3>1. s # {} => \A r \in S : iter[s \ {Max(s)}] = r => iter[s] = step[Max(s)][r]
      BY <2>2 DEF Unfolds
    <3>2. iter[s \ {Max(s)}] = at[i - 1]
      BY <2>1, <2>2
    <3> QED
      BY <1>2, <2>1, <2>2, <3>1, <3>2
  <2> QED
    BY <1>2, <2>3
<1> HIDE DEF at
<1>3. \A i \in 0..n : at[i] \in S
  <2>1. 0 \in P /\ \A i \in 1..n : i - 1 \in P => i \in P
    BY <1>1, <1>2
  <2> HIDE DEF P
  <2>2. \A i \in 0..n : i \in P
    BY <2>1, StepByStep
  <2> QED
    BY <2>2 DEF P
<1>4. \A i \in 1..n : at[i] = step[i][at[i - 1]]
  BY <1>2, <1>3
<1> QED
  BY <1>1, <1>3, <1>4 DEF RunsFrom

Letters == STRING \cup Specials \cup {"n", "r", Header}
Texts == Seq(Letters) \ {NoEntry}
Ring == [slots : [0..HistoryCap - 1 -> Seq(Letters)], start : 0..HistoryCap - 1,
         count : 0..HistoryCap, nextEvent : Nat]
RingOK(ring) ==
  /\ ring \in Ring /\ ring.count < ring.nextEvent
  /\ \A i \in 0..ring.count - 1 : ring.slots[PhysicalIndex(ring, i)] # NoEntry
Lines == Seq(Letters)
Stories == Seq(Texts)
GoodRings == {ring \in Ring : RingOK(ring)}

Once(done, c, deduplicate) ==
  IF deduplicate /\ done # <<>> /\ Last(done) = c THEN done ELSE Append(done, c)

(***************************************************************************)
(* The ring holds the newest of what was added to it, in its order.        *)
(***************************************************************************)
LEMMA Wraps ==
    ASSUME NEW x \in 0..2 * HistoryCap - 1
    PROVE  x % HistoryCap = IF x < HistoryCap THEN x ELSE x - HistoryCap
BY HistoryCapAssumption

\* The place i steps after start.
Wrapped(start, i) ==
  IF start + i < HistoryCap THEN start + i ELSE start + i - HistoryCap

LEMMA PlaceInRing ==
    ASSUME NEW ring, ring.start \in 0..HistoryCap - 1, NEW i \in 0..HistoryCap
    PROVE  /\ PhysicalIndex(ring, i) = Wrapped(ring.start, i)
           /\ PhysicalIndex(ring, i) \in 0..HistoryCap - 1
<1> DEFINE x == ring.start + i
<1>1. x \in 0..2 * HistoryCap - 1 /\ x \in Nat
  BY HistoryCapAssumption
<1>2. PhysicalIndex(ring, i) = x % HistoryCap
  BY DEF PhysicalIndex
<1> HIDE DEF x
<1>3. PhysicalIndex(ring, i) = IF x < HistoryCap THEN x ELSE x - HistoryCap
  BY <1>1, <1>2, Wraps
<1> QED
  BY <1>1, <1>3, HistoryCapAssumption DEF x, Wrapped

LEMMA EntriesAre ==
    ASSUME NEW ring, RingOK(ring)
    PROVE  /\ Entries(ring) \in Seq(Texts) /\ Len(Entries(ring)) = ring.count
           /\ \A i \in 1..ring.count :
                Entries(ring)[i] = ring.slots[PhysicalIndex(ring, i - 1)]
<1>1. ring.count \in 0..HistoryCap /\ ring.nextEvent \in Nat /\ HistoryCap \in Nat
  BY HistoryCapAssumption DEF RingOK, Ring
<1>2. ASSUME NEW i \in 1..ring.count
      PROVE  /\ Event(ring, OldestEvent(ring) + i - 1) = ring.slots[PhysicalIndex(ring, i - 1)]
             /\ ring.slots[PhysicalIndex(ring, i - 1)] \in Texts
  <2>1. /\ OldestEvent(ring) \in Int
        /\ (OldestEvent(ring) + i - 1) - OldestEvent(ring) = i - 1
    BY <1>1 DEF OldestEvent
  <2>2. i - 1 \in 0..ring.count - 1 /\ i - 1 \in 0..HistoryCap
    BY <1>1
  <2>3. PhysicalIndex(ring, i - 1) \in 0..HistoryCap - 1
    BY <2>2, PlaceInRing DEF RingOK, Ring
  <2>4. ring.slots[PhysicalIndex(ring, i - 1)] \in Seq(Letters)
    BY <2>3 DEF RingOK, Ring
  <2>5. ring.slots[PhysicalIndex(ring, i - 1)] # NoEntry
    BY <2>2 DEF RingOK
  <2> QED
    BY <2>1, <2>4, <2>5 DEF Event, Texts
<1> QED
  BY <1>1, <1>2 DEF Entries

\* What of k entries is forgotten where the newest n are kept, and what is kept.
Forgotten(k, n) == IF k > n THEN k - n ELSE 0
IsRest(t, s, T, k, gone) ==
  /\ t \in Seq(T) /\ Len(t) = k - gone
  /\ \A i \in 1..k - gone : t[i] = s[gone + i]

LEMMA ForgottenIs ==
    ASSUME NEW k \in Nat, NEW n \in Nat
    PROVE  Forgotten(k, n) \in 0..k
BY DEF Forgotten

LEMMA NewestIs ==
    ASSUME NEW T, NEW s \in Seq(T), NEW n \in Nat, NEW k \in Nat, k = Len(s),
           NEW gone \in 0..k, gone = Forgotten(k, n)
    PROVE  IsRest(Newest(s, n), s, T, k, gone)
<1>1. CASE k > n
  <2>1. Newest(s, n) = SubSeq(s, k - n + 1, k) /\ gone = k - n
    BY <1>1 DEF Newest, Forgotten
  <2>2. /\ k - n + 1 \in 1..k + 1 /\ k - (k - n + 1) + 1 = k - gone /\ k - gone \in Nat
        /\ \A i \in 1..k - gone : k - n + 1 + i - 1 = gone + i
    BY <1>1, <2>1
  <2>3. Newest(s, n) \in Seq(T) /\ Len(Newest(s, n)) = k - (k - n + 1) + 1
    BY <2>1, <2>2
  <2>4. ASSUME NEW i \in 1..k - gone
        PROVE  Newest(s, n)[i] = s[gone + i]
    <3>1. i \in 1..k - (k - n + 1) + 1 /\ k - n + 1 + i - 1 = gone + i
      BY <2>2, <2>4
    <3>2. Newest(s, n)[i] = s[k - n + 1 + i - 1]
      BY <2>1, <2>2, <3>1
    <3> QED
      BY <3>1, <3>2, Zenon
  <2>5. Len(Newest(s, n)) = k - gone
    BY <2>2, <2>3
  <2> QED
    BY <2>3, <2>4, <2>5, Zenon DEF IsRest
<1>2. CASE ~ (k > n)
  <2>1. Newest(s, n) = SubSeq(s, 1, k) /\ gone = 0
    BY <1>2 DEF Newest, Forgotten
  <2> QED
    BY <2>1 DEF IsRest
<1> QED
  BY <1>1, <1>2

LEMMA SameSequence ==
    ASSUME NEW T, NEW s \in Seq(T), NEW t \in Seq(T), Len(s) = Len(t),
           \A i \in 1..Len(s) : s[i] = t[i]
    PROVE  s = t
OBVIOUS
LEMMA NewestOfFew ==
    ASSUME NEW T, NEW s \in Seq(T), NEW n \in Nat, Len(s) <= n
    PROVE  Newest(s, n) = s
<1>1. /\ Newest(s, n) \in Seq(T) /\ Len(Newest(s, n)) = Len(s)
      /\ \A i \in 1..Len(s) : Newest(s, n)[i] = s[i]
  <2>1. PICK k \in Nat : k = Len(s)
    OBVIOUS
  <2>2. PICK gone \in 0..k : gone = 0 /\ gone = Forgotten(k, n)
    BY <2>1 DEF Forgotten
  <2>3. IsRest(Newest(s, n), s, T, k, gone)
    BY <2>1, <2>2, NewestIs
  <2> QED
    BY <2>1, <2>2, <2>3 DEF IsRest
<1> QED
  BY <1>1, SameSequence

\* Where the entries are after one was added to k: begin is the new start, slot
\* is the place of what was added, and skipped says that the oldest is gone.
LEMMA Shift ==
    ASSUME NEW start \in 0..HistoryCap - 1, NEW k \in 0..HistoryCap,
           NEW skipped \in 0..1, k = HistoryCap <=> skipped = 1,
           NEW begin \in Nat, begin = IF k = HistoryCap THEN Wrapped(start, 1) ELSE start,
           NEW slot \in Nat, slot = IF k = HistoryCap THEN start ELSE Wrapped(start, k),
           NEW i \in 1..k + 1 - skipped, NEW j \in Nat, j = skipped + i - 1
    PROVE  IF j = k THEN Wrapped(begin, i - 1) = slot
           ELSE /\ j \in 0..k - 1 /\ Wrapped(start, j) \in 0..HistoryCap - 1
                /\ Wrapped(begin, i - 1) = Wrapped(start, j) /\ Wrapped(start, j) # slot
<1>1. HistoryCap \in Nat \ {0}
  BY HistoryCapAssumption
<1>2. CASE k = HistoryCap
  BY <1>1, <1>2 DEF Wrapped
<1>3. CASE k # HistoryCap
  BY <1>1, <1>3 DEF Wrapped
<1> QED
  BY <1>2, <1>3

LEMMA AddKeeps ==
    ASSUME NEW ring, RingOK(ring), NEW c \in Texts, NEW d
    PROVE  /\ RingOK(Add(ring, c, d))
           /\ Entries(Add(ring, c, d)) = Newest(Once(Entries(ring), c, d), HistoryCap)
<1> DEFINE k == ring.count
           e == Entries(ring)
           added == Add(ring, c, d)
           skips == d /\ k # 0 /\ ring.slots[PhysicalIndex(ring, k - 1)] = c
<1>1. /\ k \in 0..HistoryCap /\ HistoryCap \in Nat \ {0} /\ k < ring.nextEvent
      /\ ring.nextEvent \in Nat /\ ring.start \in 0..HistoryCap - 1
      /\ ring.slots \in [0..HistoryCap - 1 -> Seq(Letters)]
  BY HistoryCapAssumption DEF RingOK, Ring
<1>2. /\ e \in Seq(Texts) /\ Len(e) = k
      /\ \A i \in 1..k : e[i] = ring.slots[PhysicalIndex(ring, i - 1)]
  BY EntriesAre
<1> HIDE DEF e
<1>3. skips <=> d /\ e # <<>> /\ Last(e) = c
  <2>1. k # 0 <=> e # <<>>
    BY <1>1, <1>2
  <2>2. k # 0 => Last(e) = ring.slots[PhysicalIndex(ring, k - 1)]
    <3>1. Last(e) = e[k]
      BY <1>2 DEF Last
    <3>2. k # 0 => k \in 1..k
      BY <1>1
    <3> QED
      BY <1>2, <3>1, <3>2
  <2> QED
    BY <2>1, <2>2
<1>4. CASE skips
  <2>1. added = ring
    BY <1>4 DEF Add
  <2>2. Once(e, c, d) = e
    BY <1>3, <1>4 DEF Once
  <2>3. Newest(e, HistoryCap) = e
    BY <1>1, <1>2, NewestOfFew
  <2> QED
    BY <2>1, <2>2, <2>3 DEF e
<1>5. CASE ~ skips
  <2> DEFINE full == k = HistoryCap
             slot == IF full THEN ring.start ELSE PhysicalIndex(ring, k)
             next == IF full THEN k ELSE k + 1
             begin == IF full THEN (ring.start + 1) % HistoryCap ELSE ring.start
             log == Append(e, c)
  <2>1. added = [slots |-> [ring.slots EXCEPT ![slot] = c], start |-> begin,
                 count |-> next, nextEvent |-> ring.nextEvent + 1]
    BY <1>5 DEF Add
  <2>2. Once(e, c, d) = log
    BY <1>3, <1>5 DEF Once
  <2>3. begin = IF full THEN Wrapped(ring.start, 1) ELSE ring.start
    <3>1. 1 \in 0..HistoryCap /\ PhysicalIndex(ring, 1) = (ring.start + 1) % HistoryCap
      BY <1>1 DEF PhysicalIndex
    <3> QED
      BY <1>1, <3>1, PlaceInRing
  <2>4. /\ slot = IF full THEN ring.start ELSE Wrapped(ring.start, k)
        /\ slot \in 0..HistoryCap - 1 /\ begin \in 0..HistoryCap - 1
    <3>1. 1 \in 0..HistoryCap /\ PhysicalIndex(ring, 1) = (ring.start + 1) % HistoryCap
      BY <1>1 DEF PhysicalIndex
    <3> QED
      BY <1>1, <3>1, PlaceInRing
  <2> HIDE DEF begin, slot
  <2>5. /\ added.slots = [ring.slots EXCEPT ![slot] = c] /\ added.start = begin
        /\ added.count = next /\ added.nextEvent = ring.nextEvent + 1
        /\ begin \in 0..HistoryCap - 1 /\ next \in 0..HistoryCap
        /\ c \in Seq(Letters) /\ c # NoEntry
    <3>1. next \in 0..HistoryCap
      BY <1>1
    <3>2. c \in Seq(Letters) /\ c # NoEntry
      BY DEF Texts
    <3> HIDE DEF next
    <3> QED
      BY <2>1, <2>4, <3>1, <3>2
  <2>6. added \in Ring
    <3>1. ring.nextEvent + 1 \in Nat
      BY <1>1
    <3>2. [ring.slots EXCEPT ![slot] = c] \in [0..HistoryCap - 1 -> Seq(Letters)]
      BY <1>1, <2>5
    <3> HIDE DEF next
    <3> QED
      BY <2>1, <2>5, <3>1, <3>2 DEF Ring
  <2> DEFINE skipped == IF full THEN 1 ELSE 0
  <2>7. ASSUME NEW i \in 1..next
        PROVE  added.slots[PhysicalIndex(added, i - 1)]
                 = IF skipped + i = k + 1 THEN c ELSE e[skipped + i]
    <3> DEFINE j == skipped + i - 1
               at == PhysicalIndex(added, i - 1)
               old == PhysicalIndex(ring, j)
    <3>0. i - 1 \in 0..HistoryCap /\ j \in 0..HistoryCap /\ skipped + i = j + 1
      BY <1>1
    <3>1. at = Wrapped(begin, i - 1)
      <4> HIDE DEF added
      <4> QED
        BY <2>5, <3>0, PlaceInRing
    <3>2. old = Wrapped(ring.start, j)
      <4> HIDE DEF j
      <4> QED
        BY <1>1, <3>0, PlaceInRing
    <3>3. IF j = k THEN at = slot
          ELSE j \in 0..k - 1 /\ at = old /\ old # slot /\ old \in 0..HistoryCap - 1
      <4>1. /\ skipped \in 0..1 /\ (k = HistoryCap <=> skipped = 1)
            /\ i \in 1..k + 1 - skipped /\ begin \in Nat /\ slot \in Nat /\ j \in Nat
        BY <1>1, <2>4, <2>5, <3>0
      <4>2. /\ slot = IF k = HistoryCap THEN ring.start ELSE Wrapped(ring.start, k)
            /\ begin = IF k = HistoryCap THEN Wrapped(ring.start, 1) ELSE ring.start
            /\ j = skipped + i - 1
        BY <2>3, <2>4
      <4> HIDE DEF k, skipped, at, old, next, j
      <4>3. k \in 0..HistoryCap /\ ring.start \in 0..HistoryCap - 1
        BY <1>1
      <4>4. IF j = k THEN Wrapped(begin, i - 1) = slot
            ELSE /\ j \in 0..k - 1 /\ Wrapped(ring.start, j) \in 0..HistoryCap - 1
                 /\ Wrapped(begin, i - 1) = Wrapped(ring.start, j)
                 /\ Wrapped(ring.start, j) # slot
        BY <4>1, <4>2, <4>3, Shift
      <4> QED
        BY <3>1, <3>2, <4>4
    <3> HIDE DEF added, at, old, j, skipped, k, next
    <3>4. CASE j = k
      <4>1. added.slots[at] = c
        BY <1>1, <2>4, <2>5, <3>3, <3>4
      <4> QED
        BY <1>1, <3>0, <3>4, <4>1 DEF at
    <3>5. CASE j # k
      <4>1. added.slots[at] = ring.slots[old]
        BY <1>1, <2>5, <3>3, <3>5
      <4>2. j + 1 \in 1..k /\ (j + 1) - 1 = j /\ j + 1 # k + 1
        BY <1>1, <3>0, <3>3, <3>5
      <4>3. e[j + 1] = ring.slots[old]
        BY <1>2, <4>2 DEF old, k
      <4> QED
        BY <3>0, <4>1, <4>2, <4>3 DEF at
    <3> QED
      BY <3>4, <3>5
  <2>8. RingOK(added)
    <3>1. ASSUME NEW i \in 0..next - 1
          PROVE  added.slots[PhysicalIndex(added, i)] # NoEntry
      <4>1. i + 1 \in 1..next /\ (i + 1) - 1 = i
        BY <1>1
      <4>2. added.slots[PhysicalIndex(added, i)]
               = IF skipped + (i + 1) = k + 1 THEN c ELSE e[skipped + (i + 1)]
        <5> HIDE DEF added
        <5> QED
          BY <2>7, <4>1
      <4>3. skipped + (i + 1) # k + 1 => skipped + (i + 1) \in 1..k
        BY <1>1
      <4>4. \A n \in 1..k : e[n] # NoEntry
        BY <1>2 DEF Texts
      <4> HIDE DEF added
      <4> QED
        BY <2>5, <4>2, <4>3, <4>4
    <3> HIDE DEF added
    <3> QED
      BY <1>1, <2>5, <2>6, <3>1 DEF RingOK
  <2>9. Entries(added) = Newest(log, HistoryCap)
    <3> DEFINE f == Entries(added)
               g == Newest(log, HistoryCap)
    <3>1. /\ f \in Seq(Texts) /\ Len(f) = next
          /\ \A i \in 1..next : f[i] = added.slots[PhysicalIndex(added, i - 1)]
      <4> HIDE DEF added
      <4> QED
        BY <2>5, <2>8, EntriesAre
    <3>2. /\ log \in Seq(Texts) /\ Len(log) = k + 1
          /\ \A i \in 1..k : log[i] = e[i]
          /\ log[k + 1] = c
      BY <1>2
    <3> HIDE DEF log, f
    <3>3. /\ g \in Seq(Texts) /\ Len(g) = k + 1 - skipped
          /\ \A i \in 1..k + 1 - skipped : g[i] = log[skipped + i]
      <4>0. skipped \in 0..1 /\ k \in Nat
        BY <1>1
      <4>1. PICK more \in Nat : more = k + 1
        BY <1>1
      <4>2. PICK gone \in 0..more :
              gone = skipped /\ gone = Forgotten(more, HistoryCap) /\ HistoryCap \in Nat
        BY <1>1, <4>1 DEF Forgotten
      <4> HIDE DEF skipped
      <4>3. more = Len(log)
        BY <3>2, <4>1
      <4>4. IsRest(g, log, Texts, more, gone)
        BY <3>2, <4>2, <4>3, NewestIs
      <4> HIDE DEF g, k
      <4>5. more - gone = k + 1 - skipped
        BY <4>0, <4>1, <4>2
      <4>6. /\ g \in Seq(Texts) /\ Len(g) = more - gone
            /\ \A i \in 1..more - gone : g[i] = log[gone + i]
        BY <4>4 DEF IsRest
      <4> QED
        BY <4>2, <4>5, <4>6, Zenon
    <3> HIDE DEF g
    <3>4. next = k + 1 - skipped
      BY <1>1
    <3>5. ASSUME NEW i \in 1..next PROVE f[i] = g[i]
      <4>1. f[i] = IF skipped + i = k + 1 THEN c ELSE e[skipped + i]
        BY <2>7, <3>1
      <4>2. g[i] = log[skipped + i]
        BY <3>3, <3>4
      <4>3. skipped + i # k + 1 => skipped + i \in 1..k
        BY <1>1
      <4> QED
        BY <3>2, <4>1, <4>2, <4>3
    <3>6. f = g
      <4> HIDE DEF skipped, next
      <4> QED
        BY <3>1, <3>3, <3>4, <3>5, SameSequence
    <3> QED
      BY <3>6 DEF f, g
  <2> QED
    BY <2>2, <2>8, <2>9 DEF e
<1> QED
  BY <1>4, <1>5
\* What is forgotten early is forgotten at the end.
LEMMA OnceTyped ==
    ASSUME NEW T, NEW s \in Seq(T), NEW c \in T, NEW d
    PROVE  Once(s, c, d) \in Seq(T)
BY DEF Once

ForgetsTwice(n, k, kept, gone, left, before) ==
  /\ left = Forgotten(kept, n) /\ before = Forgotten(k + 1, n)
  /\ kept - left = k + 1 - before /\ before = gone + left

LEMMA ForgottenTwice ==
    ASSUME NEW n \in Nat \ {0}, NEW k \in Nat, NEW gone \in 0..k, gone = Forgotten(k, n),
           NEW kept \in Nat, kept = k - gone + 1
    PROVE  \E left \in 0..kept : \E before \in 0..k + 1 :
             ForgetsTwice(n, k, kept, gone, left, before)
<1> DEFINE left == IF kept > n THEN kept - n ELSE 0
           before == IF k + 1 > n THEN k + 1 - n ELSE 0
<1>1. left \in 0..kept /\ before \in 0..k + 1
  OBVIOUS
<1>2. ForgetsTwice(n, k, kept, gone, left, before)
  BY DEF ForgetsTwice, Forgotten
<1> HIDE DEF left, before
<1> QED
  BY <1>1, <1>2

LEMMA NewestAppend ==
    ASSUME NEW T, NEW s \in Seq(T), NEW c \in T, NEW n \in Nat \ {0}
    PROVE  Newest(Append(Newest(s, n), c), n) = Newest(Append(s, c), n)
<1>0. n \in Nat
  OBVIOUS
<1>1. PICK k \in Nat : k = Len(s)
  OBVIOUS
<1>2. PICK gone \in 0..k : gone = Forgotten(k, n)
  BY ForgottenIs
<1>3. PICK kept \in Nat : kept = k - gone + 1
  <2>1. k - gone + 1 \in Nat
    OBVIOUS
  <2> QED
    BY <2>1
<1>4. PICK left \in 0..kept : \E before \in 0..k + 1 :
        ForgetsTwice(n, k, kept, gone, left, before)
  BY <1>2, <1>3, ForgottenTwice, Zenon
<1>5. PICK before \in 0..k + 1 : ForgetsTwice(n, k, kept, gone, left, before)
  BY <1>4
<1>6. PICK more \in Nat : more = k + 1
  OBVIOUS
<1>7. /\ left = Forgotten(kept, n) /\ before = Forgotten(more, n) /\ before \in 0..more
      /\ kept - left = more - before /\ before = gone + left
  BY <1>5, <1>6 DEF ForgetsTwice
<1> DEFINE t == Newest(s, n)
           u == Append(t, c)
           v == Append(s, c)
           a == Newest(u, n)
           b == Newest(v, n)
<1>8. IsRest(t, s, T, k, gone)
  BY <1>0, <1>1, <1>2, NewestIs
<1> HIDE DEF t
<1>9. /\ u \in Seq(T) /\ kept = Len(u) /\ u[kept] = c
      /\ \A i \in 1..k - gone : u[i] = t[i]
  BY <1>2, <1>3, <1>8 DEF IsRest
<1>10. v \in Seq(T) /\ more = Len(v) /\ v[more] = c /\ \A i \in 1..k : v[i] = s[i]
  BY <1>1, <1>6
<1> HIDE DEF u, v
<1>11. IsRest(a, u, T, kept, left)
  BY <1>0, <1>7, <1>9, NewestIs
<1>12. IsRest(b, v, T, more, before)
  BY <1>0, <1>7, <1>10, NewestIs
<1> HIDE DEF a, b
<1>13. ASSUME NEW i \in 1..kept - left PROVE a[i] = b[i]
  <2>1. a[i] = u[left + i] /\ b[i] = v[before + i]
    BY <1>7, <1>11, <1>12 DEF IsRest
  <2>2. CASE left + i = kept
    <3>1. before + i = more
      <4>1. /\ kept = k - gone + 1 /\ more = k + 1 /\ kept - left = more - before
            /\ before = gone + left /\ before \in 0..more
        BY <1>3, <1>6, <1>7
      <4> QED
        BY <2>2, <4>1
    <3>2. a[i] = u[kept] /\ b[i] = v[more]
      BY <2>1, <2>2, <3>1, Zenon
    <3> QED
      BY <1>9, <1>10, <3>2, Zenon
  <2>3. CASE left + i # kept
    <3>1. left + i \in 1..k - gone /\ before + i \in 1..k /\ gone + (left + i) = before + i
      <4>1. /\ kept = k - gone + 1 /\ more = k + 1 /\ kept - left = more - before
            /\ before = gone + left /\ before \in 0..more
        BY <1>3, <1>6, <1>7
      <4> QED
        BY <2>3, <4>1
    <3>2. u[left + i] = t[left + i] /\ t[left + i] = s[gone + (left + i)]
      BY <1>8, <1>9, <3>1 DEF IsRest
    <3> QED
      BY <1>10, <2>1, <3>1, <3>2
  <2> QED
    BY <2>2, <2>3
<1>14. a = b
  <2>1. /\ a \in Seq(T) /\ b \in Seq(T)
        /\ Len(a) = kept - left /\ Len(b) = kept - left
    BY <1>7, <1>11, <1>12 DEF IsRest
  <2> QED
    BY <1>13, <2>1, SameSequence
<1> QED
  BY <1>14 DEF a, b, u, v, t

LEMMA NewestOnce ==
    ASSUME NEW T, NEW s \in Seq(T), NEW c \in T, NEW d, NEW n \in Nat \ {0}
    PROVE  Newest(Once(Newest(s, n), c, d), n) = Newest(Once(s, c, d), n)
<1> DEFINE t == Newest(s, n)
           skips == d /\ s # <<>> /\ Last(s) = c
<1>0. n \in Nat
  OBVIOUS
<1>1. PICK k \in Nat : k = Len(s)
  OBVIOUS
<1>2. PICK gone \in 0..k : gone = Forgotten(k, n)
  BY ForgottenIs
<1>3. IsRest(t, s, T, k, gone)
  BY <1>0, <1>1, <1>2, NewestIs
<1> HIDE DEF t
<1>4. (s # <<>> <=> k # 0) /\ (t # <<>> <=> k # 0)
  BY <1>1, <1>2, <1>3 DEF IsRest, Forgotten
<1>5. ASSUME s # <<>> PROVE Last(t) = Last(s)
  <2>1. k - gone \in 1..k - gone /\ gone + (k - gone) = k
    BY <1>2, <1>4, <1>5 DEF Forgotten
  <2>2. t[k - gone] = s[k]
    BY <1>3, <2>1 DEF IsRest
  <2> QED
    BY <1>1, <1>3, <2>2 DEF Last, IsRest
<1>6. /\ Once(t, c, d) = IF skips THEN t ELSE Append(t, c)
      /\ Once(s, c, d) = IF skips THEN s ELSE Append(s, c)
  BY <1>4, <1>5 DEF Once
<1>7. Newest(t, n) = t
  <2>1. t \in Seq(T) /\ Len(t) <= n
    BY <1>2, <1>3 DEF IsRest, Forgotten
  <2> QED
    BY <1>0, <2>1, NewestOfFew
<1>8. Newest(Append(t, c), n) = Newest(Append(s, c), n)
  BY NewestAppend DEF t
<1> HIDE DEF skips
<1>9. CASE skips
  BY <1>6, <1>7, <1>9 DEF t
<1>10. CASE ~ skips
  BY <1>6, <1>8, <1>10 DEF t
<1> QED
  BY <1>9, <1>10

(* Adding commands to a ring.                                              *)
Adds(at, ring, commands, d) ==
  /\ at[0] = ring /\ at[Len(commands)] = AddAll(ring, commands, d)
  /\ \A i \in 0..Len(commands) : at[i] \in GoodRings
  /\ \A i \in 1..Len(commands) : at[i] = Add(at[i - 1], commands[i], d)

LEMMA AddAllRuns ==
    ASSUME NEW d, NEW ring, ring \in GoodRings, NEW commands \in Seq(Texts)
    PROVE  \E at : Adds(at, ring, commands, d)
<1> DEFINE n == Len(commands)
           start == ring
           step == [i \in 1..n |-> [r \in GoodRings |-> Add(r, commands[i], d)]]
           Folds(f) == f = [s \in SUBSET (1..n) |->
              IF s = {} THEN ring ELSE Add(f[s \ {Max(s)}], commands[Max(s)], d)]
           iter == CHOOSE f : Folds(f)
<1>0. \A r \in GoodRings : \A x \in Texts : Add(r, x, d) \in GoodRings
  BY AddKeeps DEF GoodRings, RingOK
<1>1. n \in Nat /\ DOMAIN commands = 1..n /\ start \in GoodRings /\ \A i \in 1..n : commands[i] \in Texts
  BY <1>0
<1> HIDE DEF n
<1>2. step \in [1..n -> [GoodRings -> GoodRings]]
  BY <1>0, <1>1<1>3. AddAll(ring, commands, d) = iter[1..n]
  BY <1>1 DEF AddAll, FoldLeft, MapThenFoldSet
<1> HIDE DEF step, start, iter
<1>4. PICK f : FoldsWithin(f, GoodRings, start, n, step)
  BY <1>1, <1>2, FoldExists
<1>5. Folds(f)
  <2> DEFINE h == [s \in SUBSET (1..n) |->
              IF s = {} THEN ring ELSE Add(f[s \ {Max(s)}], commands[Max(s)], d)]
  <2>1. ASSUME NEW s \in SUBSET (1..n), s # {}
        PROVE  step[Max(s)][f[s \ {Max(s)}]] = Add(f[s \ {Max(s)}], commands[Max(s)], d)
    BY <1>1, <1>4, <2>1, GreatestIsOne DEF step, FoldsWithin
  <2>2. \A s \in SUBSET (1..n) : f[s] = h[s]
    BY <1>4, <2>1 DEF start, FoldsWithin
  <2>3. h = [s \in SUBSET (1..n) |-> h[s]] /\ f = [s \in SUBSET (1..n) |-> f[s]]
    BY <1>4 DEF FoldsWithin
  <2>4. f = h
    <3> HIDE DEF h
    <3> QED
      BY <2>2, <2>3
  <2> QED
    BY <2>4
<1>6. Folds(iter)
  <2> HIDE DEF Folds
  <2> QED
    BY <1>5 DEF iter
<1>7. Unfolds(iter, GoodRings, start, n, step)
  <2>1. iter[{}] = start
    BY <1>6 DEF start
  <2>2. ASSUME NEW s \in SUBSET (1..n), s # {}, NEW r \in GoodRings, iter[s \ {Max(s)}] = r
        PROVE  iter[s] = step[Max(s)][r]
    <3>1. iter[s] = Add(iter[s \ {Max(s)}], commands[Max(s)], d)
      BY <1>6, <2>2
    <3> QED
      BY <1>1, <2>2, <3>1, GreatestIsOne DEF step
  <2> QED
    BY <2>1, <2>2 DEF Unfolds
<1> HIDE DEF Folds
<1>8. PICK at : RunsFrom(at, GoodRings, start, n, step) /\ at[n] = iter[1..n]
  BY <1>1, <1>2, <1>7, FoldRuns
<1>9. ASSUME NEW i \in 1..n PROVE at[i] = Add(at[i - 1], commands[i], d)
  <2>1. i - 1 \in 0..n
    BY <1>1
  <2>2. at[i] = step[i][at[i - 1]] /\ at[i - 1] \in GoodRings
    BY <1>8, <2>1 DEF RunsFrom
  <2> QED
    BY <2>2 DEF step
<1> QED
  BY <1>3, <1>8, <1>9 DEF n, start, RunsFrom, Adds

(* What a session appends to a log.                                        *)
Appends(at, log, more, d) ==
  /\ at[0] = log /\ at[Len(more)] = Log!Appended(log, more, d)
  /\ \A i \in 0..Len(more) : at[i] \in Stories
  /\ \A i \in 1..Len(more) : at[i] = Once(at[i - 1], more[i], d)

LEMMA AppendedRuns ==
    ASSUME NEW d, NEW log, log \in Stories, NEW more \in Seq(Texts)
    PROVE  \E at : Appends(at, log, more, d)
<1> DEFINE n == Len(more)
           start == log
           step == [i \in 1..n |-> [r \in Stories |-> Once(r, more[i], d)]]
           Folds(f) == f = [s \in SUBSET (1..n) |->
              IF s = {} THEN log ELSE Once(f[s \ {Max(s)}], more[Max(s)], d)]
           iter == CHOOSE f : Folds(f)
<1>0. \A r \in Stories : \A x \in Texts : Once(r, x, d) \in Stories
  BY OnceTyped DEF Stories
<1>1. n \in Nat /\ DOMAIN more = 1..n /\ start \in Stories /\ \A i \in 1..n : more[i] \in Texts
  BY <1>0
<1> HIDE DEF n
<1>2. step \in [1..n -> [Stories -> Stories]]
  BY <1>0, <1>1<1>3. Log!Appended(log, more, d) = iter[1..n]
  BY <1>1 DEF Once, Last, Max, Log!Appended, Log!FoldLeft, Log!MapThenFoldSet, Log!Max, Log!Last
<1> HIDE DEF step, start, iter
<1>4. PICK f : FoldsWithin(f, Stories, start, n, step)
  BY <1>1, <1>2, FoldExists
<1>5. Folds(f)
  <2> DEFINE h == [s \in SUBSET (1..n) |->
              IF s = {} THEN log ELSE Once(f[s \ {Max(s)}], more[Max(s)], d)]
  <2>1. ASSUME NEW s \in SUBSET (1..n), s # {}
        PROVE  step[Max(s)][f[s \ {Max(s)}]] = Once(f[s \ {Max(s)}], more[Max(s)], d)
    BY <1>1, <1>4, <2>1, GreatestIsOne DEF step, FoldsWithin
  <2>2. \A s \in SUBSET (1..n) : f[s] = h[s]
    BY <1>4, <2>1 DEF start, FoldsWithin
  <2>3. h = [s \in SUBSET (1..n) |-> h[s]] /\ f = [s \in SUBSET (1..n) |-> f[s]]
    BY <1>4 DEF FoldsWithin
  <2>4. f = h
    <3> HIDE DEF h
    <3> QED
      BY <2>2, <2>3
  <2> QED
    BY <2>4
<1>6. Folds(iter)
  <2> HIDE DEF Folds
  <2> QED
    BY <1>5 DEF iter
<1>7. Unfolds(iter, Stories, start, n, step)
  <2>1. iter[{}] = start
    BY <1>6 DEF start
  <2>2. ASSUME NEW s \in SUBSET (1..n), s # {}, NEW r \in Stories, iter[s \ {Max(s)}] = r
        PROVE  iter[s] = step[Max(s)][r]
    <3>1. iter[s] = Once(iter[s \ {Max(s)}], more[Max(s)], d)
      BY <1>6, <2>2
    <3> QED
      BY <1>1, <2>2, <3>1, GreatestIsOne DEF step
  <2> QED
    BY <2>1, <2>2 DEF Unfolds
<1> HIDE DEF Folds
<1>8. PICK at : RunsFrom(at, Stories, start, n, step) /\ at[n] = iter[1..n]
  BY <1>1, <1>2, <1>7, FoldRuns
<1>9. ASSUME NEW i \in 1..n PROVE at[i] = Once(at[i - 1], more[i], d)
  <2>1. i - 1 \in 0..n
    BY <1>1
  <2>2. at[i] = step[i][at[i - 1]] /\ at[i - 1] \in Stories
    BY <1>8, <2>1 DEF RunsFrom
  <2> QED
    BY <2>2 DEF step
<1> QED
  BY <1>3, <1>8, <1>9 DEF n, start, RunsFrom, Appends

LEMMA AddAllKeeps ==
    ASSUME NEW ring, RingOK(ring), NEW commands \in Seq(Texts), NEW d
    PROVE  /\ RingOK(AddAll(ring, commands, d))
           /\ Log!Appended(Entries(ring), commands, d) \in Stories
           /\ Entries(AddAll(ring, commands, d))
                = Newest(Log!Appended(Entries(ring), commands, d), HistoryCap)
<1> DEFINE n == Len(commands)
           log == Entries(ring)
<1>1. n \in Nat /\ (\A i \in 1..n : commands[i] \in Texts) /\ HistoryCap \in Nat \ {0}
  BY HistoryCapAssumption
<1>2. ring \in GoodRings
  BY DEF RingOK, GoodRings
<1>3. log \in Stories
  BY EntriesAre DEF Stories
<1> HIDE DEF log
<1>4. PICK at : Adds(at, ring, commands, d)
  BY <1>2, AddAllRuns
<1>5. PICK done : Appends(done, log, commands, d)
  BY <1>3, AppendedRuns
<1>6. /\ at[0] = ring /\ at[n] = AddAll(ring, commands, d)
      /\ \A i \in 0..n : at[i] \in GoodRings
      /\ \A i \in 1..n : at[i] = Add(at[i - 1], commands[i], d)
  BY <1>4 DEF Adds
<1>7. /\ done[0] = log /\ done[n] = Log!Appended(log, commands, d)
      /\ \A i \in 0..n : done[i] \in Stories
      /\ \A i \in 1..n : done[i] = Once(done[i - 1], commands[i], d)
  BY <1>5 DEF Appends
<1> HIDE DEF n
<1> DEFINE P == {i \in 0..n : Entries(at[i]) = Newest(done[i], HistoryCap)}
<1>8. 0 \in P
  <2>1. Len(log) = ring.count /\ ring.count <= HistoryCap
    BY <1>1, EntriesAre DEF log, RingOK, Ring
  <2>2. Newest(log, HistoryCap) = log
    <3>1. log \in Seq(Texts) /\ Len(log) <= HistoryCap /\ HistoryCap \in Nat
      BY <1>1, <1>3, <2>1 DEF Stories
    <3> QED
      BY <3>1, NewestOfFew
  <2> QED
    BY <1>1, <1>6, <1>7, <2>2 DEF log
<1>9. ASSUME NEW i \in 1..n, i - 1 \in P PROVE i \in P
  <2>1. /\ RingOK(at[i - 1]) /\ done[i - 1] \in Seq(Texts) /\ commands[i] \in Texts
        /\ at[i] = Add(at[i - 1], commands[i], d)
        /\ done[i] = Once(done[i - 1], commands[i], d)
        /\ Entries(at[i - 1]) = Newest(done[i - 1], HistoryCap)
    <3>1. i - 1 \in 0..n
      BY <1>1
    <3> QED
      BY <1>1, <1>6, <1>7, <1>9, <3>1 DEF GoodRings, Stories
  <2>2. Entries(at[i]) = Newest(Once(Entries(at[i - 1]), commands[i], d), HistoryCap)
    BY <2>1, AddKeeps
  <2>3. Entries(at[i]) = Newest(done[i], HistoryCap)
    BY <1>1, <2>1, <2>2, NewestOnce
  <2> QED
    BY <1>1, <2>3
<1>10. n \in P
  <2> HIDE DEF P
  <2>1. \A i \in 0..n : i \in P
    BY <1>1, <1>8, <1>9, StepByStep
  <2> QED
    BY <1>1, <2>1
<1>11. at[n] \in GoodRings /\ done[n] \in Stories
  BY <1>1, <1>6, <1>7
<1> QED
  BY <1>6, <1>7, <1>10, <1>11 DEF GoodRings, log

(***************************************************************************)
(* What is written to the file is what is read from it.                    *)
(***************************************************************************)
LEMMA RecursionExists ==
    ASSUME NEW S, NEW start \in S, NEW n \in Nat, NEW step \in [1..n -> [S -> S]]
    PROVE  \E at : RunsFrom(at, S, start, n, step)
<1>1. PICK iter : FoldsWithin(iter, S, start, n, step)
  BY FoldExists
<1>2. Unfolds(iter, S, start, n, step)
  <2>1. {} \in SUBSET (1..n) /\ \A s \in SUBSET (1..n) : s \ {Max(s)} \in SUBSET (1..n)
    OBVIOUS
  <2> QED
    BY <1>1, <2>1 DEF FoldsWithin, Unfolds
<1> QED
  BY <1>2, FoldRuns

\* at[i] is the first i parts in a row, and each is at its place in the whole.
Concatenates(at, T, parts, whole) ==
  /\ at[0] = <<>> /\ at[Len(parts)] = whole
  /\ \A i \in 0..Len(parts) : at[i] \in Seq(T) /\ Len(at[i]) <= Len(whole)
  /\ \A i \in 1..Len(parts) :
       /\ Len(at[i]) = Len(at[i - 1]) + Len(parts[i])
       /\ \A j \in 1..Len(parts[i]) : whole[Len(at[i - 1]) + j] = parts[i][j]

LEMMA FlattenRuns ==
    ASSUME NEW T, NEW parts \in Seq(Seq(T))
    PROVE  \E at : /\ at[0] = <<>> /\ at[Len(parts)] = FlattenSeq(parts)
                   /\ \A i \in 0..Len(parts) : at[i] \in Seq(T)
                   /\ \A i \in 1..Len(parts) : at[i] = at[i - 1] \o parts[i]
<1> DEFINE n == Len(parts)
           S == Seq(T)
           start == <<>>
           step == [i \in 1..n |-> [r \in S |-> r \o parts[i]]]
           Flattens(f) == f = [i \in 1..n |-> IF i = 1 THEN parts[i] ELSE f[i - 1] \o parts[i]]
           flatten == CHOOSE f : Flattens(f)
<1>1. n \in Nat /\ start \in S /\ \A i \in 1..n : parts[i] \in S
  OBVIOUS
<1>2. FlattenSeq(parts) = IF n = 0 THEN parts ELSE flatten[n]
  BY DEF FlattenSeq
<1>3. n = 0 => parts = <<>>
  OBVIOUS
<1> HIDE DEF n, flatten
<1>4. step \in [1..n -> [S -> S]]
  BY <1>1
<1> HIDE DEF step, start
<1>5. PICK at : RunsFrom(at, S, start, n, step)
  BY <1>1, <1>4, RecursionExists
<1>6. at[0] = <<>> /\ \A i \in 0..n : at[i] \in S
  BY <1>5 DEF RunsFrom, start
<1>7. ASSUME NEW i \in 1..n PROVE at[i] = at[i - 1] \o parts[i] /\ i - 1 \in 0..n
  <2>1. i - 1 \in 0..n
    BY <1>1
  <2> QED
    BY <1>5, <1>6, <2>1 DEF RunsFrom, step
<1> DEFINE f == [i \in 1..n |-> at[i]]
           h == [i \in 1..n |-> IF i = 1 THEN parts[i] ELSE f[i - 1] \o parts[i]]
<1>8. ASSUME NEW i \in 1..n PROVE f[i] = h[i]
  <2>1. CASE i = 1
    <3>1. at[1] = <<>> \o parts[1]
      <4>1. at[i] = at[i - 1] \o parts[i]
        BY <1>7
      <4>2. i - 1 = 0
        BY <2>1
      <4>3. at[i - 1] = <<>>
        BY <1>6, <4>2, Zenon
      <4> QED
        BY <2>1, <4>1, <4>3, Zenon
    <3>2. parts[1] \in Seq(T)
      BY <1>1, <2>1
    <3>3. <<>> \o parts[1] = parts[1]
      BY <3>2
    <3> QED
      BY <2>1, <3>1, <3>3
  <2>2. CASE i # 1
    <3>1. i - 1 \in 1..n
      BY <1>1, <2>2
    <3> QED
      BY <1>7, <2>2, <3>1
  <2> QED
    BY <2>1, <2>2
<1>9. Flattens(f)
  <2>1. f = h
    <3>1. f = [i \in 1..n |-> f[i]] /\ h = [i \in 1..n |-> h[i]]
      OBVIOUS
    <3> HIDE DEF f, h
    <3> QED
      BY <1>8, <3>1
  <2> QED
    BY <2>1
<1>10. Flattens(flatten)
  <2> HIDE DEF Flattens
  <2> QED
    BY <1>9 DEF flatten
<1> DEFINE P == {i \in 0..n : i # 0 => flatten[i] = at[i]}
<1>11. ASSUME NEW i \in 1..n, i - 1 \in P PROVE i \in P
  <2>1. flatten[i] = IF i = 1 THEN parts[i] ELSE flatten[i - 1] \o parts[i]
    BY <1>10
  <2>2. at[i] = IF i = 1 THEN parts[i] ELSE at[i - 1] \o parts[i]
    BY <1>7, <1>8
  <2>3. i # 1 => flatten[i - 1] = at[i - 1]
    BY <1>1, <1>11
  <2> QED
    BY <1>1, <2>1, <2>2, <2>3
<1>12. \A i \in 0..n : i \in P
  <2>1. 0 \in P
    BY <1>1
  <2>2. \A i \in 1..n : i - 1 \in P => i \in P
    BY <1>11
  <2> HIDE DEF P
  <2> QED
    BY <1>1, <2>1, <2>2, StepByStep
<1>13. at[n] = FlattenSeq(parts)
  BY <1>1, <1>2, <1>3, <1>6, <1>12
<1> QED
  BY <1>6, <1>7, <1>13 DEF n

Begins(s, t) == Len(s) <= Len(t) /\ \A j \in 1..Len(s) : t[j] = s[j]

LEMMA BeginsConcat ==
    ASSUME NEW T, NEW s \in Seq(T), NEW t \in Seq(T), NEW p \in Seq(T), Begins(s, t)
    PROVE  Begins(s, t \o p)
<1>1. PICK k \in Nat : k = Len(s)
  OBVIOUS
<1>2. PICK m \in Nat : m = Len(t)
  OBVIOUS
<1>3. /\ Len(t \o p) = m + Len(p) /\ Len(p) \in Nat
      /\ \A j \in 1..m : (t \o p)[j] = t[j]
  BY <1>2
<1>4. k <= m /\ \A j \in 1..k : t[j] = s[j]
  BY <1>1, <1>2 DEF Begins
<1>5. k <= Len(t \o p) /\ \A j \in 1..k : j \in 1..m
  BY <1>3, <1>4
<1> QED
  BY <1>1, <1>3, <1>4, <1>5 DEF Begins

LEMMA PlacedLast ==
    ASSUME NEW T, NEW t \in Seq(T), NEW p \in Seq(T)
    PROVE  /\ t \o p \in Seq(T) /\ Len(t \o p) = Len(t) + Len(p)
           /\ \A j \in 1..Len(p) : /\ Len(t) + j \in 1..Len(t \o p)
                                   /\ (t \o p)[Len(t) + j] = p[j]
OBVIOUS

LEMMA FlattenIs ==
    ASSUME NEW T, NEW parts \in Seq(Seq(T))
    PROVE  \E at : Concatenates(at, T, parts, FlattenSeq(parts))
<1>1. PICK at : /\ at[0] = <<>> /\ at[Len(parts)] = FlattenSeq(parts)
                /\ \A i \in 0..Len(parts) : at[i] \in Seq(T)
                /\ \A i \in 1..Len(parts) : at[i] = at[i - 1] \o parts[i]
  BY FlattenRuns
<1>2. PICK n \in Nat : n = Len(parts)
  OBVIOUS
<1>3. \A i \in 1..n : parts[i] \in Seq(T)
  BY <1>2
\* The first i parts are where they are in the first m.
<1>4. ASSUME NEW i \in 0..n PROVE \A m \in 0..n : m >= i => Begins(at[i], at[m])
  <2> DEFINE P == {m \in 0..n : m >= i => Begins(at[i], at[m])}
  <2>0. at[i] \in Seq(T) /\ Begins(at[i], at[i])
    <3>1. at[i] \in Seq(T)
      BY <1>1, <1>2
    <3>2. Len(at[i]) \in Nat
      BY <3>1
    <3> QED
      BY <3>1, <3>2 DEF Begins
  <2>1. 0 \in P
    <3>1. 0 >= i => i = 0
      OBVIOUS
    <3> QED
      BY <2>0, <3>1
  <2>2. ASSUME NEW m \in 1..n, m - 1 \in P PROVE m \in P
    <3>1. CASE m - 1 >= i
      <4>1. Begins(at[i], at[m - 1]) /\ m - 1 \in 0..n
        BY <2>2, <3>1
      <4>2. at[m - 1] \in Seq(T) /\ parts[m] \in Seq(T)
        BY <1>1, <1>2, <1>3, <4>1
      <4>3. at[m] = at[m - 1] \o parts[m]
        BY <1>1, <1>2
      <4>4. Begins(at[i], at[m])
        BY <2>0, <4>1, <4>2, <4>3, BeginsConcat
      <4> QED
        BY <4>4
    <3>2. CASE ~ (m - 1 >= i)
      <4>1. m >= i => m = i
        BY <3>2
      <4> QED
        BY <2>0, <4>1
    <3> QED
      BY <3>1, <3>2
  <2>3. \A m \in 0..n : m \in P
    <3> HIDE DEF P
    <3> QED
      BY <2>1, <2>2, StepByStep
  <2> QED
    BY <2>3
<1> DEFINE whole == FlattenSeq(parts)
<1>5. ASSUME NEW i \in 0..n
      PROVE  at[i] \in Seq(T) /\ Begins(at[i], whole) /\ at[n] = whole
  <2>1. n \in 0..n /\ n >= i
    OBVIOUS
  <2>2. Begins(at[i], at[n])
    BY <1>4, <2>1
  <2> QED
    BY <1>1, <1>2, <2>2
<1> HIDE DEF whole
<1>6. ASSUME NEW i \in 1..n
      PROVE  /\ Len(at[i]) = Len(at[i - 1]) + Len(parts[i])
             /\ \A j \in 1..Len(parts[i]) : whole[Len(at[i - 1]) + j] = parts[i][j]
  <2>1. i - 1 \in 0..n /\ i \in 0..n
    OBVIOUS
  <2>2. /\ at[i] = at[i - 1] \o parts[i] /\ at[i - 1] \in Seq(T) /\ parts[i] \in Seq(T)
    BY <1>1, <1>2, <1>3, <2>1
  <2>3. /\ Len(at[i]) = Len(at[i - 1]) + Len(parts[i])
        /\ \A j \in 1..Len(parts[i]) : /\ Len(at[i - 1]) + j \in 1..Len(at[i])
                                       /\ at[i][Len(at[i - 1]) + j] = parts[i][j]
    <3> DEFINE t == at[i - 1]
               p == parts[i]
    <3>1. t \in Seq(T) /\ p \in Seq(T)
      BY <2>2
    <3>2. at[i] = t \o p
      BY <2>2
    <3> HIDE DEF t, p
    <3>3. /\ Len(t \o p) = Len(t) + Len(p)
          /\ \A j \in 1..Len(p) : /\ Len(t) + j \in 1..Len(t \o p)
                                  /\ (t \o p)[Len(t) + j] = p[j]
      BY <3>1, PlacedLast
    <3>4. /\ Len(at[i]) = Len(t) + Len(p)
          /\ \A j \in 1..Len(p) : /\ Len(t) + j \in 1..Len(at[i])
                                  /\ at[i][Len(t) + j] = p[j]
      BY <3>2, <3>3, Zenon
    <3> QED
      BY <3>4 DEF t, p
  <2>4. \A j \in 1..Len(at[i]) : whole[j] = at[i][j]
    BY <1>5, <2>1 DEF Begins
  <2> QED
    BY <2>3, <2>4
<1>7. \A i \in 0..n : at[i] \in Seq(T) /\ Len(at[i]) <= Len(whole)
  BY <1>5 DEF Begins
<1>8. Concatenates(at, T, parts, whole)
  BY <1>1, <1>2, <1>6, <1>7 DEF Concatenates, whole
<1> QED
  BY <1>8 DEF whole

EscapeAt(text, i) == i < Len(text) /\ text[i] = Escape /\ text[i + 1] \in {"n", "r", Escape}
Stands(letter) == CASE letter = "n" -> "newline" [] letter = "r" -> "return" [] OTHER -> Escape

\* What is left to decode from each place.
Decodes(dec, text) ==
  /\ dec[Len(text) + 1] = <<>>
  /\ \A i \in 1..Len(text) :
       dec[i] = IF EscapeAt(text, i) THEN <<Stands(text[i + 1])>> \o dec[i + 2]
                ELSE <<text[i]>> \o dec[i + 1]
  /\ \A i \in 1..Len(text) + 1 : dec[i] \in Seq(Letters)

LEMMA LettersStand ==
    ASSUME NEW letter PROVE Stands(letter) \in Letters
BY DEF Stands, Letters, Specials, Escape

LEMMA DecodeExists ==
    ASSUME NEW text \in Seq(Letters)
    PROVE  \E dec : Decodes(dec, text)
<1> DEFINE n == Len(text)
           S == Seq(Letters) \X Seq(Letters)
           start == <<<<>>, <<>>>>
           step == [k \in 1..n |-> [r \in S |->
                      <<IF EscapeAt(text, n + 1 - k) THEN <<Stands(text[n + 2 - k])>> \o r[2]
                        ELSE <<text[n + 1 - k]>> \o r[1], r[1]>>]]
<1>1. n \in Nat /\ start \in S /\ \A i \in 1..n : text[i] \in Letters
  <2>1. <<>> \in Seq(Letters)
    OBVIOUS
  <2>2. start \in S
    BY <2>1
  <2>3. n \in Nat /\ \A i \in 1..n : text[i] \in Letters
    OBVIOUS
  <2> QED
    BY <2>2, <2>3
<1> HIDE DEF n
<1>2. step \in [1..n -> [S -> S]]
  <2>1. ASSUME NEW k \in 1..n, NEW r \in S PROVE step[k][r] \in S
    <3>1. n + 1 - k \in 1..n
      BY <1>1
    <3>2. <<text[n + 1 - k]>> \in Seq(Letters)
      BY <1>1, <3>1
    <3>3. <<Stands(text[n + 2 - k])>> \in Seq(Letters)
      BY LettersStand
    <3>4. r[1] \in Seq(Letters) /\ r[2] \in Seq(Letters)
      OBVIOUS
    <3> DEFINE first == IF EscapeAt(text, n + 1 - k) THEN <<Stands(text[n + 2 - k])>> \o r[2]
                        ELSE <<text[n + 1 - k]>> \o r[1]
    <3>5. first \in Seq(Letters)
      BY <3>2, <3>3, <3>4
    <3>6. step[k][r] = <<first, r[1]>>
      OBVIOUS
    <3> HIDE DEF first, step
    <3> QED
      BY <3>4, <3>5, <3>6
  <2> HIDE DEF S
  <2>2. \A k \in 1..n : step[k] = [r \in S |-> step[k][r]]
    OBVIOUS
  <2>3. step = [k \in 1..n |-> step[k]]
    OBVIOUS
  <2> HIDE DEF step
  <2> QED
    BY <2>1, <2>2, <2>3
<1> HIDE DEF step, start
<1>3. PICK at : RunsFrom(at, S, start, n, step)
  BY <1>1, <1>2, RecursionExists
<1>4. at[0] = <<<<>>, <<>>>> /\ \A k \in 0..n : at[k] \in S
  BY <1>3 DEF RunsFrom, start
<1>5. ASSUME NEW k \in 1..n
      PROVE  at[k] = <<IF EscapeAt(text, n + 1 - k) THEN <<Stands(text[n + 2 - k])>> \o at[k - 1][2]
                       ELSE <<text[n + 1 - k]>> \o at[k - 1][1], at[k - 1][1]>>
  <2>1. k - 1 \in 0..n
    BY <1>1
  <2>2. at[k] = step[k][at[k - 1]] /\ at[k - 1] \in S
    BY <1>3, <2>1 DEF RunsFrom
  <2> QED
    BY <2>2 DEF step
<1> HIDE DEF S
<1> DEFINE dec == [i \in 1..n + 1 |-> at[n + 1 - i][1]]
<1>6. dec[n + 1] = <<>>
  <2>1. n + 1 \in 1..n + 1 /\ n + 1 - (n + 1) = 0
    BY <1>1
  <2> QED
    BY <1>4, <2>1
<1>7. ASSUME NEW i \in 1..n
      PROVE  dec[i] = IF EscapeAt(text, i) THEN <<Stands(text[i + 1])>> \o dec[i + 2]
                      ELSE <<text[i]>> \o dec[i + 1]
  <2> DEFINE k == n + 1 - i
  <2>1. /\ k \in 1..n /\ n + 1 - k = i /\ n + 2 - k = i + 1 /\ i \in 1..n + 1
        /\ i + 1 \in 1..n + 1 /\ n + 1 - (i + 1) = k - 1
    BY <1>1
  <2>2. dec[i] = at[k][1] /\ dec[i + 1] = at[k - 1][1]
    BY <2>1
  <2>3. at[k] = <<IF EscapeAt(text, i) THEN <<Stands(text[i + 1])>> \o at[k - 1][2]
                  ELSE <<text[i]>> \o at[k - 1][1], at[k - 1][1]>>
    <3> HIDE DEF k
    <3> QED
      BY <1>5, <2>1
  <2>4. ASSUME EscapeAt(text, i) PROVE dec[i + 2] = at[k - 1][2]
    <3>1. i < n
      BY <2>4 DEF EscapeAt, n
    <3>2. i + 2 \in 1..n + 1 /\ n + 1 - (i + 2) = k - 2 /\ k - 1 \in 1..n /\ (k - 1) - 1 = k - 2
      BY <1>1, <3>1
    <3>3. dec[i + 2] = at[k - 2][1]
      BY <3>2
    <3> HIDE DEF dec
    <3>4. \A m \in 1..n : at[m][2] = at[m - 1][1]
      <4>1. ASSUME NEW m \in 1..n PROVE at[m][2] = at[m - 1][1]
        <5>1. \E x : at[m] = <<x, at[m - 1][1]>>
          BY <1>5
        <5> QED
          BY <5>1
      <4> QED
        BY <4>1
    <3>5. at[k - 1][2] = at[(k - 1) - 1][1]
      <4> HIDE DEF k
      <4> QED
        BY <3>2, <3>4
    <3> QED
      BY <3>2, <3>3, <3>5
  <2> HIDE DEF dec, k
  <2> QED
    BY <2>2, <2>3, <2>4
<1>8. ASSUME NEW i \in 1..n + 1 PROVE dec[i] \in Seq(Letters)
  <2>1. n + 1 - i \in 0..n /\ dec[i] = at[n + 1 - i][1]
    BY <1>1
  <2>2. at[n + 1 - i] \in Seq(Letters) \X Seq(Letters)
    BY <1>4, <2>1 DEF S
  <2> QED
    BY <2>1, <2>2
<1> HIDE DEF dec
<1>9. Decodes(dec, text)
  BY <1>6, <1>7, <1>8 DEF Decodes, n
<1> QED
  BY <1>9

LEMMA DecodeIs ==
    ASSUME NEW text \in Seq(Letters)
    PROVE  \E dec : Decodes(dec, text) /\ dec[1] = DecodeEntry(text)
<1> DEFINE n == Len(text)
           Recurs(f) == f = [i \in 1..n + 1 |->
                          IF i > n THEN <<>>
                          ELSE IF EscapeAt(text, i) THEN <<Stands(text[i + 1])>> \o f[i + 2]
                          ELSE <<text[i]>> \o f[i + 1]]
           decoded == CHOOSE f : Recurs(f)
<1>1. n \in Nat
  OBVIOUS
<1>2. DecodeEntry(text) = decoded[1]
  BY DEF DecodeEntry, EscapeAt, Stands
<1> HIDE DEF n
<1>3. PICK dec : Decodes(dec, text)
  BY DecodeExists
<1>4. /\ dec[n + 1] = <<>>
      /\ \A i \in 1..n :
           dec[i] = IF EscapeAt(text, i) THEN <<Stands(text[i + 1])>> \o dec[i + 2]
                    ELSE <<text[i]>> \o dec[i + 1]
      /\ \A i \in 1..n + 1 : dec[i] \in Seq(Letters)
  BY <1>3 DEF Decodes, n
<1> DEFINE f == [i \in 1..n + 1 |-> dec[i]]
           g == [i \in 1..n + 1 |->
                   IF i > n THEN <<>>
                   ELSE IF EscapeAt(text, i) THEN <<Stands(text[i + 1])>> \o f[i + 2]
                   ELSE <<text[i]>> \o f[i + 1]]
<1>5. ASSUME NEW i \in 1..n + 1 PROVE f[i] = g[i]
  <2>1. CASE i = n + 1
    <3>1. f[i] = dec[n + 1] /\ g[i] = <<>>
      BY <1>1, <2>1
    <3> QED
      BY <1>4, <3>1
  <2>2. CASE i # n + 1
    <3>1. i \in 1..n /\ i + 1 \in 1..n + 1 /\ ~ (i > n)
      BY <1>1, <2>2
    <3>2. EscapeAt(text, i) => i + 2 \in 1..n + 1
      BY <1>1, <3>1 DEF EscapeAt, n
    <3>3. f[i] = dec[i] /\ f[i + 1] = dec[i + 1] /\ (EscapeAt(text, i) => f[i + 2] = dec[i + 2])
      BY <3>1, <3>2
    <3>4. g[i] = IF EscapeAt(text, i) THEN <<Stands(text[i + 1])>> \o f[i + 2]
                 ELSE <<text[i]>> \o f[i + 1]
      BY <3>1
    <3>5. dec[i] = IF EscapeAt(text, i) THEN <<Stands(text[i + 1])>> \o dec[i + 2]
                   ELSE <<text[i]>> \o dec[i + 1]
      BY <1>4, <3>1
    <3> HIDE DEF f, g
    <3> QED
      BY <3>3, <3>4, <3>5
  <2> QED
    BY <2>1, <2>2
<1>6. Recurs(f)
  <2>1. f = [i \in 1..n + 1 |-> f[i]] /\ g = [i \in 1..n + 1 |-> g[i]]
    OBVIOUS
  <2>2. f = g
    <3> HIDE DEF f, g
    <3> QED
      BY <1>5, <2>1
  <2> QED
    BY <2>2
<1>7. Recurs(decoded)
  <2> HIDE DEF Recurs
  <2> QED
    BY <1>6 DEF decoded
<1> HIDE DEF decoded
<1>8. /\ decoded[n + 1] = <<>>
      /\ \A i \in 1..n :
           decoded[i] = IF EscapeAt(text, i) THEN <<Stands(text[i + 1])>> \o decoded[i + 2]
                        ELSE <<text[i]>> \o decoded[i + 1]
  <2>1. /\ n + 1 \in 1..n + 1 /\ n + 1 > n
        /\ \A i \in 1..n : i \in 1..n + 1 /\ ~ (i > n)
    BY <1>1
  <2>2. ASSUME NEW i \in 1..n + 1
        PROVE  decoded[i] = IF i > n THEN <<>>
                            ELSE IF EscapeAt(text, i) THEN <<Stands(text[i + 1])>> \o decoded[i + 2]
                            ELSE <<text[i]>> \o decoded[i + 1]
    BY <1>7
  <2> QED
    BY <2>1, <2>2
\* A place that is n - k + 1 or later.
<1> DEFINE P == {k \in 0..n : \A i \in n + 1 - k..n + 1 : decoded[i] \in Seq(Letters)}
<1>9. \A i \in 1..n + 1 : decoded[i] \in Seq(Letters)
  <2>1. 0 \in P
    <3>1. \A i \in n + 1 - 0..n + 1 : i = n + 1
      BY <1>1
    <3>2. <<>> \in Seq(Letters)
      OBVIOUS
    <3>3. \A i \in n + 1 - 0..n + 1 : decoded[i] \in Seq(Letters)
      BY <1>8, <3>1, <3>2, Zenon
    <3> QED
      BY <1>1, <3>3
  <2>2. ASSUME NEW k \in 1..n, k - 1 \in P PROVE k \in P
    <3>1. ASSUME NEW i \in n + 1 - k..n + 1 PROVE decoded[i] \in Seq(Letters)
      <4>1. CASE i \in n + 1 - (k - 1)..n + 1
        BY <2>2, <4>1
      <4>2. CASE i = n + 1 - k
        <5>1. /\ i \in 1..n /\ i + 1 \in n + 1 - (k - 1)..n + 1
              /\ (EscapeAt(text, i) => i + 2 \in n + 1 - (k - 1)..n + 1)
          BY <1>1, <4>2 DEF EscapeAt, n
        <5>2. /\ decoded[i + 1] \in Seq(Letters)
              /\ (EscapeAt(text, i) => decoded[i + 2] \in Seq(Letters))
          BY <2>2, <5>1
        <5>3. text[i] \in Letters /\ Stands(text[i + 1]) \in Letters
          BY <5>1, LettersStand DEF n
        <5>4. ASSUME NEW x \in Letters, NEW s \in Seq(Letters)
              PROVE  <<x>> \o s \in Seq(Letters)
          OBVIOUS
        <5>5. decoded[i] = IF EscapeAt(text, i) THEN <<Stands(text[i + 1])>> \o decoded[i + 2]
                           ELSE <<text[i]>> \o decoded[i + 1]
          BY <1>8, <5>1
        <5> QED
          BY <5>2, <5>3, <5>4, <5>5
      <4>3. i \in n + 1 - (k - 1)..n + 1 \/ i = n + 1 - k
        BY <1>1
      <4> QED
        BY <4>1, <4>2, <4>3
    <3> QED
      BY <1>1, <3>1
  <2>3. \A k \in 0..n : k \in P
    <3> HIDE DEF P
    <3> QED
      BY <1>1, <2>1, <2>2, StepByStep
  <2>4. n \in 0..n /\ n + 1 - n = 1
    BY <1>1
  <2>5. n \in P
    <3> HIDE DEF P
    <3> QED
      BY <2>3, <2>4
  <2> QED
    BY <2>4, <2>5
<1>10. Decodes(decoded, text)
  BY <1>8, <1>9 DEF Decodes, n
<1> QED
  BY <1>2, <1>10

PieceOf(x) == IF x \in Specials THEN <<Escape, LetterOf(x)>> ELSE <<x>>
Pieces(command) == [i \in DOMAIN command |-> PieceOf(command[i])]

LEMMA PieceIs ==
    ASSUME NEW x \in Letters
    PROVE  /\ PieceOf(x) \in Seq(Letters)
           /\ IF x \in Specials
              THEN /\ PieceOf(x) = <<Escape, LetterOf(x)>> /\ Stands(LetterOf(x)) = x
                   /\ LetterOf(x) \in {"n", "r", Escape}
              ELSE PieceOf(x) = <<x>> /\ x # Escape /\ x # "return"
<1>1. LetterOf(x) \in {"n", "r", Escape} /\ Escape \in Letters /\ LetterOf(x) \in Letters
  BY DEF LetterOf, Letters, Escape, Specials
<1>2. CASE x \in Specials
  <2>1. PieceOf(x) = <<Escape, LetterOf(x)>>
    BY <1>2 DEF PieceOf
  <2>2. Stands(LetterOf(x)) = x
    <3>1. x = "newline" => Stands(LetterOf(x)) = x
      BY DEF LetterOf, Stands, Escape
    <3>2. x = "return" => Stands(LetterOf(x)) = x
      BY DEF LetterOf, Stands, Escape
    <3>3. x = "escape" => Stands(LetterOf(x)) = x
      BY DEF LetterOf, Stands, Escape
    <3> QED
      BY <1>2, <3>1, <3>2, <3>3 DEF Specials
  <2> QED
    BY <1>1, <1>2, <2>1, <2>2
<1>3. CASE x \notin Specials
  <2>1. PieceOf(x) = <<x>> /\ x # Escape /\ x # "return"
    BY <1>3 DEF PieceOf, Specials, Escape
  <2> QED
    BY <1>3, <2>1
<1> QED
  BY <1>2, <1>3

PlacedAt(text, q, piece) ==
  q + Len(piece) <= Len(text) /\ \A j \in 1..Len(piece) : text[q + j] = piece[j]
DecodedAt(dec, q, x) == dec[q + 1] = <<x>> \o dec[q + Len(PieceOf(x)) + 1]

LEMMA PieceDecodes ==
    ASSUME NEW text \in Seq(Letters), NEW dec, Decodes(dec, text), NEW x \in Letters,
           NEW q \in Nat, PlacedAt(text, q, PieceOf(x))
    PROVE  DecodedAt(dec, q, x)
<1> SUFFICES ASSUME NEW n \in Nat, n = Len(PieceOf(x))
             PROVE  dec[q + 1] = <<x>> \o dec[q + n + 1]
  <2>1. Len(PieceOf(x)) \in Nat
    <3>1. PieceOf(x) \in Seq(Letters)
      BY PieceIs
    <3> QED
      BY <3>1
  <2> QED
    BY <2>1 DEF DecodedAt
<1>1. PICK m \in Nat : m = Len(text)
  OBVIOUS
<1>0. q + n <= m /\ \A j \in 1..n : text[q + j] = PieceOf(x)[j]
  BY <1>1 DEF PlacedAt
<1>2. \A i \in 1..m :
         dec[i] = IF EscapeAt(text, i) THEN <<Stands(text[i + 1])>> \o dec[i + 2]
                  ELSE <<text[i]>> \o dec[i + 1]
  BY <1>1 DEF Decodes
<1>3. CASE x \in Specials
  <2>1. /\ PieceOf(x) = <<Escape, LetterOf(x)>> /\ Stands(LetterOf(x)) = x
        /\ LetterOf(x) \in {"n", "r", Escape}
    BY <1>3, PieceIs
  <2>2. n = 2 /\ PieceOf(x)[1] = Escape /\ PieceOf(x)[2] = LetterOf(x)
    BY <2>1
  <2>3. text[q + 1] = Escape /\ text[q + 2] = LetterOf(x)
    BY <1>0, <2>2
  <2>4. q + 1 \in 1..m /\ q + 1 < m /\ (q + 1) + 1 = q + 2 /\ (q + 1) + 2 = q + n + 1
    BY <1>0, <2>2
  <2>5. EscapeAt(text, q + 1)
    BY <1>1, <2>1, <2>3, <2>4 DEF EscapeAt
  <2>6. dec[q + 1] = <<Stands(text[(q + 1) + 1])>> \o dec[(q + 1) + 2]
    BY <1>2, <2>4, <2>5
  <2> QED
    BY <2>1, <2>3, <2>4, <2>6
<1>4. CASE x \notin Specials
  <2>1. PieceOf(x) = <<x>> /\ x # Escape
    BY <1>4, PieceIs
  <2>2. n = 1 /\ PieceOf(x)[1] = x
    BY <2>1
  <2>3. text[q + 1] = x
    BY <1>0, <2>2
  <2>4. q + 1 \in 1..m /\ (q + 1) + 1 = q + n + 1
    BY <1>0, <2>2
  <2>5. ~ EscapeAt(text, q + 1)
    BY <2>1, <2>3 DEF EscapeAt
  <2>6. dec[q + 1] = <<text[q + 1]>> \o dec[(q + 1) + 1]
    BY <1>2, <2>4, <2>5
  <2> QED
    BY <2>3, <2>4, <2>6
<1> QED
  BY <1>3, <1>4

LEMMA FirstAndRest ==
    ASSUME NEW T, NEW s \in Seq(T), NEW n \in Nat, n = Len(s), NEW i \in 1..n
    PROVE  <<s[i]>> \o SubSeq(s, i + 1, n) = SubSeq(s, i, n)
<1> DEFINE rest == SubSeq(s, i + 1, n)
           all == SubSeq(s, i, n)
           joined == <<s[i]>> \o rest
<1>1. rest \in Seq(T) /\ Len(rest) = n - i /\ \A j \in 1..n - i : rest[j] = s[i + j]
  <2>1. CASE i = n
    BY <2>1
  <2>2. CASE i # n
    <3>1. i + 1 \in 1..n /\ n - (i + 1) + 1 = n - i /\ \A j \in 1..n - i : (i + 1) + j - 1 = i + j
      BY <2>2
    <3> QED
      BY <3>1
  <2> QED
    BY <2>1, <2>2
<1>2. /\ all \in Seq(T) /\ Len(all) = n - i + 1 /\ \A j \in 1..n - i + 1 : all[j] = s[i + j - 1]
  OBVIOUS
<1> HIDE DEF rest, all
<1>3. /\ joined \in Seq(T) /\ Len(joined) = n - i + 1 /\ joined[1] = s[i]
      /\ \A j \in 1..n - i : joined[j + 1] = rest[j]
  <2>1. s[i] \in T
    OBVIOUS
  <2> QED
    BY <1>1, <2>1
<1> HIDE DEF joined
<1>4. ASSUME NEW j \in 1..n - i + 1 PROVE joined[j] = all[j]
  <2>1. CASE j = 1
    BY <1>2, <1>3, <2>1
  <2>2. CASE j # 1
    <3>1. j - 1 \in 1..n - i /\ (j - 1) + 1 = j /\ i + (j - 1) = i + j - 1
      BY <2>2
    <3>2. joined[j] = rest[j - 1] /\ rest[j - 1] = s[i + (j - 1)]
      BY <1>1, <1>3, <3>1
    <3> QED
      BY <1>2, <3>1, <3>2
  <2> QED
    BY <2>1, <2>2
<1>5. joined = all
  BY <1>2, <1>3, <1>4, SameSequence
<1> QED
  BY <1>5 DEF joined, all, rest

LEMMA PiecesDecode ==
    ASSUME NEW c \in Seq(Letters), NEW at, NEW text,
           Concatenates(at, Letters, Pieces(c), text)
    PROVE  text \in Seq(Letters) /\ DecodeEntry(text) = c
<1>1. PICK n \in Nat : n = Len(c)
  OBVIOUS
<1>2. /\ Pieces(c) \in Seq(Seq(Letters)) /\ Len(Pieces(c)) = n
      /\ \A i \in 1..n : c[i] \in Letters /\ Pieces(c)[i] = PieceOf(c[i])
  <2>1. DOMAIN c = 1..n /\ \A i \in 1..n : c[i] \in Letters
    BY <1>1
  <2>2. \A i \in 1..n : PieceOf(c[i]) \in Seq(Letters)
    BY <2>1, PieceIs
  <2> QED
    BY <2>1, <2>2 DEF Pieces
<1>3. /\ at[0] = <<>> /\ at[n] = text
      /\ \A i \in 0..n : at[i] \in Seq(Letters) /\ Len(at[i]) <= Len(text)
      /\ \A i \in 1..n : /\ Len(at[i]) = Len(at[i - 1]) + Len(PieceOf(c[i]))
                         /\ \A j \in 1..Len(PieceOf(c[i])) :
                              text[Len(at[i - 1]) + j] = PieceOf(c[i])[j]
  BY <1>2 DEF Concatenates
<1>4. text \in Seq(Letters)
  BY <1>3
<1>5. PICK dec : Decodes(dec, text) /\ dec[1] = DecodeEntry(text)
  BY <1>4, DecodeIs
<1> DEFINE P == {k \in 0..n : dec[Len(at[n - k]) + 1] = SubSeq(c, n - k + 1, n)}
<1>6. 0 \in P
  <2>1. n - 0 = n /\ dec[Len(text) + 1] = <<>>
    BY <1>5 DEF Decodes
  <2>2. SubSeq(c, n + 1, n) = <<>>
    BY <1>1
  <2> QED
    BY <1>3, <2>1, <2>2
<1>7. ASSUME NEW k \in 1..n, k - 1 \in P PROVE k \in P
  <2>1. PICK i \in 1..n : i = n - k + 1
    OBVIOUS
  <2>2. PICK q \in Nat : q = Len(at[i - 1])
    <3>1. i - 1 \in 0..n
      OBVIOUS
    <3>2. at[i - 1] \in Seq(Letters)
      BY <1>3, <3>1
    <3> QED
      BY <3>2
  <2>3. PICK m \in Nat : m = Len(PieceOf(c[i]))
    <3>1. PieceOf(c[i]) \in Seq(Letters)
      BY <1>2, PieceIs
    <3> QED
      BY <3>1
  <2>4. /\ Len(at[i]) = q + m /\ q + m <= Len(text)
        /\ \A j \in 1..m : text[q + j] = PieceOf(c[i])[j]
    <3>1. i \in 0..n
      OBVIOUS
    <3> QED
      BY <1>3, <2>2, <2>3, <3>1
  <2>5. dec[q + 1] = <<c[i]>> \o dec[q + m + 1]
    <3>1. PICK x \in Letters : x = c[i]
      BY <1>2
    <3>2. m = Len(PieceOf(x)) /\ PlacedAt(text, q, PieceOf(x))
      BY <2>3, <2>4, <3>1, Zenon DEF PlacedAt
    <3>3. DecodedAt(dec, q, x)
      BY <1>4, <1>5, <2>2, <2>3, <3>1, <3>2, PieceDecodes
    <3> QED
      BY <3>1, <3>2, <3>3, Zenon DEF DecodedAt
  <2>6. dec[q + m + 1] = SubSeq(c, i + 1, n)
    <3>1. n - (k - 1) = i /\ n - (k - 1) + 1 = i + 1
      BY <2>1
    <3>2. dec[Len(at[i]) + 1] = SubSeq(c, i + 1, n)
      BY <1>7, <3>1
    <3> QED
      BY <2>4, <3>2
  <2>7. dec[q + 1] = SubSeq(c, i, n)
    BY <1>1, <2>5, <2>6, FirstAndRest
  <2>8. n - k = i - 1 /\ n - k + 1 = i
    BY <2>1
  <2> QED
    BY <2>2, <2>7, <2>8
<1>8. \A k \in 0..n : k \in P
  <2> HIDE DEF P
  <2> QED
    BY <1>6, <1>7, StepByStep
<1>9. dec[Len(at[0]) + 1] = SubSeq(c, 1, n)
  <2>1. n \in P /\ n - n = 0 /\ n - n + 1 = 1
    <3>1. n \in P
      <4> HIDE DEF P
      <4> QED
        BY <1>8
    <3> QED
      BY <3>1
  <2> QED
    BY <2>1
<1>10. Len(at[0]) + 1 = 1 /\ SubSeq(c, 1, n) = c
  BY <1>1, <1>3
<1> QED
  BY <1>4, <1>5, <1>9, <1>10

LEMMA WrittenIsRead ==
    ASSUME NEW c \in Texts
    PROVE  WriteEntry(c) \in Lines /\ CommandOf(WriteEntry(c)) = c
<1> DEFINE text == FlattenSeq(Pieces(c))
           line == <<Header>> \o text
<1>1. c \in Seq(Letters) /\ c # <<>>
  BY DEF Texts, NoEntry
<1>2. Pieces(c) \in Seq(Seq(Letters)) /\ Len(Pieces(c)) = Len(c) /\ Len(c) \in 1..Len(c)
      /\ Pieces(c)[Len(c)] = PieceOf(c[Len(c)]) /\ c[Len(c)] \in Letters
  <2>1. DOMAIN c = 1..Len(c) /\ (\A i \in 1..Len(c) : c[i] \in Letters) /\ Len(c) \in 1..Len(c)
    BY <1>1
  <2>2. \A i \in 1..Len(c) : PieceOf(c[i]) \in Seq(Letters)
    BY <2>1, PieceIs
  <2> QED
    BY <2>1, <2>2 DEF Pieces
<1>3. PICK at : Concatenates(at, Letters, Pieces(c), text)
  BY <1>2, FlattenIs
<1>4. text \in Seq(Letters) /\ DecodeEntry(text) = c
  BY <1>1, <1>3, PiecesDecode
<1>5. WriteEntry(c) = line
  BY DEF WriteEntry, Pieces, PieceOf
\* The last character is the one of the last piece.
<1>6. text # <<>> /\ Last(text) # "return"
  <2>1. PICK n \in Nat : n = Len(c)
    BY <1>1
  <2>2. PICK x \in Letters : x = c[n]
    BY <1>2, <2>1
  <2>3. PICK m \in 1..2 : m = Len(PieceOf(x)) /\ PieceOf(x)[m] # "return"
    <3>1. CASE x \in Specials
      <4>1. PieceOf(x) = <<Escape, LetterOf(x)>> /\ LetterOf(x) # "return"
        BY <3>1, PieceIs DEF Escape
      <4>2. Len(PieceOf(x)) = 2 /\ PieceOf(x)[2] # "return"
        BY <4>1
      <4> QED
        BY <4>2
    <3>2. CASE x \notin Specials
      <4>1. PieceOf(x) = <<x>> /\ x # "return"
        BY <3>2, PieceIs
      <4>2. Len(PieceOf(x)) = 1 /\ PieceOf(x)[1] # "return"
        BY <4>1
      <4> QED
        BY <4>2
    <3> QED
      BY <3>1, <3>2
  <2>4. n \in 1..n /\ Pieces(c)[n] = PieceOf(x) /\ Len(Pieces(c)) = n
    BY <1>2, <2>1, <2>2
  <2> HIDE DEF text
  <2>5. /\ at[n] = text /\ Len(at[n]) = Len(at[n - 1]) + m
        /\ text[Len(at[n - 1]) + m] = PieceOf(x)[m] /\ at[n - 1] \in Seq(Letters)
    <3>1. n - 1 \in 0..n
      BY <2>4
    <3>2. m \in 1..Len(Pieces(c)[n])
      BY <2>3, <2>4
    <3> QED
      BY <1>3, <2>3, <2>4, <3>1, <3>2 DEF Concatenates
  <2>6. Len(text) = Len(at[n - 1]) + m /\ Len(at[n - 1]) \in Nat
    BY <2>5
  <2>7. text[Len(text)] # "return" /\ Len(text) # 0
    BY <2>3, <2>5, <2>6
  <2> QED
    BY <2>7 DEF Last
<1> HIDE DEF text
<1>7. /\ line \in Seq(Letters) /\ line # <<>> /\ Last(line) = Last(text)
      /\ Head(line) = Header /\ Tail(line) = text
  <2>1. Header \in Letters
    BY DEF Letters
  <2>2. PICK n \in Nat : n = Len(text) /\ n # 0
    BY <1>4, <1>6
  <2>3. /\ line \in Seq(Letters) /\ Len(line) = n + 1 /\ line[1] = Header
        /\ \A i \in 1..n : line[i + 1] = text[i]
    BY <1>4, <2>1, <2>2
  <2> HIDE DEF line
  <2>4. line[n + 1] = text[n]
    BY <2>2, <2>3
  <2>5. Last(line) = Last(text)
    BY <2>2, <2>3, <2>4 DEF Last
  <2>6. /\ Tail(line) \in Seq(Letters) /\ Len(Tail(line)) = n
        /\ \A i \in 1..n : Tail(line)[i] = text[i]
    BY <2>2, <2>3
  <2>7. Tail(line) = text
    BY <1>4, <2>2, <2>6, SameSequence
  <2> QED
    BY <2>3, <2>5, <2>7
<1> HIDE DEF line
<1>8. CommandOf(line) = c
  BY <1>4, <1>6, <1>7 DEF CommandOf
<1> QED
  BY <1>5, <1>7, <1>8 DEF Lines

LEMMA CommandTyped ==
    ASSUME NEW line \in Lines PROVE CommandOf(line) \in Seq(Letters)
<1> DEFINE text == IF line # <<>> /\ Last(line) = "return" THEN Front(line) ELSE line
<1>1. line \in Seq(Letters)
  BY DEF Lines
<1>2. text \in Seq(Letters)
  BY <1>1 DEF Front
<1>3. CommandOf(line) = IF text # <<>> /\ Head(text) = Header THEN DecodeEntry(Tail(text)) ELSE text
  BY DEF CommandOf
<1> HIDE DEF text
<1>4. ASSUME text # <<>> PROVE DecodeEntry(Tail(text)) \in Seq(Letters)
  <2>1. Tail(text) \in Seq(Letters)
    BY <1>2, <1>4
  <2>2. PICK dec : Decodes(dec, Tail(text)) /\ dec[1] = DecodeEntry(Tail(text))
    BY <2>1, DecodeIs
  <2>3. 1 \in 1..Len(Tail(text)) + 1
    BY <2>1
  <2> QED
    BY <2>2, <2>3 DEF Decodes
<1> QED
  BY <1>2, <1>3, <1>4

LEMMA EmptyIsGood == EmptyRing \in GoodRings /\ Entries(EmptyRing) = <<>>
<1>1. HistoryCap \in Nat \ {0}
  BY HistoryCapAssumption
<1>2. [i \in 0..HistoryCap - 1 |-> NoEntry] \in [0..HistoryCap - 1 -> Seq(Letters)]
  BY DEF NoEntry
<1>3. EmptyRing \in Ring
  BY <1>1, <1>2 DEF EmptyRing, Ring
<1>4. RingOK(EmptyRing)
  BY <1>3 DEF RingOK, EmptyRing
<1>5. Entries(EmptyRing) = <<>>
  BY <1>4, EntriesAre DEF EmptyRing
<1> QED
  BY <1>3, <1>4, <1>5 DEF GoodRings

LEMMA AcceptKeeps ==
    EmptyRing \in GoodRings /\ \A r \in GoodRings : \A x \in Lines : AcceptLine(r, x) \in GoodRings
<1>1. ASSUME NEW r \in GoodRings, NEW x \in Lines PROVE AcceptLine(r, x) \in GoodRings
  <2>1. CASE CommandOf(x) = <<>>
    BY <2>1 DEF AcceptLine
  <2>2. CASE CommandOf(x) # <<>>
    <3>1. CommandOf(x) \in Texts
      BY <2>2, CommandTyped DEF Texts, NoEntry
    <3>2. RingOK(Add(r, CommandOf(x), FALSE))
      BY <3>1, AddKeeps DEF GoodRings
    <3> QED
      BY <2>2, <3>2 DEF AcceptLine, GoodRings, RingOK
  <2> QED
    BY <2>1, <2>2
<1> QED
  BY <1>1, EmptyIsGood

LEMMA ChosenTyped ==
    <<>> \in Seq(Texts) /\ \A r \in Seq(Texts) : \A x \in Lines : Chosen(r, x) \in Seq(Texts)
<1>1. ASSUME NEW r \in Seq(Texts), NEW x \in Lines PROVE Chosen(r, x) \in Seq(Texts)
  <2>1. CommandOf(x) # NoEntry => CommandOf(x) \in Texts
    BY CommandTyped DEF Texts
  <2> QED
    BY <2>1 DEF Chosen
<1> QED
  BY <1>1

(* Loading a file.                                                         *)
Loads(at, lines) ==
  /\ at[0] = EmptyRing /\ at[Len(lines)] = LoadHistory(lines)
  /\ \A i \in 0..Len(lines) : at[i] \in GoodRings
  /\ \A i \in 1..Len(lines) : at[i] = AcceptLine(at[i - 1], lines[i])

LEMMA LoadRuns ==
    ASSUME NEW lines \in Seq(Lines)
    PROVE  \E at : Loads(at, lines)
<1> DEFINE n == Len(lines)
           start == EmptyRing
           step == [i \in 1..n |-> [r \in GoodRings |-> AcceptLine(r, lines[i])]]
           Folds(f) == f = [s \in SUBSET (1..n) |->
              IF s = {} THEN EmptyRing ELSE AcceptLine(f[s \ {Max(s)}], lines[Max(s)])]
           iter == CHOOSE f : Folds(f)
<1>0. /\ EmptyRing \in GoodRings
      /\ \A r \in GoodRings : \A x \in Lines : AcceptLine(r, x) \in GoodRings
  BY AcceptKeeps
<1>1. n \in Nat /\ DOMAIN lines = 1..n /\ start \in GoodRings /\ \A i \in 1..n : lines[i] \in Lines
  BY <1>0
<1> HIDE DEF n
<1>2. step \in [1..n -> [GoodRings -> GoodRings]]
  BY <1>0, <1>1
<1>3. LoadHistory(lines) = iter[1..n]
  BY <1>1 DEF LoadHistory, FoldLeft, MapThenFoldSet
<1> HIDE DEF step, start, iter
<1>4. PICK f : FoldsWithin(f, GoodRings, start, n, step)
  BY <1>1, <1>2, FoldExists
<1>5. Folds(f)
  <2> DEFINE h == [s \in SUBSET (1..n) |->
              IF s = {} THEN EmptyRing ELSE AcceptLine(f[s \ {Max(s)}], lines[Max(s)])]
  <2>1. ASSUME NEW s \in SUBSET (1..n), s # {}
        PROVE  step[Max(s)][f[s \ {Max(s)}]] = AcceptLine(f[s \ {Max(s)}], lines[Max(s)])
    BY <1>1, <1>4, <2>1, GreatestIsOne DEF step, FoldsWithin
  <2>2. \A s \in SUBSET (1..n) : f[s] = h[s]
    BY <1>4, <2>1 DEF start, FoldsWithin
  <2>3. h = [s \in SUBSET (1..n) |-> h[s]] /\ f = [s \in SUBSET (1..n) |-> f[s]]
    BY <1>4 DEF FoldsWithin
  <2>4. f = h
    <3> HIDE DEF h
    <3> QED
      BY <2>2, <2>3
  <2> QED
    BY <2>4
<1>6. Folds(iter)
  <2> HIDE DEF Folds
  <2> QED
    BY <1>5 DEF iter
<1>7. Unfolds(iter, GoodRings, start, n, step)
  <2>1. iter[{}] = start
    BY <1>6 DEF start
  <2>2. ASSUME NEW s \in SUBSET (1..n), s # {}, NEW r \in GoodRings, iter[s \ {Max(s)}] = r
        PROVE  iter[s] = step[Max(s)][r]
    <3>1. iter[s] = AcceptLine(iter[s \ {Max(s)}], lines[Max(s)])
      BY <1>6, <2>2
    <3> QED
      BY <1>1, <2>2, <3>1, GreatestIsOne DEF step
  <2> QED
    BY <2>1, <2>2 DEF Unfolds
<1> HIDE DEF Folds
<1>8. PICK at : RunsFrom(at, GoodRings, start, n, step) /\ at[n] = iter[1..n]
  BY <1>1, <1>2, <1>7, FoldRuns
<1>9. ASSUME NEW i \in 1..n PROVE at[i] = AcceptLine(at[i - 1], lines[i])
  <2>1. i - 1 \in 0..n
    BY <1>1
  <2>2. at[i] = step[i][at[i - 1]] /\ at[i - 1] \in GoodRings
    BY <1>8, <2>1 DEF RunsFrom
  <2> QED
    BY <2>2 DEF step
<1> QED
  BY <1>3, <1>8, <1>9 DEF n, start, RunsFrom, Loads

(* The commands of a file.                                                 *)
Chooses(at, lines) ==
  /\ at[0] = <<>> /\ at[Len(lines)] = CommandsOf(lines)
  /\ \A i \in 0..Len(lines) : at[i] \in Stories
  /\ \A i \in 1..Len(lines) : at[i] = Chosen(at[i - 1], lines[i])

LEMMA ChosenRuns ==
    ASSUME NEW lines \in Seq(Lines)
    PROVE  \E at : Chooses(at, lines)
<1> DEFINE n == Len(lines)
           start == <<>>
           step == [i \in 1..n |-> [r \in Stories |-> Chosen(r, lines[i])]]
           Recurs(f) == f = [i \in 0..n |-> IF i = 0 THEN <<>> ELSE Chosen(f[i - 1], lines[i])]
           chosen == CHOOSE f : Recurs(f)
<1>1. /\ <<>> \in Stories /\ \A r \in Stories : \A x \in Lines : Chosen(r, x) \in Stories
      /\ n \in Nat /\ start \in Stories /\ \A i \in 1..n : lines[i] \in Lines
  BY ChosenTyped DEF Stories
<1>2. CommandsOf(lines) = chosen[n]
  BY DEF CommandsOf
<1> HIDE DEF n
<1>3. step \in [1..n -> [Stories -> Stories]]
  BY <1>1
<1> HIDE DEF step, start, chosen
<1>4. PICK at : RunsFrom(at, Stories, start, n, step)
  BY <1>1, <1>3, RecursionExists
<1>5. at[0] = <<>> /\ \A i \in 0..n : at[i] \in Stories
  BY <1>4 DEF RunsFrom, start
<1>6. ASSUME NEW i \in 1..n PROVE at[i] = Chosen(at[i - 1], lines[i]) /\ i - 1 \in 0..n
  <2>1. i - 1 \in 0..n
    BY <1>1
  <2>2. at[i] = step[i][at[i - 1]] /\ at[i - 1] \in Stories
    BY <1>4, <1>5, <2>1 DEF RunsFrom
  <2> QED
    BY <2>1, <2>2 DEF step
<1>7. Recurs(chosen)
  <2> DEFINE f == [i \in 0..n |-> at[i]]
             h == [i \in 0..n |-> IF i = 0 THEN <<>> ELSE Chosen(f[i - 1], lines[i])]
  <2>1. ASSUME NEW i \in 0..n PROVE f[i] = h[i]
    <3>1. CASE i = 0
      BY <1>5, <3>1
    <3>2. CASE i # 0
      <4>1. i \in 1..n
        BY <1>1, <3>2
      <4>2. at[i] = Chosen(at[i - 1], lines[i]) /\ i - 1 \in 0..n
        BY <1>6, <4>1
      <4> QED
        BY <3>2, <4>2
    <3> QED
      BY <3>1, <3>2
  <2>2. f = [i \in 0..n |-> f[i]] /\ h = [i \in 0..n |-> h[i]]
    OBVIOUS
  <2>3. f = h
    <3> HIDE DEF f, h
    <3> QED
      BY <2>1, <2>2
  <2>4. Recurs(f)
    BY <2>3
  <2> HIDE DEF f, Recurs
  <2> QED
    BY <2>4 DEF chosen
<1> DEFINE P == {i \in 0..n : chosen[i] = at[i]}
<1>8. 0 \in P
  BY <1>1, <1>5, <1>7
<1>9. ASSUME NEW i \in 1..n, i - 1 \in P PROVE i \in P
  <2>1. chosen[i] = Chosen(chosen[i - 1], lines[i])
    <3>1. i \in 0..n /\ i # 0
      BY <1>1
    <3> QED
      BY <1>7, <3>1
  <2>2. chosen[i - 1] = at[i - 1] /\ i \in 0..n
    BY <1>1, <1>9
  <2> HIDE DEF Recurs
  <2> QED
    BY <1>6, <2>1, <2>2
<1>10. at[n] = CommandsOf(lines)
  <2> HIDE DEF P
  <2>1. \A i \in 0..n : i \in P
    BY <1>1, <1>8, <1>9, StepByStep
  <2>2. n \in 0..n
    BY <1>1
  <2> QED
    BY <1>2, <2>1, <2>2 DEF P
<1> HIDE DEF Recurs
<1> QED
  BY <1>5, <1>6, <1>10 DEF n, Chooses

LEMMA LoadKeeps ==
    ASSUME NEW lines \in Seq(Lines)
    PROVE  /\ LoadHistory(lines) \in GoodRings
           /\ CommandsOf(lines) \in Stories
           /\ Entries(LoadHistory(lines)) = Newest(CommandsOf(lines), HistoryCap)
<1> DEFINE n == Len(lines)
<1>1. n \in Nat /\ (\A i \in 1..n : lines[i] \in Lines) /\ HistoryCap \in Nat \ {0}
  BY HistoryCapAssumption
<1>2. PICK at : Loads(at, lines)
  BY LoadRuns
<1>3. PICK done : Chooses(done, lines)
  BY ChosenRuns
<1>4. /\ at[0] = EmptyRing /\ at[n] = LoadHistory(lines)
      /\ \A i \in 0..n : at[i] \in GoodRings
      /\ \A i \in 1..n : at[i] = AcceptLine(at[i - 1], lines[i])
  BY <1>2 DEF Loads
<1>5. /\ done[0] = <<>> /\ done[n] = CommandsOf(lines)
      /\ \A i \in 0..n : done[i] \in Stories
      /\ \A i \in 1..n : done[i] = Chosen(done[i - 1], lines[i])
  BY <1>3 DEF Chooses
<1> HIDE DEF n
<1> DEFINE P == {i \in 0..n : Entries(at[i]) = Newest(done[i], HistoryCap)}
<1>6. 0 \in P
  <2>1. Newest(<<>>, HistoryCap) = <<>>
    BY <1>1 DEF Newest
  <2> QED
    BY <1>1, <1>4, <1>5, <2>1, EmptyIsGood
<1>7. ASSUME NEW i \in 1..n, i - 1 \in P PROVE i \in P
  <2> DEFINE c == CommandOf(lines[i])
  <2>1. /\ at[i - 1] \in GoodRings /\ done[i - 1] \in Seq(Texts) /\ c \in Seq(Letters)
        /\ at[i] = AcceptLine(at[i - 1], lines[i])
        /\ done[i] = Chosen(done[i - 1], lines[i])
        /\ Entries(at[i - 1]) = Newest(done[i - 1], HistoryCap)
    <3>1. i - 1 \in 0..n
      BY <1>1
    <3> QED
      BY <1>1, <1>4, <1>5, <1>7, <3>1, CommandTyped DEF Stories
  <2>2. /\ at[i] = IF c = <<>> THEN at[i - 1] ELSE Add(at[i - 1], c, FALSE)
        /\ done[i] = IF c = <<>> THEN done[i - 1] ELSE Once(done[i - 1], c, FALSE)
    BY <2>1 DEF AcceptLine, Chosen, Once, NoEntry
  <2> HIDE DEF c
  <2>3. CASE c = <<>>
    BY <1>1, <2>1, <2>2, <2>3
  <2>4. CASE c # <<>>
    <3>1. c \in Texts
      BY <2>1, <2>4 DEF Texts, NoEntry
    <3>2. RingOK(at[i - 1])
      BY <2>1 DEF GoodRings
    <3>3. Entries(at[i]) = Newest(Once(Entries(at[i - 1]), c, FALSE), HistoryCap)
      BY <2>2, <2>4, <3>1, <3>2, AddKeeps
    <3>4. Newest(Once(Newest(done[i - 1], HistoryCap), c, FALSE), HistoryCap)
            = Newest(Once(done[i - 1], c, FALSE), HistoryCap)
      BY <1>1, <2>1, <3>1, NewestAppend DEF Once
    <3>5. Entries(at[i]) = Newest(done[i], HistoryCap)
      BY <2>1, <2>2, <2>4, <3>3, <3>4
    <3> QED
      BY <1>1, <3>5
  <2> QED
    BY <2>3, <2>4
<1>8. n \in P
  <2> HIDE DEF P
  <2>1. \A i \in 0..n : i \in P
    BY <1>1, <1>6, <1>7, StepByStep
  <2> QED
    BY <1>1, <2>1
<1>9. at[n] \in GoodRings /\ done[n] \in Stories
  BY <1>1, <1>4, <1>5
<1> QED
  BY <1>4, <1>5, <1>8, <1>9

LEMMA LesserIs ==
    ASSUME NEW a \in Int, NEW b \in Int
    PROVE  Min({a, b}) = (IF a <= b THEN a ELSE b) /\ Max({a, b}) = IF a <= b THEN b ELSE a
<1>1. CASE a <= b
  <2>1. \A x \in {a, b} : (\A y \in {a, b} : x <= y) => x = a
    BY <1>1
  <2>2. \A x \in {a, b} : (\A y \in {a, b} : x >= y) => x = b
    BY <1>1
  <2>3. (\A y \in {a, b} : a <= y) /\ \A y \in {a, b} : b >= y
    BY <1>1
  <2> QED
    BY <1>1, <2>1, <2>2, <2>3 DEF Min, Max
<1>2. CASE ~ (a <= b)
  <2>1. \A x \in {a, b} : (\A y \in {a, b} : x <= y) => x = b
    BY <1>2
  <2>2. \A x \in {a, b} : (\A y \in {a, b} : x >= y) => x = a
    BY <1>2
  <2>3. (\A y \in {a, b} : b <= y) /\ \A y \in {a, b} : a >= y
    BY <1>2
  <2> QED
    BY <1>2, <2>1, <2>2, <2>3 DEF Min, Max
<1> QED
  BY <1>1, <1>2

LEMMA NewestOfNewest ==
    ASSUME NEW T, NEW s \in Seq(T), NEW n \in Nat, NEW m \in 0..n
    PROVE  Newest(Newest(s, n), m) = Newest(s, m)
<1>0. m \in Nat
  OBVIOUS
<1>1. PICK k \in Nat : k = Len(s)
  OBVIOUS
<1>2. PICK gone \in 0..k : gone = Forgotten(k, n)
  BY ForgottenIs
<1>3. PICK kept \in Nat : kept = k - gone
  <2>1. k - gone \in Nat
    OBVIOUS
  <2> QED
    BY <2>1
<1>4. PICK left \in 0..kept : left = Forgotten(kept, m)
  BY <1>0, ForgottenIs
<1>5. PICK all \in 0..k : all = Forgotten(k, m)
  BY <1>0, ForgottenIs
<1>6. kept - left = k - all /\ all = gone + left
  BY <1>2, <1>3, <1>4, <1>5 DEF Forgotten
<1> DEFINE t == Newest(s, n)
           a == Newest(t, m)
           b == Newest(s, m)
<1>7. IsRest(t, s, T, k, gone)
  BY <1>1, <1>2, NewestIs
<1>8. t \in Seq(T) /\ kept = Len(t)
  BY <1>3, <1>7 DEF IsRest
<1> HIDE DEF t
<1>9. IsRest(a, t, T, kept, left)
  BY <1>0, <1>4, <1>8, NewestIs
<1>10. IsRest(b, s, T, k, all)
  BY <1>0, <1>1, <1>5, NewestIs
<1> HIDE DEF a, b
<1>11. ASSUME NEW i \in 1..kept - left PROVE a[i] = b[i]
  <2>1. left + i \in 1..k - gone /\ gone + (left + i) = all + i /\ i \in 1..k - all
    BY <1>3, <1>6
  <2>2. a[i] = t[left + i] /\ t[left + i] = s[gone + (left + i)]
    BY <1>7, <1>9, <2>1 DEF IsRest
  <2>3. b[i] = s[all + i]
    BY <1>10, <2>1 DEF IsRest
  <2> QED
    BY <2>1, <2>2, <2>3
<1>12. /\ a \in Seq(T) /\ b \in Seq(T)
       /\ Len(a) = kept - left /\ Len(b) = kept - left
  BY <1>6, <1>9, <1>10 DEF IsRest
<1>13. a = b
  BY <1>11, <1>12, SameSequence
<1> QED
  BY <1>13 DEF a, b, t

\* Lines that were written are chosen as the commands that they are of.
LEMMA WrittenAreChosen ==
    ASSUME NEW commands \in Seq(Texts), NEW lines \in Seq(Lines),
           NEW n \in Nat, n = Len(lines), n = Len(commands),
           \A i \in 1..n : lines[i] = WriteEntry(commands[i])
    PROVE  CommandsOf(lines) = commands
<1>1. PICK done : Chooses(done, lines)
  BY ChosenRuns
<1>2. /\ done[0] = <<>> /\ done[n] = CommandsOf(lines)
      /\ \A i \in 0..n : done[i] \in Stories
      /\ \A i \in 1..n : done[i] = Chosen(done[i - 1], lines[i])
  BY <1>1 DEF Chooses
<1>3. ASSUME NEW i \in 1..n PROVE done[i] = Append(done[i - 1], commands[i])
  <2>1. commands[i] \in Texts
    OBVIOUS
  <2>2. CommandOf(lines[i]) = commands[i] /\ commands[i] # NoEntry
    BY <2>1, WrittenIsRead DEF Texts
  <2> QED
    BY <1>2, <2>2 DEF Chosen
<1> DEFINE P == {i \in 0..n : Len(done[i]) = i /\ \A j \in 1..i : done[i][j] = commands[j]}
<1>4. 0 \in P
  BY <1>2
<1>5. ASSUME NEW i \in 1..n, i - 1 \in P PROVE i \in P
  <2>1. /\ done[i - 1] \in Seq(Texts) /\ commands[i] \in Texts /\ Len(done[i - 1]) = i - 1
        /\ \A j \in 1..i - 1 : done[i - 1][j] = commands[j]
    <3>1. i - 1 \in 0..n
      OBVIOUS
    <3>2. done[i - 1] \in Seq(Texts) /\ commands[i] \in Texts
      BY <1>2, <3>1 DEF Stories
    <3> QED
      BY <1>5, <3>2
  <2>2. PICK s \in Seq(Texts) : s = done[i - 1]
    BY <2>1
  <2>3. PICK c \in Texts : c = commands[i]
    BY <2>1
  <2>4. done[i] = Append(s, c) /\ Len(s) = i - 1 /\ \A j \in 1..i - 1 : s[j] = commands[j]
    BY <1>3, <2>1, <2>2, <2>3
  <2>5. Len(Append(s, c)) = i /\ \A j \in 1..i : Append(s, c)[j] = commands[j]
    <3>1. Len(Append(s, c)) = i /\ Append(s, c)[i] = c /\ \A j \in 1..i - 1 : Append(s, c)[j] = s[j]
      BY <2>4
    <3>2. \A j \in 1..i : j \in 1..i - 1 \/ j = i
      OBVIOUS
    <3> QED
      BY <2>3, <2>4, <3>1, <3>2
  <2>6. i \in 0..n
    OBVIOUS
  <2>7. Len(done[i]) = i /\ \A j \in 1..i : done[i][j] = commands[j]
    BY <2>4, <2>5, Zenon
  <2> QED
    BY <2>6, <2>7, Zenon
<1>6. n \in P
  <2> HIDE DEF P
  <2>1. \A i \in 0..n : i \in P
    BY <1>4, <1>5, StepByStep
  <2> QED
    BY <2>1
<1>7. done[n] \in Seq(Texts)
  BY <1>2 DEF Stories
<1>8. done[n] = commands
  BY <1>6, <1>7, SameSequence
<1> QED
  BY <1>2, <1>8

LEMMA StoreKeeps ==
    ASSUME NEW ring, RingOK(ring), NEW most \in 1..HistoryCap
    PROVE  /\ WriteStore(ring, most) \in Seq(Lines)
           /\ CommandsOf(WriteStore(ring, most)) = Newest(Entries(ring), most)
<1>1. PICK k \in 0..HistoryCap : k = ring.count /\ k < ring.nextEvent /\ ring.nextEvent \in Nat
  BY DEF RingOK, Ring
<1>2. PICK retained \in 0..k : retained = (IF k <= most THEN k ELSE most) /\ retained = Min({k, most})
  <2>1. k \in Int /\ most \in Int /\ HistoryCap \in Nat
    BY HistoryCapAssumption
  <2>2. Min({k, most}) = IF k <= most THEN k ELSE most
    BY <2>1, LesserIs
  <2> QED
    BY <2>1, <2>2
<1> DEFINE e == Entries(ring)
           kept == Newest(e, most)
           lines == WriteStore(ring, most)
<1>3. e \in Seq(Texts) /\ k = Len(e)
  BY <1>1, EntriesAre
<1>4. lines = [i \in 1..retained |->
                 WriteEntry(Event(ring, OldestEvent(ring) + k - retained + i - 1))]
  BY <1>1, <1>2 DEF WriteStore
<1>5. PICK gone \in 0..k : gone = Forgotten(k, most) /\ k - gone = retained
  BY <1>2, HistoryCapAssumption DEF Forgotten
<1>6. IsRest(kept, e, Texts, k, gone)
  <2>1. most \in Nat /\ k \in Nat
    BY HistoryCapAssumption
  <2> HIDE DEF e
  <2> QED
    BY <1>3, <1>5, <2>1, NewestIs
<1>7. ASSUME NEW i \in 1..retained
      PROVE  Event(ring, OldestEvent(ring) + k - retained + i - 1) = kept[i] /\ kept[i] \in Texts
  <2>1. /\ gone + i \in 1..k /\ k - retained + i = gone + i /\ i \in 1..k - gone
        /\ OldestEvent(ring) \in Int
    BY <1>1, <1>5, HistoryCapAssumption DEF OldestEvent
  <2>2. OldestEvent(ring) + k - retained + i - 1 = OldestEvent(ring) + (gone + i) - 1
    BY <2>1
  <2>3. e[gone + i] = Event(ring, OldestEvent(ring) + (gone + i) - 1)
    BY <1>1, <2>1 DEF Entries
  <2> HIDE DEF e, kept
  <2>4. kept[i] = e[gone + i] /\ e[gone + i] \in Texts
    BY <1>3, <1>6, <2>1 DEF IsRest
  <2> QED
    BY <2>2, <2>3, <2>4
<1> HIDE DEF e, kept, lines
<1>8. /\ lines \in Seq(Lines) /\ Len(lines) = retained
      /\ \A i \in 1..retained : lines[i] = WriteEntry(kept[i])
  <2>1. ASSUME NEW i \in 1..retained
        PROVE  WriteEntry(Event(ring, OldestEvent(ring) + k - retained + i - 1)) \in Lines
    BY <1>7, WrittenIsRead
  <2>2. retained \in Nat
    OBVIOUS
  <2> QED
    BY <1>4, <1>7, <2>1, <2>2
<1>9. kept \in Seq(Texts) /\ Len(kept) = retained
  BY <1>5, <1>6 DEF IsRest
<1>10. CommandsOf(lines) = kept
  <2>1. retained \in Nat
    OBVIOUS
  <2> QED
    BY <1>8, <1>9, <2>1, WrittenAreChosen
<1> QED
  BY <1>8, <1>10 DEF lines, kept, e

(***************************************************************************)
(* The file is the log.                                                    *)
(***************************************************************************)
CommandsIn(lines) == Newest(CommandsOf(lines), HistoryCap)

LEMMA NewestAreFew ==
    ASSUME NEW T, NEW s \in Seq(T), NEW n \in Nat
    PROVE  Newest(s, n) \in Seq(T) /\ Len(Newest(s, n)) <= n
<1>1. PICK k \in Nat : k = Len(s)
  OBVIOUS
<1>2. PICK gone \in 0..k : gone = Forgotten(k, n)
  BY ForgottenIs
<1>3. IsRest(Newest(s, n), s, T, k, gone)
  BY <1>1, <1>2, NewestIs
<1>4. k - gone <= n
  BY <1>2 DEF Forgotten
<1> QED
  BY <1>3, <1>4 DEF IsRest

LEMMA FileCommandsAre ==
    ASSUME NEW lines \in Seq(Lines), NEW commands, commands = CommandsOf(lines)
    PROVE  /\ SubSeq(commands, Max({1, Len(commands) - HistoryCap + 1}), Len(commands))
                = CommandsIn(lines)
           /\ CommandsIn(lines) = Entries(LoadHistory(lines))
<1>1. commands \in Seq(Texts) /\ HistoryCap \in Nat \ {0}
  BY LoadKeeps, HistoryCapAssumption DEF Stories
<1>2. PICK k \in Nat : k = Len(commands)
  BY <1>1
<1>3. Max({1, k - HistoryCap + 1}) = IF k > HistoryCap THEN k - HistoryCap + 1 ELSE 1
  <2>1. k - HistoryCap + 1 \in Int /\ 1 \in Int
    BY <1>1
  <2>2. Max({1, k - HistoryCap + 1}) = IF 1 <= k - HistoryCap + 1 THEN k - HistoryCap + 1 ELSE 1
    BY <2>1, LesserIs
  <2> QED
    BY <1>1, <2>2
<1>4. SubSeq(commands, Max({1, k - HistoryCap + 1}), k) = Newest(commands, HistoryCap)
  BY <1>2, <1>3, Zenon DEF Newest
<1> QED
  BY <1>2, <1>4, LoadKeeps, Zenon DEF CommandsIn

\* A session that is merged into what a file holds, and written.
LEMMA MergeKeeps ==
    ASSUME NEW lines \in Seq(Lines), NEW session \in GoodRings, NEW d, NEW most \in 1..HistoryCap,
           NEW ring, ring = AddAll(LoadHistory(lines), Entries(session), d)
    PROVE  /\ ring \in GoodRings /\ WriteStore(ring, most) \in Seq(Lines)
           /\ CommandsIn(WriteStore(ring, most))
                = Newest(Log!Appended(CommandsIn(lines), Entries(session), d), most)
<1>1. RingOK(LoadHistory(lines)) /\ Entries(LoadHistory(lines)) = CommandsIn(lines)
  BY LoadKeeps DEF GoodRings, CommandsIn
<1>2. Entries(session) \in Seq(Texts)
  BY EntriesAre DEF GoodRings
<1> DEFINE log == Log!Appended(CommandsIn(lines), Entries(session), d)
           kept == Newest(log, most)
<1>3. /\ RingOK(ring) /\ log \in Seq(Texts)
      /\ Entries(ring) = Newest(log, HistoryCap)
  <2> DEFINE loaded == LoadHistory(lines)
             commands == Entries(session)
  <2>1. RingOK(loaded) /\ commands \in Seq(Texts)
    BY <1>1, <1>2
  <2> HIDE DEF loaded, commands
  <2>2. /\ RingOK(AddAll(loaded, commands, d))
        /\ Log!Appended(Entries(loaded), commands, d) \in Stories
        /\ Entries(AddAll(loaded, commands, d))
             = Newest(Log!Appended(Entries(loaded), commands, d), HistoryCap)
    BY <2>1, AddAllKeeps
  <2>3. Entries(loaded) = CommandsIn(lines)
    BY <1>1 DEF loaded
  <2> QED
    BY <2>2, <2>3 DEF loaded, commands, Stories
<1> HIDE DEF log
<1>4. HistoryCap \in Nat /\ most \in Nat /\ most \in 0..HistoryCap
  BY HistoryCapAssumption
<1>5. /\ WriteStore(ring, most) \in Seq(Lines)
      /\ CommandsOf(WriteStore(ring, most)) = Newest(Entries(ring), most)
  BY <1>3, StoreKeeps
<1>6. Newest(Newest(log, HistoryCap), most) = kept
  BY <1>3, <1>4, NewestOfNewest
<1>7. kept \in Seq(Texts) /\ Len(kept) <= most
  BY <1>3, <1>4, NewestAreFew
<1> HIDE DEF kept
<1>8. Newest(kept, HistoryCap) = kept
  <2>1. Len(kept) \in Nat /\ Len(kept) <= HistoryCap
    BY <1>4, <1>7
  <2> QED
    BY <1>4, <1>7, <2>1, NewestOfFew
<1>9. CommandsIn(WriteStore(ring, most)) = kept
  BY <1>3, <1>5, <1>6, <1>8, Zenon DEF CommandsIn
<1>10. ring \in GoodRings
  BY <1>3 DEF GoodRings, RingOK
<1> QED
  BY <1>5, <1>9, <1>10 DEF kept, log

(* Where a shell has not saved its session, has one to save, holds the     *)
(* lock, and has merged its session.                                       *)
Unsaved == {"start", "load", "running", "exit", "merge", "create", "write", "rename"}
Saving == {"exit", "merge", "create", "write", "rename"}
Locking == {"load", "merge", "create", "write", "rename", "release"}
Merged == {"create", "write", "rename"}

ShellSaves(s) ==
  /\ shell[s].rings \in [ring : GoodRings, session : GoodRings]
  /\ shell[s].at \in Unsaved => s \notin saved
  /\ shell[s].at \in Saving => shell[s].rings.session.count # 0
  /\ shell[s].at \in Locking => lockOwner = s
  /\ shell[s].at \in Merged =>
       shell[s].rings.ring =
         AddAll(LoadHistory(file), Entries(shell[s].rings.session), Deduplicate[s])
  /\ shell[s].at = "rename" => temporary[s] = WriteStore(shell[s].rings.ring, MaxEntries[s])
LogInv ==
  /\ HistoryInv /\ file \in Seq(Lines) /\ DOMAIN temporary = Shells
  /\ \A s \in Shells : ShellSaves(s)

LEMMA SequencesOfMore ==
    ASSUME NEW T, NEW U, T \subseteq U PROVE Seq(T) \subseteq Seq(U)
OBVIOUS

LEMMA LettersOfStrings == Seq(STRING) \subseteq Seq(Letters)
<1>1. STRING \subseteq Letters
  BY DEF Letters
<1> HIDE DEF Letters
<1> QED
  BY <1>1, SequencesOfMore, Zenon

LEMMA InitLog == HistoryInit => LogInv
<1> SUFFICES ASSUME HistoryInit PROVE LogInv
  OBVIOUS
<1>1. file \in Seq(Lines)
  <2>1. file \in Seq(Seq(STRING))
    BY HistoryFileAssumption DEF HistoryInit
  <2>2. Seq(STRING) \subseteq Lines
    BY LettersOfStrings DEF Lines
  <2> QED
    BY <2>1, <2>2
<1>2. ASSUME NEW s \in Shells PROVE ShellSaves(s)
  <2>1. /\ shell[s].at = "start" /\ shell[s].rings = NoRings /\ saved = {}
    BY DEF HistoryInit
  <2>2. NoRings \in [ring : GoodRings, session : GoodRings]
    BY EmptyIsGood DEF NoRings
  <2> QED
    BY <2>1, <2>2 DEF ShellSaves, Saving, Locking, Merged
<1>3. HistoryInv /\ DOMAIN temporary = Shells
  BY InitHistory DEF HistoryInit
<1> QED
  BY <1>1, <1>2, <1>3 DEF LogInv

LEMMA InitIsLog == HistoryInit => Log!Init
<1> SUFFICES ASSUME HistoryInit PROVE Log!Init
  OBVIOUS
<1>1. ASSUME NEW s \in Shells PROVE SessionOf(s) = <<>>
  BY EmptyIsGood DEF HistoryInit, SessionOf, NoRings
<1> QED
  BY <1>1 DEF HistoryInit, Log!Init

\* A step of one shell: the lock, the file and what it saves are its own.
Alone(s, record) ==
  /\ shell' = [shell EXCEPT ![s] = record]
  /\ DOMAIN temporary' = Shells /\ \A t \in Shells \ {s} : temporary'[t] = temporary[t]
  /\ saved' \subseteq saved \cup {s}
  /\ file' = file \/ lockOwner = s
  /\ lockOwner' = lockOwner \/ lockOwner \in {Nobody, s}

LEMMA OthersSave ==
    ASSUME LogInv, NEW s \in Shells, NEW record, Alone(s, record), HistoryInv',
           file' \in Seq(Lines), ShellSaves(s)'
    PROVE  LogInv'
<1>1. ASSUME NEW t \in Shells, t # s PROVE ShellSaves(t)'
  <2>1. ShellSaves(t) /\ shell'[t] = shell[t] /\ temporary'[t] = temporary[t] /\ t # Nobody
    BY <1>1, HistoryFileAssumption DEF LogInv, HistoryInv, Alone, Nobody
  <2>2. t \notin saved => t \notin saved'
    BY <1>1 DEF Alone
  <2>3. ASSUME shell[t].at \in Locking PROVE lockOwner' = t /\ file' = file
    <3>1. lockOwner = t
      BY <2>1, <2>3 DEF ShellSaves
    <3> QED
      BY <1>1, <2>1, <3>1 DEF Alone
  <2>4. shell[t].at \in Merged => file' = file
    BY <2>3 DEF Merged, Locking
  <2> QED
    BY <2>1, <2>2, <2>3, <2>4 DEF ShellSaves
<1>2. DOMAIN temporary' = Shells
  BY DEF Alone
<1> QED
  BY <1>1, <1>2 DEF LogInv

\* A step that the log does not see.
Unseen(s, record) ==
  /\ Alone(s, record) /\ file' = file /\ saved' = saved
  /\ record.rings.session = shell[s].rings.session

LEMMA UnseenStutters ==
    ASSUME LogInv, NEW s \in Shells, NEW record, Unseen(s, record)
    PROVE  UNCHANGED Log!vars
<1>1. ASSUME NEW t \in Shells PROVE SessionOf(t)' = SessionOf(t)
  <2>1. DOMAIN shell = Shells
    BY DEF LogInv, HistoryInv
  <2>2. shell'[t].rings.session = shell[t].rings.session
    BY <2>1 DEF Unseen, Alone
  <2> QED
    BY <2>2 DEF SessionOf
<1>2. FileCommands' = FileCommands
  BY DEF Unseen, FileCommands
<1> QED
  BY <1>1, <1>2 DEF Unseen, Log!vars

\* What a step of a shell must show.
LogKept == LogInv' /\ [Log!Next]_(Log!vars)

LEMMA UnseenKeeps ==
    ASSUME LogInv, NEW s \in Shells, NEW record, Unseen(s, record), HistoryInv', ShellSaves(s)'
    PROVE  LogKept
<1>1. LogInv'
  BY OthersSave DEF Unseen, LogInv
<1>2. UNCHANGED Log!vars
  BY UnseenStutters
<1> QED
  BY <1>1, <1>2 DEF LogKept

LEMMA AcquireSaves ==
    ASSUME LogInv, HistoryInv', NEW s \in Shells, AcquireLock(s)
    PROVE  LogKept
<1>1. DOMAIN shell = Shells /\ DOMAIN shell[s] = ShellFields /\ ShellSaves(s)
  BY DEF LogInv, HistoryInv, ShellSound
<1>2. PICK to : /\ <<shell[s].at, to>> \in {<<"start", "load">>, <<"exit", "merge">>}
                /\ shell' = [shell EXCEPT ![s].at = to]
  BY DEF AcquireLock, Goes
<1> DEFINE record == [shell[s] EXCEPT !.at = to]
<1>3. /\ shell' = [shell EXCEPT ![s] = record]
      /\ record.at = to /\ record.rings = shell[s].rings
  BY <1>1, <1>2 DEF ShellFields
<1> HIDE DEF record
<1>4. /\ lockOwner = Nobody /\ lockOwner' = s /\ file' = file /\ temporary' = temporary
      /\ saved' = saved
  BY DEF AcquireLock, Lock
<1>5. Unseen(s, record)
  BY <1>3, <1>4 DEF Unseen, Alone, LogInv
<1>6. shell'[s] = record
  BY <1>1, <1>3
<1>7. ShellSaves(s)'
  BY <1>1, <1>2, <1>3, <1>4, <1>6 DEF ShellSaves, Unsaved, Saving, Locking, Merged
<1> QED
  BY <1>5, <1>7, UnseenKeeps

LEMMA AcquireFailsSaves ==
    ASSUME LogInv, HistoryInv', NEW s \in Shells, AcquireFails(s)
    PROVE  LogKept
<1>1. DOMAIN shell = Shells /\ DOMAIN shell[s] = ShellFields /\ ShellSaves(s)
  BY DEF LogInv, HistoryInv, ShellSound
<1>2. PICK to \in {"running", "gone"} :
                /\ \/ shell[s].at = "start" /\ to = "running"
                   \/ shell[s].at = "exit" /\ to = "gone"
                /\ shell' = [shell EXCEPT ![s] = [shell[s] EXCEPT !.at = to, !.told = TRUE]]
  BY DEF AcquireFails, Goes
<1> DEFINE record == [shell[s] EXCEPT !.at = to, !.told = TRUE]
<1>3. /\ shell' = [shell EXCEPT ![s] = record]
      /\ record.at = to /\ record.rings = shell[s].rings
  BY <1>1, <1>2 DEF ShellFields
<1> HIDE DEF record
<1>4. UNCHANGED <<file, lockOwner, temporary, saved>>
  BY DEF AcquireFails
<1>5. Unseen(s, record)
  BY <1>1, <1>2, <1>3, <1>4 DEF Unseen, Alone, LogInv
<1>6. shell'[s] = record
  BY <1>1, <1>3
<1>7. ShellSaves(s)'
  BY <1>1, <1>2, <1>3, <1>4, <1>6 DEF ShellSaves, Unsaved, Saving, Locking, Merged
<1> QED
  BY <1>5, <1>7, UnseenKeeps

LEMMA ExitSaves ==
    ASSUME LogInv, HistoryInv', NEW s \in Shells, Exit(s)
    PROVE  LogKept
<1>1. DOMAIN shell = Shells /\ DOMAIN shell[s] = ShellFields /\ ShellSaves(s)
  BY DEF LogInv, HistoryInv, ShellSound
<1>2. PICK to : /\ shell[s].at = "running" /\ to = IF shell[s].ready /\ shell[s].rings.session.count # 0 THEN "exit" ELSE "gone"
                /\ shell' = [shell EXCEPT ![s] = [shell[s] EXCEPT !.at = to]]
  BY DEF Exit, Goes
<1> DEFINE record == [shell[s] EXCEPT !.at = to]
<1>3. /\ shell' = [shell EXCEPT ![s] = record]
      /\ record.at = to /\ record.rings = shell[s].rings
  BY <1>1, <1>2 DEF ShellFields
<1> HIDE DEF record
<1>4. UNCHANGED <<file, lockOwner, temporary, saved>>
  BY DEF Exit
<1>5. Unseen(s, record)
  BY <1>1, <1>2, <1>3, <1>4 DEF Unseen, Alone, LogInv
<1>6. shell'[s] = record
  BY <1>1, <1>3
<1>7. ShellSaves(s)'
  BY <1>1, <1>2, <1>3, <1>4, <1>6 DEF ShellSaves, Unsaved, Saving, Locking, Merged
<1> QED
  BY <1>5, <1>7, UnseenKeeps

LEMMA CreateSaves ==
    ASSUME LogInv, HistoryInv', NEW s \in Shells, CreateTemporary(s)
    PROVE  LogKept
<1>1. DOMAIN shell = Shells /\ DOMAIN shell[s] = ShellFields /\ ShellSaves(s)
  BY DEF LogInv, HistoryInv, ShellSound
<1>2. PICK to : /\ shell[s].at = "create" /\ to = "write"
                /\ shell' = [shell EXCEPT ![s] = [shell[s] EXCEPT !.at = to]]
  BY DEF CreateTemporary, Goes
<1> DEFINE record == [shell[s] EXCEPT !.at = to]
<1>3. /\ shell' = [shell EXCEPT ![s] = record]
      /\ record.at = to /\ record.rings = shell[s].rings
  BY <1>1, <1>2 DEF ShellFields
<1> HIDE DEF record
<1>4. /\ UNCHANGED <<file, lockOwner, saved>>
      /\ temporary' = [temporary EXCEPT ![s] = <<>>]
  BY DEF CreateTemporary
<1>5. Unseen(s, record)
  BY <1>1, <1>2, <1>3, <1>4 DEF Unseen, Alone, LogInv
<1>6. shell'[s] = record
  BY <1>1, <1>3
<1>7. ShellSaves(s)'
  BY <1>1, <1>2, <1>3, <1>4, <1>6 DEF ShellSaves, Unsaved, Saving, Locking, Merged
<1> QED
  BY <1>5, <1>7, UnseenKeeps

LEMMA WriteSaves ==
    ASSUME LogInv, HistoryInv', NEW s \in Shells, WriteTemporary(s)
    PROVE  LogKept
<1>1. DOMAIN shell = Shells /\ DOMAIN shell[s] = ShellFields /\ ShellSaves(s)
  BY DEF LogInv, HistoryInv, ShellSound
<1>2. PICK to : /\ shell[s].at = "write" /\ to = "rename"
                /\ shell' = [shell EXCEPT ![s] = [shell[s] EXCEPT !.at = to]]
  BY DEF WriteTemporary, Goes
<1> DEFINE record == [shell[s] EXCEPT !.at = to]
<1>3. /\ shell' = [shell EXCEPT ![s] = record]
      /\ record.at = to /\ record.rings = shell[s].rings
  BY <1>1, <1>2 DEF ShellFields
<1> HIDE DEF record
<1>4. /\ UNCHANGED <<file, lockOwner, saved>>
      /\ temporary' = [temporary EXCEPT ![s] = WriteStore(shell[s].rings.ring, MaxEntries[s])]
      /\ temporary'[s] = WriteStore(shell[s].rings.ring, MaxEntries[s])
  BY DEF WriteTemporary, LogInv
<1>5. Unseen(s, record)
  BY <1>1, <1>2, <1>3, <1>4 DEF Unseen, Alone, LogInv
<1>6. shell'[s] = record
  BY <1>1, <1>3
<1>7. ShellSaves(s)'
  BY <1>1, <1>2, <1>3, <1>4, <1>6 DEF ShellSaves, Unsaved, Saving, Locking, Merged
<1> QED
  BY <1>5, <1>7, UnseenKeeps

LEMMA WriteFailsSaves ==
    ASSUME LogInv, HistoryInv', NEW s \in Shells, WriteFails(s)
    PROVE  LogKept
<1>1. DOMAIN shell = Shells /\ DOMAIN shell[s] = ShellFields /\ ShellSaves(s)
  BY DEF LogInv, HistoryInv, ShellSound
<1>2. PICK to : /\ shell[s].at = "write" /\ to = "release"
                /\ shell' = [shell EXCEPT ![s] = [shell[s] EXCEPT !.at = to, !.told = TRUE]]
  BY DEF WriteFails, Goes
<1> DEFINE record == [shell[s] EXCEPT !.at = to, !.told = TRUE]
<1>3. /\ shell' = [shell EXCEPT ![s] = record]
      /\ record.at = to /\ record.rings = shell[s].rings
  BY <1>1, <1>2 DEF ShellFields
<1> HIDE DEF record
<1>4. /\ UNCHANGED <<file, lockOwner, saved>>
      /\ temporary' = [temporary EXCEPT ![s] = NoFile]
  BY DEF WriteFails
<1>5. Unseen(s, record)
  BY <1>1, <1>2, <1>3, <1>4 DEF Unseen, Alone, LogInv
<1>6. shell'[s] = record
  BY <1>1, <1>3
<1>7. ShellSaves(s)'
  BY <1>1, <1>2, <1>3, <1>4, <1>6 DEF ShellSaves, Unsaved, Saving, Locking, Merged
<1> QED
  BY <1>5, <1>7, UnseenKeeps

LEMMA ReleaseSaves ==
    ASSUME LogInv, HistoryInv', NEW s \in Shells, ReleaseLock(s)
    PROVE  LogKept
<1>1. DOMAIN shell = Shells /\ DOMAIN shell[s] = ShellFields /\ ShellSaves(s)
  BY DEF LogInv, HistoryInv, ShellSound
<1>2. PICK to : /\ shell[s].at = "release" /\ to = "gone"
                /\ shell' = [shell EXCEPT ![s] = [shell[s] EXCEPT !.at = to]]
  BY DEF ReleaseLock, Goes
<1> DEFINE record == [shell[s] EXCEPT !.at = to]
<1>3. /\ shell' = [shell EXCEPT ![s] = record]
      /\ record.at = to /\ record.rings = shell[s].rings
  BY <1>1, <1>2 DEF ShellFields
<1> HIDE DEF record
<1>4. UNCHANGED <<file, temporary, saved>> /\ lockOwner' = Nobody
  BY DEF ReleaseLock
<1>5. Unseen(s, record)
  BY <1>1, <1>2, <1>3, <1>4 DEF Unseen, Alone, LogInv, ShellSaves, Locking
<1>6. shell'[s] = record
  BY <1>1, <1>3
<1>7. ShellSaves(s)'
  BY <1>1, <1>2, <1>3, <1>4, <1>6 DEF ShellSaves, Unsaved, Saving, Locking, Merged
<1> QED
  BY <1>5, <1>7, UnseenKeeps

LEMMA KilledSaves ==
    ASSUME LogInv, HistoryInv', NEW s \in Shells, Killed(s)
    PROVE  LogKept
<1>1. DOMAIN shell = Shells /\ DOMAIN shell[s] = ShellFields /\ ShellSaves(s)
  BY DEF LogInv, HistoryInv, ShellSound
<1> DEFINE record == [shell[s] EXCEPT !.at = "killed"]
<1>2. /\ shell' = [shell EXCEPT ![s] = record]
      /\ record.at = "killed" /\ record.rings = shell[s].rings
  BY <1>1 DEF ShellFields, Killed
<1> HIDE DEF record
<1>3. /\ UNCHANGED <<file, saved>>
      /\ lockOwner' = IF lockOwner = s THEN Nobody ELSE lockOwner
  BY DEF Killed
<1>4. DOMAIN temporary' = Shells /\ \A t \in Shells \ {s} : temporary'[t] = temporary[t]
  <2>1. temporary' = temporary \/ \E lines : temporary' = [temporary EXCEPT ![s] = lines]
    BY DEF Killed
  <2> QED
    BY <2>1 DEF LogInv
<1>5. Unseen(s, record)
  BY <1>2, <1>3, <1>4 DEF Unseen, Alone
<1>6. shell'[s] = record
  BY <1>1, <1>2
<1>7. ShellSaves(s)'
  BY <1>1, <1>2, <1>3, <1>6 DEF ShellSaves, Unsaved, Saving, Locking, Merged
<1> QED
  BY <1>5, <1>7, UnseenKeeps

LEMMA InitializeSaves ==
    ASSUME LogInv, HistoryInv', NEW s \in Shells, InitializeFile(s)
    PROVE  LogKept
<1>1. DOMAIN shell = Shells /\ DOMAIN shell[s] = ShellFields /\ ShellSaves(s)
  BY DEF LogInv, HistoryInv, ShellSound
<1> DEFINE rings == [shell[s].rings EXCEPT !.ring = LoadHistory(file)]
           record == [shell[s] EXCEPT !.at = "running", !.ready = TRUE, !.rings = rings]
<1>2. shell[s].at = "load" /\ lockOwner = s
  BY <1>1 DEF InitializeFile, ShellSaves, Locking
<1>3. /\ rings \in [ring : GoodRings, session : GoodRings]
      /\ rings.session = shell[s].rings.session
  <2>1. LoadHistory(file) \in GoodRings
    BY LoadKeeps DEF LogInv
  <2> QED
    BY <1>1, <2>1 DEF ShellSaves
<1>4. shell' = [shell EXCEPT ![s] = record]
  BY DEF InitializeFile
<1> HIDE DEF rings
<1>5. record.at = "running" /\ record.rings = rings
  BY <1>1 DEF ShellFields
<1> HIDE DEF record
<1>6. UNCHANGED <<file, temporary, saved>> /\ lockOwner' = Nobody
  BY DEF InitializeFile
<1>7. Unseen(s, record)
  BY <1>2, <1>3, <1>4, <1>5, <1>6 DEF Unseen, Alone, LogInv
<1>8. shell'[s] = record
  BY <1>1, <1>4
<1>9. ShellSaves(s)'
  BY <1>1, <1>2, <1>3, <1>5, <1>6, <1>8 DEF ShellSaves, Unsaved, Saving, Locking, Merged
<1> QED
  BY <1>7, <1>9, UnseenKeeps

LEMMA MergeSaves ==
    ASSUME LogInv, HistoryInv', NEW s \in Shells, MergeSession(s)
    PROVE  LogKept
<1>1. DOMAIN shell = Shells /\ DOMAIN shell[s] = ShellFields /\ ShellSaves(s)
  BY DEF LogInv, HistoryInv, ShellSound
<1> DEFINE session == shell[s].rings.session
           ring == AddAll(LoadHistory(file), Entries(session), Deduplicate[s])
           rings == [shell[s].rings EXCEPT !.ring = ring]
           record == [shell[s] EXCEPT !.at = "create", !.rings = rings]
<1>2. /\ shell[s].at = "merge" /\ lockOwner = s /\ s \notin saved /\ session.count # 0
      /\ shell[s].rings \in [ring : GoodRings, session : GoodRings]
  BY <1>1 DEF MergeSession, ShellSaves, Locking, Unsaved, Saving
<1>3. shell' = [shell EXCEPT ![s] = record]
  BY DEF MergeSession
<1>4. ring \in GoodRings
  <2>1. session \in GoodRings /\ MaxEntries[s] \in 1..HistoryCap /\ file \in Seq(Lines)
    BY <1>2, HistoryFileAssumption DEF LogInv
  <2> HIDE DEF session
  <2> QED
    BY <2>1, MergeKeeps
<1> HIDE DEF ring
<1>5. /\ rings \in [ring : GoodRings, session : GoodRings]
      /\ rings.session = session /\ rings.ring = ring
  BY <1>2, <1>4
<1> HIDE DEF rings
<1>6. record.at = "create" /\ record.rings = rings
  BY <1>1 DEF ShellFields
<1> HIDE DEF record
<1>7. UNCHANGED <<file, lockOwner, temporary, saved>>
  BY DEF MergeSession
<1>8. Unseen(s, record)
  BY <1>3, <1>5, <1>6, <1>7 DEF Unseen, Alone, LogInv
<1>9. shell'[s] = record
  BY <1>1, <1>3
<1>10. ShellSaves(s)'
  BY <1>1, <1>2, <1>5, <1>6, <1>7, <1>9 DEF ShellSaves, Unsaved, Saving, Locking, Merged, ring
<1> QED
  BY <1>8, <1>10, UnseenKeeps

LEMMA RecordSaves ==
    ASSUME LogInv, HistoryInv', NEW s \in Shells, NEW c \in Commands, RecordHistory(s, c)
    PROVE  LogKept
<1>1. DOMAIN shell = Shells /\ DOMAIN shell[s] = ShellFields /\ ShellSaves(s)
  BY DEF LogInv, HistoryInv, ShellSound
<1>2. c \in Texts
  BY HistoryFileAssumption, LettersOfStrings DEF Texts
<1> DEFINE old == shell[s].rings
           added == Add(old.ring, c, Deduplicate[s])
           session == Add(old.session, c, FALSE)
           rings == IF added = old.ring THEN old ELSE [ring |-> added, session |-> session]
           record == [shell[s] EXCEPT !.rings = rings]
<1>3. /\ shell[s].at = "running" /\ s \notin saved
      /\ old \in [ring : GoodRings, session : GoodRings]
  BY <1>1 DEF RecordHistory, ShellSaves, Unsaved
<1>4. shell' = [shell EXCEPT ![s] = record] /\ UNCHANGED <<file, lockOwner, temporary, saved>>
  BY DEF RecordHistory
<1> HIDE DEF old
<1>5. RingOK(old.ring) /\ RingOK(old.session)
  BY <1>3 DEF GoodRings
<1>6. added \in GoodRings
  <2>1. RingOK(Add(old.ring, c, Deduplicate[s]))
    BY <1>2, <1>5, AddKeeps
  <2> QED
    BY <2>1 DEF GoodRings, RingOK
<1>7. /\ session \in GoodRings
      /\ Entries(session) = Newest(Append(Entries(old.session), c), HistoryCap)
  <2>1. /\ RingOK(session)
        /\ Entries(session) = Newest(Once(Entries(old.session), c, FALSE), HistoryCap)
    BY <1>2, <1>5, AddKeeps
  <2> QED
    BY <2>1 DEF GoodRings, RingOK, Once
<1> HIDE DEF added, session
<1>8. rings \in [ring : GoodRings, session : GoodRings]
  BY <1>3, <1>6, <1>7
<1>9. rings = old \/ rings.session = session
  OBVIOUS
<1> HIDE DEF rings
<1>10. record.at = "running" /\ record.rings = rings
  BY <1>1, <1>3 DEF ShellFields
<1> HIDE DEF record
<1>11. shell'[s] = record
  BY <1>1, <1>4
<1>12. Alone(s, record) /\ file' = file /\ saved' = saved
  BY <1>4 DEF Alone, LogInv
<1>13. ShellSaves(s)'
  BY <1>1, <1>3, <1>4, <1>8, <1>10, <1>11 DEF ShellSaves, Unsaved, Saving, Locking, Merged
<1>14. CASE rings = old
  <2>1. Unseen(s, record)
    BY <1>10, <1>12, <1>14 DEF Unseen, old
  <2> QED
    BY <1>13, <2>1, UnseenKeeps
<1>15. CASE rings.session = session
  <2>1. LogInv'
    BY <1>12, <1>13, OthersSave DEF LogInv
  <2>2. ASSUME NEW t \in Shells
        PROVE  SessionOf(t)' = IF t = s THEN Newest(Append(SessionOf(s), c), HistoryCap)
                               ELSE SessionOf(t)
    <3>1. CASE t = s
      <4>1. shell'[t].rings.session = session
        BY <1>10, <1>11, <1>15, <3>1
      <4> QED
        BY <1>7, <3>1, <4>1 DEF SessionOf, old
    <3>2. CASE t # s
      <4>1. shell'[t] = shell[t]
        BY <1>1, <1>4, <3>2
      <4> QED
        BY <3>2, <4>1 DEF SessionOf
    <3> QED
      BY <3>1, <3>2
  <2>3. FileCommands' = FileCommands
    BY <1>4 DEF FileCommands
  <2>4. Log!Take(s, c)
    <3>1. [t \in Shells |-> SessionOf(t)]'
            = [[t \in Shells |-> SessionOf(t)] EXCEPT
                 ![s] = Newest(Append(SessionOf(s), c), HistoryCap)]
      BY <2>2
    <3> QED
      BY <1>3, <1>4, <2>3, <3>1 DEF Log!Take, Log!Kept, Newest
  <2> QED
    BY <2>1, <2>4 DEF LogKept, Log!Next
<1> QED
  BY <1>9, <1>14, <1>15

LEMMA ReplaceSaves ==
    ASSUME LogInv, HistoryInv', NEW s \in Shells, ReplaceHistory(s)
    PROVE  LogKept
<1>1. DOMAIN shell = Shells /\ DOMAIN shell[s] = ShellFields /\ ShellSaves(s)
  BY DEF LogInv, HistoryInv, ShellSound
<1> DEFINE rings == shell[s].rings
           record == [shell[s] EXCEPT !.at = "release"]
           session == rings.session
<1>2. /\ shell[s].at = "rename" /\ lockOwner = s /\ s \notin saved
      /\ shell[s].rings.session.count # 0
      /\ rings \in [ring : GoodRings, session : GoodRings]
      /\ rings.ring = AddAll(LoadHistory(file), Entries(session), Deduplicate[s])
      /\ temporary[s] = WriteStore(rings.ring, MaxEntries[s])
  BY <1>1 DEF ReplaceHistory, Goes, ShellSaves, Locking, Unsaved, Saving, Merged
<1>3. /\ shell' = [shell EXCEPT ![s] = record]
      /\ record.at = "release" /\ record.rings = rings
  BY <1>1 DEF ReplaceHistory, Goes, ShellFields
<1> HIDE DEF record
<1>4. /\ file' = temporary[s] /\ temporary' = [temporary EXCEPT ![s] = NoFile]
      /\ saved' = saved \cup {s} /\ lockOwner' = lockOwner
  BY DEF ReplaceHistory
<1>5. shell'[s] = record
  BY <1>1, <1>3
<1>6. /\ file' \in Seq(Lines)
      /\ CommandsIn(file')
           = Newest(Log!Appended(CommandsIn(file), SessionOf(s), Deduplicate[s]), MaxEntries[s])
  <2>1. session \in GoodRings /\ MaxEntries[s] \in 1..HistoryCap /\ file \in Seq(Lines)
    BY <1>2, HistoryFileAssumption DEF LogInv
  <2>2. SessionOf(s) = Entries(session)
    BY DEF SessionOf
  <2>3. file' = WriteStore(rings.ring, MaxEntries[s])
    BY <1>2, <1>4
  <2> DEFINE ring == rings.ring
             d == Deduplicate[s]
             most == MaxEntries[s]
  <2>4. ring = AddAll(LoadHistory(file), Entries(session), d)
    BY <1>2
  <2> HIDE DEF session, ring, d, most
  <2>5. /\ WriteStore(ring, most) \in Seq(Lines)
        /\ CommandsIn(WriteStore(ring, most))
             = Newest(Log!Appended(CommandsIn(file), Entries(session), d), most)
    BY <2>1, <2>4, MergeKeeps DEF most
  <2> QED
    BY <2>2, <2>3, <2>5 DEF ring, d, most
<1>7. Alone(s, record)
  BY <1>2, <1>3, <1>4 DEF Alone, LogInv
<1>8. ShellSaves(s)'
  BY <1>2, <1>3, <1>4, <1>5 DEF ShellSaves, Unsaved, Saving, Locking, Merged
<1>9. LogInv'
  BY <1>6, <1>7, <1>8, OthersSave
<1>10. FileCommands = CommandsIn(file) /\ FileCommands' = CommandsIn(file')
  <2>1. file \in Seq(Lines) /\ file' \in Seq(Lines)
    BY <1>6 DEF LogInv
  <2>2. FileCommands = CommandsIn(file)
    BY <2>1, FileCommandsAre DEF FileCommands
  <2>3. FileCommands' = CommandsIn(file')
    BY <2>1, FileCommandsAre DEF FileCommands
  <2> QED
    BY <2>2, <2>3
<1>11. SessionOf(s) # <<>>
  <2>1. RingOK(session)
    BY <1>2 DEF GoodRings
  <2>2. Len(SessionOf(s)) = session.count
    BY <2>1, EntriesAre DEF SessionOf
  <2> QED
    BY <1>2, <2>2
<1>12. ASSUME NEW t \in Shells PROVE SessionOf(t)' = SessionOf(t)
  <2>1. shell'[t].rings = shell[t].rings
    BY <1>1, <1>3
  <2> QED
    BY <2>1 DEF SessionOf
<1>13. Log!Save(s)
  <2>1. [t \in Shells |-> SessionOf(t)]' = [t \in Shells |-> SessionOf(t)]
    BY <1>12
  <2>2. [t \in Shells |-> SessionOf(t)][s] = SessionOf(s)
    OBVIOUS
  <2>3. FileCommands' = Newest(Log!Appended(FileCommands, SessionOf(s), Deduplicate[s]), MaxEntries[s])
    BY <1>6, <1>10
  <2> QED
    BY <1>2, <1>4, <1>11, <2>1, <2>2, <2>3 DEF Log!Save, Log!Kept, Newest
<1> QED
  BY <1>9, <1>13 DEF LogKept, Log!Next

LEMMA StepIsLogged ==
    ASSUME LogInv, NEW s \in Shells, HistoryStep(s)
    PROVE  LogKept
<1>1. HistoryInv'
  BY HistoryKept DEF LogInv
<1> QED
  BY <1>1, AcquireSaves, AcquireFailsSaves, InitializeSaves, ExitSaves, MergeSaves,
     CreateSaves, WriteSaves, WriteFailsSaves, ReplaceSaves, ReleaseSaves, KilledSaves,
     RecordSaves DEF HistoryStep

LEMMA LogInvariant == Spec => []LogInv
<1>1. Init => LogInv
  BY InitLog DEF Init
<1>2. LogInv /\ [Next]_vars => LogInv'
  <2> SUFFICES ASSUME LogInv, [Next]_vars PROVE LogInv'
    OBVIOUS
  <2>1. CASE HistoryNext
    BY <2>1, StepIsLogged DEF HistoryNext, LogKept
  <2>2. ASSUME UNCHANGED historyVars PROVE LogInv'
    BY <2>2 DEF historyVars, LogInv, HistoryInv, ShellSound, ShellSaves
  <2> QED
    BY <2>1, <2>2 DEF Next, JournalNext, vars
<1> QED
  BY <1>1, <1>2, PTL DEF Spec

(* Shells that exit at once all have their whole session in the file, in   *)
(* turn, and one that dies leaves the file as it was (history_file.c:46,   *)
(* README.md:971): the steps of the shells are steps of the log.           *)
THEOREM HistoryIsLog == Spec => FileIsLog
<1>1. Init => Log!Init
  BY InitIsLog DEF Init
<1>2. LogInv /\ [Next]_vars => [Log!Next]_(Log!vars)
  <2> SUFFICES ASSUME LogInv, [Next]_vars PROVE [Log!Next]_(Log!vars)
    OBVIOUS
  <2>1. CASE HistoryNext
    BY <2>1, StepIsLogged DEF HistoryNext, LogKept
  <2>2. ASSUME UNCHANGED historyVars PROVE UNCHANGED Log!vars
    BY <2>2 DEF historyVars, Log!vars, FileCommands, SessionOf
  <2> QED
    BY <2>1, <2>2 DEF Next, JournalNext, vars
<1> QED
  BY <1>1, <1>2, LogInvariant, PTL DEF Spec, FileIsLog, Log!Spec

(***************************************************************************)
(* What a request is told.                                                 *)
(***************************************************************************)
Talks == Seq(JournalRecord)
Heard == [slots : [0..ContextSlots - 1 -> JournalRecord \cup {<<>>}], count : Nat]

Tells(at, records) ==
  /\ at[0] = <<>> /\ at[Len(records)] = Talk(records)
  /\ \A i \in 0..Len(records) : at[i] \in Talks
  /\ \A i \in 1..Len(records) : at[i] = Told(at[i - 1], records[i])
Hears(at, records) ==
  /\ at[0] = NoSlots /\ at[Len(records)] = FoldLeft(Put, NoSlots, records)
  /\ \A i \in 0..Len(records) : at[i] \in Heard
  /\ \A i \in 1..Len(records) : at[i] = Put(at[i - 1], records[i])

LEMMA ToldTyped ==
    <<>> \in Talks /\ \A r \in Talks : \A x \in JournalRecord : Told(r, x) \in Talks
<1> HIDE DEF JournalRecord
<1> QED
  BY DEF Told, Talks

LEMMA PutTyped ==
    NoSlots \in Heard /\ \A r \in Heard : \A x \in JournalRecord : Put(r, x) \in Heard
<1>1. NoSlots \in Heard
  BY JournalAssumption DEF NoSlots, Heard
<1>2. ASSUME NEW r \in Heard, NEW x \in JournalRecord PROVE Put(r, x) \in Heard
  <2>1. /\ r.slots \in [0..ContextSlots - 1 -> JournalRecord \cup {<<>>}] /\ r.count \in Nat
        /\ r.count + 1 \in Nat
    BY DEF Heard
  <2>2. [r.slots EXCEPT ![r.count % ContextSlots] = x]
           \in [0..ContextSlots - 1 -> JournalRecord \cup {<<>>}]
    BY <2>1
  <2> QED
    BY <2>1, <2>2 DEF Put, Heard
<1> QED
  BY <1>1, <1>2

LEMMA TalkRuns ==
    ASSUME NEW records \in Seq(JournalRecord)
    PROVE  \E at : Tells(at, records)
<1> DEFINE n == Len(records)
           start == <<>>
           step == [i \in 1..n |-> [r \in Talks |-> Told(r, records[i])]]
           Folds(f) == f = [s \in SUBSET (1..n) |->
              IF s = {} THEN <<>> ELSE Told(f[s \ {Max(s)}], records[Max(s)])]
           iter == CHOOSE f : Folds(f)
<1>0. <<>> \in Talks /\ \A r \in Talks : \A x \in JournalRecord : Told(r, x) \in Talks
  BY ToldTyped DEF Talks
<1>1. n \in Nat /\ DOMAIN records = 1..n /\ start \in Talks /\ \A i \in 1..n : records[i] \in JournalRecord
  BY <1>0
<1> HIDE DEF n
<1>2. step \in [1..n -> [Talks -> Talks]]
  BY <1>0, <1>1
<1>3. Talk(records) = iter[1..n]
  BY <1>1 DEF Talk, FoldLeft, MapThenFoldSet
<1> HIDE DEF step, start, iter
<1>4. PICK f : FoldsWithin(f, Talks, start, n, step)
  BY <1>1, <1>2, FoldExists
<1>5. Folds(f)
  <2> DEFINE h == [s \in SUBSET (1..n) |->
              IF s = {} THEN <<>> ELSE Told(f[s \ {Max(s)}], records[Max(s)])]
  <2>1. ASSUME NEW s \in SUBSET (1..n), s # {}
        PROVE  step[Max(s)][f[s \ {Max(s)}]] = Told(f[s \ {Max(s)}], records[Max(s)])
    BY <1>1, <1>4, <2>1, GreatestIsOne DEF step, FoldsWithin
  <2>2. \A s \in SUBSET (1..n) : f[s] = h[s]
    BY <1>4, <2>1 DEF start, FoldsWithin
  <2>3. h = [s \in SUBSET (1..n) |-> h[s]] /\ f = [s \in SUBSET (1..n) |-> f[s]]
    BY <1>4 DEF FoldsWithin
  <2>4. f = h
    <3> HIDE DEF h
    <3> QED
      BY <2>2, <2>3
  <2> QED
    BY <2>4
<1>6. Folds(iter)
  <2> HIDE DEF Folds
  <2> QED
    BY <1>5 DEF iter
<1>7. Unfolds(iter, Talks, start, n, step)
  <2>1. iter[{}] = start
    BY <1>6 DEF start
  <2>2. ASSUME NEW s \in SUBSET (1..n), s # {}, NEW r \in Talks, iter[s \ {Max(s)}] = r
        PROVE  iter[s] = step[Max(s)][r]
    <3>1. iter[s] = Told(iter[s \ {Max(s)}], records[Max(s)])
      BY <1>6, <2>2
    <3> QED
      BY <1>1, <2>2, <3>1, GreatestIsOne DEF step
  <2> QED
    BY <2>1, <2>2 DEF Unfolds
<1> HIDE DEF Folds
<1>8. PICK at : RunsFrom(at, Talks, start, n, step) /\ at[n] = iter[1..n]
  BY <1>1, <1>2, <1>7, FoldRuns
<1>9. ASSUME NEW i \in 1..n PROVE at[i] = Told(at[i - 1], records[i])
  <2>1. i - 1 \in 0..n
    BY <1>1
  <2>2. at[i] = step[i][at[i - 1]] /\ at[i - 1] \in Talks
    BY <1>8, <2>1 DEF RunsFrom
  <2> QED
    BY <2>2 DEF step
<1> QED
  BY <1>3, <1>8, <1>9 DEF n, start, RunsFrom, Tells

LEMMA HeardRuns ==
    ASSUME NEW records \in Seq(JournalRecord)
    PROVE  \E at : Hears(at, records)
<1> DEFINE n == Len(records)
           start == NoSlots
           step == [i \in 1..n |-> [r \in Heard |-> Put(r, records[i])]]
           Folds(f) == f = [s \in SUBSET (1..n) |->
              IF s = {} THEN NoSlots ELSE Put(f[s \ {Max(s)}], records[Max(s)])]
           iter == CHOOSE f : Folds(f)
<1>0. NoSlots \in Heard /\ \A r \in Heard : \A x \in JournalRecord : Put(r, x) \in Heard
  BY PutTyped DEF Heard
<1>1. n \in Nat /\ DOMAIN records = 1..n /\ start \in Heard /\ \A i \in 1..n : records[i] \in JournalRecord
  BY <1>0
<1> HIDE DEF n
<1>2. step \in [1..n -> [Heard -> Heard]]
  BY <1>0, <1>1
<1>3. FoldLeft(Put, NoSlots, records) = iter[1..n]
  BY <1>1 DEF FoldLeft, MapThenFoldSet
<1> HIDE DEF step, start, iter
<1>4. PICK f : FoldsWithin(f, Heard, start, n, step)
  BY <1>1, <1>2, FoldExists
<1>5. Folds(f)
  <2> DEFINE h == [s \in SUBSET (1..n) |->
              IF s = {} THEN NoSlots ELSE Put(f[s \ {Max(s)}], records[Max(s)])]
  <2>1. ASSUME NEW s \in SUBSET (1..n), s # {}
        PROVE  step[Max(s)][f[s \ {Max(s)}]] = Put(f[s \ {Max(s)}], records[Max(s)])
    BY <1>1, <1>4, <2>1, GreatestIsOne DEF step, FoldsWithin
  <2>2. \A s \in SUBSET (1..n) : f[s] = h[s]
    BY <1>4, <2>1 DEF start, FoldsWithin
  <2>3. h = [s \in SUBSET (1..n) |-> h[s]] /\ f = [s \in SUBSET (1..n) |-> f[s]]
    BY <1>4 DEF FoldsWithin
  <2>4. f = h
    <3> HIDE DEF h
    <3> QED
      BY <2>2, <2>3
  <2> QED
    BY <2>4
<1>6. Folds(iter)
  <2> HIDE DEF Folds
  <2> QED
    BY <1>5 DEF iter
<1>7. Unfolds(iter, Heard, start, n, step)
  <2>1. iter[{}] = start
    BY <1>6 DEF start
  <2>2. ASSUME NEW s \in SUBSET (1..n), s # {}, NEW r \in Heard, iter[s \ {Max(s)}] = r
        PROVE  iter[s] = step[Max(s)][r]
    <3>1. iter[s] = Put(iter[s \ {Max(s)}], records[Max(s)])
      BY <1>6, <2>2
    <3> QED
      BY <1>1, <2>2, <3>1, GreatestIsOne DEF step
  <2> QED
    BY <2>1, <2>2 DEF Unfolds
<1> HIDE DEF Folds
<1>8. PICK at : RunsFrom(at, Heard, start, n, step) /\ at[n] = iter[1..n]
  BY <1>1, <1>2, <1>7, FoldRuns
<1>9. ASSUME NEW i \in 1..n PROVE at[i] = Put(at[i - 1], records[i])
  <2>1. i - 1 \in 0..n
    BY <1>1
  <2>2. at[i] = step[i][at[i - 1]] /\ at[i - 1] \in Heard
    BY <1>8, <2>1 DEF RunsFrom
  <2> QED
    BY <2>2 DEF step
<1> QED
  BY <1>3, <1>8, <1>9 DEF n, start, RunsFrom, Hears

\* Numbers that differ by less than n are at different places of a ring of n.
LEMMA Divides ==
    ASSUME NEW n \in Nat \ {0}, NEW x \in Nat
    PROVE  \E q \in Int : x = n * q + (x % n)
<1>1. x \div n \in Int /\ x = n * (x \div n) + (x % n)
  OBVIOUS
<1> QED
  BY <1>1, Zenon

LEMMA Multiples ==
    ASSUME NEW n \in Nat \ {0}, NEW d \in Int, n * d < n, -n < n * d
    PROVE  d = 0
OBVIOUS

LEMMA OtherPlace ==
    ASSUME NEW n \in Nat \ {0}, NEW x \in Nat, NEW y \in Nat, x < y, y - x < n
    PROVE  x % n # y % n
<1> SUFFICES ASSUME x % n = y % n PROVE FALSE
  OBVIOUS
<1>1. PICK q \in Int : x = n * q + (x % n)
  BY Divides, Zenon
<1>2. PICK r \in Int : y = n * r + (y % n)
  BY Divides, Zenon
<1>3. x % n \in Nat
  OBVIOUS
<1>4. PICK p \in Nat : p = x % n
  BY <1>3
<1>5. x = n * q + p /\ y = n * r + p
  BY <1>1, <1>2, <1>4
<1>6. n * (r - q) = n * r - n * q /\ n * r \in Int /\ n * q \in Int
  OBVIOUS
<1>7. n * (r - q) = y - x
  BY <1>5, <1>6
<1> QED
  BY <1>7, Multiples

\* The slots hold the newest of the talk, each at its place.
Holds(heard, talk) ==
  /\ heard.count = Len(talk)
  /\ \A k \in 1..Len(talk) :
       k + ContextSlots > Len(talk) => heard.slots[(k - 1) % ContextSlots] = talk[k]

LEMMA PutHolds ==
    ASSUME NEW heard \in Heard, NEW talk \in Talks, Holds(heard, talk),
           NEW r \in JournalRecord, r.whole
    PROVE  Holds(Put(heard, r), Told(talk, r))
<1>1. CASE r.kind = "command"
  BY <1>1 DEF Put, Told
<1>2. CASE r.kind # "command"
  <2>1. PICK n \in Nat : n = Len(talk)
    BY DEF Talks
  <2>2. PICK added \in Talks : added = Append(talk, r)
    <3>1. Append(talk, r) \in Talks
      BY DEF Talks
    <3> QED
      BY <3>1
  <2>3. Len(added) = n + 1 /\ added[n + 1] = r /\ \A k \in 1..n : added[k] = talk[k]
    <3>1. talk \in Seq(JournalRecord)
      BY DEF Talks
    <3>2. Len(Append(talk, r)) = n + 1 /\ Append(talk, r)[n + 1] = r
          /\ \A k \in 1..n : Append(talk, r)[k] = talk[k]
      BY <2>1, <3>1
    <3> QED
      BY <2>2, <3>2
  <2>4. PICK put \in Heard : put = Put(heard, r)
    BY PutTyped
  <2>5. put.count = n + 1 /\ put.slots = [heard.slots EXCEPT ![n % ContextSlots] = r]
    BY <1>2, <2>1, <2>4 DEF Put, Holds
  <2>6. n % ContextSlots \in 0..ContextSlots - 1 /\ DOMAIN heard.slots = 0..ContextSlots - 1
    BY JournalAssumption DEF Heard
  <2>7. ASSUME NEW k \in 1..n + 1, k + ContextSlots > n + 1
        PROVE  put.slots[(k - 1) % ContextSlots] = added[k]
    <3>1. CASE k = n + 1
      <4>1. k - 1 = n
        BY <3>1
      <4>2. put.slots[n % ContextSlots] = r
        BY <2>5, <2>6
      <4> QED
        BY <2>3, <3>1, <4>1, <4>2
    <3>2. CASE k # n + 1
      <4>1. k \in 1..n /\ k - 1 \in Nat /\ k - 1 < n /\ n - (k - 1) < ContextSlots
            /\ k + ContextSlots > n
        BY <2>7, <3>2, JournalAssumption
      <4>2. (k - 1) % ContextSlots # n % ContextSlots
        BY <4>1, OtherPlace, JournalAssumption
      <4>3. heard.slots[(k - 1) % ContextSlots] = talk[k]
        BY <2>1, <4>1 DEF Holds
      <4>4. (k - 1) % ContextSlots \in 0..ContextSlots - 1
        BY <4>1, JournalAssumption
      <4> QED
        BY <2>3, <2>5, <2>6, <4>1, <4>2, <4>3, <4>4
    <3> QED
      BY <3>1, <3>2
  <2>8. Holds(put, added)
    BY <2>3, <2>5, <2>7 DEF Holds
  <2>9. Told(talk, r) = added
    BY <1>2, <2>2 DEF Told
  <2> QED
    BY <2>4, <2>8, <2>9
<1> QED
  BY <1>1, <1>2

LEMMA WholeIsHeard ==
    ASSUME NEW records \in Seq(JournalRecord), AllWhole(records)
    PROVE  /\ FoldLeft(Put, NoSlots, records) \in Heard /\ Talk(records) \in Talks
           /\ Holds(FoldLeft(Put, NoSlots, records), Talk(records))
<1>1. PICK n \in Nat : n = Len(records)
  OBVIOUS
<1>2. PICK heard : Hears(heard, records)
  BY HeardRuns
<1>3. PICK talk : Tells(talk, records)
  BY TalkRuns
<1> DEFINE P == {i \in 0..n : Holds(heard[i], talk[i])}
<1>4. 0 \in P
  <2>1. NoSlots.count = 0 /\ heard[0] = NoSlots /\ talk[0] = <<>>
    BY <1>2, <1>3 DEF NoSlots, Hears, Tells
  <2> QED
    BY <2>1 DEF Holds
<1>5. ASSUME NEW i \in 1..n, i - 1 \in P PROVE i \in P
  <2>1. i - 1 \in 0..n /\ i \in 0..n /\ records[i] \in JournalRecord /\ records[i].whole
    BY <1>1, <1>5 DEF AllWhole
  <2>2. /\ heard[i - 1] \in Heard /\ heard[i] = Put(heard[i - 1], records[i])
        /\ talk[i - 1] \in Talks /\ talk[i] = Told(talk[i - 1], records[i])
    BY <1>1, <1>2, <1>3, <2>1 DEF Hears, Tells
  <2>3. Holds(heard[i - 1], talk[i - 1])
    BY <1>5
  <2> QED
    BY <2>1, <2>2, <2>3, PutHolds
<1>6. n \in P
  <2> HIDE DEF P
  <2>1. \A i \in 0..n : i \in P
    BY <1>4, <1>5, StepByStep
  <2>2. n \in 0..n
    OBVIOUS
  <2> QED
    BY <2>1, <2>2
<1> QED
  BY <1>1, <1>2, <1>3, <1>6 DEF Hears, Tells

LEMMA SameTalk ==
    ASSUME NEW records \in Seq(JournalRecord), NEW n \in Nat, n + 1 = Len(records),
           ~ records[n + 1].whole
    PROVE  Talk(SubSeq(records, 1, n)) = Talk(records)
<1>1. PICK before \in Seq(JournalRecord) : before = SubSeq(records, 1, n)
  <2>1. SubSeq(records, 1, n) \in Seq(JournalRecord)
    OBVIOUS
  <2> QED
    BY <2>1
<1>2. Len(before) = n /\ \A i \in 1..n : before[i] = records[i]
  BY <1>1
<1>3. PICK a : Tells(a, records)
  BY TalkRuns
<1>4. PICK b : Tells(b, before)
  BY TalkRuns
<1> DEFINE P == {i \in 0..n : a[i] = b[i]}
<1>5. 0 \in P
  BY <1>3, <1>4 DEF Tells
<1>6. ASSUME NEW i \in 1..n, i - 1 \in P PROVE i \in P
  <2>1. i \in 1..n + 1 /\ a[i - 1] = b[i - 1]
    BY <1>6
  <2>2. a[i] = Told(a[i - 1], records[i]) /\ b[i] = Told(b[i - 1], before[i])
    BY <1>2, <1>3, <1>4, <2>1 DEF Tells
  <2> QED
    BY <1>2, <2>1, <2>2
<1>7. n \in P
  <2> HIDE DEF P
  <2>1. \A i \in 0..n : i \in P
    BY <1>5, <1>6, StepByStep
  <2>2. n \in 0..n
    OBVIOUS
  <2> QED
    BY <2>1, <2>2
<1>8. a[n + 1] = Told(a[n], records[n + 1])
  <2>1. n + 1 \in 1..Len(records) /\ n + 1 - 1 = n
    OBVIOUS
  <2>2. a[n + 1] = Told(a[n + 1 - 1], records[n + 1])
    BY <1>3, <2>1 DEF Tells
  <2> QED
    BY <2>1, <2>2
<1>9. a[n + 1] = a[n]
  BY <1>8 DEF Told
<1> QED
  BY <1>1, <1>2, <1>3, <1>4, <1>7, <1>9 DEF Tells

(* Of a file that is torn at its end readers see all but the torn record.  *)
LEMMA ReadableTalk ==
    ASSUME NEW records \in Seq(JournalRecord), TornAtEnd(records)
    PROVE  /\ Readable(records) \in Seq(JournalRecord) /\ AllWhole(Readable(records))
           /\ Talk(Readable(records)) = Talk(records)
<1> DEFINE torn == {i \in DOMAIN records : ~records[i].whole}
<1>1. DOMAIN records = 1..Len(records) /\ Len(records) \in Nat
  OBVIOUS
<1>2. CASE torn = {}
  <2>1. Readable(records) = records
    BY <1>2 DEF Readable
  <2> QED
    BY <1>2, <2>1 DEF AllWhole
<1>3. CASE torn # {}
  <2>1. torn = {Len(records)} /\ Len(records) \in 1..Len(records)
    BY <1>1, <1>3 DEF TornAtEnd
  <2>2. Min(torn) = Len(records)
    BY <1>1, <2>1 DEF Min
  <2>3. PICK n \in Nat : n = Len(records) - 1
    <3>1. Len(records) - 1 \in Nat
      BY <1>1, <2>1
    <3> QED
      BY <3>1
  <2>4. n + 1 = Len(records)
    BY <1>1, <2>3
  <2>5. Readable(records) = SubSeq(records, 1, n)
    <3> HIDE DEF torn
    <3> QED
      BY <1>3, <2>2, <2>3 DEF Readable, torn
  <2>6. /\ SubSeq(records, 1, n) \in Seq(JournalRecord) /\ Len(SubSeq(records, 1, n)) = n
        /\ \A i \in 1..n : SubSeq(records, 1, n)[i] = records[i] /\ i \in DOMAIN records
    BY <2>4
  <2>7. AllWhole(SubSeq(records, 1, n))
    <3>1. ASSUME NEW i \in 1..n PROVE records[i].whole
      <4>1. i # n + 1 /\ i \in DOMAIN records
        BY <2>4
      <4>2. i \notin torn
        BY <2>1, <2>4, <4>1
      <4> QED
        BY <4>1, <4>2
    <3> QED
      BY <2>6, <3>1 DEF AllWhole
  <2>8. ~ records[n + 1].whole
    BY <2>1, <2>4
  <2>9. Talk(SubSeq(records, 1, n)) = Talk(records)
    BY <2>4, <2>8, SameTalk
  <2> QED
    BY <2>5, <2>6, <2>7, <2>9
<1> QED
  BY <1>2, <1>3

LEMMA ContextIs ==
    ASSUME NEW records \in Seq(JournalRecord), TornAtEnd(records)
    PROVE  Context(records) = Newest(Talk(records), 2 * Exchanges)
<1>1. PICK most \in Nat : most = 2 * Exchanges /\ most <= ContextSlots
  BY JournalAssumption
<1>2. PICK heard \in Heard : heard = FoldLeft(Put, NoSlots, Readable(records))
  BY ReadableTalk, WholeIsHeard
<1>3. PICK talk \in Talks : talk = Talk(records)
  BY ReadableTalk, WholeIsHeard
<1>4. Holds(heard, talk)
  BY <1>2, <1>3, ReadableTalk, WholeIsHeard
<1>5. PICK n \in Nat : n = Len(talk) /\ n = heard.count
  BY <1>4 DEF Holds, Talks
<1>6. PICK kept \in Nat : kept = Min({n, most}) /\ kept = IF n <= most THEN n ELSE most
  BY LesserIs
<1>7. Context(records) = [i \in 1..kept |-> heard.slots[(n - kept + i - 1) % ContextSlots]]
  BY <1>1, <1>2, <1>5, <1>6 DEF Context
<1>8. PICK gone \in 0..n : gone = Forgotten(n, most)
  BY ForgottenIs
<1>9. n - gone = kept /\ n - kept = gone
  BY <1>6, <1>8 DEF Forgotten
<1>10. IsRest(Newest(talk, most), talk, JournalRecord, n, gone)
  BY <1>5, <1>8, NewestIs DEF Talks
<1>11. ASSUME NEW i \in 1..kept
       PROVE  heard.slots[(n - kept + i - 1) % ContextSlots] = talk[gone + i]
  <2>1. /\ gone + i \in 1..n /\ n - kept + i - 1 = gone + i - 1
        /\ gone + i + ContextSlots > n
    BY <1>1, <1>6, <1>9, JournalAssumption
  <2>2. heard.slots[(gone + i - 1) % ContextSlots] = talk[gone + i]
    BY <1>4, <1>5, <2>1 DEF Holds
  <2> QED
    BY <2>1, <2>2
<1>12. Context(records) = Newest(talk, most)
  <2> DEFINE c == [i \in 1..kept |-> heard.slots[(n - kept + i - 1) % ContextSlots]]
  <2>1. \A i \in 1..kept : gone + i \in 1..n
    BY <1>9
  <2>2. \A i \in 1..kept : talk[gone + i] \in JournalRecord
    <3>1. \A j \in 1..n : talk[j] \in JournalRecord
      <4>1. talk \in Seq(JournalRecord)
        BY <1>3 DEF Talks
      <4>2. \A j \in 1..Len(talk) : talk[j] \in JournalRecord
        BY <4>1
      <4> QED
        BY <1>5, <4>2
    <3>2. ASSUME NEW i \in 1..kept PROVE talk[gone + i] \in JournalRecord
      <4>1. PICK j \in 1..n : j = gone + i
        BY <2>1
      <4> QED
        BY <3>1, <4>1
    <3> QED
      BY <3>2
  <2>3. c \in Seq(JournalRecord) /\ Len(c) = kept /\ \A i \in 1..kept : c[i] = talk[gone + i]
    <3>1. \A i \in 1..kept : c[i] = talk[gone + i] /\ c[i] \in JournalRecord
      BY <1>11, <2>2
    <3>2. c = [i \in 1..kept |-> c[i]]
      OBVIOUS
    <3> HIDE DEF c
    <3> QED
      BY <3>1, <3>2
  <2> HIDE DEF c
  <2>4. PICK newest \in Seq(JournalRecord) : newest = Newest(talk, most)
    BY <1>10 DEF IsRest
  <2>5. Len(newest) = kept /\ \A i \in 1..kept : newest[i] = talk[gone + i]
    BY <1>9, <1>10, <2>4 DEF IsRest
  <2>6. c = newest
    BY <2>3, <2>5, SameSequence
  <2> QED
    BY <1>7, <2>4, <2>6 DEF c
<1> QED
  BY <1>1, <1>3, <1>12

(***************************************************************************)
(* What fc and a search find in a ring.                                    *)
(***************************************************************************)
LEMMA GreatestIs ==
    ASSUME NEW S \in SUBSET Int, NEW m \in S, \A x \in S : x <= m
    PROVE  Max(S) = m
<1>1. \A x \in S : (\A y \in S : x >= y) => x = m
  OBVIOUS
<1>2. \A y \in S : m >= y
  OBVIOUS
<1> QED
  BY <1>1, <1>2 DEF Max

LEMMA LeastIs ==
    ASSUME NEW S \in SUBSET Int, NEW m \in S, \A x \in S : m <= x
    PROVE  Min(S) = m
<1>1. \A x \in S : (\A y \in S : x <= y) => x = m
  OBVIOUS
<1> QED
  BY <1>1 DEF Min

\* An event is an entry: the oldest is the first.
LEMMA EventIs ==
    ASSUME NEW ring, RingOK(ring), NEW i \in 1..ring.count
    PROVE  Event(ring, ring.nextEvent - ring.count + i - 1) = Entries(ring)[i]
<1>1. OldestEvent(ring) = ring.nextEvent - ring.count
  BY DEF RingOK, Ring, OldestEvent
<1> QED
  BY <1>1 DEF Entries

LEMMA FcLists ==
    ASSUME NEW ring, RingOK(ring)
    PROVE  FcListsNewest(ring)
<1> SUFFICES ASSUME ring.count > 1 PROVE FcListsNewest(ring)
  BY DEF FcListsNewest
<1>1. PICK k \in Nat : k = ring.count
  BY DEF RingOK, Ring
<1>2. PICK next \in Nat : next = ring.nextEvent
  BY DEF RingOK, Ring
<1>3. k > 1 /\ k < next
  BY <1>1, <1>2 DEF RingOK
<1>4. PICK eligible \in Seq(Texts) : eligible = Front(Entries(ring)) /\ Len(eligible) = k - 1
         /\ \A i \in 1..k - 1 : eligible[i] = Entries(ring)[i]
  <2>1. Entries(ring) \in Seq(Texts) /\ Len(Entries(ring)) = k
    BY <1>1, EntriesAre
  <2>2. /\ Front(Entries(ring)) \in Seq(Texts) /\ Len(Front(Entries(ring))) = k - 1
        /\ \A i \in 1..k - 1 : Front(Entries(ring))[i] = Entries(ring)[i]
    BY <1>3, <2>1 DEF Front
  <2> QED
    BY <2>2
<1>5. PICK kept \in Nat : kept = k - 1
  <2>1. k - 1 \in Nat
    BY <1>3
  <2> QED
    BY <2>1
<1>6. PICK gone \in 0..kept : gone = Forgotten(kept, Listed)
  BY StorageAssumption, ForgottenIs
<1>7. PICK newest \in Seq(Texts) : newest = Newest(eligible, Listed)
         /\ IsRest(newest, eligible, Texts, kept, gone)
  <2>1. IsRest(Newest(eligible, Listed), eligible, Texts, kept, gone)
    BY <1>4, <1>5, <1>6, StorageAssumption, NewestIs
  <2> QED
    BY <2>1 DEF IsRest
<1>8. PICK first \in Nat : first = next - k + gone
  <2>1. next - k + gone \in Nat
    BY <1>3, <1>6
  <2> QED
    BY <2>1
<1>9. ResolveRange(ring, <<>>, TRUE, Listed, TRUE) = <<first, next - 2>>
  <2>1. /\ NewestEvent(ring) = next - 1 /\ OldestEvent(ring) = next - k
        /\ NewestEvent(ring) # 0 /\ ~ (next - 1 - 1 < next - k)
    BY <1>1, <1>2, <1>3 DEF NewestEvent, OldestEvent
  <2>2. Max({next - k, next - 1 - 1 - Listed + 1}) = first
    <3>1. PICK a \in Int : a = next - k
      OBVIOUS
    <3>2. PICK b \in Int : b = next - 1 - 1 - Listed + 1
      <4>1. next - 1 - 1 - Listed + 1 \in Int
        BY StorageAssumption
      <4> QED
        BY <4>1
    <3>3. Max({a, b}) = IF a <= b THEN b ELSE a
      BY LesserIs
    <3>4. (IF a <= b THEN b ELSE a) = first
      BY <1>3, <1>5, <1>6, <1>8, <3>1, <3>2, StorageAssumption DEF Forgotten
    <3> QED
      BY <3>1, <3>2, <3>3, <3>4
  <2>3. first # 0 /\ next - 1 - 1 # 0 /\ next - 1 - 1 = next - 2
    BY <1>3, <1>6, <1>8
  <2> QED
    BY <2>1, <2>2, <2>3 DEF ResolveRange
<1>10. PICK n \in Nat : n = kept - gone /\ n = next - 2 - first + 1 /\ first <= next - 2
                        /\ n > 0
  <2>1. kept - gone \in Nat /\ kept - gone = next - 2 - first + 1 /\ first <= next - 2
        /\ kept - gone > 0
    BY <1>3, <1>5, <1>6, <1>8, StorageAssumption DEF Forgotten
  <2> QED
    BY <2>1
<1>11. Len(newest) = n /\ \A i \in 1..n : newest[i] = Event(ring, first + i - 1)
  <2>1. Len(newest) = n /\ \A i \in 1..n : newest[i] = eligible[gone + i]
    BY <1>7, <1>10 DEF IsRest
  <2>2. ASSUME NEW i \in 1..n PROVE newest[i] = Event(ring, first + i - 1)
    <3>1. PICK j \in 1..k - 1 : j = gone + i
      BY <1>5, <1>6, <1>10
    <3>2. j \in 1..k /\ next - k + j - 1 = first + i - 1
      BY <1>3, <1>8, <3>1
    <3>3. Event(ring, next - k + j - 1) = Entries(ring)[j]
      BY <1>1, <1>2, <3>2, EventIs
    <3> QED
      BY <1>4, <2>1, <3>1, <3>2, <3>3
  <2> QED
    BY <2>1, <2>2
<1>12. ASSUME NEW range, range = <<first, next - 2>>
       PROVE  Listing(ring, range, FALSE) = newest
  <2>1. Listing(ring, range, FALSE) = [i \in 1..n |-> Event(ring, first + (i - 1) * 1)]
    <3>1. (next - 2 - first) * 1 + 1 = n
      BY <1>10
    <3> QED
      BY <1>10, <1>12, <3>1 DEF Listing
  <2>2. \A i \in 1..n : first + (i - 1) * 1 = first + i - 1
    OBVIOUS
  <2>3. newest = [i \in 1..n |-> newest[i]]
    BY <1>7, <1>11
  <2> QED
    BY <1>11, <2>1, <2>2, <2>3
<1>13. ASSUME NEW range, range = <<first, next - 2>>
       PROVE  Listing(ring, range, TRUE) = Reverse(newest)
  <2>1. CASE n = 1
    <3>1. first = next - 2
      BY <1>10, <2>1
    <3>2. (next - 2 - first) * 1 + 1 = n
      BY <1>10
    <3>3. Listing(ring, range, TRUE) = [i \in 1..n |-> Event(ring, next - 2 + (i - 1) * 1)]
      BY <1>13, <3>1, <3>2 DEF Listing
    <3>4. ASSUME NEW i \in 1..n
          PROVE  Event(ring, next - 2 + (i - 1) * 1) = newest[n - i + 1]
      <4>1. PICK j \in 1..n : j = n - i + 1 /\ first + j - 1 = next - 2 + (i - 1) * 1
        <5>1. n - i + 1 \in 1..n /\ first + (n - i + 1) - 1 = next - 2 + (i - 1) * 1
          BY <1>10, <2>1, <3>1
        <5> QED
          BY <5>1
      <4>2. newest[j] = Event(ring, first + j - 1)
        BY <1>11
      <4> QED
        BY <4>1, <4>2
    <3>5. Reverse(newest) = [i \in 1..n |-> newest[n - i + 1]]
      BY <1>11 DEF Reverse
    <3> QED
      BY <3>3, <3>4, <3>5
  <2>2. CASE n # 1
    <3>1. ~ (next - 2 <= first) /\ (first - (next - 2)) * (-1) + 1 = n
      BY <1>10, <2>2
    <3>3. Listing(ring, range, TRUE) = [i \in 1..n |-> Event(ring, next - 2 + (i - 1) * (-1))]
      BY <1>13, <3>1 DEF Listing
    <3>4. ASSUME NEW i \in 1..n
          PROVE  Event(ring, next - 2 + (i - 1) * (-1)) = newest[n - i + 1]
      <4>1. PICK j \in 1..n : j = n - i + 1 /\ first + j - 1 = next - 2 + (i - 1) * (-1)
        <5>1. n - i + 1 \in 1..n /\ first + (n - i + 1) - 1 = next - 2 + (i - 1) * (-1)
          BY <1>10
        <5> QED
          BY <5>1
      <4>2. newest[j] = Event(ring, first + j - 1)
        BY <1>11
      <4> QED
        BY <4>1, <4>2
    <3>5. Reverse(newest) = [i \in 1..n |-> newest[n - i + 1]]
      BY <1>11 DEF Reverse
    <3> QED
      BY <3>3, <3>4, <3>5
  <2> QED
    BY <2>1, <2>2
<1> QED
  BY <1>4, <1>7, <1>9, <1>12, <1>13 DEF FcListsNewest

LEMMA GreatestExists ==
    ASSUME NEW n \in Nat, NEW S \in SUBSET (1..n), S # {}
    PROVE  /\ Max(S) \in S /\ \A x \in S : x <= Max(S)
<1>1. PICK m \in S : \A y \in S : y <= m
  <2> DEFINE g == [x \in S |-> x]
  <2>1. \A x \in S : g[x] \in 0..n /\ g[x] = x
    OBVIOUS
  <2> HIDE DEF g
  <2>2. \E i \in S : \A j \in S : g[j] <= g[i]
    BY <2>1, GreatestKey
  <2> QED
    BY <2>1, <2>2
<1>2. S \in SUBSET Int
  OBVIOUS
<1>3. Max(S) = m
  BY <1>1, <1>2, GreatestIs
<1> QED
  BY <1>1, <1>3

LEMMA LeastIsBelow ==
    ASSUME NEW S \in SUBSET Nat, NEW p \in S
    PROVE  Min(S) <= p
<1>1. PICK m \in S : \A y \in S : m <= y
  BY LeastNatural
<1>2. S \in SUBSET Int
  OBVIOUS
<1>3. Min(S) = m
  BY <1>1, <1>2, LeastIs
<1> QED
  BY <1>1, <1>3

\* What begins with a text holds it.
LEMMA PrefixIsHeld ==
    ASSUME NEW query \in Seq(Letters), NEW text \in Seq(Letters), IsPrefix(query, text)
    PROVE  HoldsQuery(text, query)
<1>1. PICK n \in Nat : n = Len(query)
  OBVIOUS
<1>2. PICK k \in Nat : k = Len(text)
  OBVIOUS
<1>3. n <= k /\ SubSeq(query, 1, n) = SubSeq(text, 1, n)
  BY <1>1, <1>2 DEF IsPrefix
<1>4. SubSeq(query, 1, n) = query
  BY <1>1
<1>5. 0 \in 0..k - n /\ 0 + 1 = 1 /\ 0 + n = n
  BY <1>3
<1> QED
  BY <1>1, <1>2, <1>3, <1>4, <1>5 DEF HoldsQuery

LEMMA PrefixFinds ==
    ASSUME NEW ring, RingOK(ring), NEW command \in Texts
    PROVE  PrefixFindsNewest(ring, command)
<1> DEFINE found == {i \in 1..ring.count - 1 : IsPrefix(command, Entries(ring)[i])}
           operand == [number |-> 0, prefix |-> command]
           range == ResolveRange(ring, <<operand>>, FALSE, Listed, TRUE)
           searched == SearchReverse(ring, command, 1)
<1>1. PICK k \in Nat : k = ring.count
  BY DEF RingOK, Ring
<1>2. PICK next \in Nat : next = ring.nextEvent
  BY DEF RingOK, Ring
<1>3. k < next
  BY <1>1, <1>2 DEF RingOK
<1>4. command # NoEntry /\ command \in Seq(Letters)
  BY DEF Texts
<1>5. CASE k <= 1
  <2>1. found = {}
    BY <1>1, <1>5
  <2>2. range = <<0, 0>>
    <3>1. NewestEvent(ring) = 0 \/ NewestEvent(ring) - 1 < OldestEvent(ring)
      BY <1>1, <1>2, <1>3, <1>5 DEF NewestEvent, OldestEvent
    <3> QED
      BY <3>1 DEF ResolveRange
  <2> QED
    BY <2>1, <2>2 DEF PrefixFindsNewest
<1>6. CASE k > 1
  <2> DEFINE events == {e \in next - k..next - 2 : IsPrefix(command, Event(ring, e))}
  <2>1. FindPrefix(ring, command, next - 2) = IF events = {} THEN 0 ELSE Max(events)
    <3>1. OldestEvent(ring) = next - k /\ ~ (next - 2 >= next) /\ k # 0
      BY <1>1, <1>2, <1>3, <1>6 DEF OldestEvent
    <3> QED
      BY <1>1, <1>2, <3>1 DEF FindPrefix
  <2>2. range = IF FindPrefix(ring, command, next - 2) = 0 THEN <<0, 0>>
                ELSE <<FindPrefix(ring, command, next - 2), FindPrefix(ring, command, next - 2)>>
    <3>1. /\ NewestEvent(ring) = next - 1 /\ OldestEvent(ring) = next - k
          /\ NewestEvent(ring) # 0 /\ ~ (next - 2 < next - k) /\ next - 1 - 1 = next - 2
      BY <1>1, <1>2, <1>3, <1>6 DEF NewestEvent, OldestEvent
    <3>2. ResolveEvent(ring, operand, next - 2) = FindPrefix(ring, command, next - 2)
      BY <1>4 DEF ResolveEvent
    <3>3. /\ <<operand>> # <<>> /\ Len(<<operand>>) = 1 /\ <<operand>>[1] = operand
      OBVIOUS
    <3> HIDE DEF operand
    <3> QED
      BY <3>1, <3>2, <3>3 DEF ResolveRange
  <2>3. ASSUME NEW i \in 1..k - 1
        PROVE  next - k + i - 1 \in events <=> i \in found
    <3>1. i \in 1..ring.count /\ i \in 1..ring.count - 1 /\ next - k + i - 1 \in next - k..next - 2
      BY <1>1, <1>3, <2>3
    <3>2. Event(ring, next - k + i - 1) = Entries(ring)[i]
      BY <1>1, <1>2, <3>1, EventIs
    <3> QED
      BY <3>1, <3>2
  <2>4. ASSUME NEW e \in events
        PROVE  \E i \in 1..k - 1 : e = next - k + i - 1 /\ i \in found
    <3>1. PICK i \in 1..k - 1 : e = next - k + i - 1
      <4>1. e - (next - k) + 1 \in 1..k - 1 /\ e = next - k + (e - (next - k) + 1) - 1
        BY <1>3, <1>6
      <4> QED
        BY <4>1
    <3> QED
      BY <2>3, <3>1
  <2>5. found \in SUBSET (1..k - 1) /\ events \in SUBSET Int /\ k - 1 \in Nat
    BY <1>1, <1>6
  <2>6. CASE found = {}
    <3>1. events = {}
      BY <2>4, <2>6
    <3> QED
      BY <2>1, <2>2, <2>6, <3>1 DEF PrefixFindsNewest
  <2>7. CASE found # {}
    <3> HIDE DEF found, events
    <3>1. PICK m \in 1..k - 1 : m = Max(found) /\ m \in found /\ \A x \in found : x <= m
      BY <2>5, <2>7, GreatestExists
    <3>2. PICK e \in Nat : e = next - k + m - 1 /\ e > 0
      <4>1. next - k + m - 1 \in Nat /\ next - k + m - 1 > 0
        BY <1>3, <3>1
      <4> QED
        BY <4>1
    <3>3. e \in events
      BY <2>3, <3>1, <3>2
    <3>4. \A x \in events : x <= e
      <4> SUFFICES ASSUME NEW x \in events PROVE x <= e
        OBVIOUS
      <4>1. PICK i \in 1..k - 1 : x = next - k + i - 1 /\ i \in found
        BY <2>4
      <4>2. i <= m
        BY <3>1, <4>1
      <4> QED
        BY <3>2, <4>1, <4>2
    <3>5. Max(events) = e
      BY <2>5, <3>3, <3>4, GreatestIs
    <3>6. FindPrefix(ring, command, next - 2) = e /\ e # 0
      BY <2>1, <3>2, <3>3, <3>5
    <3>7. range = <<e, e>>
      BY <2>2, <3>6
    <3>8. Event(ring, e) = Entries(ring)[m]
      <4>1. m \in 1..ring.count
        BY <1>1, <3>1
      <4> QED
        BY <1>1, <1>2, <3>2, <4>1, EventIs
    <3>9. Listing(ring, range, FALSE) = <<Entries(ring)[m]>>
      <4> HIDE DEF range
      <4>1. /\ range[1] = e /\ range[2] = e /\ e <= e /\ (e - e) * 1 + 1 = 1
            /\ \A i \in 1..1 : e + (i - 1) * 1 = e
        BY <3>7
      <4>2. Listing(ring, range, FALSE) = [i \in 1..1 |-> Event(ring, e + (i - 1) * 1)]
        BY <4>1 DEF Listing
      <4>3. Listing(ring, range, FALSE) = [i \in 1..1 |-> Event(ring, e)]
        BY <4>1, <4>2
      <4>4. [i \in 1..1 |-> Entries(ring)[m]] = <<Entries(ring)[m]>>
        OBVIOUS
      <4> QED
        BY <3>8, <4>3, <4>4
    <3>10. range[1] = NewestEvent(ring) - ring.count + Max(found)
      <4>1. NewestEvent(ring) = next - 1
        BY <1>1, <1>2, <1>6 DEF NewestEvent
      <4> HIDE DEF range
      <4>3. range[1] = e
        BY <3>7
      <4>2. next - 1 - k + m = e
        BY <3>1, <3>2
      <4> QED
        BY <1>1, <3>1, <4>1, <4>2, <4>3
    <3>11. searched <= ring.count - Max(found)
      <4> DEFINE places == {p \in 1..ring.count - 1 : HoldsQuery(FromNewest(ring, p), command)}
      <4>1. PICK p \in 1..k - 1 : p = k - m /\ k - p - 1 = m - 1
        <5>1. k - m \in 1..k - 1 /\ k - (k - m) - 1 = m - 1
          BY <3>1
        <5> QED
          BY <5>1
      <4>2. Entries(ring)[m] = ring.slots[PhysicalIndex(ring, m - 1)] /\ Entries(ring)[m] \in Texts
        <5>1. m \in 1..ring.count
          BY <1>1, <3>1
        <5> QED
          BY <5>1, EntriesAre
      <4>3. FromNewest(ring, p) = Entries(ring)[m]
        BY <1>1, <4>1, <4>2 DEF FromNewest
      <4>4. IsPrefix(command, Entries(ring)[m])
        BY <3>1 DEF found
      <4>5. HoldsQuery(Entries(ring)[m], command)
        BY <1>4, <4>2, <4>4, PrefixIsHeld DEF Texts
      <4>6. p \in places /\ places \in SUBSET Nat
        BY <1>1, <4>1, <4>3, <4>5
      <4>7. searched = Min(places)
        BY <4>6 DEF SearchReverse
      <4> HIDE DEF places
      <4>8. Min(places) <= p
        BY <4>6, LeastIsBelow
      <4> QED
        BY <1>1, <3>1, <4>1, <4>7, <4>8
    <3> QED
      BY <2>7, <3>1, <3>9, <3>10, <3>11 DEF PrefixFindsNewest, found
  <2> QED
    BY <2>6, <2>7
<1> QED
  BY <1>5, <1>6

(* What is read is the newest of what was recorded: the default listing of *)
(* fc ends before the command that calls it (builtin_fc.c:133), a search   *)
(* finds the newest match (history_store.c:122), and a request is told the *)
(* last exchanges whose records are whole (llm_journal.c:473).             *)
THEOREM NewestAreRead == Spec => []ReadersSeeTheNewest
<1>1. LogInv /\ StorageInv => ReadersSeeTheNewest
  <2> SUFFICES ASSUME LogInv, StorageInv PROVE ReadersSeeTheNewest
    OBVIOUS
  <2>1. ASSUME NEW s \in Shells
        PROVE  /\ FcListsNewest(shell[s].rings.ring)
               /\ \A c \in Commands : PrefixFindsNewest(shell[s].rings.ring, c)
    <3>1. RingOK(shell[s].rings.ring)
      BY DEF LogInv, ShellSaves, GoodRings
    <3>2. Commands \subseteq Texts
      BY HistoryFileAssumption, LettersOfStrings DEF Texts
    <3> QED
      BY <3>1, <3>2, FcLists, PrefixFinds
  <2>2. journal.current \in Seq(JournalRecord) /\ TornAtEnd(journal.current)
    BY DEF StorageInv, JournalInv, FilesInv, FilesType
  <2>3. Context(journal.current) = Newest(Talk(journal.current), 2 * Exchanges)
    BY <2>2, ContextIs
  <2> QED
    BY <2>1, <2>3 DEF ReadersSeeTheNewest
<1> QED
  BY <1>1, LogInvariant, StorageInvariant, PTL

=============================================================================
