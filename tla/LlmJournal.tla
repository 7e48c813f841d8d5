----------------------------- MODULE LlmJournal -----------------------------
(***************************************************************************)
(* The journal of the model's requests (llm_journal.c).  The reactor of a  *)
(* shell queues the bytes of framed records and writes some of them to the *)
(* pipe of a worker at every turn; the worker of each shell appends record *)
(* after record to one file that all share, under a lock, and rotates it.  *)
(* A record may be torn by a full disk or a death; readers take no lock.   *)
(***************************************************************************)
EXTENDS Integers, Sequences, SequencesExt, FiniteSetsExt

CONSTANTS
  Owners,             \* the shells
  RecordsMax,         \* records a shell queues (bound)
  FrameSize, PendingCap, ChunkCap, PipeCap,   \* a frame, the queue, a turn, the pipe, in parts
  RecordCap, PromptCap,                       \* what makes the file rotate
  Exchanges,          \* prompts with their answers that a request is given
  ContextSlots        \* the slots that they are read into

NoOwner == "nobody"
ASSUME JournalAssumption ==
  /\ NoOwner \notin Owners /\ FrameSize \in Nat \ {0}
  /\ PendingCap \in Nat /\ ChunkCap \in Nat /\ PipeCap \in Nat
  /\ Exchanges \in Nat /\ ContextSlots \in Nat \ {0} /\ 2 * Exchanges <= ContextSlots

VARIABLES
  journal,     \* the records of the file and of the one before it
  journalLock, \* the owner whose worker holds the lock
  queue,       \* per shell: what it accepted, the parts it has not written, its warning
  pipe,        \* per shell: the parts in the pipe, and whether it is closed
  worker,      \* per shell: where its worker is, the parts it has read, its record
  written,     \* the records that were written to the end, for the promise
  dropped      \* the records a rotation gave up, for the promise
journalVars == <<journal, journalLock, queue, pipe, worker, written, dropped>>

\* What the records of a shell are, in their order.
KindOf(n) == CASE n % 3 = 1 -> "prompt" [] n % 3 = 2 -> "answer" [] OTHER -> "command"

JournalInit ==
  /\ journal = [current |-> <<>>, previous |-> <<>>] /\ journalLock = NoOwner
  /\ queue = [o \in Owners |-> [accepted |-> 0, pending |-> <<>>, warned |-> FALSE, at |-> "open"]]
  /\ pipe = [o \in Owners |-> [parts |-> <<>>, closed |-> FALSE]]
  /\ worker = [o \in Owners |-> [at |-> "read", parts |-> <<>>, status |-> "running"]]
  /\ written = {} /\ dropped = {}

------------------------------------------------------------------------------
(* The reactor. *)

Frame(o, n) == [i \in 1..FrameSize |-> <<o, n, i>>]
QueueUnchanged == UNCHANGED <<journal, journalLock, worker, written, dropped>>

Enqueue(o) ==
  LET n == queue[o].accepted + 1
      full == pipe[o].closed \/ FrameSize > PendingCap - Len(queue[o].pending)
  IN /\ queue[o].at = "open" /\ n <= RecordsMax
     /\ queue' = IF full THEN [queue EXCEPT ![o].warned = TRUE]
                 ELSE [queue EXCEPT ![o].accepted = n, ![o].pending = @ \o Frame(o, n)]
     /\ UNCHANGED pipe /\ QueueUnchanged

ClosedPipe(o) == pipe' = [pipe EXCEPT ![o].closed = TRUE]
\* MUTANT: what did not fit into the pipe is forgotten.
ForgetRest(pending, n) == <<>>
Rest(pending, n) == SubSeq(pending, n + 1, Len(pending))
\* A turn writes a bounded part; the pipe may take less, or be broken.
Flush(o) ==
  LET room == Min({Len(queue[o].pending), ChunkCap, PipeCap - Len(pipe[o].parts)})
  IN /\ queue[o].at \in {"open", "finish"} /\ ~pipe[o].closed /\ queue[o].pending # <<>>
     /\ \/ /\ worker[o].status = "running" /\ \E n \in 1..room :
             /\ pipe' = [pipe EXCEPT ![o].parts = @ \o SubSeq(queue[o].pending, 1, n)]
             /\ queue' = [queue EXCEPT ![o].pending = Rest(@, n)]
        \/ /\ worker[o].status # "running" /\ ClosedPipe(o)
           /\ queue' = [queue EXCEPT ![o].pending = <<>>,
                                     ![o].warned = @ \/ queue[o].at = "open"]
     /\ QueueUnchanged

\* The worker ended while the shell runs.
ReapJournalWorker(o) ==
  /\ queue[o].at = "open" /\ worker[o].status \in {"exited", "failed"}
  /\ worker' = [worker EXCEPT ![o].status = "reaped"]
  /\ ClosedPipe(o) /\ queue' = [queue EXCEPT ![o].pending = <<>>, ![o].warned = TRUE]
  /\ UNCHANGED <<journal, journalLock, written, dropped>>

\* At the end of the shell the queue is drained for a while; then the worker is
\* asked to end, or killed.
FinishStart(o) ==
  /\ queue[o].at = "open" /\ QueueUnchanged /\ UNCHANGED pipe
  /\ queue' = [queue EXCEPT ![o].at = IF worker[o].status = "reaped" THEN "done" ELSE "finish"]
FinishClose(o) ==
  /\ queue[o].at = "finish" /\ ~pipe[o].closed /\ queue[o].pending = <<>>
  /\ ClosedPipe(o) /\ QueueUnchanged /\ UNCHANGED queue
FinishReap(o) ==
  /\ queue[o].at = "finish" /\ worker[o].status \in {"exited", "failed"}
  /\ worker' = [worker EXCEPT ![o].status = "reaped"] /\ ClosedPipe(o)
  /\ queue' = [queue EXCEPT ![o].at = "done", ![o].pending = <<>>,
                            ![o].warned = @ \/ worker[o].status = "failed"]
  /\ UNCHANGED <<journal, journalLock, written, dropped>>
FinishKill(o) ==
  /\ queue[o].at = "finish" /\ worker[o].status = "running"
  /\ worker' = [worker EXCEPT ![o].status = "reaped", ![o].at = "end"] /\ ClosedPipe(o)
  /\ queue' = [queue EXCEPT ![o].at = "done", ![o].pending = <<>>, ![o].warned = TRUE]
  /\ journalLock' = IF journalLock = o THEN NoOwner ELSE journalLock
  /\ UNCHANGED <<journal, written, dropped>>

\* The shell dies: its worker reads what is in the pipe.
OwnerKilled(o) ==
  /\ queue[o].at \in {"open", "finish"} /\ queue' = [queue EXCEPT ![o].at = "killed"]
  /\ ClosedPipe(o) /\ QueueUnchanged

------------------------------------------------------------------------------
(* The worker. *)

Number(o) == worker[o].parts[1][2]
Record(o) == [whole |-> FALSE, of |-> o, number |-> Number(o), kind |-> KindOf(Number(o))]
WorkerAt(o, from, to) ==
  /\ worker[o].status = "running" /\ worker[o].at = from
  /\ worker' = [worker EXCEPT ![o].at = to]
  /\ UNCHANGED <<queue, pipe>>
Failed(o) == [worker EXCEPT ![o].status = "failed", ![o].at = "end"]

ReadFrame(o) ==
  /\ worker[o].status = "running" /\ worker[o].at = "read"
  /\ UNCHANGED <<journal, journalLock, queue, written, dropped>>
  /\ \/ /\ pipe[o].parts # <<>>
        /\ pipe' = [pipe EXCEPT ![o].parts = Tail(@)]
        /\ LET parts == Append(worker[o].parts, Head(pipe[o].parts))
           IN worker' = [worker EXCEPT ![o].parts = parts,
                                       ![o].at = IF Len(parts) = FrameSize THEN "lock" ELSE "read"]
     \/ /\ pipe[o].parts = <<>> /\ pipe[o].closed /\ UNCHANGED pipe
        /\ worker' = IF worker[o].parts = <<>> THEN [worker EXCEPT ![o].status = "exited"]
                     ELSE Failed(o)

LockJournal(o) ==
  /\ WorkerAt(o, "lock", "rotate") /\ journalLock = NoOwner /\ journalLock' = o
  /\ UNCHANGED <<journal, written, dropped>>

\* Readers stop at the first record that is not whole.
Readable(records) ==
  LET torn == {i \in DOMAIN records : ~records[i].whole}
  IN IF torn = {} THEN records ELSE SubSeq(records, 1, Min(torn) - 1)
\* MUTANT: a torn record at the end is no reason to rotate.
FullRotation(records) ==
  \/ Len(records) >= RecordCap
  \/ Cardinality({i \in DOMAIN records : records[i].kind = "prompt"}) >= PromptCap
NeedsRotation(records) ==
  \/ Len(records) >= RecordCap
  \/ Cardinality({i \in DOMAIN records : records[i].kind = "prompt"}) >= PromptCap
  \/ Readable(records) # records
Identities(records) == {<<records[i].of, records[i].number>> : i \in DOMAIN records}

\* Rotation takes two steps; a file that is rotated is not there until the next
\* record makes it.
CheckRotation(o) ==
  /\ WorkerAt(o, "rotate", IF NeedsRotation(journal.current) THEN "unlink" ELSE "header")
  /\ UNCHANGED <<journal, journalLock, written, dropped>>
UnlinkPrevious(o) ==
  /\ WorkerAt(o, "unlink", "rename")
  /\ journal' = [journal EXCEPT !.previous = <<>>]
  /\ dropped' = dropped \cup Identities(journal.previous) /\ UNCHANGED <<journalLock, written>>
RenameJournal(o) ==
  /\ WorkerAt(o, "rename", "header")
  /\ journal' = [current |-> <<>>, previous |-> journal.current]
  /\ UNCHANGED <<journalLock, written, dropped>>

AppendHeader(o) ==
  /\ WorkerAt(o, "header", "text")
  /\ journal' = [journal EXCEPT !.current = Append(@, Record(o))]
  /\ UNCHANGED <<journalLock, written, dropped>>
AppendText(o) ==
  /\ WorkerAt(o, "text", "unlock")
  /\ journal' = [journal EXCEPT !.current[Len(journal.current)].whole = TRUE]
  /\ written' = written \cup {<<o, Number(o)>>} /\ UNCHANGED <<journalLock, dropped>>
UnlockJournal(o) ==
  /\ worker[o].status = "running" /\ worker[o].at = "unlock"
  /\ journalLock' = NoOwner
  /\ worker' = [worker EXCEPT ![o].at = "read", ![o].parts = <<>>]
  /\ UNCHANGED <<journal, queue, pipe, written, dropped>>

\* A system call fails, or the worker dies; the kernel gives up its lock.
WorkerFails(o) ==
  /\ worker[o].status = "running" /\ worker[o].at # "read" /\ worker' = Failed(o)
  /\ journalLock' = IF journalLock = o THEN NoOwner ELSE journalLock
  /\ UNCHANGED <<journal, queue, pipe, written, dropped>>

JournalStep(o) ==
  \/ Enqueue(o) \/ Flush(o) \/ ReapJournalWorker(o)
  \/ FinishStart(o) \/ FinishClose(o) \/ FinishReap(o) \/ FinishKill(o) \/ OwnerKilled(o)
  \/ ReadFrame(o) \/ LockJournal(o) \/ CheckRotation(o) \/ UnlinkPrevious(o) \/ RenameJournal(o)
  \/ AppendHeader(o) \/ AppendText(o) \/ UnlockJournal(o) \/ WorkerFails(o)

------------------------------------------------------------------------------
(* What a request is told of the conversation: a ring of slots, of which    *)
(* the newest are taken.                                                    *)

NoSlots == [slots |-> [i \in 0..ContextSlots - 1 |-> <<>>], count |-> 0]
Put(heard, record) ==
  IF record.kind = "command" THEN heard
  ELSE [slots |-> [heard.slots EXCEPT ![heard.count % ContextSlots] = record],
        count |-> heard.count + 1]
Context(records) ==
  LET heard == FoldLeft(Put, NoSlots, Readable(records))
      retained == Min({heard.count, 2 * Exchanges})
  IN [i \in 1..retained |-> heard.slots[(heard.count - retained + i - 1) % ContextSlots]]

=============================================================================
