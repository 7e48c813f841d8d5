--------------------------- MODULE ExecDescriptors ---------------------------
(***************************************************************************)
(* The descriptors of the interactive shell (gsh.c).  One process holds    *)
(* the user's descriptors and those of its reactor, and `exec' lets the    *)
(* user name any number.  The shell runs `exec' itself, or a compound      *)
(* command does in an evaluator, whose descriptors come back over a socket *)
(* at its end.  On both ways what the reactor owns has to move out of the  *)
(* way, in both processes.                                                 *)
(***************************************************************************)
EXTENDS Integers, FiniteSetsExt, SequencesExt

CONSTANTS
  Limit,          \* RLIMIT_NOFILE: descriptors are 0..Limit-1
  Files,          \* what a redirection opens
  Commands,       \* a command is "exec", "exec utility" or "builtin", with redirections
  Redirections,   \* every sequence of redirections of a command, and its parts
  Scripts,        \* compound commands: sequences of commands; sourced: read at run time
  Initial,        \* the descriptors at the start
  Transient,      \* what of the reactor comes and goes
  MaxLaunches, MaxDirect   \* bounds: compound commands, and those the shell runs itself

VARIABLES
  owner,     \* the descriptors of the shell
  held,      \* the numbers under which its reactor uses its own
  child,     \* the evaluator: its descriptors, its ends of the channels, what it has
             \* to do, and what it has written into the outcome
  told,      \* how the last command ended
  launches, directs
vars == <<owner, held, child, told, launches, directs>>

\* What the reactor uses, in the order in which it protects it.
OwnOrder == <<"tty", "signal_read", "worker", "commit", "outcome", "descriptors",
              "completion", "signal_write", "pty">>
Names == {OwnOrder[i] : i \in DOMAIN OwnOrder}
ChannelNames == {"gate", "commit", "outcome", "descriptors"}

Fds == 0..Limit - 1
Closed == <<"closed">>
Own(name) == <<"reactor", name>>     \* the reactor's end of a channel too
End(channel) == <<"evaluator", channel>>
Plain == Files \cup {Closed}         \* what the user may see

ASSUME LimitAssumption == Limit \in Nat
\* A file is neither the reactor's nor a channel, and at the start a number of
\* the reactor's is the only one of its kind.
ASSUME FilesAssumption ==
  Files \cap ({Closed} \cup {Own(name) : name \in Names \cup ChannelNames}
                      \cup {End(channel) : channel \in ChannelNames}) = {}
ASSUME InitialAssumption ==
  /\ Initial \subseteq [Fds -> Plain \cup {Own(name) : name \in Names \ ChannelNames}]
  /\ \A table \in Initial : \A fd, other \in Fds :
       table[fd] = table[other] /\ table[fd] \notin Plain => fd = other
ASSUME TransientAssumption == Transient \subseteq Names \ ChannelNames

IsOpen(table, fd) == table[fd] # Closed
Spare(table, least, avoid) == {fd \in least..Limit - 1 : ~ IsOpen(table, fd) /\ fd \notin avoid}
Close(table, fds) == [fd \in Fds |-> IF fd \in fds THEN Closed ELSE table[fd]]
Move(table, from, to) == [table EXCEPT ![to] = table[from], ![from] = Closed]

RangeOf(f) == {f[x] : x \in DOMAIN f}
Without(own, names) == [name \in DOMAIN own \ names |-> own[name]]
With(own, name, fd) == [n \in DOMAIN own \cup {name} |-> IF n = name THEN fd ELSE own[n]]
NumbersOf(own, names) == {own[name] : name \in DOMAIN own \cap names}

------------------------------------------------------------------------------
(* Redirections.                                                            *)

\* A step for each of n things, in order, up to one that fails.
Walk(Step(_, _), start, n) ==
  LET at[i \in 0..n] ==
        IF i = 0 THEN start
        ELSE LET before == at[i - 1] IN IF before.ok THEN Step(before, i) ELSE before
  IN at[n]

Targets(redirects) == {redirects[i].to : i \in DOMAIN redirects}
Sources(redirects) == {redirects[i].from : i \in {j \in DOMAIN redirects : redirects[j].op = "dup"}}


\* One redirection.  A file is opened at the lowest number, duplicated and closed again.
RedirectionTypes ==
  [op : {"close"}, to : Fds] \cup [op : {"dup"}, to : Fds, from : Fds]
    \cup [op : {"open"}, to : Fds, file : Files]
CommandTypes == [kind : {"exec", "exec utility", "builtin"}, redirects : Redirections]

ASSUME RedirectionsAssumption == Redirections \subseteq Seq(RedirectionTypes)
ASSUME CommandsAssumption ==
  /\ Commands \subseteq CommandTypes
  /\ Scripts \subseteq [commands : Seq(CommandTypes), sourced : BOOLEAN]

Redirect(table, r) ==
  CASE r.op = "close" -> [ok |-> TRUE, table |-> Close(table, {r.to})]
    [] r.op = "dup" -> IF IsOpen(table, r.from)
                       THEN [ok |-> TRUE, table |-> [table EXCEPT ![r.to] = table[r.from]]]
                       ELSE [ok |-> FALSE, table |-> table]
    [] OTHER -> IF Spare(table, 0, {}) = {} THEN [ok |-> FALSE, table |-> table]
                ELSE [ok |-> TRUE, table |-> [table EXCEPT ![r.to] = r.file]]

\* In order up to one that fails; the refused-th file cannot be opened.
ApplyRedirect(state, r, isRefused) ==
  IF isRefused /\ r.op = "open" THEN [state EXCEPT !.ok = FALSE] ELSE Redirect(state.table, r)
ApplyRedirects(table, redirects, refused) ==
  Walk(LAMBDA s, i : ApplyRedirect(s, redirects[i], i = refused),
       [ok |-> TRUE, table |-> table], Len(redirects))

\* A builtin borrows: the descriptors it redirects are saved above all of them.
LeastSaved(redirects) == Max({2} \cup Targets(redirects)) + 1
Copies(saved) == {saved[i].at : i \in DOMAIN saved}
SaveOne(state, fd, least) ==
  LET at == Min(Spare(state.table, least, {}))
  IN IF \E i \in DOMAIN state.saved : state.saved[i].fd = fd THEN state
     ELSE IF ~ IsOpen(state.table, fd)
     THEN [state EXCEPT !.saved = Append(@, [fd |-> fd, at |-> -1])]
     ELSE IF Spare(state.table, least, {}) = {}
     THEN [state EXCEPT !.ok = FALSE, !.table = Close(@, Copies(state.saved))]
     ELSE [state EXCEPT !.table[at] = state.table[fd],
                        !.saved = Append(@, [fd |-> fd, at |-> at])]
Save(table, redirects) ==
  Walk(LAMBDA s, i : SaveOne(s, redirects[i].to, LeastSaved(redirects)),
       [ok |-> TRUE, table |-> table, saved |-> <<>>], Len(redirects))
RestoreOne(state, entry) ==
  [state EXCEPT !.table =
     IF entry.at = -1 THEN Close(@, {entry.fd})
     ELSE Close([@ EXCEPT ![entry.fd] = state.table[entry.at]], {entry.at})]
Restore(table, saved) ==
  Walk(LAMBDA s, i : RestoreOne(s, saved[Len(saved) + 1 - i]),
       [ok |-> TRUE, table |-> table], Len(saved)).table
Borrow(table, redirects, refused) ==
  LET saving == Save(table, redirects)
  IN IF ~ saving.ok THEN saving.table
     ELSE Restore(ApplyRedirects(saving.table, redirects, refused).table, saving.saved)

------------------------------------------------------------------------------
(* Out of the user's way.                                                   *)

\* Some of a process's numbers, by key in this order: each that is among the
\* taken goes to the lowest from `least' that is not avoided.
MoveOne(state, key, taken, least, avoid) ==
  LET spare == Spare(state.table, least, avoid)
  IN IF key \notin DOMAIN state.fds \/ state.fds[key] \notin taken THEN state
     ELSE IF spare = {} THEN [state EXCEPT !.ok = FALSE]
     ELSE [state EXCEPT !.table = Move(@, state.fds[key], Min(spare)),
                        !.fds[key] = Min(spare)]
MoveEach(table, fds, keys, taken, least, avoid) ==
  Walk(LAMBDA s, i : MoveOne(s, keys[i], taken, least, avoid),
       [ok |-> TRUE, table |-> table, fds |-> fds], Len(keys))
MoveAway(table, fds, keys, taken) == MoveEach(table, fds, keys, taken, 3, taken)

\* The reactor's own to above every target; it stops at one that cannot.
LeastStandard(targets) == 3
LeastOwn(targets) == Max({2} \cup targets) + 1
ProtectOwner(table, own, targets) ==
  LET moved == MoveEach(table, own, OwnOrder, targets, LeastOwn(targets), {})
  IN [ok |-> moved.ok, table |-> moved.table, held |-> moved.fds]

------------------------------------------------------------------------------
(* The evaluator.                                                           *)

NoChild == [phase |-> "none"]

\* What the preflight finds in the commands: whether there is an exec, the
\* descriptors its redirections change, and those they use.
Execs(script) == {i \in DOMAIN script.commands : script.commands[i].kind # "builtin"}
ExecRedirects(script) == {script.commands[i].redirects : i \in Execs(script)}
ExecPossible(script) == ~ script.sourced /\ Execs(script) # {}
Recorded(script) == IF script.sourced THEN {} ELSE UNION {Targets(rs) : rs \in ExecRedirects(script)}
ProtectSources(script) == IF script.sourced THEN {} ELSE UNION {Sources(rs) : rs \in ExecRedirects(script)}
Protected(script) == IF script.sourced THEN {} ELSE Recorded(script) \cup UNION {Sources(rs) : rs \in ExecRedirects(script)}

\* The channels in the order they are made; of the gate, the evaluator reads.
Channels(script) ==
  IF ExecPossible(script) THEN <<"gate", "commit", "outcome", "descriptors">>
  ELSE <<"gate", "commit">>
OpenChannel(state, channel) ==
  LET spare == Spare(state.table, 0, {})
      low == Min(spare)
      high == Min(spare \ {low})
      mine == IF channel = "gate" THEN high ELSE low
      its == IF channel = "gate" THEN low ELSE high
  IN IF spare = {} \/ spare = {low} THEN [state EXCEPT !.ok = FALSE]
     ELSE [ok |-> TRUE, fds |-> With(state.fds, channel, its),
           table |-> [state.table EXCEPT ![mine] = Own(channel), ![its] = End(channel)],
           held |-> With(state.held, channel, mine)]
OpenChannels(table, own, channels) ==
  Walk(LAMBDA s, i : OpenChannel(s, channels[i]),
       [ok |-> TRUE, table |-> table, held |-> own, fds |-> <<>>], Len(channels))

\* After the fork each process closes the other's ends, the evaluator its
\* reactor's too; the gate is closed when it has been passed.
EvaluatorTable(table, own, ends) == Close(table, RangeOf(own) \cup {ends["gate"]})
ShellTable(table, own, ends) == Close(table, RangeOf(ends) \cup {own["gate"]})

\* Channels, their protection, then the fork.
Launch(script) ==
  LET made == OpenChannels(owner, held, Channels(script))
      safe == IF made.ok /\ ExecPossible(script)
              THEN MoveAway(made.table, made.fds, Channels(script), Protected(script))
              ELSE [ok |-> made.ok, table |-> made.table, fds |-> made.fds]
  IN /\ child = NoChild /\ launches < MaxLaunches /\ told # "ended"
     /\ "completion" \notin DOMAIN held
     /\ launches' = launches + 1
     /\ IF safe.ok
        THEN /\ child' = [phase |-> "running", script |-> script, next |-> 1, dirty |-> FALSE,
                          outcome |-> "none", table |-> EvaluatorTable(safe.table, made.held, safe.fds),
                          ends |-> Without(safe.fds, {"gate"})]
             /\ owner' = ShellTable(safe.table, made.held, safe.fds)
             /\ held' = Without(made.held, {"gate"})
             /\ UNCHANGED told
        ELSE told' = "refused" /\ UNCHANGED <<owner, held, child>>
     /\ UNCHANGED directs

Claimed(script) == UNION {Targets(rs) : rs \in ExecRedirects(script)}
MayRefuse(redirects) == {0} \cup {i \in DOMAIN redirects : redirects[i].op = "open"}

\* A channel works while the evaluator's end of it is where it was.
Reaches(channel) ==
  /\ channel \in DOMAIN child.ends /\ child.table[child.ends[channel]] = End(channel)

\* What the shell will read as the outcome: a byte before a utility is tried and
\* one when that failed.  It knows those of one utility, and takes more for invalid.
Outcomes == {"none", "overlaid", "failed", "invalid"}
Notifies(table) ==
  /\ "outcome" \in DOMAIN child.ends /\ child.ends["outcome"] > 2
  /\ table[child.ends["outcome"]] = End("outcome")
OutcomeAfter(table, replaced) ==
  IF ~ Notifies(table) THEN child.outcome
  ELSE IF child.outcome # "none" THEN "invalid"
  ELSE IF replaced THEN "overlaid" ELSE "failed"

\* The next command: a builtin borrows; exec keeps what it changed, also when
\* a redirection fails.  With a utility the evaluator is replaced, or goes on.
EvaluateCommand ==
  /\ child.phase = "running" /\ child.next <= Len(child.script.commands)
  /\ LET command == child.script.commands[child.next]
         redirects == command.redirects
     IN \E refused \in MayRefuse(redirects) :
          LET applied == ApplyRedirects(child.table, redirects, refused)
              tried == command.kind = "exec utility" /\ applied.ok
          IN \/ /\ command.kind = "builtin"
                /\ child' = [child EXCEPT !.next = @ + 1,
                                          !.table = Borrow(@, redirects, refused)]
             \/ /\ command.kind # "builtin"
                /\ \E replaced \in {FALSE, tried} :
                     child' = [child EXCEPT !.next = @ + 1, !.table = applied.table,
                                            !.dirty = @ \/ redirects # <<>>,
                                            !.outcome = IF tried
                                              THEN OutcomeAfter(applied.table, replaced) ELSE @,
                                            !.phase = IF replaced THEN "replaced" ELSE @]
  /\ UNCHANGED <<owner, held, told, launches, directs>>

EvaluatorDies ==
  /\ child.phase = "running" /\ child' = [child EXCEPT !.phase = "killed"]
  /\ UNCHANGED <<owner, held, told, launches, directs>>

\* For each recorded target, in order, what it refers to now.
SendDescriptors ==
  /\ child.phase = "running" /\ child.next > Len(child.script.commands)
  /\ child' = [child EXCEPT !.phase = IF child.dirty /\ Reaches("descriptors")
                                      THEN "sent" ELSE "over"]
  /\ UNCHANGED <<owner, held, told, launches, directs>>

------------------------------------------------------------------------------
(* The shell.                                                               *)

\* Every right that arrives gets the lowest number, as long as there is one.
ReceiveOne(state, fd, objects) ==
  LET spare == Spare(state.table, 0, {})
  IN IF fd \notin DOMAIN objects THEN state
     ELSE IF spare = {} THEN [state EXCEPT !.ok = FALSE]
     ELSE [state EXCEPT !.table[Min(spare)] = objects[fd], !.fds = With(@, fd, Min(spare))]
Ascending == [i \in 1..Limit |-> i - 1]
ReceiveRights(table, objects) ==
  Walk(LAMBDA s, i : ReceiveOne(s, Ascending[i], objects),
       [ok |-> TRUE, table |-> table, fds |-> <<>>], Limit)

Place(state, fd, rights) ==
  IF fd \notin DOMAIN rights THEN state ELSE [state EXCEPT !.table[fd] = state.table[rights[fd]]]
ApplyInPlace(table, rights, targets) ==
  LET placed == Walk(LAMBDA s, i : Place(s, Ascending[i], rights),
                     [ok |-> TRUE,
                      table |-> Close(table, targets \ (DOMAIN rights \cup RangeOf(rights)))],
                     Limit)
  IN [ok |-> TRUE, table |-> Close(placed.table, RangeOf(rights) \ targets)]

\* The rights stand aside of every target first, then each target gets its own.
ApplyCommit(table, rights, targets) ==
  LET aside == MoveAway(table, rights, Ascending, targets)
      placed == [fd \in Fds |->
                   IF fd \notin targets THEN aside.table[fd]
                   ELSE IF fd \in DOMAIN rights THEN aside.table[aside.fds[fd]]
                   ELSE Closed]
  IN [ok |-> aside.ok,
      table |-> Close(IF aside.ok THEN placed ELSE aside.table, RangeOf(aside.fds))]

\* Receive, protect, apply; what fails closes what was received.
ReceiveDescriptors(table, own) ==
  LET targets == Recorded(child.script)
      received == ReceiveRights(table, [fd \in {t \in targets : IsOpen(child.table, t)} |->
                                          child.table[fd]])
      safe == ProtectOwner(received.table, own, targets)
      applied == ApplyCommit(safe.table, received.fds, targets)
  IN IF ~ received.ok
     THEN [ok |-> FALSE, table |-> Close(received.table, RangeOf(received.fds)), held |-> own]
     ELSE IF ~ safe.ok
     THEN [ok |-> FALSE, table |-> Close(safe.table, RangeOf(received.fds)), held |-> safe.held]
     ELSE [ok |-> applied.ok, table |-> applied.table, held |-> safe.held]

\* The evaluator was reaped.  Its outcome is read, its descriptors received;
\* then the rest of the transaction is closed.  With the outcome of one utility
\* that replaced the evaluator the shell ends; one that is invalid gives 125.
FinishJob ==
  LET exec == {"outcome", "descriptors"}
      start == Close(owner, NumbersOf(held, exec))
      result == IF child.phase = "sent" THEN ReceiveDescriptors(start, Without(held, exec))
                ELSE [ok |-> TRUE, table |-> start, held |-> Without(held, exec)]
  IN /\ child.phase \in {"sent", "over", "killed", "replaced"} /\ told # "ended"
     /\ owner' = Close(result.table, NumbersOf(result.held, {"commit"}))
     /\ held' = Without(result.held, {"commit"})
     /\ told' = IF child.outcome = "overlaid" THEN "ended"
                ELSE IF ~ result.ok THEN "rejected"
                ELSE IF child.outcome = "invalid" THEN "failed"
                ELSE IF child.phase = "killed" THEN "killed" ELSE "done"
     /\ child' = NoChild
     /\ UNCHANGED <<launches, directs>>

\* Before the shell is replaced its worker ends; another one gets a pair of
\* sockets, and closes one, when the shell was not replaced after all.
WithoutWorker(state) ==
  [state EXCEPT !.table = Close(@, NumbersOf(state.held, {"worker"})),
                !.held = Without(@, {"worker"})]
WithWorker(state) ==
  LET spare == Spare(state.table, 0, {})
      low == Min(spare)
  IN IF spare = {} \/ spare = {low} THEN state
     ELSE [state EXCEPT !.table[low] = Own("worker"), !.held = With(@, "worker", low)]

\* The shell runs exec itself, also while a job is stopped.
RunExec(command) ==
  LET redirects == command.redirects
      now == [ok |-> TRUE, table |-> owner, held |-> held]
      safe == IF redirects = <<>> THEN now
              ELSE ProtectOwner(owner, held, Targets(redirects) \cup Sources(redirects))
  IN /\ command.kind # "builtin" /\ directs < MaxDirect /\ told # "ended"
     /\ \E refused \in MayRefuse(redirects), end \in {"rejected", "done", "ended"} :
          LET applied == ApplyRedirects(safe.table, redirects, refused)
              after == [safe EXCEPT !.table = applied.table]
              runs == command.kind = "exec utility" /\ applied.ok
              result == IF ~ safe.ok THEN safe
                        ELSE IF end = "ended" THEN WithoutWorker(after)
                        ELSE IF runs THEN WithWorker(WithoutWorker(after)) ELSE after
          IN /\ (end = "rejected") = ~ safe.ok
             /\ end = "ended" => runs
             /\ owner' = result.table /\ held' = result.held /\ told' = end
     /\ directs' = directs + 1 /\ UNCHANGED <<child, launches>>

\* Workers and jobs come and go meanwhile.
ReactorOpens(name) ==
  /\ name \notin DOMAIN held /\ Spare(owner, 0, {}) # {} /\ told # "ended"
  /\ LET fd == Min(Spare(owner, 0, {}))
     IN /\ owner' = [owner EXCEPT ![fd] = Own(name)]
        /\ held' = With(held, name, fd)
  /\ UNCHANGED <<child, told, launches, directs>>
ReactorCloses(name) ==
  /\ name \in DOMAIN held
  /\ owner' = Close(owner, {held[name]}) /\ held' = Without(held, {name})
  /\ UNCHANGED <<child, told, launches, directs>>

------------------------------------------------------------------------------
Init ==
  /\ owner \in Initial /\ child = NoChild /\ told = "done" /\ launches = 0 /\ directs = 0
  /\ held = [name \in {n \in Names : Own(n) \in RangeOf(owner)} |->
               CHOOSE fd \in Fds : owner[fd] = Own(name)]

Next ==
  \/ \E script \in Scripts : Launch(script)
  \/ EvaluateCommand \/ EvaluatorDies \/ SendDescriptors \/ FinishJob
  \/ \E command \in Commands : RunExec(command)
  \/ \E name \in Transient : ReactorOpens(name) \/ ReactorCloses(name)

Spec == Init /\ [][Next]_vars

------------------------------------------------------------------------------
\* Every number the reactor uses refers to what it means by it, and whatever in
\* the shell's table is not the user's is in use: nothing is taken over by a
\* redirection, and nothing of a transaction is left behind
\* (protect_exec_owner_descriptors, receive_exec_descriptor_commit).
ReactorKeepsItsOwn ==
  /\ \A name \in DOMAIN held : owner[held[name]] = Own(name)
  /\ \A fd \in Fds : owner[fd] \in Files \cup {Closed} \cup {Own(name) : name \in DOMAIN held}
  /\ \A fd \in Fds : owner[fd] \notin Files \cup {Closed} => fd \in RangeOf(held)

\* No redirection of the evaluator, kept or borrowed, reaches the channels it
\* reports through, and its outcome is not mistaken for a standard descriptor
\* (protect_exec_transaction_descriptors, notify_exec_outcome).
ChannelsAreKept ==
  child # NoChild =>
    \A channel \in DOMAIN child.ends :
      child.table[child.ends[channel]] = End(channel) /\ child.ends[channel] > 2

UserView(table) == [fd \in Fds |-> IF table[fd] \in Files THEN table[fd] ELSE Closed]
WorkOf ==
  CASE child.phase = "none" -> "idle" [] child.phase = "killed" -> "lost"
    [] child.phase = "replaced" -> "replaced" [] OTHER -> "working"
Session == INSTANCE DescriptorSession WITH
  Nothing <- Closed, user <- UserView(owner), work <- WorkOf,
  copy <- IF child = NoChild THEN UserView(owner) ELSE UserView(child.table),
  claimed <- IF child = NoChild THEN {} ELSE Claimed(child.script)

\* What exec promises: the descriptors its commands name are taken over as the
\* evaluator left them and no other changes, unless the user is told
\* (send_exec_descriptor_commit, apply_exec_descriptor_commit).
KeepsDescriptors == Session!SessionSpec
==============================================================================
