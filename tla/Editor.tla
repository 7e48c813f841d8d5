------------------------------- MODULE Editor -------------------------------
(***************************************************************************)
(* The editor with its completion worker, and a job that may take the      *)
(* keyboard (gsh.c).  Tab forks a worker with the line as it is; its       *)
(* answer is taken when it has been reaped, if nothing changed since.      *)
(***************************************************************************)
EXTENDS Completion, LineEditor

CONSTANTS
  Keys, Pastes,                \* what is typed, as bytes; the bytes of a paste
  AfterEscape,                 \* what follows an escape at once
  FocusWithin,                 \* a job may take the keyboard within the bytes of a key
  Histories, Lines,            \* commands recorded, and lines typed, at the start
  KeysMax, EventsMax,          \* bounds of the keys, and of the commands recorded
  Directories, Generations,    \* where the shell is, and what it knows there
  Knowledge(_, _),
  Questions                    \* lines that are completed in one step

VARIABLES
  part,         \* a behaviour is of the editor, or one question
  editor,
  incoming,     \* the bytes of the key that have not been read
  typed,        \* the number of keys
  focused,      \* a job has the keyboard
  place,        \* directory and generation of the shell
  request,      \* the completion that is waited for
  cycle,        \* the line whose candidates Tab goes through
  child,        \* the worker
  pasting       \* the line around the paste and its bytes, for the promise
vars == <<part, editor, incoming, typed, focused, place, request, cycle, child, pasting>>

NoRequest == [on |-> FALSE]
NoCycle == [active |-> FALSE]
NoChild == [at |-> "none", answer |-> <<>>]
NoPaste == [before |-> NoLine, after |-> NoLine, bytes |-> <<>>]
Known == Knowledge(place.directory, place.generation)

RECURSIVE Recorded(_)
Recorded(commands) ==
  IF commands = <<>> THEN EmptyRing ELSE Add(Recorded(Front(commands)), Last(commands), TRUE)
Init ==
  /\ part \in {"question", "editor"}
  /\ incoming = <<>> /\ typed = 0 /\ focused = FALSE
  /\ place \in (IF part = "question" THEN [directory : Directories, generation : Generations]
                ELSE {[directory |-> CHOOSE d \in Directories : TRUE, generation |-> 0]})
  /\ \E history \in (IF part = "question" THEN {<<>>} ELSE Histories),
        line \in (IF part = "question" THEN Questions ELSE Lines) :
       \E at \in {i \in 0..Len(line) : i = Len(line) \/ line[i + 1] # More} :
         editor = [FreshEditor EXCEPT !.ring = Recorded(history), !.line = line, !.cursor = at]
  /\ request = NoRequest /\ cycle = NoCycle /\ child = NoChild /\ pasting = NoPaste

------------------------------------------------------------------------------
(* Bytes. *)

Killed == [at |-> IF child.at = "running" THEN "exited" ELSE child.at, answer |-> <<>>]

Type ==
  /\ incoming = <<>> /\ typed < KeysMax /\ editor.does = "nothing"
  /\ \E key \in (IF editor.escape = 0 THEN Keys \cup Pastes ELSE AfterEscape) : incoming' = key
  /\ typed' = typed + 1
  /\ UNCHANGED <<editor, focused, place, request, cycle, child, pasting>>

\* Every byte but a Tab ends a completion, also one that goes to a job.
ProcessInput ==
  LET byte == Head(incoming)
      ends == byte # "tab" \/ focused
  IN /\ incoming # <<>> /\ editor.does = "nothing"
     /\ incoming' = Tail(incoming)
     /\ request' = (IF ends THEN NoRequest ELSE request)
     /\ cycle' = (IF ends THEN NoCycle ELSE cycle)
     /\ child' = IF ends /\ request.on THEN Killed ELSE child
     /\ editor' = IF focused THEN editor ELSE ProcessByte(editor, byte)
     /\ pasting' = IF focused \/ ~(editor'.paste \/ editor.paste) THEN pasting
                   ELSE IF ~editor.paste
                   THEN [before |-> SubSeq(editor.line, 1, editor.cursor), bytes |-> <<>>,
                         after |-> SubSeq(editor.line, editor.cursor + 1, Len(editor.line))]
                   ELSE [pasting EXCEPT !.bytes = Append(@, byte)]
     /\ UNCHANGED <<typed, focused, place>>

Submit ==
  /\ editor.does = "submit" /\ editor.ring.nextEvent <= EventsMax
  /\ \E accepted \in BOOLEAN : editor' = Submitted(editor, accepted)
  /\ UNCHANGED <<incoming, typed, focused, place, request, cycle, child, pasting>>

\* The bytes of a sequence come at once; an escape alone is followed by silence.
CompletePendingEscapes ==
  /\ editor.escape = 1 /\ incoming = <<>>
  /\ editor' = EscapeAlone(editor)
  /\ UNCHANGED <<incoming, typed, focused, place, request, cycle, child, pasting>>

\* A job that asks for private input takes the keyboard between two turns.
Autofocus ==
  /\ ~focused /\ focused' = TRUE /\ (FocusWithin \/ incoming = <<>>)
  /\ UNCHANGED <<editor, incoming, typed, place, request, cycle, child, pasting>>
Unfocus ==
  /\ focused /\ focused' = FALSE /\ (FocusWithin \/ incoming = <<>>)
  /\ UNCHANGED <<editor, incoming, typed, place, request, cycle, child, pasting>>

\* A command that ends may have changed the directory, or the variables,
\* aliases and functions.
StateChanges ==
  /\ \/ \E d \in Directories \ {place.directory} : place' = [place EXCEPT !.directory = d]
     \/ /\ place.generation + 1 \in Generations
        /\ place' = [place EXCEPT !.generation = @ + 1]
  /\ UNCHANGED <<editor, incoming, typed, focused, request, cycle, child, pasting>>

------------------------------------------------------------------------------
(* The completion. *)

\* The line of the cycle is asked for while there is one.
PrepareQuery ==
  [on |-> TRUE, line |-> editor.line, cursor |-> editor.cursor, place |-> place,
   query |-> IF cycle.active THEN cycle.line ELSE editor.line,
   queryCursor |-> IF cycle.active THEN cycle.cursor ELSE editor.cursor,
   selection |-> IF cycle.active THEN cycle.next ELSE Menu]
\* The fork may fail; a worker that was killed is waited for first.
StartCompletion ==
  /\ editor.does = "complete" /\ editor' = Does(editor, "nothing")
  /\ IF request.on \/ child.at # "none" THEN UNCHANGED <<request, child>>
     ELSE \/ request' = PrepareQuery /\ child' = [at |-> "running", answer |-> <<>>]
          \/ UNCHANGED <<request, child>>
  /\ UNCHANGED <<incoming, typed, focused, place, cycle, pasting>>

\* The worker answers and ends, or ends without an answer.
ChildAnswers ==
  /\ child.at = "running" /\ request.on
  /\ \/ child' = [at |-> "exited", answer |-> <<Generate(request.query, request.queryCursor,
           request.selection, Knowledge(request.place.directory, request.place.generation))>>]
     \/ child' = [at |-> "exited", answer |-> <<>>]
  /\ UNCHANGED <<editor, incoming, typed, focused, place, request, cycle, pasting>>
ReapCompletion ==
  /\ child.at = "exited" /\ child' = [child EXCEPT !.at = "none"]
  /\ UNCHANGED <<editor, incoming, typed, focused, place, request, cycle, pasting>>

\* MUTANT: the directory is not compared.
LineIsCurrent(r) == r.line = editor.line /\ r.cursor = editor.cursor
ContextIsCurrent(r) ==
  r.line = editor.line /\ r.cursor = editor.cursor /\ r.place = place
Substituted(line, begin, end, text) ==
  SubSeq(line, 1, begin) \o text \o SubSeq(line, end + 1, Len(line))
ReplaceText(begin, end, text) ==
  [editor EXCEPT !.line = Substituted(@, begin, end, text), !.cursor = begin + Len(text)]
Fits(begin, end, text) ==
  end <= Len(editor.line) /\ Len(Substituted(editor.line, begin, end, text)) < LineCap
NewEnd(answer) == cycle.begin + Len(answer.text)
\* An answer that cannot be applied ends the cycle.
Applied(answer) ==
  CASE answer.status = "menu" ->
         [editor |-> editor, cycle |->
           [active |-> TRUE, line |-> request.query, cursor |-> request.queryCursor,
            begin |-> answer.begin, end |-> answer.end, next |-> 0]]
    [] answer.status = "cycle" /\ cycle.active /\ Fits(cycle.begin, cycle.end, answer.text) ->
         [editor |-> ReplaceText(cycle.begin, cycle.end, answer.text), cycle |->
           [cycle EXCEPT !.end = NewEnd(answer), !.next = (answer.selected + 1) % answer.count]]
    [] answer.status = "edit" /\ Fits(answer.begin, answer.end, answer.text) ->
         [editor |-> ReplaceText(answer.begin, answer.end, answer.text), cycle |-> NoCycle]
    [] OTHER -> [editor |-> editor, cycle |-> NoCycle]
Becomes(applied) == editor' = applied.editor /\ cycle' = applied.cycle
\* An answer is taken when its worker was reaped; without one, when it ended.
ReceiveCompletion ==
  /\ request.on /\ editor.does = "nothing"
  /\ child.at = "none" \/ (child.at = "exited" /\ child.answer = <<>>)
  /\ Becomes(IF child.answer # <<>> /\ ContextIsCurrent(request) THEN Applied(child.answer[1])
             ELSE [editor |-> editor, cycle |-> NoCycle])
  /\ request' = NoRequest /\ child' = [child EXCEPT !.answer = <<>>]
  /\ UNCHANGED <<incoming, typed, focused, place, pasting>>
ExpireCompletion ==
  /\ request.on /\ request' = NoRequest /\ cycle' = NoCycle
  /\ child' = Killed
  /\ UNCHANGED <<editor, incoming, typed, focused, place, pasting>>

Next ==
  /\ part = "editor" /\ UNCHANGED part
  /\ \/ Type \/ ProcessInput \/ Submit \/ CompletePendingEscapes \/ Autofocus \/ Unfocus
     \/ StateChanges \/ StartCompletion \/ ChildAnswers \/ ReapCompletion
     \/ ReceiveCompletion \/ ExpireCompletion
Spec == Init /\ [][Next]_vars

------------------------------------------------------------------------------
(* The promises. *)

\* How a shell reads the line up to the cursor: the words of the last command.
RECURSIVE WordLength(_), Reading(_, _)
WordLength(text) ==
  IF text = NoText \/ Head(text) \in Boundaries THEN 0
  ELSE IF Head(text) = Backslash /\ Len(text) > 1 THEN 2 + WordLength(SubSeq(text, 3, Len(text)))
  ELSE 1 + WordLength(Tail(text))
Reading(text, words) ==
  LET n == WordLength(text)
      word == SubSeq(text, 1, n)
      rest == SubSeq(text, n + 2, Len(text))
  IN IF n = Len(text) THEN Append(words, word)
     ELSE Reading(rest, IF text[n + 1] \in Separators THEN <<>>
                        ELSE IF word = NoText THEN words ELSE Append(words, word))
Words(line, cursor) == Reading(SubSeq(line, 1, cursor), <<>>)
\* Words that begin with a backslash, and quoted names of commands, are not read
\* as a shell does.
ReadAlike(line, cursor, words) ==
  /\ \A i \in 1..cursor : line[i] = Backslash => i > 1 /\ line[i - 1] \notin Boundaries
  /\ \A i \in 1..Len(words) - 1 : Range(words[i]) \cap Quoting = {}
  /\ Range(Last(words)) \cap Quoting = {}
  /\ Last(words) = NoText \/ Last(Last(words)) # Backslash
  /\ ~LocateVariable(line, cursor).found
CommandWords(words) ==
  LET name == {i \in 1..Len(words) - 1 : ~IsAssignment(words[i])}
  IN IF name = {} THEN <<>> ELSE SubSeq(words, Min(name), Len(words) - 1)
MeantBy(command, word) ==
  [prefix |-> Unescaped(word), variable |-> FALSE, command |-> command = <<>>,
   name |-> IF command = <<>> THEN NoText ELSE Unescaped(Head(command)),
   argument |-> Len(command)]
Meant(words) == MeantBy(CommandWords(words), Last(words))

\* A completion extends the word at the cursor as a shell reads it, for a candidate
\* that has its place (README.md:295): as far as all go on alike, or to its end; and
\* the cycle goes through all of them in their order (README.md:299).
After(line, r) == Words(Substituted(line, r.begin, r.end, r.text), r.begin + Len(r.text))
Chosen(before, after, candidates) ==
  \E c \in candidates : Unescaped(Last(after)) = c.text
     \/ (Last(after) = NoText /\ Unescaped(after[Len(before)]) = c.text)
     \/ (c.directory /\ Unescaped(Last(after)) = Append(c.text, "/"))
MenuIsRight(line, words, candidates, r) ==
  /\ (r.status = "none") <=> (candidates = {})
  /\ r.status = "menu" => Cardinality(candidates) > 1
  /\ r.status = "edit" =>
       IF Cardinality(candidates) = 1 THEN Chosen(words, After(line, r), candidates)
       ELSE LET common == Common(candidates)
            IN /\ Unescaped(Last(After(line, r))) = common
               /\ Len(common) > Len(Unescaped(Last(words)))
CandidateIsRight(line, words, candidate, r) ==
  r.status = "cycle" /\ Chosen(words, After(line, r), {candidate})
AnswersAreRight(line, cursor, words, candidates) ==
  /\ MenuIsRight(line, words, candidates, Generate(line, cursor, Menu, Known))
  /\ \A k \in 1..Cardinality(candidates) :
       CandidateIsRight(line, words, Sorted(candidates)[k], Generate(line, cursor, k - 1, Known))
WordIsCompleted(line, cursor, words) ==
  ReadAlike(line, cursor, words) =>
    AnswersAreRight(line, cursor, words, Candidates(Meant(words), Known))

\* While Tab goes through candidates, the line is the one it began with, or has
\* the candidate before the next one in the place of its word (README.md:299).
IsShown(k, r) ==
  /\ editor.line = Substituted(cycle.line, r.begin, r.end, r.text)
  /\ editor.cursor = r.begin + Len(r.text) /\ cycle.end = editor.cursor
  /\ k < r.count /\ cycle.next = (k + 1) % r.count
CycleShowsACandidate ==
  cycle.active =>
    \/ cycle.next = 0 /\ editor.line = cycle.line /\ editor.cursor = cycle.cursor
    \/ \E d \in Directories, g \in Generations, k \in 0..7 :
         IsShown(k, Generate(cycle.line, cycle.cursor, k, Knowledge(d, g)))

\* Completion splits the line as the shell does and offers every word that may
\* stand at the cursor, and no other (completion.c:128); a cycle shows them in turn.
CompletionIsTheWords ==
  /\ part = "question" => WordIsCompleted(editor.line, editor.cursor, Words(editor.line, editor.cursor))
  /\ CycleShowsACandidate

\* What a worker found is put into the line only as long as it is what the shell
\* would find now: stale results are discarded (README.md:301).
IsPut(r, line) ==
  r.status \in {"edit", "cycle"} /\ line = Substituted(request.query, r.begin, r.end, r.text)
FoundNow(line) ==
  \E selection \in -1..7 :
    IsPut(Generate(request.query, request.queryCursor, selection, Known), line)
AnswersAreCurrent ==
  [][request.on /\ ~request'.on /\ incoming' = incoming /\ editor'.line # editor.line
       => FoundNow(editor'.line)]_vars

\* A paste preserves every line until Enter (README.md:293): what came so far
\* stands in the line, each line end once, and is not executed; the bytes that may
\* become the end of the paste are held back.
RECURSIVE LineEnds(_)
LineEnds(bytes) ==
  IF bytes = <<>> THEN <<>>
  ELSE IF Head(bytes) = "return" /\ Len(bytes) > 1 /\ bytes[2] = "newline"
  THEN <<"newline">> \o LineEnds(SubSeq(bytes, 3, Len(bytes)))
  ELSE <<IF Head(bytes) = "return" THEN "newline" ELSE Head(bytes)>> \o LineEnds(Tail(bytes))
Held(bytes) ==
  Max({n \in 0..Min({Len(bytes), Len(PasteEnd) - 1}) :
         SubSeq(bytes, Len(bytes) - n + 1, Len(bytes)) = SubSeq(PasteEnd, 1, n)})
Kept(bytes, room) ==
  LET whole == SubSeq(bytes, 1, Len(bytes) - Held(bytes))
      text == SelectSeq(LineEnds(whole), LAMBDA b : Printable(b) \/ b = "newline")
  IN SubSeq(text, 1, Min({room, Len(text)}))
PasteIsKept ==
  editor.paste =>
    LET around == Len(pasting.before) + Len(pasting.after)
        text == Kept(pasting.bytes, LineCap - 1 - around)
    IN /\ editor.line = pasting.before \o text \o pasting.after
       /\ editor.cursor = Len(pasting.before) + Len(text)

\* Below the cap characters stay whole, and the cursor between them (README.md:290),
\* when a key is through.
Whole(text) ==
  \A i \in 1..Len(text) + 1 :
    (i <= Len(text) /\ text[i] = More) <=> (i > 1 /\ text[i - 1] = Lead)
CharactersAreWhole ==
  incoming = <<>> /\ Len(editor.line) < LineCap - 1 =>
    /\ Whole(editor.line) /\ Whole(editor.query)
    /\ Whole(SubSeq(editor.line, 1, editor.cursor))

\* A paste that is through is over: Enter submits (README.md:294).
PasteEnds == incoming = <<>> /\ ~focused => ~editor.paste

\* The line holds what was typed and pasted, in whole characters, and Enter
\* submits it once no paste is open (gsh.c:12255).
LineIsWhatWasTyped == PasteIsKept /\ PasteEnds /\ CharactersAreWhole

=============================================================================
