------------------------- MODULE ArithmeticExpansion -------------------------
(***************************************************************************)
(* $((...)): the bounded pushdown machine of native_plan.c, which parses   *)
(* and evaluates an expression in one pass over its tokens, and what it    *)
(* promises, a definition by recursion over the tree of the expression.    *)
(* Integers have Bits bits and every operation is checked before it is     *)
(* done, as in the code, where a signed overflow would be undefined.       *)
(***************************************************************************)
EXTENDS Integers, Sequences, SequencesExt, FiniteSets

CONSTANTS
  Bits,           \* sizeof(long) * CHAR_BIT
  Numerals,       \* the numerals, as a function to what they denote
  Variables,      \* the names of variables
  NestingCap,     \* the 32 levels of parentheses, conditions and assignments
  FrameCap        \* ARITHMETIC_FRAME_CAP

LongMax == 2 ^ (Bits - 1) - 1
LongMin == -(2 ^ (Bits - 1))
Long == LongMin..LongMax

\* What a variable holds: an integer, whatever its size, or one of these.
Unset == "unset"
Empty == "empty"
Holds(n) == [is |-> "integer", of |-> n]
Word(w) == [is |-> w, of |-> 0]

\* C's division truncates toward zero.
Abs(n) == IF n < 0 THEN -n ELSE n
Quotient(a, b) == IF (a < 0) = (b < 0) THEN Abs(a) \div Abs(b) ELSE -(Abs(a) \div Abs(b))
Remainder(a, b) == a - b * Quotient(a, b)

Bit(n, i) == (n \div 2 ^ i) % 2
Signed(bits) ==
  FoldLeft(LAMBDA n, i : n + (IF bits[i] = 1 THEN (IF i = Bits THEN LongMin ELSE 2 ^ (i - 1)) ELSE 0),
           0, [i \in 1..Bits |-> i])
Bitwise2(op(_, _), a, b) == Signed([i \in 1..Bits |-> op(Bit(a, i - 1), Bit(b, i - 1))])
BitAnd(a, b) == IF a = 1 /\ b = 1 THEN 1 ELSE 0
BitOr(a, b) == IF a = 1 \/ b = 1 THEN 1 ELSE 0
BitXor(a, b) == IF a # b THEN 1 ELSE 0
Truth(p) == IF p THEN 1 ELSE 0

------------------------------------------------------------------------------
(* The checked operations: TRUE when the code computes the result.          *)

AddFits(left, right) ==
  ~((right > 0 /\ left > LongMax - right) \/ (right < 0 /\ left < LongMin - right))
SubtractFits(left, right) ==
  ~((right > 0 /\ left < LongMin + right) \/ (right < 0 /\ left > LongMax + right))
MultiplyFits(left, right) ==
  \/ left = 0 \/ right = 0
  \/ /\ ~(left = LongMin /\ right = -1)
     /\ ~(right = LongMin /\ left = -1)
     /\ IF left > 0
        THEN ~((right > 0 /\ left > Quotient(LongMax, right))
               \/ (right < 0 /\ right < Quotient(LongMin, left)))
        ELSE ~((right > 0 /\ left < Quotient(LongMin, right))
               \/ (right < 0 /\ left < Quotient(LongMax, right)))
ShiftFits(operator, left, right) ==
  /\ right >= 0 /\ right < Bits
  /\ operator = "<<" => left >= 0 /\ left <= LongMax \div (2 ^ right)

Good(value) == [ok |-> TRUE, value |-> value, why |-> "none"]
Bad(why) == [ok |-> FALSE, value |-> 0, why |-> why]
Checked(fits, value, why) == IF fits THEN Good(value) ELSE Bad(why)

ApplyBinary(operator, left, right) ==
  CASE operator = "*" -> IF MultiplyFits(left, right) THEN Good(left * right) ELSE Bad("overflow")
    [] operator \in {"/", "%"} ->
         IF right = 0 THEN Bad("zero")
         ELSE IF left = LongMin /\ right = -1 THEN Bad("overflow")
         ELSE Good(IF operator = "/" THEN Quotient(left, right) ELSE Remainder(left, right))
    [] operator = "+" -> Checked(AddFits(left, right), left + right, "overflow")
    [] operator = "-" -> Checked(SubtractFits(left, right), left - right, "overflow")
    [] operator \in {"<<", ">>"} ->
         IF ~ShiftFits(operator, left, right) THEN Bad("shift")
         ELSE Good(IF operator = "<<" THEN left * 2 ^ right ELSE left \div 2 ^ right)
    [] operator = "<" -> Good(Truth(left < right))
    [] operator = "==" -> Good(Truth(left = right))
    [] operator = "&" -> Good(Bitwise2(BitAnd, left, right))
    [] operator = "^" -> Good(Bitwise2(BitXor, left, right))
    [] operator = "|" -> Good(Bitwise2(BitOr, left, right))
    [] operator = "&&" -> Good(Truth(left # 0 /\ right # 0))
    [] operator = "||" -> Good(Truth(left # 0 \/ right # 0))

ApplyUnary(operator, value) ==
  CASE operator = "-" -> Checked(value # LongMin, -value, "overflow")
    [] operator = "!" -> Good(Truth(value = 0))
    [] operator = "~" -> Good(-value - 1)
    [] operator = "+" -> Good(value)

\* x op= y, by the operator op; "=" alone stores the right side.
AssignmentOperators == {"=", "*=", "/=", "+=", "-=", "<<="}
Plain(operator) ==
  CASE operator = "*=" -> "*" [] operator = "/=" -> "/" [] operator = "+=" -> "+"
    [] operator = "-=" -> "-" [] operator = "<<=" -> "<<"
ApplyAssignment(operator, left, right) ==
  IF operator = "=" THEN Good(right) ELSE ApplyBinary(Plain(operator), left, right)

\* The value of a name.  An unset one is 0, or an error under set -u.
ReadVariable(vars, name, nounset) ==
  CASE vars[name].is = Unset -> IF nounset THEN Bad("unset") ELSE Good(0)
    [] vars[name].is = Empty -> Good(0)
    [] vars[name].is = "integer" -> Checked(vars[name].of \in Long, vars[name].of, "value")
    [] OTHER -> Bad("value")

------------------------------------------------------------------------------
(* The machine.  A frame asks for the value of the next level by pushing a  *)
(* frame of it and takes the value when it is on top again.                 *)

Levels == <<"comma", "assignment", "conditional", "||", "&&", "|", "^", "&", "equality",
            "relational", "shift", "add", "multiply", "unary", "primary">>
Below(level) == Levels[1 + CHOOSE i \in 1..Len(Levels) - 1 : Levels[i] = level]
Binary(level) ==
  CASE level = "equality" -> {"=="} [] level = "relational" -> {"<"}
    [] level = "shift" -> {"<<", ">>"} [] level = "add" -> {"+", "-"}
    [] level = "multiply" -> {"*", "/", "%"} [] OTHER -> {level}

NewFrame(kind, evaluate) ==
  [kind |-> kind, phase |-> 0, evaluate |-> evaluate, condition |-> FALSE, value |-> 0,
   saved |-> 0, operator |-> "none", name |-> "none", left |-> 0]

End == "end"
Peek(m) == IF m.offset <= Len(m.tokens) THEN m.tokens[m.offset] ELSE End
Skip(m, n) == [m EXCEPT !.offset = @ + n]
Failed(m, why) == [m EXCEPT !.failed = TRUE, !.why = why]
Push(m, frame, kind, evaluate) ==
  IF Len(m.frames) = FrameCap THEN Failed(m, "limit")
  ELSE [m EXCEPT !.frames = Append(Append(Front(@), frame), NewFrame(kind, evaluate)),
                 !.returned = FALSE]
Complete(m, value) ==
  [m EXCEPT !.frames = Front(@), !.value = value, !.returned = TRUE]
Result(frame, value) == IF frame.evaluate THEN value ELSE 0

\* (x) = 1 assigns as well: the target may be in parentheses.
Target(m) ==
  LET rest == SubSeq(m.tokens, m.offset, Len(m.tokens))
      opening == CHOOSE n \in 0..Len(rest) :
                   /\ \A i \in 1..n : rest[i] = "("
                   /\ n = Len(rest) \/ rest[n + 1] # "("
      at == opening + 1
      close == at + opening
  IN IF /\ m.nesting + opening <= NestingCap
        /\ Len(rest) > close
        /\ rest[at] \in Variables
        /\ \A i \in at + 1..close : rest[i] = ")"
        /\ rest[close + 1] \in AssignmentOperators
     THEN [found |-> TRUE, name |-> rest[at], operator |-> rest[close + 1],
           length |-> close + 1]
     ELSE [found |-> FALSE, name |-> "none", operator |-> "none", length |-> 0]

StepComma(m, f) ==
  IF f.phase = 0 THEN Push(m, [f EXCEPT !.phase = 1], "assignment", f.evaluate)
  ELSE IF Peek(m) = "," THEN Push(Skip(m, 1), f, "assignment", f.evaluate)
  ELSE Complete(m, Result(f, m.value))

FinishAssignment(m, f, result) ==
  CASE ~f.evaluate -> Complete(m, 0)
    [] f.evaluate /\ ~result.ok -> Failed(m, result.why)
    [] OTHER -> Complete([m EXCEPT !.vars[f.name] = Holds(result.value)], result.value)
StepAssignment(m, f) ==
  LET target == Target(m)
      left == IF f.evaluate /\ target.found /\ target.operator # "="
              THEN ReadVariable(m.vars, target.name, m.nounset) ELSE Good(0)
  IN CASE f.phase = 0 /\ ~target.found ->
            Push(m, [f EXCEPT !.phase = 2], "conditional", f.evaluate)
       [] f.phase = 0 /\ target.found ->
            IF m.nesting = NestingCap THEN Failed(m, "limit")
            ELSE IF ~left.ok THEN Failed(m, left.why)
            ELSE Push([Skip(m, target.length) EXCEPT !.nesting = @ + 1],
                      [f EXCEPT !.phase = 1, !.name = target.name,
                                !.operator = target.operator, !.left = left.value],
                      "assignment", f.evaluate)
       [] f.phase = 1 ->
            FinishAssignment([m EXCEPT !.nesting = @ - 1], f,
                             ApplyAssignment(f.operator, f.left, m.value))
       [] OTHER -> Complete(m, Result(f, m.value))

StepConditional(m, f) ==
  LET condition == f.evaluate /\ m.value # 0
  IN CASE f.phase = 0 -> Push(m, [f EXCEPT !.phase = 1], "||", f.evaluate)
       [] f.phase = 1 /\ Peek(m) # "?" -> Complete(m, Result(f, m.value))
       [] f.phase = 1 /\ Peek(m) = "?" ->
            IF m.nesting = NestingCap THEN Failed(m, "limit")
            ELSE Push([Skip(m, 1) EXCEPT !.nesting = @ + 1],
                      [f EXCEPT !.phase = 2, !.condition = condition], "comma", condition)
       [] f.phase = 2 ->
            IF Peek(m) # ":" THEN Failed(m, "invalid")
            ELSE Push(Skip(m, 1), [f EXCEPT !.phase = 3, !.saved = m.value], "conditional",
                      f.evaluate /\ ~f.condition)
       [] OTHER ->
            Complete([m EXCEPT !.nesting = @ - 1],
                     Result(f, IF f.condition THEN f.saved ELSE m.value))

\* The left side of && and || decides, and the right side is only parsed.
\* MUTANT: it is evaluated all the same.
NeverDecided(operator, value) == FALSE
Decided(operator, value) ==
  \/ operator = "&&" /\ value = 0
  \/ operator = "||" /\ value # 0

ExtendBinary(m, f, applied) ==
  CASE ~applied.ok -> Failed(m, applied.why)
    [] applied.ok /\ Peek(m) \notin Binary(f.kind) -> Complete(m, Result(f, applied.value))
    [] OTHER ->
         Push(Skip(m, 1), [f EXCEPT !.phase = 2, !.operator = Peek(m), !.value = applied.value],
              Below(f.kind), f.evaluate /\ ~Decided(Peek(m), applied.value))
StepBinary(m, f) ==
  IF f.phase = 0 THEN Push(m, [f EXCEPT !.phase = 1], Below(f.kind), f.evaluate)
  ELSE ExtendBinary(m, f, IF f.phase = 2 /\ f.evaluate THEN ApplyBinary(f.operator, f.value, m.value)
                          ELSE Good(IF f.phase = 1 THEN m.value ELSE f.value))

StepUnary(m, f) ==
  LET applied == IF f.phase = 1 /\ f.evaluate THEN ApplyUnary(f.operator, m.value)
                 ELSE Good(m.value)
  IN CASE f.phase = 0 /\ Peek(m) \in {"+", "-", "!", "~"} ->
            Push(Skip(m, 1), [f EXCEPT !.phase = 1, !.operator = Peek(m)], "unary", f.evaluate)
       [] f.phase = 0 /\ Peek(m) \notin {"+", "-", "!", "~"} ->
            Push(m, [f EXCEPT !.phase = 2], "primary", f.evaluate)
       [] OTHER -> IF applied.ok THEN Complete(m, Result(f, applied.value))
                   ELSE Failed(m, applied.why)

Atom(m, evaluate) ==
  CASE Peek(m) \in DOMAIN Numerals ->
         Checked(Numerals[Peek(m)] <= LongMax, Numerals[Peek(m)], "constant")
    [] Peek(m) \in Variables ->
         IF evaluate THEN ReadVariable(m.vars, Peek(m), m.nounset) ELSE Good(0)
    [] OTHER -> Bad("invalid")

StepPrimary(m, f) ==
  LET atom == Atom(m, f.evaluate)
  IN CASE f.phase = 0 /\ Peek(m) = "(" ->
            IF m.nesting = NestingCap THEN Failed(m, "limit")
            ELSE Push([Skip(m, 1) EXCEPT !.nesting = @ + 1], [f EXCEPT !.phase = 1],
                      "comma", f.evaluate)
       [] f.phase = 0 /\ Peek(m) # "(" ->
            IF atom.ok THEN Complete(Skip(m, 1), Result(f, atom.value))
            ELSE Failed(m, atom.why)
       [] OTHER -> IF Peek(m) = ")" THEN Complete([Skip(m, 1) EXCEPT !.nesting = @ - 1], m.value)
                   ELSE Failed(m, "invalid")

MachineStep(m) ==
  LET f == Last(m.frames)
  IN CASE f.kind = "comma" -> StepComma(m, f)
       [] f.kind = "assignment" -> StepAssignment(m, f)
       [] f.kind = "conditional" -> StepConditional(m, f)
       [] f.kind = "unary" -> StepUnary(m, f)
       [] f.kind = "primary" -> StepPrimary(m, f)
       [] OTHER -> StepBinary(m, f)

RECURSIVE RunMachine(_)
RunMachine(m) == IF m.frames = <<>> \/ m.failed THEN m ELSE RunMachine(MachineStep(m))

\* A pass that only looks ahead (deferred) lets an invalid expression be 0.
Verdict(end, deferred) ==
  LET why == IF ~end.failed /\ Peek(end) # End THEN "invalid" ELSE end.why
      lenient == deferred /\ why \notin {"limit", "unset"}
  IN [status |-> IF why = "none" \/ lenient THEN "ok" ELSE "error",
      value |-> IF why = "none" THEN end.value ELSE 0, vars |-> end.vars, why |-> why]
Evaluate(tokens, vars, nounset, deferred) ==
  Verdict(RunMachine([tokens |-> tokens, offset |-> 1, frames |-> <<NewFrame("comma", TRUE)>>,
                      value |-> 0, returned |-> FALSE, nesting |-> 0, vars |-> vars,
                      nounset |-> nounset, failed |-> FALSE, why |-> "none"]), deferred)

------------------------------------------------------------------------------
(* The promise: the tree of an expression and its value.                    *)

RECURSIVE Text(_, _)
Rank(level) == CHOOSE i \in DOMAIN Levels : Levels[i] = level
LevelOf(tree) ==
  CASE tree.is = "binary" -> CHOOSE l \in {Levels[i] : i \in 4..13} : tree.operator \in Binary(l)
    [] tree.is \in {"numeral", "variable"} -> "primary"
    [] OTHER -> tree.is

\* The tokens of a tree in the place of an operand of a level.
Text(tree, level) ==
  LET l == LevelOf(tree)
      tokens ==
        CASE tree.is \in {"numeral", "variable"} -> <<tree.name>>
          [] tree.is = "unary" -> <<tree.operator>> \o Text(tree.left, "unary")
          [] tree.is = "binary" -> Text(tree.left, l) \o <<tree.operator>> \o Text(tree.right, Below(l))
          [] tree.is = "assignment" ->
               (IF tree.wrapped THEN <<"(", tree.name, ")">> ELSE <<tree.name>>)
               \o <<tree.operator>> \o Text(tree.left, "assignment")
          [] tree.is = "conditional" ->
               Text(tree.left, "||") \o <<"?">> \o Text(tree.right, "comma")
               \o <<":">> \o Text(tree.third, "conditional")
          [] tree.is = "comma" -> Text(tree.left, "comma") \o <<",">> \o Text(tree.right, "assignment")
  IN IF Rank(l) < Rank(level) THEN <<"(">> \o tokens \o <<")">> ELSE tokens

Fits(n, why) == IF n \in Long THEN Good(n) ELSE Bad(why)
Exact(operator, a, b) ==
  CASE operator = "*" -> Fits(a * b, "overflow")
    [] operator = "+" -> Fits(a + b, "overflow")
    [] operator = "-" -> Fits(a - b, "overflow")
    [] operator = "/" -> IF b = 0 THEN Bad("zero") ELSE Fits(Quotient(a, b), "overflow")
    [] operator = "<<" -> IF a < 0 \/ b \notin 0..Bits - 1 \/ a * 2 ^ b > LongMax THEN Bad("shift")
                          ELSE Good(a * 2 ^ b)
    [] OTHER -> ApplyBinary(operator, a, b)

RECURSIVE Meaning(_, _, _)
\* Operands from left to right; a failure keeps the assignments before it.
Meaning(tree, vars, nounset) ==
  LET In(r, v) == [ok |-> r.ok, value |-> r.value, why |-> r.why, vars |-> v]
      left == Meaning(tree.left, vars, nounset)
      right == Meaning(tree.right, left.vars, nounset)
      old == IF tree.operator = "=" THEN Good(0) ELSE ReadVariable(vars, tree.name, nounset)
      new == IF tree.operator = "=" THEN Good(left.value)
             ELSE Exact(Plain(tree.operator), old.value, left.value)
      skip == \/ tree.operator = "&&" /\ left.value = 0
              \/ tree.operator = "||" /\ left.value # 0
  IN CASE tree.is = "numeral" -> In(Fits(Numerals[tree.name], "constant"), vars)
       [] tree.is = "variable" -> In(ReadVariable(vars, tree.name, nounset), vars)
       [] tree.is = "unary" ->
            IF ~left.ok THEN left
            ELSE In(CASE tree.operator = "-" -> Fits(-left.value, "overflow")
                      [] OTHER -> ApplyUnary(tree.operator, left.value), left.vars)
       [] tree.is = "binary" ->
            IF ~left.ok THEN left
            ELSE IF skip THEN In(Good(Truth(left.value # 0)), left.vars)
            ELSE IF ~right.ok THEN right
            ELSE In(Exact(tree.operator, left.value, right.value), right.vars)
       [] tree.is = "assignment" ->
            IF ~old.ok THEN In(old, vars)
            ELSE IF ~left.ok THEN left
            ELSE In(new, IF new.ok THEN [left.vars EXCEPT ![tree.name] = Holds(new.value)]
                         ELSE left.vars)
       [] tree.is = "conditional" ->
            IF ~left.ok THEN left
            ELSE IF left.value # 0 THEN right ELSE Meaning(tree.third, left.vars, nounset)
       [] tree.is = "comma" -> IF ~left.ok THEN left ELSE right

=============================================================================
