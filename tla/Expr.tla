-------------------------------- MODULE Expr --------------------------------
(***************************************************************************)
(* The formulas of sensors3.conf (hardinfo/expr.c): a text is cut into     *)
(* tokens, these are put in postfix order with a stack of operators, and   *)
(* evaluated with a stack of values.  A value is the term it comes from:   *)
(* what is computed in which order is all that matters of it.              *)
(***************************************************************************)
EXTENDS Integers, Sequences, SequencesExt

CONSTANTS
  Formulas,   \* what a formula may be: [text |-> its characters, a number being one, means |-> its term or None]
  Operators,  \* "^", "*", "/", "+", "-"
  Numbers,
  None

VARIABLES
  formula,
  at,       \* the characters read
  infix,
  stack,    \* of the operators, and later of the values; the top is the last
  postfix,
  pc
vars == <<formula, at, infix, stack, postfix, pc>>

Init ==
  /\ formula \in Formulas
  /\ at = 0 /\ infix = <<>> /\ stack = <<>> /\ postfix = <<>> /\ pc = "read"

(* math_string_to_infix(): a number goes on while digits follow, or minus    *)
(* signs, and is what comes before the first of these.                       *)
Symbols == Operators \cup {"(", ")"}
Char(i) == formula.text[i]
EndOfNumber == CHOOSE n \in (at + 1) .. Len(formula.text) :
  /\ \A i \in (at + 2) .. n : Char(i) \in Numbers \cup {"-"}
  /\ n < Len(formula.text) => Char(n + 1) \notin Numbers \cup {"-"}

ReadToken ==
  /\ pc = "read" /\ at < Len(formula.text)
  /\ LET c == Char(at + 1) IN
       \/ c \in Symbols \cup {"@"} /\ infix' = Append(infix, c) /\ at' = at + 1
       \/ c \in Numbers /\ infix' = Append(infix, c) /\ at' = EndOfNumber
       \/ c = " " /\ at' = at + 1 /\ UNCHANGED infix
  /\ UNCHANGED <<formula, stack, postfix, pc>>

Invalid ==
  /\ pc = "read" /\ at < Len(formula.text)
  /\ Char(at + 1) \notin Symbols \cup Numbers \cup {"@", " "}
  /\ infix' = <<>> /\ pc' = "none"
  /\ UNCHANGED <<formula, at, stack, postfix>>

AllRead ==
  /\ pc = "read" /\ at = Len(formula.text)
  /\ pc' = "order"
  /\ UNCHANGED <<formula, at, infix, stack, postfix>>

Priority(op) == CASE op = "^" -> 3
                  [] op \in {"*", "/"} -> 2
                  [] op \in {"+", "-"} -> 1
                  [] op \in {"(", ")"} -> 0

(* math_infix_to_postfix(): how many of the operators on the stack come off. *)
(* A ")" that closes nothing takes off what is below the stack.              *)
Depths == 1 .. Len(stack)
ToPop(staying) ==
  Len(stack) - (IF staying = {} THEN 0 ELSE CHOOSE n \in staying : \A m \in staying : m <= n)
Pop(n) == postfix \o Reverse(SubSeq(stack, Len(stack) - n + 1, Len(stack)))
Left(n) == SubSeq(stack, 1, Len(stack) - n)
Outranks(t, op) == Priority(t) > Priority(op)

OrderToken ==
  /\ pc = "order" /\ infix # <<>>
  /\ LET t == Head(infix) IN
       \/ t = "(" /\ stack' = Append(stack, t) /\ UNCHANGED <<postfix, pc>>
       \/ /\ t = ")"
          /\ LET k == ToPop({n \in Depths : stack[n] = "("})
             IN postfix' = Pop(k) /\ stack' = Left(k + 1)
          /\ pc' = IF "(" \in ToSet(stack) THEN pc ELSE "undefined"
       \/ t \notin Symbols /\ postfix' = Append(postfix, t) /\ UNCHANGED <<stack, pc>>
       \/ /\ t \in Operators
          /\ LET k == ToPop({n \in Depths : Outranks(t, stack[n])})
             IN postfix' = Pop(k) /\ stack' = Append(Left(k), t)
          /\ UNCHANGED pc
  /\ infix' = Tail(infix)
  /\ UNCHANGED <<formula, at>>

(* math_postfix_eval() begins with a zero below the values, which an operator *)
(* without a left side takes; a second one finds nothing there.  An operator  *)
(* that is none, a "(" left open, makes another.                              *)
Zero == <<"zero">>
AllOrdered ==
  /\ pc = "order" /\ infix = <<>>
  /\ postfix' = Pop(Len(stack)) /\ stack' = <<Zero>> /\ pc' = "evaluate"
  /\ UNCHANGED <<formula, at, infix>>

Evaluate ==
  /\ pc = "evaluate" /\ postfix # <<>>
  /\ LET t == Head(postfix)
         n == Len(stack)
         result == IF t = "(" THEN Zero ELSE <<t, stack[n - 1], stack[n]>>
     IN \/ t \notin Symbols /\ stack' = Append(stack, <<t>>) /\ UNCHANGED pc
        \/ t \in Symbols /\ n >= 2 /\ stack' = Append(SubSeq(stack, 1, n - 2), result) /\ UNCHANGED pc
        \/ t \in Symbols /\ n < 2 /\ pc' = "undefined" /\ UNCHANGED stack
  /\ postfix' = Tail(postfix)
  /\ UNCHANGED <<formula, at, infix>>

Result ==
  /\ pc = "evaluate" /\ postfix = <<>>
  /\ pc' = "done"
  /\ UNCHANGED <<formula, at, infix, stack, postfix>>

Next == ReadToken \/ Invalid \/ AllRead \/ OrderToken \/ AllOrdered \/ Evaluate \/ Result

-----------------------------------------------------------------------------
(* A minus sign next to the number before it is lost with what it takes off. *)
MinusIsApart == \A i \in 1 .. Len(formula.text) - 1 : Char(i) \in Numbers => Char(i + 1) # "-"

(* A formula is worth what it means: powers before products and products     *)
(* before sums, from left to right, except as parentheses say; whatever may  *)
(* stand in front, when no minus sign is taken for a part of a number.       *)
WorthWhatItMeans ==
  formula.means # None /\ MinusIsApart =>
    /\ pc \notin {"none", "undefined"}
    /\ pc = "done" => Last(stack) = formula.means
=============================================================================
