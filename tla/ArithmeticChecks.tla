-------------------------- MODULE ArithmeticChecks --------------------------
(***************************************************************************)
(* unchecked-arithmetic and integer-division-truncation, with the half of  *)
(* unchecked-divisor they share their operations with. A statement is one  *)
(* operation on two operands, in an expression or as an assignment, or a   *)
(* call of its checked counterpart.                                        *)
(***************************************************************************)
EXTENDS Method

\* Operands: an amount of money, an index, neither, a literal.
Variables == {"amount", "idx", "v"}
Operands  == Variables \cup {"1"}

Statements ==
  {s \in [does : {"plain", "assign", "divide", "divide_assign", "checked"},
          on : [left : Operands, right : Operands], fresh : BOOLEAN] :
     s.does \in {"assign", "divide_assign", "checked"} => s.on.left # "1"}

-----------------------------------------------------------------------------
(* unchecked-arithmetic *)

\* is_unchecked_binary
IsUnchecked(s) ==
  \/ s.does = "plain" /\ ~(s.on.left = "1" /\ s.on.right = "1")
  \/ s.does = "assign" /\ s.on.right # "1"

\* Mutant: the checked call may be on any line.
SafeSomewhere(b, i) ==
  \E j \in DOMAIN b :
    b[j].does = "checked" /\ {b[j].on.left, b[j].on.right} = {b[i].on.left, b[i].on.right}
\* uses_safe_arithmetic: a checked call on the same operands, in either order
\* and whatever its operation, that starts on the same line.
UsesSafeArithmetic(b, i) ==
  \E j \in DOMAIN b :
    /\ b[j].does = "checked" /\ Line(b, j) = Line(b, i)
    /\ \/ b[j].on = b[i].on
       \/ b[j].on = [left |-> b[i].on.right, right |-> b[i].on.left]

UncheckedArithmetic(b) == {i \in DOMAIN b : IsUnchecked(b[i]) /\ ~UsesSafeArithmetic(b, i)}

\* infer_severity: the first operand whose name says something decides.
SeverityOf(name) ==
  CASE name = "amount" -> "high" [] name = "idx" -> "low" [] OTHER -> "medium"
InferSeverity(s) ==
  IF SeverityOf(s.on.left) # "medium" THEN SeverityOf(s.on.left) ELSE SeverityOf(s.on.right)

-----------------------------------------------------------------------------
(* Divisions *)

IntegerDivisionTruncation(b) ==
  {i \in DOMAIN b : \/ b[i].does = "divide" /\ ~(b[i].on.left = "1" /\ b[i].on.right = "1")
                    \/ b[i].does = "divide_assign" /\ b[i].on.right # "1"}

\* DivisorExprVisitor, before it looks for a guard
UncheckedDivisors(b) ==
  {i \in DOMAIN b : b[i].does \in {"divide", "divide_assign"} /\ b[i].on.right # "1"}

-----------------------------------------------------------------------------
(* Property *)

Money(s)    == "amount" \in {s.on.left, s.on.right}
Constant(s) == {s.on.left, s.on.right} = {"1"}

\* An operation on variables is reported whatever was computed safely on other
\* lines, and as high if money is in it and not behind an index; every division
\* that may fail also truncates, which is what lets the analyzer drop one of
\* the two findings, and no operation is reported as arithmetic and as division.
\* (That is what the code does; a comment would have it excuse more, and the
\* documentation report less: see SafeCallsClear and LiteralsAreLeftOut.)
ArithmeticFindings(b) ==
  /\ \A i \in DOMAIN b : b[i].does = "plain" /\ ~Constant(b[i]) =>
       \/ i \in UncheckedArithmetic(b)
       \/ \E j \in DOMAIN b :
            /\ b[j].does = "checked"
            /\ \A k \in (Min({i, j}) + 1) .. Max({i, j}) : ~b[k].fresh
            /\ {b[j].on.left, b[j].on.right} = {b[i].on.left, b[i].on.right}
  /\ \A i \in UncheckedArithmetic(b) : Money(b[i]) =>
       InferSeverity(b[i]) = "high" \/ b[i].on.left = "idx"
  /\ UncheckedDivisors(b) \subseteq IntegerDivisionTruncation(b)
  /\ UncheckedArithmetic(b) \cap IntegerDivisionTruncation(b) = {}
=============================================================================
