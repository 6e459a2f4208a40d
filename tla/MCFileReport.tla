---------------------------- MODULE MCFileReport ----------------------------
(* Two short methods, in blocks of one type or of two or on one line, with a *)
(* line for a comment above the first, above the second and inside it.       *)
EXTENDS FileReport

MCChecks == <<Truncation, Divisor>>

Code      == [kind |-> "code", allows |-> {}]
Blank     == [kind |-> "skipped", allows |-> {}]
Allow(cs) == [kind |-> "skipped", allows |-> cs]

Gaps == {Code, Blank, Allow({Divisor}), Allow({Truncation}), Allow({Truncation, Divisor})}

MCSources == {<<a, Code, b, Code, c, Code>> :
                a \in Gaps, b \in Gaps, c \in {Blank, Allow({Divisor}), Allow({Truncation})}}

Method(block, type, name, first, last) ==
  [block |-> block, impl_type |-> type, function |-> name, first |-> first, last |-> last]

MCMethods == {<<Method(1, "C", "run", 2, 2), Method(2, "D", "run", 4, 6)>>,
              <<Method(1, "C", "run", 2, 2), Method(1, "C", "stop", 4, 4)>>,
              <<Method(1, "C", "run", 4, 4), Method(1, "C", "stop", 4, 4)>>,
              <<Method(1, "C", "run", 4, 6)>>}

\* One type implements two traits that both have a run.
MCTwins == {<<Method(1, "C", "run", 2, 2), Method(2, "C", "run", 4, 6)>>}
=============================================================================
