----------------------------- MODULE FileReport -----------------------------
(***************************************************************************)
(* run_checks_for_file after parsing: the suppression comments are read    *)
(* off the text line by line, every check runs and has its findings        *)
(* filtered, and redundant division findings are dropped from what is      *)
(* left. A check that panics costs its own findings.                       *)
(***************************************************************************)
EXTENDS Naturals, FiniteSets, Sequences, FiniteSetsExt, SequencesExt

CONSTANTS
  Checks,              \* the checks to run, in registration order: a sequence
  Divisor,             \* "unchecked-divisor"
  Truncation,          \* "integer-division-truncation"
  Sources,             \* the shapes a file may have, see below
  Methods,             \* the #[contractimpl] methods a file may have, see below
  MaxHits              \* bound: how many findings one check reports

CheckNames == ToSet(Checks)

\* A line: code, nothing but comments, attributes or blanks, or a comment that
\* allows some checks.
Lines == [kind : {"code", "skipped"}, allows : {{}}]
           \cup [kind : {"skipped"}, allows : SUBSET CheckNames \ {{}}]

\* FnSpan: block tells #[contractimpl] blocks apart, which the program does not.
Spans ==
  {m \in [block : Nat, impl_type : STRING, function : STRING, first : Nat, last : Nat] :
     m.function # "" /\ m.first <= m.last}

ASSUME SourcesAssumption ==
  /\ Checks \in Seq(STRING)
  /\ {Divisor, Truncation} \subseteq CheckNames /\ Divisor # Truncation
  /\ \A s \in Sources : s \in Seq(Lines)
  /\ \A m \in Methods : m \in Seq(Spans)
  /\ MaxHits \in Nat

VARIABLES
  lines,      \* the text
  methods,    \* fn_spans, in source order
  at,         \* the line parse_suppressions looks at next
  on_line,    \* line_checks: <<line, check>>
  on_method,  \* function_checks: <<impl_type, function, check>>
  next,       \* position in Checks of the next check to run
  raw,        \* what the checks have found
  findings,   \* what has passed the suppressions
  panicked,   \* checks that panicked
  report      \* what run_checks_for_file returns, or <<>>

source_vars == <<lines, methods>>
vars == <<source_vars, at, on_line, on_method, next, raw, findings, panicked, report>>

CodeLines == {l \in DOMAIN lines : lines[l].kind = "code"}
Within(m, line) == m.first <= line /\ line <= m.last

\* Where a check may report: a method by its name, some checks nameless (""),
\* and anything outside the methods nameless too.
Places == {p \in [line : CodeLines, function : {m.function : m \in ToSet(methods)} \cup {""}] :
             p.function # "" => \E m \in ToSet(methods) : m.function = p.function /\ Within(m, p.line)}
Hits == {where \in SUBSET Places : Cardinality(where) <= MaxHits}
Finding(check, p) == [check |-> check, line |-> p.line, function |-> p.function]

Init ==
  /\ lines \in Sources /\ methods \in Methods
  /\ \A m \in ToSet(methods) : m.first \in CodeLines /\ m.last <= Len(lines)
  /\ at = 1 /\ on_line = {} /\ on_method = {}
  /\ next = 1 /\ raw = {} /\ findings = {} /\ panicked = {}
  /\ report = <<>>

-----------------------------------------------------------------------------
(* Reading the suppression comments *)

\* next_substantive_line: 0 if there is none.
Target(from) ==
  LET below == {l \in CodeLines : l > from} IN
  IF below = {} THEN 0 ELSE Min(below)

\* What fn_spans.iter().find() chooses from, and what it finds.
Starting(line)   == {i \in DOMAIN methods : methods[i].first = line}
First(positions) == methods[Min(positions)]

BindToMethod ==
  /\ at <= Len(lines) /\ lines[at].allows # {} /\ Target(at) # 0 /\ Starting(Target(at)) # {}
  /\ LET m == First(Starting(Target(at))) IN
       on_method' = on_method \cup {<<m.impl_type, m.function, c>> : c \in lines[at].allows}
  /\ at' = at + 1
  /\ UNCHANGED <<source_vars, on_line, next, raw, findings, panicked, report>>

BindToLine ==
  /\ at <= Len(lines) /\ lines[at].allows # {} /\ Target(at) # 0 /\ Starting(Target(at)) = {}
  /\ on_line' = on_line \cup {<<Target(at), c>> : c \in lines[at].allows}
  /\ at' = at + 1
  /\ UNCHANGED <<source_vars, on_method, next, raw, findings, panicked, report>>

\* No comment, or no code below it.
PassLine ==
  /\ at <= Len(lines) /\ (lines[at].allows = {} \/ Target(at) = 0)
  /\ at' = at + 1
  /\ UNCHANGED <<source_vars, on_line, on_method, next, raw, findings, panicked, report>>

-----------------------------------------------------------------------------
(* Running the checks *)

Enclosing(f) ==
  {i \in DOMAIN methods :
     (f.function = "" \/ methods[i].function = f.function) /\ Within(methods[i], f.line)}

SuppressedByNameOnly(f) ==
  \/ <<f.line, f.check>> \in on_line
  \/ \E key \in on_method : key[2] = f.function /\ key[3] = f.check
\* is_suppressed
Suppressed(f) ==
  \/ <<f.line, f.check>> \in on_line
  \/ LET m == First(Enclosing(f)) IN
       IF Enclosing(f) = {} THEN <<"", f.function, f.check>> \in on_method
       ELSE <<m.impl_type, m.function, f.check>> \in on_method

Ready == at > Len(lines) /\ next <= Len(Checks)

RunCheckUnfiltered ==
  /\ Ready
  /\ \E where \in Hits :
       LET hits == {Finding(Checks[next], p) : p \in where} IN
         /\ raw' = raw \cup hits
         /\ findings' = findings \cup hits
  /\ next' = next + 1
  /\ UNCHANGED <<source_vars, at, on_line, on_method, panicked, report>>
RunCheck ==
  /\ Ready
  /\ \E where \in Hits :
       LET hits == {Finding(Checks[next], p) : p \in where} IN
         /\ raw' = raw \cup hits
         /\ findings' = findings \cup {f \in hits : ~Suppressed(f)}
  /\ next' = next + 1
  /\ UNCHANGED <<source_vars, at, on_line, on_method, panicked, report>>

Panic ==
  /\ Ready
  /\ panicked' = panicked \cup {Checks[next]}
  /\ next' = next + 1
  /\ UNCHANGED <<source_vars, at, on_line, on_method, raw, findings, report>>

SameDivision(f, g) == f.line = g.line /\ f.function = g.function

RedundantInRaw(f) ==
  f.check = Truncation /\ \E g \in raw : g.check = Divisor /\ SameDivision(f, g)
\* suppress_redundant_division_finding looks at what the suppressions left.
Redundant(f) ==
  f.check = Truncation /\ \E g \in findings : g.check = Divisor /\ SameDivision(f, g)

\* Sorting and dedup_findings make it a set.
Finish ==
  /\ at > Len(lines) /\ next > Len(Checks) /\ report = <<>>
  /\ report' = <<{f \in findings : ~Redundant(f)}>>
  /\ UNCHANGED <<source_vars, at, on_line, on_method, next, raw, findings, panicked>>

Next == BindToMethod \/ BindToLine \/ PassLine \/ RunCheck \/ Panic \/ Finish

Spec == Init /\ [][Next]_vars

-----------------------------------------------------------------------------
(* Properties *)

\* A comment on some line allows the check, and the code right below it is the
\* line `target`.
Allowed(check, target) ==
  \E l \in DOMAIN lines : check \in lines[l].allows /\ Target(l) = target

Holds(m, f) == Within(m, f.line) /\ f.function \in {"", m.function}

\* What the user asked for: the comment above the finding's line, or above the
\* method it is in, of this very block.
Asked(f) ==
  \/ Allowed(f.check, f.line)
  \/ \E m \in ToSet(methods) : Holds(m, f) /\ Allowed(f.check, m.first)

\* A missing finding is explained if it was asked for, or if it is a truncation
\* finding and the same division is reported as unchecked.
Explained(f) ==
  Asked(f) \/ (f.check = Truncation /\ [f EXCEPT !.check = Divisor] \in report[1])

NamesAreUnique ==
  \A i, j \in DOMAIN methods :
    methods[i].impl_type = methods[j].impl_type /\ methods[i].function = methods[j].function => i = j

\* A comment above a line with two methods is about the first one only.
NoSharedLines ==
  \A i, j \in DOMAIN methods, l \in DOMAIN lines :
    Within(methods[i], l) /\ Within(methods[j], l) => i = j

Reported == report # <<>>

\* A finding the user asked to hide is hidden, the nameless ones included, and
\* one that is on the first line of a method with the comment above it, when no
\* two methods share a line.
AskedIsHidden == Reported /\ NoSharedLines => \A f \in report[1] : ~Asked(f)

\* Nothing else is hidden: when no two methods of the file share the name of
\* their type and their own, whatever a check found and nobody asked to hide
\* is reported, except a truncation finding whose division is reported as
\* unchecked. A check that panics takes no finding of another one with it.
OnlyAskedIsHidden ==
  Reported /\ NamesAreUnique =>
    \A f \in raw \ report[1] : Explained(f)

\* docs/false-positives.md: a comment above a method is scoped to the
\* #[contractimpl] block it is in.
ScopedToTheBlock ==
  Reported => \A f \in raw \ report[1] : Explained(f)
=============================================================================
