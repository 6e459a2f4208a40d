------------------------------ MODULE FilesProofs ------------------------------
(***************************************************************************)
(* Proofs about what surrounds the checks, without the bounds: the report  *)
(* of one file, storage keys known by name, texts read without a tree,     *)
(* items for the tests, the search for a configuration, the baseline, and  *)
(* keys that collide.                                                      *)
(***************************************************************************)
EXTENDS MCFiles, TLAPS, SequenceTheorems, FiniteSetTheorems, WellFoundedInduction

-----------------------------------------------------------------------------
(* Sets of numbers *)

\* The order of the numbers, and that nothing descends in it forever.
Below == {ss \in Nat \X Nat : ss[1] < ss[2]}

LEMMA BelowIsWellFounded == IsWellFoundedOn(Below, Nat)
  BY NatLessThanWellFounded, Zenon DEF OpToRel, Below

\* A set of numbers with anything in it has a least one.
LEMMA Least ==
  ASSUME NEW S, S \subseteq Nat, S # {}
  PROVE  Min(S) \in S /\ \A y \in S : Min(S) <= y
<1>1. PICK x \in S : \A y \in S : ~ (<<y, x>> \in Below)
  BY BelowIsWellFounded, WFMin, Zenon
<1>2. ASSUME NEW y \in S PROVE x <= y
  <2>1. x \in Nat /\ y \in Nat
    OBVIOUS
  <2>2. y < x => <<y, x>> \in Below
    BY <2>1 DEF Below
  <2> QED BY <1>1, <2>1, <2>2
<1> QED BY <1>2 DEF Min

\* A set of numbers with a bound has a greatest one.
LEMMA Greatest ==
  ASSUME NEW n \in Nat, NEW S \in SUBSET (0 .. n), S # {}
  PROVE  \E x \in S : \A y \in S : y <= x
<1> DEFINE Gaps0 == {n - y : y \in S}
<1>1. Gaps0 \subseteq Nat /\ Gaps0 # {}
  <2>1. \A y \in S : y \in Nat /\ n - y \in Nat
    OBVIOUS
  <2>2. PICK y \in S : TRUE
    OBVIOUS
  <2>3. n - y \in Gaps0
    OBVIOUS
  <2> QED BY <2>1, <2>3
<1>2. Min(Gaps0) \in Gaps0 /\ \A g \in Gaps0 : Min(Gaps0) <= g
  <2> HIDE DEF Gaps0
  <2> QED BY <1>1, Least
<1>3. PICK x \in S : Min(Gaps0) = n - x
  BY <1>2
<1>4. ASSUME NEW y \in S PROVE y <= x
  <2>1. n - y \in Gaps0
    OBVIOUS
  <2>2. n - x <= n - y
    BY <1>2, <1>3, <2>1
  <2> QED BY <2>2
<1> QED BY <1>4

\* What holds at the start of an interval and passes from each number to the
\* next holds in all of it.
LEMMA Throughout ==
  ASSUME NEW lo \in Nat, NEW hi \in Nat, NEW Good \in SUBSET (lo .. hi), lo \in Good,
         \A k \in Good : k < hi => k + 1 \in Good
  PROVE  \A k \in lo .. hi : k \in Good
<1> DEFINE Bad == (lo .. hi) \ Good
<1>1. ASSUME Bad # {} PROVE FALSE
  <2>1. PICK n \in Bad : \A m \in Bad : n <= m
    <3>1. Bad \subseteq Nat
      OBVIOUS
    <3> HIDE DEF Bad
    <3> QED BY <1>1, <3>1, Least
  <2>2. n \in lo .. hi /\ n \notin Good
    OBVIOUS
  <2>3. n # lo
    BY <2>2
  <2>4. n - 1 \in lo .. hi /\ ~(n <= n - 1) /\ n - 1 < hi /\ n - 1 + 1 = n
    BY <2>2, <2>3
  <2>5. n - 1 \notin Bad
    <3> HIDE DEF Bad
    <3> QED BY <2>1, <2>4
  <2>6. n - 1 \in Good
    BY <2>4, <2>5
  <2> QED BY <2>2, <2>4, <2>6
<1> QED BY <1>1

-----------------------------------------------------------------------------
(* The report of one file *)

\* The finding does not change once it is parsed.
FileShape ==
  /\ lines \in Seq(Lines) /\ methods \in Seq(Spans)
  /\ \A i \in DOMAIN methods : methods[i].first \in CodeLines /\ methods[i].last <= Len(lines)
  /\ at \in Nat \ {0} /\ next \in Nat \ {0}

\* Every comment above the line that is read next is in one of the two sets.
Bound ==
  \A l \in DOMAIN lines : \A c \in lines[l].allows :
    l < at /\ Target(l) # 0 =>
      \/ Starting(Target(l)) = {} /\ <<Target(l), c>> \in on_line
      \/ /\ Starting(Target(l)) # {}
         /\ <<First(Starting(Target(l))).impl_type, First(Starting(Target(l))).function, c>> \in on_method

\* Nothing is in them that no comment put there.
Granted(key) ==
  \E i \in DOMAIN methods :
    /\ key[1] = methods[i].impl_type /\ key[2] = methods[i].function
    /\ Allowed(key[3], methods[i].first)
Earned ==
  /\ \A key \in on_line : Allowed(key[2], key[1])
  /\ \A key \in on_method : Granted(key)

\* What the checks have found lies in the text, and was filtered by the two sets
\* as they are now: the comments were all read before the first check ran.
Filtered ==
  /\ raw # {} => at > Len(lines)
  /\ \A f \in raw :
       /\ f = [check |-> f.check, line |-> f.line, function |-> f.function]
       /\ f.line \in CodeLines
       /\ f.function # "" =>
            \E i \in DOMAIN methods : methods[i].function = f.function /\ Within(methods[i], f.line)
  /\ findings = {f \in raw : ~Suppressed(f)}

Sealed ==
  report # <<>> => /\ next > Len(Checks)
                   /\ report = <<{f \in findings : ~Redundant(f)}>>

FileInv == FileShape /\ Bound /\ Earned /\ Filtered /\ Sealed

LEMMA FileStart == ASSUME Init PROVE FileInv
<1> USE DEF Init
<1>1. FileShape
  BY SourcesAssumption DEF FileShape, ToSet
<1>2. Bound /\ Earned /\ Filtered /\ Sealed
  BY <1>1 DEF FileShape, Bound, Earned, Filtered, Sealed
<1> QED BY <1>1, <1>2 DEF FileInv

LEMMA FileIdle == ASSUME IdleReport PROVE FileInv
<1> USE DEF IdleReport
<1>1. FileShape
  BY DEF FileShape
<1>2. Bound /\ Earned /\ Filtered /\ Sealed
  BY DEF Bound, Earned, Filtered, Sealed
<1> QED BY <1>1, <1>2 DEF FileInv

\* What depends on the text and the methods alone.
LEMMA TextIsFixed ==
  ASSUME UNCHANGED source_vars
  PROVE  /\ lines' = lines /\ methods' = methods /\ CodeLines' = CodeLines
         /\ \A l : Target(l)' = Target(l)
         /\ \A l : Starting(l)' = Starting(l)
         /\ \A P : First(P)' = First(P)
         /\ \A c, l : Allowed(c, l)' = Allowed(c, l)
         /\ \A f : Enclosing(f)' = Enclosing(f)
<1>1. lines' = lines /\ methods' = methods
  BY DEF source_vars
<1>2. CodeLines' = CodeLines
  BY <1>1 DEF CodeLines
<1>3. \A l : Target(l)' = Target(l)
  BY <1>2 DEF Target
<1>4. \A c, l : Allowed(c, l)' = Allowed(c, l)
  BY <1>1, <1>3 DEF Allowed
<1> QED BY <1>1, <1>2, <1>3, <1>4 DEF Starting, First, Enclosing

\* Reading a line: what is recorded for it is what it allows, and the lines
\* above keep what they have.
LEMMA ReadingStep ==
  ASSUME FileInv, BindToMethod \/ BindToLine \/ PassLine
  PROVE  FileInv'
<1> USE DEF FileInv
<1>1. /\ at <= Len(lines) /\ at' = at + 1
      /\ UNCHANGED <<source_vars, next, raw, findings, panicked, report>>
  BY DEF BindToMethod, BindToLine, PassLine
<1>2. /\ lines' = lines /\ methods' = methods /\ CodeLines' = CodeLines
      /\ \A l : Target(l)' = Target(l)
      /\ \A l : Starting(l)' = Starting(l)
      /\ \A P : First(P)' = First(P)
      /\ \A c, l : Allowed(c, l)' = Allowed(c, l)
  BY <1>1, TextIsFixed
<1>3. FileShape'
  BY <1>1, <1>2 DEF FileShape
<1>4. on_line \subseteq on_line' /\ on_method \subseteq on_method'
  BY DEF BindToMethod, BindToLine, PassLine
<1>5. at \in DOMAIN lines /\ at \in Nat /\ DOMAIN lines \subseteq Nat
  BY <1>1 DEF FileShape
<1>6. Bound'
  <2> SUFFICES ASSUME NEW l \in DOMAIN lines, NEW c \in lines[l].allows, l < at + 1, Target(l) # 0
               PROVE  \/ Starting(Target(l)) = {} /\ <<Target(l), c>> \in on_line'
                      \/ /\ Starting(Target(l)) # {}
                         /\ <<First(Starting(Target(l))).impl_type,
                              First(Starting(Target(l))).function, c>> \in on_method'
    BY <1>1, <1>2 DEF Bound
  <2>1. CASE l < at
    BY <2>1, <1>4 DEF Bound
  <2>2. CASE l = at
    BY <2>2 DEF BindToMethod, BindToLine, PassLine
  <2> QED BY <2>1, <2>2, <1>5
<1>7. Earned'
  <2>1. \A key \in on_line' : Allowed(key[2], key[1])
    <3> SUFFICES ASSUME NEW key \in on_line', key \notin on_line PROVE Allowed(key[2], key[1])
      BY DEF Earned
    <3>1. PICK c \in lines[at].allows : key = <<Target(at), c>>
      BY DEF BindToMethod, BindToLine, PassLine
    <3> QED BY <3>1, <1>5 DEF Allowed
  <2>2. \A key \in on_method' : Granted(key)
    <3> SUFFICES ASSUME NEW key \in on_method', key \notin on_method PROVE Granted(key)
      BY DEF Earned
    <3> DEFINE Here == Starting(Target(at))
    <3>1. /\ Here # {}
          /\ \E c \in lines[at].allows : key = <<First(Here).impl_type, First(Here).function, c>>
      BY DEF BindToMethod, BindToLine, PassLine
    <3>2. PICK c \in lines[at].allows : key = <<First(Here).impl_type, First(Here).function, c>>
      BY <3>1
    <3> HIDE DEF Here
    <3>3. Min(Here) \in Here
      <4>1. Here \subseteq Nat
        BY DEF Here, Starting, FileShape
      <4> QED BY <3>1, <4>1, Least
    <3>4. /\ Min(Here) \in DOMAIN methods
          /\ methods[Min(Here)].first = Target(at) /\ First(Here) = methods[Min(Here)]
      BY <3>3 DEF Here, Starting, First
    <3>5. Allowed(c, methods[Min(Here)].first)
      BY <3>4, <1>5 DEF Allowed
    <3>6. key[1] = methods[Min(Here)].impl_type /\ key[2] = methods[Min(Here)].function /\ key[3] = c
      BY <3>2, <3>4
    <3> QED BY <3>4, <3>5, <3>6 DEF Granted
  <2>3. \A key : Granted(key)' = Granted(key)
    BY <1>2 DEF Granted
  <2> QED BY <2>1, <2>2, <2>3, <1>2 DEF Earned
<1>8. raw = {} /\ raw' = {} /\ findings' = {}
  <2>1. ~(at > Len(lines))
    BY <1>1 DEF FileShape
  <2>2. raw = {}
    BY <2>1 DEF Filtered
  <2>3. findings = {}
    BY <2>2 DEF Filtered
  <2> QED BY <1>1, <2>2, <2>3
<1>9. Filtered'
  BY <1>8 DEF Filtered
<1>10. \A f : Redundant(f)' = Redundant(f)
  BY <1>1 DEF Redundant, SameDivision
<1>11. Sealed'
  BY <1>1, <1>10 DEF Sealed
<1> QED BY <1>3, <1>6, <1>7, <1>9, <1>11

\* Running a check: what it found is in the text, and passes the sets as they
\* will stay.
LEMMA CheckingStep ==
  ASSUME FileInv, RunCheck \/ Panic
  PROVE  FileInv'
<1> USE DEF FileInv
<1>1. /\ at > Len(lines) /\ next <= Len(Checks) /\ next' = next + 1
      /\ UNCHANGED <<source_vars, at, on_line, on_method, report>>
  BY DEF RunCheck, Panic, Ready
<1>2. /\ lines' = lines /\ methods' = methods /\ CodeLines' = CodeLines
      /\ \A l : Target(l)' = Target(l)
      /\ \A l : Starting(l)' = Starting(l)
      /\ \A P : First(P)' = First(P)
      /\ \A c, l : Allowed(c, l)' = Allowed(c, l)
      /\ \A f : Enclosing(f)' = Enclosing(f)
  BY <1>1, TextIsFixed
<1>3. FileShape' /\ at' \in Nat /\ Len(lines) \in Nat
  BY <1>1, <1>2 DEF FileShape
<1>4. Bound'
  BY <1>1, <1>2 DEF Bound
<1>5. Earned'
  BY <1>1, <1>2 DEF Earned, Granted
<1>6. \A f : Suppressed(f)' = Suppressed(f)
  BY <1>1, <1>2 DEF Suppressed
<1>7. PICK hits :
        /\ raw' = raw \cup hits
        /\ findings' = findings \cup {f \in hits : ~Suppressed(f)}
        /\ \A f \in hits : \E p \in Places : f = Finding(Checks[next], p)
  <2>1. CASE RunCheck
    <3>1. PICK where \in Hits :
            /\ raw' = raw \cup {Finding(Checks[next], p) : p \in where}
            /\ findings' = findings \cup
                 {f \in {Finding(Checks[next], p) : p \in where} : ~Suppressed(f)}
      BY <2>1 DEF RunCheck
    <3>2. where \subseteq Places
      BY DEF Hits
    <3> DEFINE hits == {Finding(Checks[next], p) : p \in where}
    <3>3. \A f \in hits : \E p \in Places : f = Finding(Checks[next], p)
      BY <3>2
    <3>4. raw' = raw \cup hits /\ findings' = findings \cup {f \in hits : ~Suppressed(f)}
      BY <3>1
    <3> HIDE DEF hits
    <3> QED BY <3>3, <3>4
  <2>2. CASE Panic
    <3> DEFINE hits == {}
    <3>1. \A f \in hits : \E p \in Places : f = Finding(Checks[next], p)
      OBVIOUS
    <3>2. raw' = raw \cup hits /\ findings' = findings \cup {f \in hits : ~Suppressed(f)}
      BY <2>2 DEF Panic
    <3> HIDE DEF hits
    <3> QED BY <3>1, <3>2
  <2> QED BY <2>1, <2>2
<1>8. ASSUME NEW f \in hits
      PROVE  /\ f = [check |-> f.check, line |-> f.line, function |-> f.function]
             /\ f.line \in CodeLines
             /\ f.function # "" =>
                  \E i \in DOMAIN methods :
                    methods[i].function = f.function /\ Within(methods[i], f.line)
  <2>1. PICK p \in Places : f = Finding(Checks[next], p)
    BY <1>7
  <2>2. f.line = p.line /\ f.function = p.function /\ f.check = Checks[next]
    BY <2>1 DEF Finding
  <2>3. p.line \in CodeLines
    BY DEF Places
  <2>4. p.function # "" => \E m \in ToSet(methods) : m.function = p.function /\ Within(m, p.line)
    BY DEF Places
  <2>5. \A m \in ToSet(methods) : \E i \in DOMAIN methods : m = methods[i]
    BY DEF ToSet, FileShape
  <2> QED BY <2>1, <2>2, <2>3, <2>4, <2>5 DEF Finding
<1>9. Filtered'
  <2>1. findings' = {f \in raw' : ~Suppressed(f)}
    BY <1>7 DEF Filtered
  <2>2. {f \in raw' : ~Suppressed(f)} = {f \in raw' : ~Suppressed(f)'}
    BY <1>6
  <2>3. raw' # {} => at' > Len(lines')
    BY <1>1, <1>2
  <2>4. ASSUME NEW f \in raw'
        PROVE  /\ f = [check |-> f.check, line |-> f.line, function |-> f.function]
               /\ f.line \in CodeLines
               /\ f.function # "" =>
                    \E i \in DOMAIN methods :
                      methods[i].function = f.function /\ Within(methods[i], f.line)
    <3>1. f \in raw \/ f \in hits
      BY <1>7
    <3> QED BY <3>1, <1>8 DEF Filtered
  <2> QED BY <2>1, <2>2, <2>3, <2>4, <1>2 DEF Filtered, Within
<1>10. Sealed'
  BY <1>1 DEF Sealed, FileShape
<1> QED BY <1>3, <1>4, <1>5, <1>9, <1>10

\* The report: redundant division findings go, everything else stays.
LEMMA FinishingStep == ASSUME FileInv, Finish PROVE FileInv'
<1> USE DEF FileInv
<1>1. /\ next > Len(Checks) /\ report' = <<{f \in findings : ~Redundant(f)}>>
      /\ UNCHANGED <<source_vars, at, on_line, on_method, next, raw, findings>>
  BY DEF Finish
<1>2. /\ lines' = lines /\ methods' = methods /\ CodeLines' = CodeLines
      /\ \A l : Target(l)' = Target(l)
      /\ \A l : Starting(l)' = Starting(l)
      /\ \A P : First(P)' = First(P)
      /\ \A c, l : Allowed(c, l)' = Allowed(c, l)
      /\ \A f : Enclosing(f)' = Enclosing(f)
  BY <1>1, TextIsFixed
<1>3. FileShape'
  BY <1>1, <1>2 DEF FileShape
<1>4. Bound'
  BY <1>1, <1>2 DEF Bound
<1>5. Earned'
  BY <1>1, <1>2 DEF Earned, Granted
<1>6. Filtered'
  <2>1. \A f : Suppressed(f)' = Suppressed(f)
    BY <1>1, <1>2 DEF Suppressed
  <2>2. {f \in raw : ~Suppressed(f)} = {f \in raw : ~Suppressed(f)'}
    BY <2>1
  <2> QED BY <1>1, <1>2, <2>2 DEF Filtered, Within
<1>7. \A f : Redundant(f)' = Redundant(f)
  BY <1>1 DEF Redundant, SameDivision
<1>8. Sealed'
  BY <1>1, <1>7 DEF Sealed
<1> QED BY <1>3, <1>4, <1>5, <1>6, <1>8

LEMMA FileStutters == ASSUME FileInv, UNCHANGED vars PROVE FileInv'
<1> USE DEF FileInv
<1>1. UNCHANGED <<source_vars, at, on_line, on_method, next, raw, findings, report>>
  BY DEF vars
<1>2. /\ lines' = lines /\ methods' = methods /\ CodeLines' = CodeLines
      /\ \A l : Target(l)' = Target(l)
      /\ \A l : Starting(l)' = Starting(l)
      /\ \A P : First(P)' = First(P)
      /\ \A c, l : Allowed(c, l)' = Allowed(c, l)
      /\ \A f : Enclosing(f)' = Enclosing(f)
  BY <1>1, TextIsFixed
<1>3. FileShape'
  BY <1>1, <1>2 DEF FileShape
<1>4. Bound'
  BY <1>1, <1>2 DEF Bound
<1>5. Earned'
  BY <1>1, <1>2 DEF Earned, Granted
<1>6. Filtered'
  <2>1. \A f : Suppressed(f)' = Suppressed(f)
    BY <1>1, <1>2 DEF Suppressed
  <2>2. {f \in raw : ~Suppressed(f)} = {f \in raw : ~Suppressed(f)'}
    BY <2>1
  <2> QED BY <1>1, <1>2, <2>2 DEF Filtered, Within
<1>7. \A f : Redundant(f)' = Redundant(f)
  BY <1>1 DEF Redundant, SameDivision
<1>8. Sealed'
  BY <1>1, <1>7 DEF Sealed
<1> QED BY <1>3, <1>4, <1>5, <1>6, <1>8

\* The shape of the text, of the methods and of the findings.
LEMMA ShapeFacts ==
  ASSUME FileInv
  PROVE  /\ \A l \in DOMAIN lines : l \in Nat /\ l # 0 /\ l <= Len(lines)
         /\ \A l \in CodeLines : l \in DOMAIN lines
         /\ \A i \in DOMAIN methods : i \in Nat
         /\ at \in Nat /\ Len(lines) \in Nat
         /\ \A i \in DOMAIN methods :
              /\ methods[i].first \in Nat /\ methods[i].last \in Nat
              /\ methods[i].first <= methods[i].last /\ methods[i].function # ""
              /\ methods[i].first \in CodeLines
<1>1. lines \in Seq(Lines) /\ methods \in Seq(Spans) /\ at \in Nat
  BY DEF FileInv, FileShape
<1>2. \A i \in DOMAIN methods : methods[i].first \in CodeLines
  BY DEF FileInv, FileShape
<1>3. \A i \in DOMAIN methods : methods[i] \in Spans
  BY <1>1
<1>4. \A l \in CodeLines : l \in DOMAIN lines
  BY DEF CodeLines
<1>5. /\ \A l \in DOMAIN lines : l \in Nat /\ l # 0 /\ l <= Len(lines)
      /\ \A i \in DOMAIN methods : i \in Nat
      /\ Len(lines) \in Nat
  BY <1>1
<1>6. \A m \in Spans : m.first \in Nat /\ m.last \in Nat /\ m.first <= m.last /\ m.function # ""
  BY DEF Spans
<1> QED BY <1>1, <1>2, <1>3, <1>4, <1>5, <1>6

LEMMA FindingFacts ==
  ASSUME FileInv, NEW f \in raw
  PROVE  /\ f = [check |-> f.check, line |-> f.line, function |-> f.function]
         /\ f.line \in CodeLines
         /\ f.function # "" =>
              \E i \in DOMAIN methods : methods[i].function = f.function /\ Within(methods[i], f.line)
  BY DEF FileInv, Filtered

\* Of the methods that hold a finding, there is only one if none share a line,
\* and it is the one that is looked up.
LEMMA HolderIsFound ==
  ASSUME FileInv, NoSharedLines, NEW f \in raw, NEW i \in DOMAIN methods, Holds(methods[i], f)
  PROVE  Enclosing(f) # {} /\ First(Enclosing(f)) = methods[i]
<1>1. /\ Within(methods[i], f.line) /\ i \in Enclosing(f)
      /\ Enclosing(f) \subseteq Nat /\ Enclosing(f) \subseteq DOMAIN methods
  BY ShapeFacts DEF Holds, Enclosing
<1>2. Min(Enclosing(f)) \in Enclosing(f)
  BY <1>1, Least
<1>3. f.line \in DOMAIN lines
  BY ShapeFacts, FindingFacts
<1>4. Within(methods[Min(Enclosing(f))], f.line)
  BY <1>2 DEF Enclosing
<1>5. Min(Enclosing(f)) = i
  BY <1>1, <1>2, <1>3, <1>4 DEF NoSharedLines
<1> QED BY <1>1, <1>5 DEF First

\* Asked for by a comment above a method: the finding is suppressed.
LEMMA AllowedMethod ==
  ASSUME FileInv, NoSharedLines, at > Len(lines), NEW f \in raw,
         NEW i \in DOMAIN methods, Holds(methods[i], f), Allowed(f.check, methods[i].first)
  PROVE  Suppressed(f)
<1>1. PICK l \in DOMAIN lines : f.check \in lines[l].allows /\ Target(l) = methods[i].first
  BY DEF Allowed
<1> DEFINE Here == Starting(methods[i].first)
<1>2. methods[i].first \in CodeLines /\ methods[i].first \in DOMAIN lines /\ methods[i].first # 0
  BY ShapeFacts
<1>0. l < at
  <2>1. l \in Nat /\ l <= Len(lines) /\ Len(lines) \in Nat /\ at \in Nat
    BY ShapeFacts
  <2> QED BY <2>1
<1>3. i \in Here /\ Here \subseteq Nat
  BY ShapeFacts DEF Starting
<1>4. Min(Here) \in Here
  BY <1>3, Least
<1>5. Min(Here) \in DOMAIN methods /\ methods[Min(Here)].first = methods[i].first
  BY <1>4 DEF Starting
<1>6. ASSUME NEW j \in DOMAIN methods, methods[j].first = methods[i].first
      PROVE  Within(methods[j], methods[i].first)
  <2>1. /\ methods[j].first \in Nat /\ methods[j].last \in Nat
        /\ methods[j].first <= methods[j].last
    BY ShapeFacts
  <2> QED BY <1>6, <2>1 DEF Within
<1>7. Min(Here) = i
  BY <1>2, <1>5, <1>6 DEF NoSharedLines
<1>8. First(Here) = methods[i]
  BY <1>7 DEF First
<1>9. <<methods[i].impl_type, methods[i].function, f.check>> \in on_method
  <2>1. Target(l) # 0 /\ Starting(Target(l)) = Here
    BY <1>1, <1>2
  <2> HIDE DEF Here
  <2> QED BY <1>1, <1>0, <1>3, <1>8, <2>1 DEF FileInv, Bound
<1> QED BY <1>9, HolderIsFound DEF Suppressed

\* Asked for by a comment above its line.
LEMMA AllowedLine ==
  ASSUME FileInv, NoSharedLines, at > Len(lines), NEW f \in raw, Allowed(f.check, f.line)
  PROVE  Suppressed(f)
<1>1. PICK l \in DOMAIN lines : f.check \in lines[l].allows /\ Target(l) = f.line
  BY DEF Allowed
<1>2. f.line \in DOMAIN lines /\ f.line # 0
  BY ShapeFacts, FindingFacts
<1>0. l < at
  <2>1. l \in Nat /\ l <= Len(lines) /\ Len(lines) \in Nat /\ at \in Nat
    BY ShapeFacts
  <2> QED BY <2>1
<1>3. CASE Starting(f.line) = {}
  BY <1>0, <1>1, <1>2, <1>3 DEF FileInv, Bound, Suppressed
<1>4. CASE Starting(f.line) # {}
  <2>1. PICK i \in DOMAIN methods : methods[i].first = f.line
    BY <1>4 DEF Starting
  <2>2. Within(methods[i], f.line)
    <3>1. /\ methods[i].first \in Nat /\ methods[i].last \in Nat
          /\ methods[i].first <= methods[i].last
      BY ShapeFacts
    <3> QED BY <2>1, <3>1 DEF Within
  <2>3. f.function # "" => f.function = methods[i].function
    <3> SUFFICES ASSUME f.function # "" PROVE f.function = methods[i].function
      OBVIOUS
    <3>1. PICK j \in DOMAIN methods : methods[j].function = f.function /\ Within(methods[j], f.line)
      BY FindingFacts
    <3> QED BY <1>2, <2>2, <3>1 DEF NoSharedLines
  <2>4. Holds(methods[i], f)
    BY <2>2, <2>3 DEF Holds
  <2> QED BY <2>1, <2>4, AllowedMethod
<1> QED BY <1>3, <1>4

\* What is suppressed was asked for, if a method's two names are its own.
LEMMA SuppressedIsAsked ==
  ASSUME FileInv, NamesAreUnique, NEW f \in raw, Suppressed(f)
  PROVE  Asked(f)
<1>1. CASE <<f.line, f.check>> \in on_line
  <2>1. Allowed(<<f.line, f.check>>[2], <<f.line, f.check>>[1])
    BY <1>1 DEF FileInv, Earned
  <2> QED BY <2>1 DEF Asked
<1>2. CASE Enclosing(f) = {} /\ <<"", f.function, f.check>> \in on_method
  <2>1. PICK i \in DOMAIN methods : methods[i].function = f.function
    BY <1>2 DEF FileInv, Earned, Granted
  <2>2. f.function # ""
    BY <2>1, ShapeFacts
  <2>3. Enclosing(f) # {}
    BY <2>2, FindingFacts DEF Enclosing
  <2> QED BY <1>2, <2>3
<1>3. CASE /\ Enclosing(f) # {}
           /\ <<First(Enclosing(f)).impl_type, First(Enclosing(f)).function, f.check>> \in on_method
  <2> DEFINE m == Min(Enclosing(f))
  <2>1. m \in Enclosing(f)
    <3>1. Enclosing(f) \subseteq Nat
      BY ShapeFacts DEF Enclosing
    <3> QED BY <1>3, <3>1, Least
  <2>2. m \in DOMAIN methods /\ First(Enclosing(f)) = methods[m] /\ Holds(methods[m], f)
    BY <2>1 DEF Enclosing, First, Holds
  <2>3. Granted(<<methods[m].impl_type, methods[m].function, f.check>>)
    BY <1>3, <2>2 DEF FileInv, Earned
  <2> HIDE DEF m
  <2>4. PICK i \in DOMAIN methods :
          /\ methods[m].impl_type = methods[i].impl_type /\ methods[m].function = methods[i].function
          /\ Allowed(f.check, methods[i].first)
    BY <2>3 DEF Granted
  <2>5. i = m
    BY <2>2, <2>4 DEF NamesAreUnique
  <2>6. methods[m] \in ToSet(methods)
    BY <2>2 DEF ToSet
  <2> QED BY <2>2, <2>4, <2>5, <2>6 DEF Asked
<1> QED BY <1>1, <1>2, <1>3 DEF Suppressed

LEMMA AskedHidden == ASSUME FileInv PROVE AskedIsHidden
<1> SUFFICES ASSUME Reported, NoSharedLines, NEW f \in report[1], Asked(f) PROVE FALSE
  BY DEF AskedIsHidden
<1>1. f \in raw /\ ~Suppressed(f) /\ at > Len(lines)
  <2>1. report[1] = {g \in findings : ~Redundant(g)}
    BY DEF FileInv, Sealed, Reported
  <2>2. findings = {g \in raw : ~Suppressed(g)} /\ (raw # {} => at > Len(lines))
    BY DEF FileInv, Filtered
  <2> QED BY <2>1, <2>2
<1>2. CASE Allowed(f.check, f.line)
  BY <1>1, <1>2, AllowedLine
<1>3. CASE \E m \in ToSet(methods) : Holds(m, f) /\ Allowed(f.check, m.first)
  <2>1. PICK i \in DOMAIN methods : Holds(methods[i], f) /\ Allowed(f.check, methods[i].first)
    BY <1>3 DEF ToSet
  <2> QED BY <1>1, <2>1, AllowedMethod
<1> QED BY <1>2, <1>3 DEF Asked

LEMMA OnlyAskedHidden == ASSUME FileInv PROVE OnlyAskedIsHidden
<1> SUFFICES ASSUME Reported, NamesAreUnique, NEW f \in raw, f \notin report[1]
             PROVE  Explained(f)
  BY DEF OnlyAskedIsHidden
<1>1. report[1] = {g \in findings : ~Redundant(g)}
  BY DEF FileInv, Sealed, Reported
<1>2. CASE Suppressed(f)
  BY <1>2, SuppressedIsAsked DEF Explained
<1>3. CASE ~Suppressed(f)
  <2>1. f \in findings
    BY <1>3 DEF FileInv, Filtered
  <2>2. Redundant(f)
    BY <1>1, <2>1
  <2>3. PICK g \in findings : g.check = Divisor /\ SameDivision(f, g)
    BY <2>2 DEF Redundant
  <2>4. g \in raw
    BY DEF FileInv, Filtered
  <2>5. /\ f = [check |-> f.check, line |-> f.line, function |-> f.function]
        /\ g = [check |-> g.check, line |-> g.line, function |-> g.function]
    BY <2>4 DEF FileInv, Filtered
  <2>6. g = [f EXCEPT !.check = Divisor]
    BY <2>3, <2>5 DEF SameDivision
  <2>7. ~Redundant(g)
    BY <2>3, SourcesAssumption DEF Redundant
  <2> QED BY <1>1, <2>2, <2>6, <2>7 DEF Explained, Redundant
<1> QED BY <1>2, <1>3

\* The invariant for the whole instance: the other subjects leave the idle
\* report as it is.
LEMMA FilesKeepReport == FilesSpec => []FileInv
<1>1. FilesInit => FileInv
  BY FileStart, FileIdle DEF FilesInit
<1>2. FileInv /\ [FilesNext]_files_vars => FileInv'
  <2> SUFFICES ASSUME FileInv, [FilesNext]_files_vars PROVE FileInv'
    OBVIOUS
  <2>1. CASE ReportStep
    BY <2>1, ReadingStep, CheckingStep, FinishingStep DEF ReportStep, Next
  <2>2. CASE UNCHANGED vars
    BY <2>2, FileStutters
  <2>3. ReportStep \/ UNCHANGED vars
    BY DEF FilesNext, files_vars, ConfigStep, FileStep, AnswerStep, CollisionStep, BaselineStep
  <2> QED BY <2>1, <2>2, <2>3
<1> QED BY <1>1, <1>2, PTL DEF FilesSpec

\* What the user asked to hide is not reported, for any text, methods that do
\* not share lines, checks and findings.
THEOREM AskedFindingsAreHidden == FilesSpec => []AskedIsHidden
  BY FilesKeepReport, AskedHidden, PTL

\* Nothing else is kept back, for any text, methods with names of their own,
\* checks, findings and panics, but a truncation whose division is reported.
THEOREM NothingElseIsHidden == FilesSpec => []OnlyAskedIsHidden
  BY FilesKeepReport, OnlyAskedHidden, PTL

-----------------------------------------------------------------------------
(* unsafe-storage-patterns: keys made from names *)

NamesAreEntries == names \in Seq(NameUse!Entries)

LEMMA FilesKeepNames == FilesSpec => []NamesAreEntries
<1>1. FilesInit => NamesAreEntries
  BY DEF FilesInit, NameUse!Init, NamesAreEntries
<1>2. NamesAreEntries /\ [FilesNext]_files_vars => NamesAreEntries'
  <2> SUFFICES ASSUME NamesAreEntries, [FilesNext]_files_vars PROVE NamesAreEntries'
    OBVIOUS
  <2>1. CASE NamesStep
    <3>1. PICK e \in NameUse!Entries : names' = Append(names, e)
      BY <2>1 DEF NamesStep, NameUse!Next
    <3> QED BY <3>1, AppendProperties DEF NamesAreEntries
  <2>2. NamesStep \/ UNCHANGED names
    BY DEF FilesNext, files_vars, file_vars, ReportStep, ConfigStep, FileStep, TextStep, TreeStep,
           AnswerStep, CollisionStep, BaselineStep
  <2> QED BY <2>1, <2>2 DEF NamesAreEntries
<1> QED BY <1>1, <1>2, PTL DEF FilesSpec

\* The check's idea of a constant is wider than a scope: what is in scope is
\* known, and what is known otherwise is in a module or in the other method.
LEMMA KnownOrInScope ==
  ASSUME NEW fn \in 1 .. 2
  PROVE  /\ NameUse!InScope(fn) => NameUse!IsKnownConst
         /\ NameUse!IsKnownConst =>
              \/ NameUse!InScope(fn) \/ NameUse!Declared("inner", 0)
              \/ NameUse!Declared("const", 3 - fn)
<1>1. /\ \A k \in 0 .. 2 : k = 0 \/ k = fn \/ k = 3 - fn
      /\ 0 \in 0 .. 2 /\ fn \in 0 .. 2
  OBVIOUS
<1> QED BY <1>1 DEF NameUse!InScope, NameUse!IsKnownConst

\* Every use is looked up by the name alone, so the two ideas decide.
LEMMA KeysByName == ASSUME NamesAreEntries PROVE NameUse!KeyNameFindings
<1> SUFFICES ASSUME NEW n \in DOMAIN names, NameUse!IsUse(names[n])
             PROVE  /\ ~NameUse!IsStable(names[n]) =>
                         \/ n \in NameUse!DynamicKeys \/ NameUse!Declared("inner", 0)
                         \/ NameUse!Declared("const", 3 - names[n].fn)
                    /\ n \in NameUse!DynamicKeys =>
                         ~NameUse!IsStable(names[n]) \/ names[n].does = "self"
  BY DEF NameUse!KeyNameFindings
<1>1. names[n] \in NameUse!Entries
  BY DEF NamesAreEntries
<1>2. names[n].does \in {"key", "self", "lit"} /\ names[n].fn \in 1 .. 2
  BY <1>1 DEF NameUse!IsUse, NameUse!Entries
<1>3. n \in NameUse!DynamicKeys <=> ~(names[n].does = "lit" \/ NameUse!IsKnownConst)
  BY DEF NameUse!DynamicKeys, NameUse!IsFixed
<1>4. NameUse!IsStable(names[n]) <=>
        names[n].does \in {"self", "lit"} \/ NameUse!InScope(names[n].fn)
  BY DEF NameUse!IsStable
<1> QED BY <1>2, <1>3, <1>4, KnownOrInScope

\* A key made from a parameter is told from a constant one in a file with any
\* number of declarations and uses.
THEOREM KeysMadeOfParametersAreFound == FilesSpec => []KeyNameFindings
<1>1. NamesAreEntries => KeyNameFindings
  BY KeysByName DEF KeyNameFindings
<1> QED BY <1>1, FilesKeepNames, PTL

-----------------------------------------------------------------------------
(* forbidden-std-imports and hardcoded-address: lexers *)

\* A lexer's state before the first token and after each, if the state and the
\* number of the token give the next one.
Trace(S, first, step, len, f) == f = [k \in 0 .. len |-> IF k = 0 THEN first ELSE step[<<f[k - 1], k>>]]

LEMMA TraceExists ==
  ASSUME NEW S, NEW first \in S, NEW len \in Nat, NEW step \in [S \X (1 .. len) -> S]
  PROVE  \E f \in [0 .. len -> S] : Trace(S, first, step, len, f)
<1> DEFINE Good == {n \in 0 .. len : \E f \in [0 .. n -> S] : Trace(S, first, step, n, f)}
<1>1. 0 \in Good
  <2> DEFINE f == [k \in 0 .. 0 |-> first]
  <2>1. f \in [0 .. 0 -> S] /\ Trace(S, first, step, 0, f)
    BY DEF Trace
  <2> QED BY <2>1
<1>2. ASSUME NEW n \in Good, n < len PROVE n + 1 \in Good
  <2>1. n \in Nat /\ n + 1 \in 1 .. len /\ n + 1 \in 0 .. len
    BY <1>2
  <2>2. PICK g \in [0 .. n -> S] : Trace(S, first, step, n, g)
    BY <1>2
  <2> DEFINE f == [k \in 0 .. (n + 1) |-> IF k = n + 1 THEN step[<<g[n], n + 1>>] ELSE g[k]]
  <2>3. step[<<g[n], n + 1>>] \in S
    BY <2>1
  <2>4. f \in [0 .. (n + 1) -> S]
    BY <2>1, <2>3
  <2>5. ASSUME NEW k \in 0 .. (n + 1)
        PROVE  f[k] = IF k = 0 THEN first ELSE step[<<f[k - 1], k>>]
    <3>1. CASE k = n + 1
      <4>1. f[k] = step[<<g[n], n + 1>>] /\ f[k - 1] = g[n] /\ k # 0
        BY <2>1, <3>1
      <4> QED BY <3>1, <4>1
    <3>2. CASE k # n + 1
      <4>1. k \in 0 .. n /\ f[k] = g[k] /\ (k # 0 => f[k - 1] = g[k - 1])
        BY <2>1, <3>2
      <4>2. g[k] = IF k = 0 THEN first ELSE step[<<g[k - 1], k>>]
        BY <2>2, <4>1 DEF Trace
      <4> QED BY <4>1, <4>2
    <3> QED BY <3>1, <3>2
  <2>6. f = [k \in 0 .. (n + 1) |-> f[k]]
    OBVIOUS
  <2> HIDE DEF f
  <2>7. Trace(S, first, step, n + 1, f)
    BY <2>5, <2>6 DEF Trace
  <2> QED BY <2>1, <2>4, <2>7
<1>3. len \in Good
  <2>1. Good \in SUBSET (0 .. len) /\ len \in 0 .. len
    OBVIOUS
  <2> HIDE DEF Good
  <2> QED BY <1>1, <1>2, <2>1, Throughout
<1> QED BY <1>3

Modes == {"code", "string", "line comment", "comment", "nested", "error"}

LEMMA LexKeepsModes ==
  ASSUME NEW mode \in Modes, NEW token
  PROVE  Text!Lex(mode, token) \in Modes
  BY DEF Text!Lex, Modes

\* The compiler's mode at each token, from the one at the token before.
LEMMA ModeSteps ==
  ASSUME NEW t \in Seq(Text!Tokens)
  PROVE  /\ Text!Mode(t, 1) = "code"
         /\ \A i \in 1 .. Len(t) : Text!Mode(t, i + 1) = Text!Lex(Text!Mode(t, i), t[i])
         /\ \A i \in 1 .. (Len(t) + 1) : Text!Mode(t, i) \in Modes
<1> DEFINE mode == CHOOSE f : f = [k \in 0 .. Len(t) |-> IF k = 0 THEN "code" ELSE Text!Lex(f[k - 1], t[k])]
           step == [p \in Modes \X (1 .. Len(t)) |-> Text!Lex(p[1], t[p[2]])]
<1>1. \A i : Text!Mode(t, i) = mode[i - 1]
  BY DEF Text!Mode
<1>2. Len(t) \in Nat /\ "code" \in Modes
  BY DEF Modes
<1>3. step \in [Modes \X (1 .. Len(t)) -> Modes]
  BY LexKeepsModes
<1>4. PICK g \in [0 .. Len(t) -> Modes] : Trace(Modes, "code", step, Len(t), g)
  <2> HIDE DEF step
  <2> QED BY <1>2, <1>3, TraceExists
<1>5. ASSUME NEW f \in [0 .. Len(t) -> Modes]
      PROVE  \A k \in 1 .. Len(t) : step[<<f[k - 1], k>>] = Text!Lex(f[k - 1], t[k])
  <2>1. ASSUME NEW k \in 1 .. Len(t) PROVE step[<<f[k - 1], k>>] = Text!Lex(f[k - 1], t[k])
    <3>1. k - 1 \in 0 .. Len(t)
      OBVIOUS
    <3>2. <<f[k - 1], k>> \in Modes \X (1 .. Len(t))
      BY <3>1
    <3> QED BY <3>2
  <2> QED BY <2>1
<1>6. g = [k \in 0 .. Len(t) |-> IF k = 0 THEN "code" ELSE Text!Lex(g[k - 1], t[k])]
  <2>1. \A k \in 0 .. Len(t) : k # 0 => k \in 1 .. Len(t)
    OBVIOUS
  <2> HIDE DEF step
  <2> QED BY <1>4, <1>5, <2>1 DEF Trace
<1> HIDE DEF step
<1>7. mode = [k \in 0 .. Len(t) |-> IF k = 0 THEN "code" ELSE Text!Lex(mode[k - 1], t[k])]
  BY <1>6, Zenon
<1> HIDE DEF mode
<1>8. mode[0] = "code" /\ \A k \in 1 .. Len(t) : mode[k] = Text!Lex(mode[k - 1], t[k])
  <2>1. \A k \in 1 .. Len(t) : k \in 0 .. Len(t) /\ k # 0
    OBVIOUS
  <2> QED BY <1>2, <1>7, <2>1
<1>9. \A k \in 0 .. Len(t) : mode[k] \in Modes
  <2> DEFINE Good == {k \in 0 .. Len(t) : mode[k] \in Modes}
  <2>1. 0 \in Good /\ Good \in SUBSET (0 .. Len(t))
    BY <1>2, <1>8
  <2>2. ASSUME NEW k \in Good, k < Len(t) PROVE k + 1 \in Good
    <3>1. k + 1 \in 1 .. Len(t) /\ k + 1 - 1 = k /\ k + 1 \in 0 .. Len(t)
      BY <2>2
    <3>2. mode[k + 1] = Text!Lex(mode[k], t[k + 1])
      BY <1>8, <3>1
    <3> QED BY <3>1, <3>2, LexKeepsModes
  <2>3. \A k \in 0 .. Len(t) : k \in Good
    <3> HIDE DEF Good
    <3> QED BY <1>2, <2>1, <2>2, Throughout
  <2> QED BY <2>3
<1>10. \A i \in 1 .. (Len(t) + 1) : i - 1 \in 0 .. Len(t)
  BY <1>2
<1>11. \A i \in 1 .. Len(t) : i + 1 - 1 = i
  OBVIOUS
<1>12. Text!Mode(t, 1) = "code"
  BY <1>1, <1>8
<1>13. \A i \in 1 .. Len(t) : Text!Mode(t, i + 1) = Text!Lex(Text!Mode(t, i), t[i])
  BY <1>1, <1>8, <1>11
<1>14. \A i \in 1 .. (Len(t) + 1) : Text!Mode(t, i) \in Modes
  BY <1>1, <1>9, <1>10
<1> QED BY <1>12, <1>13, <1>14

\* The same for hardcoded-address, whose modes are others.
KeptModes == {"code", "string", "comment", "dropped"}

LEMMA KeptSteps ==
  ASSUME NEW t \in Seq(Text!Tokens)
  PROVE  /\ Text!Kept(t, 1) = "code"
         /\ \A i \in 1 .. Len(t) : Text!Kept(t, i + 1) = Text!Keep(Text!Kept(t, i), t[i])
<1> DEFINE mode == CHOOSE f : f = [k \in 0 .. Len(t) |-> IF k = 0 THEN "code" ELSE Text!Keep(f[k - 1], t[k])]
           step == [p \in KeptModes \X (1 .. Len(t)) |-> Text!Keep(p[1], t[p[2]])]
<1>1. \A i : Text!Kept(t, i) = mode[i - 1]
  BY DEF Text!Kept
<1>2. Len(t) \in Nat /\ "code" \in KeptModes
  BY DEF KeptModes
<1>3. step \in [KeptModes \X (1 .. Len(t)) -> KeptModes]
  <2>1. \A m \in KeptModes : \A token : Text!Keep(m, token) \in KeptModes
    BY DEF Text!Keep, KeptModes
  <2> QED BY <2>1
<1>4. PICK g \in [0 .. Len(t) -> KeptModes] : Trace(KeptModes, "code", step, Len(t), g)
  <2> HIDE DEF step
  <2> QED BY <1>2, <1>3, TraceExists
<1>5. \A k \in 1 .. Len(t) : step[<<g[k - 1], k>>] = Text!Keep(g[k - 1], t[k])
  <2>1. ASSUME NEW k \in 1 .. Len(t) PROVE step[<<g[k - 1], k>>] = Text!Keep(g[k - 1], t[k])
    <3>1. k - 1 \in 0 .. Len(t)
      OBVIOUS
    <3>2. <<g[k - 1], k>> \in KeptModes \X (1 .. Len(t))
      BY <3>1
    <3> QED BY <3>2
  <2> QED BY <2>1
<1>6. g = [k \in 0 .. Len(t) |-> IF k = 0 THEN "code" ELSE Text!Keep(g[k - 1], t[k])]
  <2>1. \A k \in 0 .. Len(t) : k # 0 => k \in 1 .. Len(t)
    OBVIOUS
  <2> HIDE DEF step
  <2> QED BY <1>4, <1>5, <2>1 DEF Trace
<1> HIDE DEF step
<1>7. mode = [k \in 0 .. Len(t) |-> IF k = 0 THEN "code" ELSE Text!Keep(mode[k - 1], t[k])]
  BY <1>6, Zenon
<1> HIDE DEF mode
<1>8. mode[0] = "code" /\ \A k \in 1 .. Len(t) : mode[k] = Text!Keep(mode[k - 1], t[k])
  <2>1. \A k \in 1 .. Len(t) : k \in 0 .. Len(t) /\ k # 0
    OBVIOUS
  <2> QED BY <1>2, <1>7, <2>1
<1>9. \A i \in 1 .. Len(t) : i + 1 - 1 = i
  OBVIOUS
<1> QED BY <1>1, <1>8, <1>9

\* The lines: each break begins another, and the numbers of lines do not descend.
LEMMA LineSteps ==
  ASSUME NEW t \in Seq(Text!Tokens)
  PROVE  /\ Text!LineOf(t, 1) = 1
         /\ \A i \in 1 .. Len(t) :
              Text!LineOf(t, i + 1) = Text!LineOf(t, i) + (IF t[i] = "line" THEN 1 ELSE 0)
         /\ \A i \in 1 .. (Len(t) + 1) : Text!LineOf(t, i) \in Nat \ {0}
         /\ Text!LineCount(t) = Text!LineOf(t, Len(t) + 1)
<1> DEFINE Above(i) == {j \in 1 .. Len(t) : t[j] = "line" /\ j < i}
<1>1. \A T : Text!Cardinality(T) = Cardinality(T)
  BY Zenon DEF Text!Cardinality, Cardinality
<1>2. Len(t) \in Nat /\ DOMAIN t = 1 .. Len(t)
  OBVIOUS
<1>3. \A i : {j \in Text!Breaks(t) : j < i} = Above(i)
  BY <1>2 DEF Text!Breaks
<1>4. \A i : Text!LineOf(t, i) = Cardinality(Above(i)) + 1
  BY <1>1, <1>3 DEF Text!LineOf
<1>5. \A i : IsFiniteSet(Above(i)) /\ Cardinality(Above(i)) \in Nat
  <2>1. IsFiniteSet(1 .. Len(t))
    BY <1>2, FS_Interval
  <2>2. \A i : Above(i) \in SUBSET (1 .. Len(t))
    OBVIOUS
  <2> QED BY <2>1, <2>2, FS_Subset, FS_CardinalityType
<1>6. Above(1) = {} /\ Text!Breaks(t) = Above(Len(t) + 1)
  BY <1>2 DEF Text!Breaks
<1>7. ASSUME NEW i \in 1 .. Len(t)
      PROVE  Cardinality(Above(i + 1)) = Cardinality(Above(i)) + (IF t[i] = "line" THEN 1 ELSE 0)
  <2>1. i \notin Above(i)
    BY <1>2
  <2>2. CASE t[i] = "line"
    <3>1. Above(i + 1) = Above(i) \cup {i}
      BY <2>2
    <3> HIDE DEF Above
    <3> QED BY <2>1, <2>2, <3>1, <1>5, FS_AddElement
  <2>3. CASE t[i] # "line"
    <3>1. Above(i + 1) = Above(i)
      BY <2>3
    <3>2. Cardinality(Above(i)) + 0 = Cardinality(Above(i))
      <4> HIDE DEF Above
      <4> QED BY <1>5
    <3> QED BY <2>3, <3>1, <3>2
  <2> QED BY <2>2, <2>3
<1> HIDE DEF Above
<1>8. Cardinality(Above(1)) = 0
  BY <1>6, FS_EmptySet
<1>9. Text!LineCount(t) = Text!LineOf(t, Len(t) + 1)
  BY <1>1, <1>4, <1>6 DEF Text!LineCount
<1>10. \A i \in 1 .. Len(t) :
        Text!LineOf(t, i + 1) = Text!LineOf(t, i) + (IF t[i] = "line" THEN 1 ELSE 0)
  BY <1>4, <1>5, <1>7
<1>11. Text!LineOf(t, 1) = 1
  BY <1>4, <1>8
<1>12. \A i \in 1 .. (Len(t) + 1) : Text!LineOf(t, i) \in Nat \ {0}
  BY <1>4, <1>5
<1> QED BY <1>9, <1>10, <1>11, <1>12

LEMMA LinesAscend ==
  ASSUME NEW t \in Seq(Text!Tokens), NEW j \in 1 .. (Len(t) + 1)
  PROVE  \A i \in j .. (Len(t) + 1) : Text!LineOf(t, j) <= Text!LineOf(t, i)
<1> DEFINE Good == {i \in j .. (Len(t) + 1) : Text!LineOf(t, j) <= Text!LineOf(t, i)}
<1>1. j \in Nat /\ Len(t) + 1 \in Nat /\ Good \in SUBSET (j .. (Len(t) + 1))
  OBVIOUS
<1>2. Text!LineOf(t, j) \in Nat
  BY LineSteps
<1>3. j \in Good
  BY <1>2
<1>4. ASSUME NEW i \in Good, i < Len(t) + 1 PROVE i + 1 \in Good
  <2>1. i \in 1 .. Len(t) /\ i + 1 \in j .. (Len(t) + 1) /\ i \in 1 .. (Len(t) + 1)
    BY <1>4
  <2>2. /\ Text!LineOf(t, i) \in Nat /\ Text!LineOf(t, j) <= Text!LineOf(t, i)
        /\ Text!LineOf(t, i + 1) = Text!LineOf(t, i) + (IF t[i] = "line" THEN 1 ELSE 0)
    BY <2>1, LineSteps
  <2>3. Text!LineOf(t, j) <= Text!LineOf(t, i + 1)
    BY <1>2, <2>2
  <2> QED BY <2>1, <2>3
<1>5. \A i \in j .. (Len(t) + 1) : i \in Good
  <2> HIDE DEF Good
  <2> QED BY <1>1, <1>3, <1>4, Throughout
<1> QED BY <1>5

\* The first lexer's state between lines, from what it makes of each line.
LEMMA BlockSteps ==
  ASSUME NEW t \in Seq(Text!Tokens)
  PROVE  /\ Text!InBlock(t, 1) = FALSE
         /\ \A n \in 1 .. Text!LineCount(t) :
              /\ Text!InBlock(t, n) \in BOOLEAN
              /\ Text!InBlock(t, n + 1) = Text!StdLine(Text!InBlock(t, n), t, Text!Line(t, n)).block
<1> DEFINE len   == Text!LineCount(t)
           block == CHOOSE f : f = [k \in 0 .. len |-> k > 0 /\ Text!StdLine(f[k - 1], t, Text!Line(t, k)).block]
           step  == [p \in BOOLEAN \X (1 .. len) |-> Text!StdLine(p[1], t, Text!Line(t, p[2])).block]
<1>1. \A n : Text!InBlock(t, n) = block[n - 1]
  BY DEF Text!InBlock
<1>2. len \in Nat /\ FALSE \in BOOLEAN
  BY LineSteps
<1>3. step \in [BOOLEAN \X (1 .. len) -> BOOLEAN]
  <2>1. \A b \in BOOLEAN : \A s : Text!StdLine(b, t, s).block \in BOOLEAN
    BY DEF Text!StdLine
  <2> HIDE DEF len
  <2> QED BY <2>1
<1>4. PICK g \in [0 .. len -> BOOLEAN] : Trace(BOOLEAN, FALSE, step, len, g)
  <2> HIDE DEF step, len
  <2> QED BY <1>2, <1>3, TraceExists
<1> HIDE DEF len
<1>5. \A k \in 1 .. len : step[<<g[k - 1], k>>] = Text!StdLine(g[k - 1], t, Text!Line(t, k)).block
  <2>1. ASSUME NEW k \in 1 .. len
        PROVE  step[<<g[k - 1], k>>] = Text!StdLine(g[k - 1], t, Text!Line(t, k)).block
    <3>1. k - 1 \in 0 .. len
      BY <1>2
    <3>2. <<g[k - 1], k>> \in BOOLEAN \X (1 .. len)
      BY <3>1
    <3> QED BY <3>2
  <2> QED BY <2>1
<1> HIDE DEF step
<1>6. g = [k \in 0 .. len |-> k > 0 /\ Text!StdLine(g[k - 1], t, Text!Line(t, k)).block]
  <2>1. g = [k \in 0 .. len |-> IF k = 0 THEN FALSE ELSE step[<<g[k - 1], k>>]]
    BY <1>4 DEF Trace
  <2>2. ASSUME NEW k \in 0 .. len
        PROVE  g[k] = (k > 0 /\ Text!StdLine(g[k - 1], t, Text!Line(t, k)).block)
    <3>1. CASE k = 0
      <4>1. g[0] = FALSE /\ ~(0 > 0)
        BY <1>2, <2>1
      <4> QED BY <3>1, <4>1
    <3>2. CASE k # 0
      <4>1. k \in 1 .. len /\ k > 0
        BY <1>2, <3>2
      <4>2. g[k] = Text!StdLine(g[k - 1], t, Text!Line(t, k)).block
        BY <1>5, <2>1, <3>2, <4>1
      <4>3. g[k] \in BOOLEAN
        OBVIOUS
      <4> QED BY <4>1, <4>2, <4>3
    <3> QED BY <3>1, <3>2
  <2>3. g = [k \in 0 .. len |-> g[k]]
    OBVIOUS
  <2> QED BY <2>2, <2>3
<1>7. block = [k \in 0 .. len |-> k > 0 /\ Text!StdLine(block[k - 1], t, Text!Line(t, k)).block]
  BY <1>6, Zenon
<1> HIDE DEF block
<1>8. \A k \in 0 .. len : block[k] = (k > 0 /\ Text!StdLine(block[k - 1], t, Text!Line(t, k)).block)
  BY <1>7
<1>9. block[0] = FALSE
  <2>1. 0 \in 0 .. len /\ ~(0 > 0)
    BY <1>2
  <2> QED BY <1>8, <2>1
<1>10. ASSUME NEW n \in 1 .. len
       PROVE  /\ Text!InBlock(t, n) \in BOOLEAN
              /\ Text!InBlock(t, n + 1) = Text!StdLine(Text!InBlock(t, n), t, Text!Line(t, n)).block
  <2>1. n - 1 \in 0 .. len /\ n \in 0 .. len /\ n > 0 /\ n + 1 - 1 = n
    BY <1>2
  <2>2. block[n - 1] \in BOOLEAN
    BY <1>8, <2>1
  <2>3. Text!StdLine(block[n - 1], t, Text!Line(t, n)).block \in BOOLEAN
    BY <2>2 DEF Text!StdLine
  <2>4. block[n] = Text!StdLine(block[n - 1], t, Text!Line(t, n)).block
    BY <1>8, <2>1, <2>3
  <2> QED BY <1>1, <2>1, <2>2, <2>4
<1>11. 1 - 1 = 0
  OBVIOUS
<1> QED BY <1>1, <1>9, <1>10, <1>11 DEF len

\* What does not lex stays so, so a file that parses has no error in it.
LEMMA ParsedModes ==
  ASSUME NEW t \in Seq(Text!Tokens), Text!Parses(t), NEW j \in 1 .. (Len(t) + 1)
  PROVE  Text!Mode(t, j) # "error"
<1> SUFFICES ASSUME Text!Mode(t, j) = "error" PROVE FALSE
  OBVIOUS
<1> DEFINE Good == {i \in j .. (Len(t) + 1) : Text!Mode(t, i) = "error"}
<1>1. j \in Nat /\ Len(t) + 1 \in Nat /\ Good \in SUBSET (j .. (Len(t) + 1)) /\ j \in Good
  OBVIOUS
<1>2. ASSUME NEW i \in Good, i < Len(t) + 1 PROVE i + 1 \in Good
  <2>1. i \in 1 .. Len(t) /\ i + 1 \in j .. (Len(t) + 1) /\ Text!Mode(t, i) = "error"
    BY <1>2
  <2>2. Text!Mode(t, i + 1) = Text!Lex("error", t[i])
    BY <2>1, ModeSteps
  <2>3. Text!Lex("error", t[i]) = "error"
    BY DEF Text!Lex
  <2> QED BY <2>1, <2>2, <2>3
<1>3. Len(t) + 1 \in Good
  <2>1. Len(t) + 1 \in j .. (Len(t) + 1)
    OBVIOUS
  <2> HIDE DEF Good
  <2> QED BY <1>1, <1>2, <2>1, Throughout
<1> QED BY <1>3 DEF Text!Parses

-----------------------------------------------------------------------------
(* hardcoded-address: step by step with the compiler *)

Plain == {"code", "string", "comment", "line comment"}
Like(mode) == IF mode = "line comment" THEN "dropped" ELSE mode

LEMMA KeptAlike ==
  ASSUME NEW mode \in Plain, NEW token \in Text!Tokens,
         Text!Lex(mode, token) \notin {"nested", "error"}, ~(token = "line" /\ mode = "string")
  PROVE  /\ Text!Lex(mode, token) \in Plain
         /\ Text!Keep(Like(mode), token) = Like(Text!Lex(mode, token))
<1>1. CASE mode = "code"
  BY <1>1 DEF Text!Lex, Text!Keep, Like, Plain, Text!Tokens
<1>2. CASE mode = "string"
  BY <1>2 DEF Text!Lex, Text!Keep, Like, Plain, Text!Tokens
<1>3. CASE mode = "comment"
  BY <1>3 DEF Text!Lex, Text!Keep, Like, Plain, Text!Tokens
<1>4. CASE mode = "line comment"
  BY <1>4 DEF Text!Lex, Text!Keep, Like, Plain, Text!Tokens
<1> QED BY <1>1, <1>2, <1>3, <1>4 DEF Plain

LEMMA KeptIsRead ==
  ASSUME NEW t \in Seq(Text!Tokens), Text!Parses(t), NEW i \in 1 .. Len(t),
         ~Text!Nested(t, i), ~Text!Spanning(t, i)
  PROVE  Text!Mode(t, i) \in Plain /\ Text!Kept(t, i) = Like(Text!Mode(t, i))
<1> DEFINE Good == {k \in 1 .. i : Text!Mode(t, k) \in Plain /\ Text!Kept(t, k) = Like(Text!Mode(t, k))}
<1>1. i \in Nat /\ Good \in SUBSET (1 .. i) /\ i \in 1 .. i
  OBVIOUS
<1>2. 1 \in Good
  <2>1. Text!Mode(t, 1) = "code" /\ Text!Kept(t, 1) = "code"
    BY ModeSteps, KeptSteps
  <2>2. 1 \in 1 .. i
    OBVIOUS
  <2> QED BY <2>1, <2>2 DEF Plain, Like
<1>3. ASSUME NEW k \in Good, k < i PROVE k + 1 \in Good
  <2>1. /\ k \in 1 .. Len(t) /\ k \in 1 .. i /\ k + 1 \in 1 .. i /\ k + 1 \in 1 .. (Len(t) + 1)
        /\ Text!Mode(t, k) \in Plain /\ Text!Kept(t, k) = Like(Text!Mode(t, k))
    BY <1>3
  <2>2. /\ Text!Mode(t, k + 1) = Text!Lex(Text!Mode(t, k), t[k])
        /\ Text!Kept(t, k + 1) = Text!Keep(Text!Kept(t, k), t[k])
    BY <2>1, ModeSteps, KeptSteps
  <2>3. Text!Mode(t, k + 1) # "error"
    BY <2>1, ParsedModes
  <2>4. Text!Mode(t, k + 1) # "nested" /\ ~(t[k] = "line" /\ Text!Mode(t, k) = "string")
    BY <2>1 DEF Text!Nested, Text!Spanning
  <2>5. t[k] \in Text!Tokens
    BY <2>1
  <2> QED BY <2>1, <2>2, <2>3, <2>4, <2>5, KeptAlike
<1>4. i \in Good
  <2> HIDE DEF Good
  <2> QED BY <1>1, <1>2, <1>3, Throughout
<1> QED BY <1>4

\* An address is reported if it is in code or in a string.
LEMMA AddressesAreTold ==
  ASSUME NEW t \in Seq(Text!Tokens), Text!Parses(t), NEW i \in DOMAIN t, t[i] = "word",
         ~Text!Nested(t, i), ~Text!Spanning(t, i)
  PROVE  i \in Text!HardcodedAddress(t) <=> Text!Mode(t, i) \in {"code", "string"}
<1>1. i \in 1 .. Len(t)
  OBVIOUS
<1>2. Text!Mode(t, i) \in Plain /\ Text!Kept(t, i) = Like(Text!Mode(t, i))
  BY <1>1, KeptIsRead
<1>3. i \in Text!HardcodedAddress(t) <=> Text!Kept(t, i) \in {"code", "string"}
  BY DEF Text!HardcodedAddress
<1> QED BY <1>2, <1>3 DEF Plain, Like

-----------------------------------------------------------------------------
(* forbidden-std-imports: line by line with the compiler *)

\* Whether a place is in a string, by the quotes before it in its piece.
LEMMA QuotedSteps ==
  ASSUME NEW t \in Seq(Text!Tokens), NEW s \in SUBSET (1 .. Len(t))
  PROVE  /\ \A i \in 1 .. Len(t) :
              Text!Quoted(t, s, i + 1) <=>
                IF i \in s /\ t[i] = "quote" THEN ~Text!Quoted(t, s, i) ELSE Text!Quoted(t, s, i)
         /\ \A i \in 1 .. (Len(t) + 1) : (\A j \in s : ~(j < i)) => ~Text!Quoted(t, s, i)
<1> DEFINE Quotes(i) == {j \in s : t[j] = "quote" /\ j < i}
<1>1. \A T : Text!Cardinality(T) = Cardinality(T)
  BY Zenon DEF Text!Cardinality, Cardinality
<1>2. \A i : Text!Quoted(t, s, i) <=> Cardinality(Quotes(i)) % 2 = 1
  BY <1>1 DEF Text!Quoted
<1>3. \A i : IsFiniteSet(Quotes(i)) /\ Cardinality(Quotes(i)) \in Nat
  <2>1. IsFiniteSet(1 .. Len(t))
    BY FS_Interval
  <2>2. \A i : Quotes(i) \in SUBSET (1 .. Len(t))
    OBVIOUS
  <2> QED BY <2>1, <2>2, FS_Subset, FS_CardinalityType
<1>4. ASSUME NEW i \in 1 .. Len(t)
      PROVE  Text!Quoted(t, s, i + 1) <=>
               IF i \in s /\ t[i] = "quote" THEN ~Text!Quoted(t, s, i) ELSE Text!Quoted(t, s, i)
  <2>0. ~(i < i) /\ \A j \in s : j < i + 1 <=> j < i \/ j = i
    <3>1. \A j \in s : j \in 1 .. Len(t)
      OBVIOUS
    <3> QED BY <3>1
  <2>1. CASE i \in s /\ t[i] = "quote"
    <3>1. Quotes(i + 1) = Quotes(i) \cup {i} /\ i \notin Quotes(i)
      BY <2>0, <2>1
    <3> HIDE DEF Quotes
    <3>2. Cardinality(Quotes(i + 1)) = Cardinality(Quotes(i)) + 1
      BY <3>1, <1>3, FS_AddElement
    <3>3. \A c \in Nat : (c + 1) % 2 = 1 <=> ~(c % 2 = 1)
      OBVIOUS
    <3> QED BY <1>2, <1>3, <2>1, <3>2, <3>3
  <2>2. CASE ~(i \in s /\ t[i] = "quote")
    <3>1. Quotes(i + 1) = Quotes(i)
      BY <2>0, <2>2
    <3> HIDE DEF Quotes
    <3> QED BY <1>2, <2>2, <3>1
  <2> QED BY <2>1, <2>2
<1>5. ASSUME NEW i \in 1 .. (Len(t) + 1), \A j \in s : ~(j < i) PROVE ~Text!Quoted(t, s, i)
  <2>1. Quotes(i) = {}
    BY <1>5
  <2> HIDE DEF Quotes
  <2>2. Cardinality(Quotes(i)) = 0 /\ 0 % 2 = 0
    BY <2>1, FS_EmptySet
  <2> QED BY <1>2, <2>2
<1> QED BY <1>4, <1>5

LEMMA QuotedAgree ==
  ASSUME NEW t, NEW s, NEW r, NEW i, \A j : j < i => (j \in s <=> j \in r)
  PROVE  Text!Quoted(t, s, i) <=> Text!Quoted(t, r, i)
<1>1. {j \in s : t[j] = "quote" /\ j < i} = {j \in r : t[j] = "quote" /\ j < i}
  OBVIOUS
<1> QED BY <1>1 DEF Text!Quoted

\* The part of a line above a place.
Begun(t, m, i) == {j \in Text!Line(t, m) : j < i}
\* A line comment has begun in it.
Commented(t, m, i) == \E j \in Begun(t, m, i) : t[j] = "//" /\ ~Text!Quoted(t, Text!Line(t, m), j)

\* What the compiler's mode at a place of line m is to a lexer that knows of
\* what was before the line only whether a comment was open.
Agrees(t, m, i) ==
  IF Text!InBlock(t, m)
  THEN IF Text!Has(t, Begun(t, m, i), "*/")
       THEN /\ \E k \in Begun(t, m, i) : t[k] = "*/" /\ Text!Mode(t, k) = "comment"
            /\ Text!Mode(t, i) \in {"code", "string", "line comment"}
            /\ Text!Mode(t, i) # "line comment" =>
                 (Text!Mode(t, i) = "string" <=> Text!Quoted(t, Text!After(t, Text!Line(t, m), "*/"), i))
       ELSE Text!Mode(t, i) = "comment"
  ELSE Text!Mode(t, i) = IF Text!Has(t, Begun(t, m, i), "/*") THEN "comment"
                         ELSE IF Commented(t, m, i) THEN "line comment"
                         ELSE IF Text!Quoted(t, Text!Line(t, m), i) THEN "string" ELSE "code"

\* A text up to a place, without what the property leaves out.
Readable(t, end) == ~Text!Nested(t, end) /\ ~Text!Spanning(t, end) /\ ~Text!FakeOpen(t, end)

LEMMA LineIs ==
  ASSUME NEW t \in Seq(Text!Tokens), NEW m
  PROVE  /\ Text!Line(t, m) \in SUBSET (1 .. Len(t))
         /\ \A i : i \in Text!Line(t, m) <=> i \in 1 .. Len(t) /\ Text!LineOf(t, i) = m /\ t[i] # "line"
<1>1. DOMAIN t = 1 .. Len(t)
  OBVIOUS
<1> QED BY <1>1, Zenon DEF Text!Line

\* What is known of the step from a place to the next one.
LEMMA ReadableSteps ==
  ASSUME NEW t \in Seq(Text!Tokens), Text!Parses(t), NEW end \in 1 .. Len(t), Readable(t, end),
         NEW i \in 1 .. end, i < end
  PROVE  /\ i \in 1 .. Len(t) /\ i + 1 \in 1 .. end /\ t[i] \in Text!Tokens
         /\ Text!Mode(t, i + 1) = Text!Lex(Text!Mode(t, i), t[i])
         /\ Text!Mode(t, i + 1) \notin {"nested", "error"}
         /\ t[i] = "line" => Text!Mode(t, i) # "string"
         /\ t[i] = "/*" => Text!Mode(t, i) = "code"
         /\ \A j \in 1 .. end : t[j] = "/*" /\ t[i] = "*/" /\ Text!Mode(t, i) = "comment" =>
              Text!LineOf(t, i) # Text!LineOf(t, j)
         /\ \A k \in 1 .. end : t[i] = "/*" /\ t[k] = "*/" /\ Text!Mode(t, k) = "comment" =>
              Text!LineOf(t, k) # Text!LineOf(t, i)
<1>1. i \in 1 .. Len(t) /\ i + 1 \in 1 .. end /\ i + 1 \in 1 .. (Len(t) + 1) /\ t[i] \in Text!Tokens
  OBVIOUS
<1>2. Text!Mode(t, i + 1) = Text!Lex(Text!Mode(t, i), t[i])
  BY <1>1, ModeSteps
<1>3. Text!Mode(t, i + 1) # "error"
  BY <1>1, ParsedModes
<1>4. \A j \in 1 .. end : Text!Mode(t, j) # "nested"
  BY Zenon DEF Readable, Text!Nested
<1>5. \A j \in 1 .. end : ~(t[j] = "line" /\ Text!Mode(t, j) = "string")
  BY Zenon DEF Readable, Text!Spanning
<1>6. \A j \in 1 .. end : t[j] = "/*" =>
        /\ Text!Mode(t, j) = "code"
        /\ \A k \in 1 .. end : t[k] = "*/" /\ Text!Mode(t, k) = "comment" =>
             Text!LineOf(t, k) # Text!LineOf(t, j)
  BY Zenon DEF Readable, Text!FakeOpen
<1> QED BY <1>1, <1>2, <1>3, <1>4, <1>5, <1>6

\* Within a line, from one token to the next.
LEMMA AgreesInLine ==
  ASSUME NEW t \in Seq(Text!Tokens), Text!Parses(t), NEW end \in 1 .. Len(t), Readable(t, end),
         NEW i \in 1 .. end, i < end, t[i] # "line", Agrees(t, Text!LineOf(t, i), i)
  PROVE  Agrees(t, Text!LineOf(t, i), i + 1)
<1> DEFINE m == Text!LineOf(t, i)
           s == Text!Line(t, m)
           r == Text!After(t, s, "*/")
<1>1. /\ i \in 1 .. Len(t) /\ i + 1 \in 1 .. end /\ t[i] \in Text!Tokens
      /\ Text!Mode(t, i + 1) = Text!Lex(Text!Mode(t, i), t[i])
      /\ Text!Mode(t, i + 1) \notin {"nested", "error"}
      /\ t[i] = "/*" => Text!Mode(t, i) = "code"
  BY ReadableSteps
<1>2. i \in s /\ s \in SUBSET (1 .. Len(t))
  BY <1>1, LineIs
<1>3. \A j \in s : j < i + 1 <=> j < i \/ j = i
  <2>1. \A j \in s : j \in 1 .. Len(t)
    BY <1>2
  <2> QED BY <1>1, <2>1
<1>4. \A j \in Begun(t, m, i) : j \in s /\ j \in 1 .. end /\ Text!LineOf(t, j) = m
  <2>1. \A j \in s : j \in 1 .. Len(t) /\ Text!LineOf(t, j) = m
    BY LineIs
  <2>2. \A j \in 1 .. Len(t) : j < i => j \in 1 .. end
    BY <1>1
  <2> QED BY <2>1, <2>2 DEF Begun
<1> HIDE DEF s, m
<1>5. Begun(t, m, i + 1) = Begun(t, m, i) \cup {i}
  BY <1>1, <1>2, <1>3 DEF Begun, s
<1>6. /\ Text!Has(t, Begun(t, m, i + 1), "*/") <=> Text!Has(t, Begun(t, m, i), "*/") \/ t[i] = "*/"
      /\ Text!Has(t, Begun(t, m, i + 1), "/*") <=> Text!Has(t, Begun(t, m, i), "/*") \/ t[i] = "/*"
  BY <1>5, Zenon DEF Text!Has
<1>7. Agrees(t, m, i)
  BY DEF m
<1>8. CASE Text!InBlock(t, m)
  <2>1. CASE Text!Has(t, Begun(t, m, i), "*/")
    <3>1. /\ \E k \in Begun(t, m, i) : t[k] = "*/" /\ Text!Mode(t, k) = "comment"
          /\ Text!Mode(t, i) \in {"code", "string", "line comment"}
          /\ Text!Mode(t, i) # "line comment" => (Text!Mode(t, i) = "string" <=> Text!Quoted(t, r, i))
      BY <1>7, <1>8, <2>1, Zenon DEF Agrees, s
    <3>2. t[i] # "/*"
      <4>1. PICK k \in Begun(t, m, i) : t[k] = "*/" /\ Text!Mode(t, k) = "comment"
        BY <3>1
      <4>2. k \in 1 .. end /\ Text!LineOf(t, k) = m
        BY <1>4
      <4> QED BY <4>1, <4>2, ReadableSteps DEF m
    <3>3. i \in r /\ r \in SUBSET (1 .. Len(t))
      BY <1>2, <2>1 DEF Text!After, Text!Has, Begun, s
    <3>4. Text!Quoted(t, r, i + 1) <=> IF t[i] = "quote" THEN ~Text!Quoted(t, r, i) ELSE Text!Quoted(t, r, i)
      BY <1>1, <3>3, QuotedSteps
    <3> HIDE DEF r
    <3>5. /\ Text!Mode(t, i + 1) \in {"code", "string", "line comment"}
          /\ Text!Mode(t, i + 1) # "line comment" =>
               (Text!Mode(t, i + 1) = "string" <=> Text!Quoted(t, r, i + 1))
      <4>1. CASE Text!Mode(t, i) = "code"
        BY <1>1, <3>1, <3>2, <3>4, <4>1 DEF Text!Lex, Text!Tokens
      <4>2. CASE Text!Mode(t, i) = "string"
        BY <1>1, <3>1, <3>2, <3>4, <4>2 DEF Text!Lex, Text!Tokens
      <4>3. CASE Text!Mode(t, i) = "line comment"
        BY <1>1, <3>1, <3>2, <3>4, <4>3 DEF Text!Lex, Text!Tokens
      <4> QED BY <3>1, <4>1, <4>2, <4>3
    <3>6. \E k \in Begun(t, m, i + 1) : t[k] = "*/" /\ Text!Mode(t, k) = "comment"
      BY <1>5, <3>1
    <3>7. Agrees(t, m, i + 1)
      BY <1>6, <1>8, <2>1, <3>5, <3>6, Zenon DEF Agrees, r, s
    <3> QED BY <3>7 DEF m
  <2>2. CASE ~Text!Has(t, Begun(t, m, i), "*/")
    <3>1. Text!Mode(t, i) = "comment"
      BY <1>7, <1>8, <2>2 DEF Agrees
    <3>2. CASE t[i] = "*/"
      <4>1. Text!Mode(t, i + 1) = "code"
        BY <1>1, <3>1, <3>2 DEF Text!Lex
      <4>2. \A j \in r : ~(j < i + 1)
        <5> SUFFICES ASSUME NEW j \in r, j < i + 1 PROVE FALSE
          OBVIOUS
        <5>1. PICK k \in s : t[k] = "*/" /\ k < j
          BY DEF Text!After
        <5>2. j \in s /\ j \in 1 .. Len(t) /\ k \in 1 .. Len(t)
          BY <1>2, <5>1 DEF Text!After
        <5>3. k < i
          BY <1>1, <5>1, <5>2
        <5> QED BY <2>2, <5>1, <5>3 DEF Text!Has, Begun, s
      <4>3. r \in SUBSET (1 .. Len(t)) /\ i + 1 \in 1 .. (Len(t) + 1)
        <5>1. i + 1 \in 1 .. (Len(t) + 1)
          BY <1>1
        <5> QED BY <1>2, <5>1 DEF Text!After
      <4> HIDE DEF r
      <4>4. ~Text!Quoted(t, r, i + 1)
        BY <4>2, <4>3, QuotedSteps
      <4>5. \E k \in Begun(t, m, i + 1) : t[k] = "*/" /\ Text!Mode(t, k) = "comment"
        BY <1>5, <3>1, <3>2
      <4>6. /\ Text!Mode(t, i + 1) \in {"code", "string", "line comment"}
            /\ Text!Mode(t, i + 1) = "string" <=> Text!Quoted(t, r, i + 1)
        BY <4>1, <4>4
      <4>7. Agrees(t, m, i + 1)
        BY <1>6, <1>8, <3>2, <4>5, <4>6, Zenon DEF Agrees, r, s
      <4> QED BY <4>7 DEF m
    <3>3. CASE t[i] # "*/"
      <4>1. Text!Mode(t, i + 1) = "comment"
        BY <1>1, <3>1, <3>3 DEF Text!Lex
      <4>2. Agrees(t, m, i + 1)
        BY <1>6, <1>8, <2>2, <3>3, <4>1, Zenon DEF Agrees
      <4> QED BY <4>2 DEF m
    <3> QED BY <3>2, <3>3
  <2> QED BY <2>1, <2>2
<1>9. CASE ~Text!InBlock(t, m)
  <2> DEFINE open      == Text!Has(t, Begun(t, m, i), "/*")
             commented == Commented(t, m, i)
             quoted    == Text!Quoted(t, s, i)
  <2>1. Text!Mode(t, i) = IF open THEN "comment" ELSE IF commented THEN "line comment"
                          ELSE IF quoted THEN "string" ELSE "code"
    BY <1>7, <1>9, Zenon DEF Agrees, s
  <2>2. Text!Quoted(t, s, i + 1) <=> IF t[i] = "quote" THEN ~quoted ELSE quoted
    BY <1>1, <1>2, QuotedSteps
  <2>3. Commented(t, m, i + 1) <=> commented \/ (t[i] = "//" /\ ~quoted)
    BY <1>5, Zenon DEF Commented, s
  <2>4. open /\ t[i] = "*/" => FALSE
    <3> SUFFICES ASSUME open, t[i] = "*/" PROVE FALSE
      OBVIOUS
    <3>1. PICK j \in Begun(t, m, i) : t[j] = "/*"
      BY DEF Text!Has
    <3>2. j \in 1 .. end /\ Text!LineOf(t, j) = m
      BY <1>4
    <3>3. Text!Mode(t, i) = "comment"
      BY <2>1
    <3> QED BY <3>1, <3>2, <3>3, ReadableSteps DEF m
  <2> HIDE DEF open, commented, quoted
  <2>5. Text!Mode(t, i + 1) = IF open \/ t[i] = "/*" THEN "comment"
                              ELSE IF commented \/ (t[i] = "//" /\ ~quoted) THEN "line comment"
                              ELSE IF (IF t[i] = "quote" THEN ~quoted ELSE quoted) THEN "string" ELSE "code"
    <3>1. CASE open
      <4>1. Text!Mode(t, i) = "comment"
        BY <2>1, <3>1
      <4> QED BY <1>1, <2>4, <3>1, <4>1 DEF Text!Lex, Text!Tokens
    <3>2. CASE ~open /\ commented
      <4>1. Text!Mode(t, i) = "line comment"
        BY <2>1, <3>2
      <4> QED BY <1>1, <3>2, <4>1 DEF Text!Lex, Text!Tokens
    <3>3. CASE ~open /\ ~commented /\ quoted
      <4>1. Text!Mode(t, i) = "string"
        BY <2>1, <3>3
      <4> QED BY <1>1, <3>3, <4>1 DEF Text!Lex, Text!Tokens
    <3>4. CASE ~open /\ ~commented /\ ~quoted
      <4>1. Text!Mode(t, i) = "code"
        BY <2>1, <3>4
      <4> QED BY <1>1, <3>4, <4>1 DEF Text!Lex, Text!Tokens
    <3> QED BY <3>1, <3>2, <3>3, <3>4
  <2>6. Agrees(t, m, i + 1)
    BY <1>6, <1>9, <2>2, <2>3, <2>5, Zenon DEF Agrees, open, s
  <2> QED BY <2>6 DEF m
<1>10. Text!InBlock(t, m) \/ ~Text!InBlock(t, m)
  OBVIOUS
<1> QED BY <1>8, <1>9, <1>10

\* A comment does not open where a line comment has begun.
LEMMA OpensInCode ==
  ASSUME NEW t \in Seq(Text!Tokens), NEW end \in 1 .. Len(t), Readable(t, end),
         NEW j \in 1 .. end, t[j] = "/*", NEW m, Agrees(t, m, j), ~Text!InBlock(t, m)
  PROVE  ~Commented(t, m, j)
<1>1. Text!Mode(t, j) = "code"
  BY Zenon DEF Readable, Text!FakeOpen
<1> QED BY <1>1 DEF Agrees

LEMMA StartComments ==
  ASSUME NEW t \in Seq(Text!Tokens), NEW m, Text!StartsWith(t, Text!Line(t, m), "//"),
         NEW j \in Text!Line(t, m), t[j] # "//"
  PROVE  Commented(t, m, j)
<1> DEFINE s == Text!Line(t, m)
<1>1. s \in SUBSET (1 .. Len(t))
  BY LineIs
<1>2. PICK f \in s : t[f] = "//" /\ \A i \in s : f <= i
  BY DEF Text!StartsWith
<1>3. f \in 1 .. Len(t) /\ \A i \in s : i \in 1 .. Len(t) /\ ~(i < f)
  BY <1>1, <1>2
<1>4. f < j
  BY <1>1, <1>2
<1>5. f \in 1 .. (Len(t) + 1)
  BY <1>3
<1>6. ~Text!Quoted(t, s, f)
  BY <1>1, <1>3, <1>5, QuotedSteps
<1> QED BY <1>2, <1>4, <1>6 DEF Commented, Begun

\* Over the end of a line.
LEMMA AgreesOverBreak ==
  ASSUME NEW t \in Seq(Text!Tokens), Text!Parses(t), NEW end \in 1 .. Len(t), Readable(t, end),
         NEW i \in 1 .. end, i < end, t[i] = "line",
         \A j \in 1 .. i : Agrees(t, Text!LineOf(t, j), j)
  PROVE  Agrees(t, Text!LineOf(t, i) + 1, i + 1)
<1> DEFINE m == Text!LineOf(t, i)
           s == Text!Line(t, m)
<1>1. /\ i \in 1 .. Len(t) /\ i + 1 \in 1 .. end /\ t[i] \in Text!Tokens
      /\ Text!Mode(t, i + 1) = Text!Lex(Text!Mode(t, i), t[i])
      /\ Text!Mode(t, i + 1) \notin {"nested", "error"}
      /\ Text!Mode(t, i) # "string"
  BY ReadableSteps
<1>2. i \in 1 .. (Len(t) + 1) /\ i + 1 \in 1 .. (Len(t) + 1) /\ Len(t) + 1 \in i + 1 .. (Len(t) + 1)
  BY <1>1
<1>3. m \in Nat \ {0} /\ Text!LineOf(t, i + 1) = m + 1
  <2>1. m \in Nat \ {0}
    BY <1>2, LineSteps
  <2>2. Text!LineOf(t, i + 1) = m + (IF t[i] = "line" THEN 1 ELSE 0)
    BY <1>1, LineSteps
  <2> QED BY <2>1, <2>2
<1>4. m \in 1 .. Text!LineCount(t)
  <2>1. m + 1 <= Text!LineOf(t, Len(t) + 1)
    BY <1>2, <1>3, LinesAscend
  <2>2. Text!LineCount(t) = Text!LineOf(t, Len(t) + 1) /\ Text!LineCount(t) \in Nat
    <3>1. Len(t) + 1 \in 1 .. (Len(t) + 1)
      OBVIOUS
    <3> QED BY <3>1, LineSteps
  <2> QED BY <1>3, <2>1, <2>2
<1>5. Begun(t, m, i) = s
  <2> SUFFICES ASSUME NEW j \in s PROVE j < i
    BY DEF Begun
  <2>1. j \in 1 .. Len(t) /\ Text!LineOf(t, j) = m /\ t[j] # "line"
    BY LineIs
  <2>2. j # i
    BY <2>1
  <2>3. j \in i + 1 .. (Len(t) + 1) => m + 1 <= m
    BY <1>2, <1>3, <2>1, LinesAscend
  <2> QED BY <1>1, <1>3, <2>1, <2>2, <2>3
<1>6. \A j \in Text!Line(t, m + 1) : ~(j < i + 1)
  <2> SUFFICES ASSUME NEW j \in Text!Line(t, m + 1), j < i + 1 PROVE FALSE
    OBVIOUS
  <2>1. j \in 1 .. Len(t) /\ Text!LineOf(t, j) = m + 1
    BY LineIs
  <2>2. j \in 1 .. (Len(t) + 1) /\ i \in j .. (Len(t) + 1)
    BY <1>1, <2>1
  <2>3. m + 1 <= m
    BY <2>1, <2>2, LinesAscend
  <2> QED BY <1>3, <2>3
<1>7. /\ ~Text!Has(t, Begun(t, m + 1, i + 1), "*/") /\ ~Text!Has(t, Begun(t, m + 1, i + 1), "/*")
      /\ ~Commented(t, m + 1, i + 1) /\ ~Text!Quoted(t, Text!Line(t, m + 1), i + 1)
  <2>1. Begun(t, m + 1, i + 1) = {}
    BY <1>6 DEF Begun
  <2>2. Text!Line(t, m + 1) \in SUBSET (1 .. Len(t))
    BY LineIs
  <2> QED BY <1>2, <1>6, <2>1, <2>2, QuotedSteps DEF Text!Has, Commented
<1>8. /\ Text!InBlock(t, m) \in BOOLEAN
      /\ Text!InBlock(t, m + 1) = Text!StdLine(Text!InBlock(t, m), t, s).block
  BY <1>4, BlockSteps
<1>9. Agrees(t, m, i) /\ \A j \in s : j \in 1 .. end /\ Agrees(t, m, j) /\ j \in Text!Line(t, m)
  <2>1. i \in 1 .. i
    OBVIOUS
  <2>2. ASSUME NEW j \in s PROVE j \in 1 .. end /\ Agrees(t, m, j)
    <3>1. j \in 1 .. Len(t) /\ Text!LineOf(t, j) = m /\ j < i
      BY <1>5, LineIs DEF Begun
    <3>2. j \in 1 .. i /\ j \in 1 .. end
      BY <1>1, <3>1
    <3> QED BY <3>1, <3>2
  <2> QED BY <2>1, <2>2
<1> HIDE DEF m, s
<1>10. /\ Text!InBlock(t, m + 1) \in BOOLEAN
       /\ Text!InBlock(t, m + 1) <=> Text!Mode(t, i) = "comment"
  <2>1. CASE Text!InBlock(t, m)
    <3>1. Text!InBlock(t, m + 1) = ~Text!Has(t, s, "*/")
      BY <1>8, <2>1 DEF Text!StdLine
    <3>2. Text!Has(t, s, "*/") <=> Text!Mode(t, i) # "comment"
      BY <1>5, <1>9, <2>1 DEF Agrees
    <3> QED BY <3>1, <3>2
  <2>2. CASE ~Text!InBlock(t, m)
    <3>1. Text!Mode(t, i) = "comment" <=> Text!Has(t, s, "/*")
      BY <1>5, <1>9, <2>2 DEF Agrees
    <3>2. CASE Text!StartsWith(t, s, "//")
      <4>1. Text!InBlock(t, m + 1) = FALSE
        BY <1>8, <2>2, <3>2 DEF Text!StdLine
      <4>2. ~Text!Has(t, s, "/*")
        <5> SUFFICES ASSUME NEW j \in s, t[j] = "/*" PROVE FALSE
          BY DEF Text!Has
        <5>1. ~Commented(t, m, j)
          BY <1>9, <2>2, OpensInCode
        <5>2. Commented(t, m, j)
          BY <1>9, <3>2, StartComments DEF s
        <5> QED BY <5>1, <5>2
      <4> QED BY <3>1, <4>1, <4>2
    <3>3. CASE ~Text!StartsWith(t, s, "//")
      BY <1>8, <2>2, <3>1, <3>3 DEF Text!StdLine
    <3> QED BY <3>2, <3>3
  <2> QED BY <1>8, <2>1, <2>2
<1>11. Text!Mode(t, i + 1) = IF Text!Mode(t, i) = "comment" THEN "comment" ELSE "code"
  <2>1. Text!Mode(t, i) \in {"code", "line comment", "comment"}
    BY <1>1 DEF Text!Lex
  <2> QED BY <1>1, <2>1 DEF Text!Lex
<1>12. Agrees(t, m + 1, i + 1)
  BY <1>7, <1>10, <1>11, Zenon DEF Agrees
<1> QED BY <1>12 DEF m

LEMMA AgreesThroughout ==
  ASSUME NEW t \in Seq(Text!Tokens), Text!Parses(t), NEW end \in 1 .. Len(t), Readable(t, end)
  PROVE  \A i \in 1 .. end : Agrees(t, Text!LineOf(t, i), i)
<1> DEFINE Good == {k \in 1 .. end : \A i \in 1 .. k : Agrees(t, Text!LineOf(t, i), i)}
<1>1. end \in Nat /\ end \in 1 .. end /\ Good \in SUBSET (1 .. end)
  OBVIOUS
<1>2. 1 \in Good
  <2>1. 1 \in 1 .. (Len(t) + 1) /\ 1 \in 1 .. end
    OBVIOUS
  <2>2. Text!LineOf(t, 1) = 1 /\ Text!InBlock(t, 1) = FALSE /\ Text!Mode(t, 1) = "code"
    BY LineSteps, BlockSteps, ModeSteps
  <2>3. Text!Line(t, 1) \in SUBSET (1 .. Len(t))
    BY LineIs
  <2>4. \A j \in Text!Line(t, 1) : ~(j < 1)
    BY <2>3
  <2>5. Begun(t, 1, 1) = {}
    BY <2>4 DEF Begun
  <2>6. ~Text!Quoted(t, Text!Line(t, 1), 1)
    BY <2>1, <2>3, <2>4, QuotedSteps
  <2>7. Agrees(t, 1, 1)
    BY <2>2, <2>5, <2>6 DEF Agrees, Text!Has, Commented
  <2>8. \A i \in 1 .. 1 : i = 1
    OBVIOUS
  <2> QED BY <2>1, <2>2, <2>7, <2>8
<1>3. ASSUME NEW k \in Good, k < end PROVE k + 1 \in Good
  <2>1. k \in 1 .. end /\ k + 1 \in 1 .. end /\ k \in 1 .. Len(t) /\ k \in 1 .. k
    BY <1>3
  <2>2. \A i \in 1 .. k : Agrees(t, Text!LineOf(t, i), i)
    OBVIOUS
  <2>3. Text!LineOf(t, k + 1) = Text!LineOf(t, k) + (IF t[k] = "line" THEN 1 ELSE 0)
    BY <2>1, LineSteps
  <2>4. CASE t[k] = "line"
    <3>1. Agrees(t, Text!LineOf(t, k) + 1, k + 1)
      BY <1>3, <2>1, <2>2, <2>4, AgreesOverBreak
    <3>2. Text!LineOf(t, k + 1) = Text!LineOf(t, k) + 1
      BY <2>3, <2>4
    <3> QED BY <2>1, <2>2, <3>1, <3>2
  <2>5. CASE t[k] # "line"
    <3>1. Agrees(t, Text!LineOf(t, k), k)
      BY <2>1, <2>2
    <3>2. Agrees(t, Text!LineOf(t, k), k + 1)
      BY <1>3, <2>1, <2>5, <3>1, AgreesInLine
    <3>3. Text!LineOf(t, k) \in Nat
      BY <2>1, LineSteps
    <3>4. Text!LineOf(t, k + 1) = Text!LineOf(t, k)
      BY <2>3, <2>5, <3>3
    <3> QED BY <2>1, <2>2, <3>2, <3>4
  <2> QED BY <2>4, <2>5
<1>4. end \in Good
  <2> HIDE DEF Good
  <2> QED BY <1>1, <1>2, <1>3, Throughout
<1> QED BY <1>4

\* What the check says of a line, by the mode of its words.
CodeIn(t, n) == \E i \in Text!Line(t, n) : t[i] = "word" /\ Text!Mode(t, i) = "code"

LEMMA LineIsTold ==
  ASSUME NEW t \in Seq(Text!Tokens), NEW n, NEW end \in 1 .. Len(t), Readable(t, end),
         \A i \in Text!Line(t, n) : i \in 1 .. end /\ Agrees(t, n, i)
  PROVE  LET hit == Text!StdLine(Text!InBlock(t, n), t, Text!Line(t, n)).hit
         IN (CodeIn(t, n) => hit) /\ (hit => CodeIn(t, n) \/ Text!AfterClose(t, n))
<1> DEFINE s   == Text!Line(t, n)
           hit == Text!StdLine(Text!InBlock(t, n), t, s).hit
<1>1. s \in SUBSET (1 .. Len(t)) /\ s \subseteq Nat
  <2>1. s \in SUBSET (1 .. Len(t))
    BY LineIs
  <2> QED BY <2>1
<1>2. \A i \in s : i \in 1 .. end /\ Agrees(t, n, i)
  OBVIOUS
<1>3. CASE Text!InBlock(t, n)
  <2> DEFINE r == Text!After(t, s, "*/")
  <2>1. hit = Text!CodeContainsStd(t, r)
    BY <1>3 DEF Text!StdLine
  <2>2. hit => Text!AfterClose(t, n)
    <3>1. hit => \E i \in r : TRUE
      BY <2>1 DEF Text!CodeContainsStd
    <3> QED BY <3>1 DEF Text!After, Text!AfterClose, Text!Has
  <2>3. ASSUME NEW i \in s, t[i] = "word", Text!Mode(t, i) = "code" PROVE hit
    <3>1. Text!Has(t, Begun(t, n, i), "*/") /\ ~Text!Quoted(t, r, i)
      BY <1>2, <1>3, <2>3 DEF Agrees
    <3>2. i \in r
      BY <3>1 DEF Text!After, Text!Has, Begun
    <3> HIDE DEF r
    <3> QED BY <2>1, <2>3, <3>1, <3>2 DEF Text!CodeContainsStd
  <2>4. CodeIn(t, n) => hit
    BY <2>3, Zenon DEF CodeIn
  <2> QED BY <2>2, <2>4
<1>4. CASE ~Text!InBlock(t, n)
  <2> HIDE DEF s
  <2>1. ASSUME NEW i \in s
        PROVE  Text!Mode(t, i) = "code" <=>
                 ~Text!Has(t, Begun(t, n, i), "/*") /\ ~Commented(t, n, i) /\ ~Text!Quoted(t, s, i)
    BY <1>2, <1>4 DEF Agrees, s
  <2>2. CASE Text!StartsWith(t, s, "//")
    <3>1. hit = FALSE
      BY <1>4, <2>2 DEF Text!StdLine
    <3>2. ASSUME NEW i \in s, t[i] = "word" PROVE Text!Mode(t, i) # "code"
      <4>1. Commented(t, n, i)
        BY <2>2, <3>2, StartComments DEF s
      <4> QED BY <2>1, <4>1
    <3>3. ~CodeIn(t, n)
      BY <3>2 DEF CodeIn, s
    <3> QED BY <3>1, <3>3 DEF s
  <2>3. CASE ~Text!StartsWith(t, s, "//") /\ Text!Has(t, s, "/*")
    <3> DEFINE r == Text!Upto(t, s, "/*")
    <3>1. hit = Text!CodeContainsStd(t, r)
      BY <1>4, <2>3 DEF Text!StdLine
    <3>2. \A i \in s : i \in r => ~Text!Has(t, Begun(t, n, i), "/*")
      <4> SUFFICES ASSUME NEW i \in r, NEW j \in Begun(t, n, i), t[j] = "/*" PROVE FALSE
        BY DEF Text!Has
      <4>1. j \in s /\ j < i /\ i \in s
        BY DEF Begun, s, Text!Upto
      <4>2. i < j
        BY <4>1 DEF Text!Upto
      <4>3. i \in Nat /\ j \in Nat
        BY <1>1, <4>1
      <4> QED BY <4>1, <4>2, <4>3
    <3>3. \A i \in s : t[i] = "word" /\ i \notin r => Text!Has(t, Begun(t, n, i), "/*")
      <4> SUFFICES ASSUME NEW i \in s, t[i] = "word", i \notin r PROVE Text!Has(t, Begun(t, n, i), "/*")
        OBVIOUS
      <4>1. PICK j \in s : t[j] = "/*" /\ ~(i < j)
        BY DEF Text!Upto
      <4>2. i \in Nat /\ j \in Nat /\ i # j
        BY <1>1, <4>1
      <4>3. j < i
        BY <4>1, <4>2
      <4> QED BY <4>1, <4>3 DEF Text!Has, Begun, s
    <3>4. \A i \in r : i \in s /\ (Text!Quoted(t, r, i) <=> Text!Quoted(t, s, i))
      <4> SUFFICES ASSUME NEW i \in r PROVE i \in s /\ (Text!Quoted(t, r, i) <=> Text!Quoted(t, s, i))
        OBVIOUS
      <4>1. i \in s /\ \A k \in s : t[k] = "/*" => i < k
        BY DEF Text!Upto
      <4>2. ASSUME NEW j \in s, j < i PROVE j \in r
        <5>1. i \in Nat /\ j \in Nat /\ \A k \in s : k \in Nat
          BY <1>1, <4>1
        <5>2. \A k \in s : t[k] = "/*" => j < k
          BY <4>1, <4>2, <5>1
        <5> QED BY <5>2 DEF Text!Upto
      <4>3. \A j : j < i => (j \in r <=> j \in s)
        <5>1. \A j \in r : j \in s
          BY DEF Text!Upto
        <5> HIDE DEF r
        <5> QED BY <4>2, <5>1
      <4> HIDE DEF r
      <4> QED BY <4>1, <4>3, QuotedAgree
    <3>5. PICK c \in s : t[c] = "/*"
      BY <2>3 DEF Text!Has
    <3>6. ASSUME NEW i \in r, t[i] = "word" PROVE ~Commented(t, n, i)
      <4> SUFFICES ASSUME Commented(t, n, i) PROVE FALSE
        OBVIOUS
      <4>1. i \in s /\ i < c
        BY <3>5 DEF Text!Upto
      <4>2. i \in Nat /\ c \in Nat /\ \A j \in s : j \in Nat
        BY <1>1, <3>5, <4>1
      <4>3. \A j \in Begun(t, n, i) : j \in Begun(t, n, c)
        BY <4>1, <4>2 DEF Begun, s
      <4>4. Commented(t, n, c)
        BY <4>3 DEF Commented
      <4>5. ~Commented(t, n, c)
        BY <1>2, <1>4, <3>5, OpensInCode
      <4> QED BY <4>4, <4>5
    <3> HIDE DEF r
    <3>7. \A i \in s : t[i] = "word" =>
            (Text!Mode(t, i) = "code" <=> i \in r /\ ~Text!Quoted(t, r, i))
      BY <2>1, <3>2, <3>3, <3>4, <3>6
    <3>8. hit <=> CodeIn(t, n)
      BY <3>1, <3>4, <3>7, Zenon DEF Text!CodeContainsStd, CodeIn, s
    <3> QED BY <3>8 DEF s
  <2>4. CASE ~Text!StartsWith(t, s, "//") /\ ~Text!Has(t, s, "/*")
    <3> DEFINE r == Text!StripLineComment(t, s)
    <3>1. hit = Text!CodeContainsStd(t, r)
      BY <1>4, <2>4 DEF Text!StdLine
    <3>2. \A i \in s : ~Text!Has(t, Begun(t, n, i), "/*")
      BY <2>4 DEF Text!Has, Begun, s
    <3>3. ASSUME NEW i \in s, t[i] = "word" PROVE i \in r <=> ~Commented(t, n, i)
      <4>1. \A j \in s : j \in Nat
        BY <1>1
      <4>2. \A j \in s : t[j] = "//" => (j <= i <=> j < i)
        BY <3>3, <4>1
      <4> QED BY <4>2 DEF Text!StripLineComment, Commented, Begun, s
    <3>4. \A i \in r : i \in s /\ (Text!Quoted(t, r, i) <=> Text!Quoted(t, s, i))
      <4> SUFFICES ASSUME NEW i \in r PROVE i \in s /\ (Text!Quoted(t, r, i) <=> Text!Quoted(t, s, i))
        OBVIOUS
      <4>1. i \in s /\ \A k \in s : t[k] = "//" /\ ~Text!Quoted(t, s, k) => ~(k <= i)
        BY DEF Text!StripLineComment
      <4>2. ASSUME NEW j \in s, j < i PROVE j \in r
        <5>1. i \in Nat /\ j \in Nat /\ \A k \in s : k \in Nat
          BY <1>1, <4>1
        <5>2. \A k \in s : t[k] = "//" /\ ~Text!Quoted(t, s, k) => ~(k <= j)
          BY <4>1, <4>2, <5>1
        <5> QED BY <5>2 DEF Text!StripLineComment
      <4>3. \A j : j < i => (j \in r <=> j \in s)
        <5>1. \A j \in r : j \in s
          BY DEF Text!StripLineComment
        <5> HIDE DEF r
        <5> QED BY <4>2, <5>1
      <4> HIDE DEF r
      <4> QED BY <4>1, <4>3, QuotedAgree
    <3> HIDE DEF r
    <3>5. \A i \in s : t[i] = "word" =>
            (Text!Mode(t, i) = "code" <=> i \in r /\ ~Text!Quoted(t, r, i))
      BY <2>1, <3>2, <3>3, <3>4
    <3>6. hit <=> CodeIn(t, n)
      BY <3>1, <3>4, <3>5, Zenon DEF Text!CodeContainsStd, CodeIn, s
    <3> QED BY <3>6 DEF s
  <2> QED BY <2>2, <2>3, <2>4
<1> QED BY <1>3, <1>4

\* A line is told right if what lies above its end is readable.
LEMMA LinesAreTold ==
  ASSUME NEW t \in Seq(Text!Tokens), Text!Parses(t), NEW n \in 1 .. Text!LineCount(t),
         NEW end, end = Text!Max({0} \cup {i \in DOMAIN t : Text!LineOf(t, i) <= n}),
         Readable(t, end)
  PROVE  /\ CodeIn(t, n) => n \in Text!ForbiddenStdImports(t)
         /\ n \in Text!ForbiddenStdImports(t) => CodeIn(t, n) \/ Text!AfterClose(t, n)
<1> DEFINE Above == {0} \cup {i \in DOMAIN t : Text!LineOf(t, i) <= n}
           hit   == Text!StdLine(Text!InBlock(t, n), t, Text!Line(t, n)).hit
<1>1. n \in Text!ForbiddenStdImports(t) <=> hit
  BY DEF Text!ForbiddenStdImports
<1>2. Len(t) \in Nat /\ DOMAIN t = 1 .. Len(t)
  OBVIOUS
<1>3. n \in Nat
  BY LineSteps
<1>4. end \in Above /\ \A i \in Above : i <= end
  <2>1. Above \in SUBSET (0 .. Len(t)) /\ Above # {}
    BY <1>2
  <2> HIDE DEF Above
  <2>2. PICK x \in Above : \A y \in Above : y <= x
    BY <1>2, <2>1, Greatest
  <2>3. \A y \in Above : x >= y
    BY <2>1, <2>2
  <2>4. end \in Above /\ \A y \in Above : end >= y
    BY <2>3, Zenon DEF Text!Max, Above
  <2> QED BY <2>1, <2>4
<1>5. \A i \in Text!Line(t, n) : i \in 1 .. Len(t) /\ Text!LineOf(t, i) = n /\ i \in Above
  <2>1. \A i \in Text!Line(t, n) : i \in 1 .. Len(t) /\ Text!LineOf(t, i) = n
    BY LineIs
  <2> QED BY <1>2, <1>3, <2>1
<1>6. end \in 0 .. Len(t)
  BY <1>2, <1>4
<1> HIDE DEF Above
<1>7. \A i \in Text!Line(t, n) : i \in 1 .. end
  BY <1>4, <1>5, <1>6
<1>8. CASE end = 0
  <2>0. ~\E i : i \in 1 .. 0
    OBVIOUS
  <2>1. Text!Line(t, n) = {}
    BY <1>7, <1>8, <2>0, Zenon
  <2>2. ~CodeIn(t, n)
    BY <2>1 DEF CodeIn
  <2>3. ~hit
    BY <2>1 DEF Text!StdLine, Text!CodeContainsStd, Text!After, Text!Upto, Text!StripLineComment
  <2> QED BY <1>1, <2>2, <2>3
<1>9. CASE end # 0
  <2>1. end \in 1 .. Len(t)
    BY <1>6, <1>9
  <2>2. \A i \in 1 .. end : Agrees(t, Text!LineOf(t, i), i)
    BY <2>1, AgreesThroughout
  <2>3. \A i \in Text!Line(t, n) : i \in 1 .. end /\ Agrees(t, n, i)
    BY <1>5, <1>7, <2>2
  <2> QED BY <1>1, <2>1, <2>3, LineIsTold
<1> QED BY <1>8, <1>9

TextsAreTokens == text \in Seq(Text!Tokens)

LEMMA FilesKeepTexts == FilesSpec => []TextsAreTokens
<1>1. FilesInit => TextsAreTokens
  BY DEF FilesInit, Text!Init, TextsAreTokens
<1>2. TextsAreTokens /\ [FilesNext]_files_vars => TextsAreTokens'
  <2> SUFFICES ASSUME TextsAreTokens, [FilesNext]_files_vars PROVE TextsAreTokens'
    OBVIOUS
  <2>1. CASE TextStep
    <3>1. PICK token \in Text!Tokens : text' = Append(text, token)
      BY <2>1 DEF TextStep, Text!Next
    <3> QED BY <3>1, AppendProperties DEF TextsAreTokens
  <2>2. TextStep \/ UNCHANGED text
    BY DEF FilesNext, files_vars, file_vars, ReportStep, ConfigStep, FileStep, TreeStep, NamesStep,
           AnswerStep, CollisionStep, BaselineStep
  <2> QED BY <2>1, <2>2 DEF TextsAreTokens
<1> QED BY <1>1, <1>2, PTL DEF FilesSpec

LEMMA TextIsTold == ASSUME TextsAreTokens PROVE Text!TextFindings
<1> SUFFICES ASSUME Text!Parses(text) PROVE Text!TextFindings
  BY DEF Text!TextFindings
<1>1. text \in Seq(Text!Tokens)
  BY DEF TextsAreTokens
<1>2. ASSUME NEW i \in DOMAIN text, text[i] = "word", ~Text!Nested(text, i), ~Text!Spanning(text, i)
      PROVE  i \in Text!HardcodedAddress(text) <=> Text!Mode(text, i) \in {"code", "string"}
  BY <1>1, <1>2, AddressesAreTold
<1>3. ASSUME NEW n \in 1 .. Text!LineCount(text)
      PROVE  LET end  == Text!Max({0} \cup {i \in DOMAIN text : Text!LineOf(text, i) <= n})
                 code == \E i \in Text!Line(text, n) : text[i] = "word" /\ Text!Mode(text, i) = "code"
             IN ~Text!Nested(text, end) /\ ~Text!Spanning(text, end) /\ ~Text!FakeOpen(text, end) =>
                  /\ code => n \in Text!ForbiddenStdImports(text)
                  /\ n \in Text!ForbiddenStdImports(text) => code \/ Text!AfterClose(text, n)
  <2> DEFINE end == Text!Max({0} \cup {i \in DOMAIN text : Text!LineOf(text, i) <= n})
  <2> SUFFICES ASSUME ~Text!Nested(text, end), ~Text!Spanning(text, end), ~Text!FakeOpen(text, end)
               PROVE  /\ CodeIn(text, n) => n \in Text!ForbiddenStdImports(text)
                      /\ n \in Text!ForbiddenStdImports(text) => CodeIn(text, n) \/ Text!AfterClose(text, n)
    BY Zenon DEF CodeIn
  <2>1. Readable(text, end)
    BY Zenon DEF Readable
  <2>2. end = Text!Max({0} \cup {i \in DOMAIN text : Text!LineOf(text, i) <= n})
    OBVIOUS
  <2> HIDE DEF end
  <2> QED BY <1>1, <2>1, <2>2, LinesAreTold
<1> QED BY <1>2, <1>3, Zenon DEF Text!TextFindings

\* In a text with any number of tokens, and but for what the two lexers are known
\* not to see, std:: and addresses are reported where the compiler reads them.
THEOREM TextsAreRead == FilesSpec => []TextFindings
<1>1. TextsAreTokens => TextFindings
  BY TextIsTold DEF TextFindings
<1> QED BY <1>1, FilesKeepTexts, PTL

-----------------------------------------------------------------------------
(* Which items are looked at *)

ItemsAreEntries == items \in Seq(Tree!Items)

LEMMA FilesKeepItems == FilesSpec => []ItemsAreEntries
<1>1. FilesInit => ItemsAreEntries
  BY DEF FilesInit, Tree!Init, ItemsAreEntries
<1>2. ItemsAreEntries /\ [FilesNext]_files_vars => ItemsAreEntries'
  <2> SUFFICES ASSUME ItemsAreEntries, [FilesNext]_files_vars PROVE ItemsAreEntries'
    OBVIOUS
  <2>1. CASE TreeStep
    <3>1. PICK item \in Tree!Items : items' = Append(items, item)
      BY <2>1 DEF TreeStep, Tree!Next
    <3> QED BY <3>1, AppendProperties DEF ItemsAreEntries
  <2>2. TreeStep \/ UNCHANGED items
    BY DEF FilesNext, files_vars, file_vars, ReportStep, ConfigStep, FileStep, TextStep, NamesStep,
           AnswerStep, CollisionStep, BaselineStep
  <2> QED BY <2>1, <2>2 DEF ItemsAreEntries
<1> QED BY <1>1, <1>2, PTL DEF FilesSpec

\* A predicate that mentions the tests and is not a disjunction is off in a
\* shipped build; one that does not mention them is on if the feature is.
LEMMA TestPredicates ==
  ASSUME NEW cfg \in Tree!Cfgs, NEW feature \in BOOLEAN
  PROVE  /\ cfg.op # "any" /\ Tree!IsCfgTest(cfg) => ~Tree!Enabled(cfg, FALSE, feature)
         /\ ~Tree!IsCfgTest(cfg) => Tree!Enabled(cfg, FALSE, TRUE)
<1>1. /\ ~Tree!Holds("test", FALSE, feature)
      /\ Tree!Holds("feature", FALSE, TRUE) /\ Tree!Holds("not test", FALSE, TRUE)
  BY DEF Tree!Holds
<1>2. \/ cfg.op = "any" /\ cfg.terms = {"test", "feature"}
      \/ /\ cfg.op = "all"
         /\ cfg.terms \in {{}, {"test"}, {"feature"}, {"not test"}, {"test", "feature"}, {"not test", "feature"}}
  <2>1. \/ cfg = [op |-> "any", terms |-> {"test", "feature"}]
        \/ \E ts \in {{}, {"test"}, {"feature"}, {"not test"}, {"test", "feature"}, {"not test", "feature"}} :
             cfg = [op |-> "all", terms |-> ts]
    BY Zenon DEF Tree!Cfgs
  <2>2. CASE cfg = [op |-> "any", terms |-> {"test", "feature"}]
    BY <2>2
  <2>3. ASSUME NEW ts \in {{}, {"test"}, {"feature"}, {"not test"}, {"test", "feature"}, {"not test", "feature"}},
               cfg = [op |-> "all", terms |-> ts]
        PROVE  cfg.op = "all" /\ cfg.terms = ts
    BY <2>3
  <2> QED BY <2>1, <2>2, <2>3
<1>3. CASE cfg.op = "any"
  <2>1. "test" \in cfg.terms
    BY <1>2, <1>3
  <2> QED BY <1>3, <2>1 DEF Tree!IsCfgTest
<1>4. CASE cfg.op = "all"
  <2>1. \A t \in cfg.terms : t \in {"test", "feature", "not test"}
    BY <1>2, <1>4
  <2>2. Tree!IsCfgTest(cfg) => ~Tree!Enabled(cfg, FALSE, feature)
    BY <1>1, <1>4 DEF Tree!IsCfgTest, Tree!Enabled
  <2>3. ~Tree!IsCfgTest(cfg) => Tree!Enabled(cfg, FALSE, TRUE)
    BY <1>1, <1>4, <2>1 DEF Tree!IsCfgTest, Tree!Enabled
  <2> QED BY <1>4, <2>2, <2>3
<1> QED BY <1>2, <1>3, <1>4

\* The attributes of items and of the modules around them.
LEMMA ItemFacts ==
  ASSUME ItemsAreEntries, NEW i \in DOMAIN items
  PROVE  /\ items[i].cfg \in Tree!Cfgs
         /\ Tree!Item(items, i) => items[i].cfg \in {Tree!Plain, Tree!Test}
         /\ \A j \in Tree!Around(items, i) : items[j].cfg \in Tree!Cfgs
<1>1. \A j \in DOMAIN items : items[j] \in Tree!Items
  BY DEF ItemsAreEntries
<1>2. Tree!Plain \in Tree!Cfgs /\ Tree!Test \in Tree!Cfgs
  BY DEF Tree!Plain, Tree!Test, Tree!Cfgs
<1>3. \A j \in DOMAIN items :
        /\ items[j].cfg \in Tree!Cfgs
        /\ Tree!Item(items, j) => items[j].cfg \in {Tree!Plain, Tree!Test}
  <2> SUFFICES ASSUME NEW j \in DOMAIN items
               PROVE  /\ items[j].cfg \in Tree!Cfgs
                      /\ Tree!Item(items, j) => items[j].cfg \in {Tree!Plain, Tree!Test}
    OBVIOUS
  <2> DEFINE item == items[j]
  <2>1. CASE item \in [does : {"mod"}, cfg : Tree!Cfgs, tests : {FALSE}]
    BY <2>1 DEF Tree!Item
  <2>2. CASE item \in {[does |-> "mod", cfg |-> Tree!Plain, tests |-> TRUE],
                       [does |-> "end", cfg |-> Tree!Plain, tests |-> FALSE]}
    BY <2>2, <1>2 DEF Tree!Item
  <2>3. CASE item \in [does : {"impl", "contract", "struct", "static"},
                       cfg : {Tree!Plain, Tree!Test}, tests : {FALSE}]
    BY <2>3, <1>2
  <2> QED BY <1>1, <2>1, <2>2, <2>3 DEF Tree!Items
<1>4. Tree!Around(items, i) \subseteq DOMAIN items
  <2>1. items \in Seq(Tree!Items)
    BY DEF ItemsAreEntries
  <2> QED BY <2>1 DEF Tree!Around
<1> QED BY <1>3, <1>4

\* What is shipped lies in no module for the tests, but for a disjunction.
LEMMA ShippedIsLookedAt ==
  ASSUME ItemsAreEntries, NEW i \in DOMAIN items, Tree!Item(items, i), Tree!Shipped(items, i),
         ~Tree!NamedTests(items, i), ~Tree!AnyOf(items, i)
  PROVE  ~Tree!InTestRange(items, i)
<1>1. PICK feature \in BOOLEAN : Tree!Built(items, i, FALSE, feature)
  BY DEF Tree!Shipped
<1>2. ASSUME NEW j \in Tree!Around(items, i) PROVE ~Tree!IsTestMod(items[j])
  <2>1. items[j].cfg \in Tree!Cfgs /\ items[j].cfg.op # "any" /\ ~items[j].tests
    BY ItemFacts DEF Tree!NamedTests, Tree!AnyOf
  <2>2. Tree!Enabled(items[j].cfg, FALSE, feature)
    BY <1>1 DEF Tree!Built
  <2> QED BY <2>1, <2>2, TestPredicates DEF Tree!IsTestMod
<1>3. ~Tree!IsCfgTest(items[i].cfg)
  <2>1. items[i].cfg \in Tree!Cfgs /\ items[i].cfg.op # "any"
    BY ItemFacts DEF Tree!Plain, Tree!Test
  <2>2. Tree!Enabled(items[i].cfg, FALSE, feature)
    BY <1>1 DEF Tree!Built
  <2> QED BY <2>1, <2>2, TestPredicates
<1> QED BY <1>2, <1>3 DEF Tree!InTestRange, Tree!InTestMod

\* What no build ships is for the tests by its own attribute or a module's.
LEMMA UnshippedIsForTests ==
  ASSUME ItemsAreEntries, NEW i \in DOMAIN items, Tree!Item(items, i), ~Tree!Shipped(items, i)
  PROVE  /\ Tree!InTestRange(items, i)
         /\ ~Tree!InTestMod(items, i) => items[i].cfg = Tree!Test
<1>1. ~Tree!Built(items, i, FALSE, TRUE)
  BY DEF Tree!Shipped
<1>2. CASE ~Tree!Enabled(items[i].cfg, FALSE, TRUE)
  <2>1. Tree!IsCfgTest(items[i].cfg)
    BY <1>2, ItemFacts, TestPredicates
  <2>2. items[i].cfg = Tree!Test
    BY <2>1, ItemFacts DEF Tree!Plain, Tree!IsCfgTest
  <2> QED BY <2>1, <2>2 DEF Tree!InTestRange
<1>3. ASSUME NEW j \in Tree!Around(items, i), ~Tree!Enabled(items[j].cfg, FALSE, TRUE)
      PROVE  Tree!InTestMod(items, i)
  <2>1. Tree!IsCfgTest(items[j].cfg)
    BY <1>3, ItemFacts, TestPredicates
  <2> QED BY <2>1 DEF Tree!InTestMod, Tree!IsTestMod
<1> QED BY <1>1, <1>2, <1>3 DEF Tree!Built, Tree!InTestRange

LEMMA ItemsByAttributes == ASSUME ItemsAreEntries PROVE Tree!ItemFindings
<1>1. ASSUME NEW i \in DOMAIN items, Tree!Item(items, i), Tree!Shipped(items, i)
      PROVE  \/ Tree!NamedTests(items, i) \/ Tree!AnyOf(items, i)
             \/ /\ items[i].does = "impl" => i \in Tree!Collected(items)
                /\ items[i].does = "static" => i \in Tree!MutableGlobals(items)
                /\ ~Tree!InTestRange(items, i)
  BY <1>1, ShippedIsLookedAt DEF Tree!Collected, Tree!MutableGlobals, Tree!InTestRange
<1>2. ASSUME NEW i \in DOMAIN items, Tree!Item(items, i), ~Tree!Shipped(items, i)
      PROVE  /\ Tree!InTestRange(items, i)
             /\ i \in Tree!Collected(items) \cup Tree!MutableGlobals(items) => items[i].cfg = Tree!Test
  BY <1>2, UnshippedIsForTests DEF Tree!Collected, Tree!MutableGlobals
<1>3. ASSUME NEW i \in DOMAIN items, items[i].does = "impl"
      PROVE  i \in Tree!Orphans(items) <=> {j \in DOMAIN items : items[j].does = "contract"} = {}
  BY <1>3 DEF Tree!Orphans
<1> QED BY <1>1, <1>2, <1>3 DEF Tree!ItemFindings

\* Shipped code is looked at and code for the tests is not, in a file of any
\* number of items and modules of any depth.
THEOREM ShippedItemsAreLookedAt == FilesSpec => []ItemFindings
<1>1. ItemsAreEntries => ItemFindings
  BY ItemsByAttributes DEF ItemFindings
<1> QED BY <1>1, FilesKeepItems, PTL

-----------------------------------------------------------------------------
(* The search for a configuration *)

\* The lookup of a path is what any function that satisfies its equation says:
\* by induction over the components, as the least one where the two differ.
LEMMA LookupIsUnique ==
  ASSUME NEW start, NEW parts, NEW g, Len(parts) \in Nat,
         \A n \in 0 .. Len(parts) :
           g[n] = IF n = 0 THEN start ELSE Config!Enter(g[n - 1], parts[n])
  PROVE  Config!Lookup(start, parts) = g[Len(parts)]
<1> DEFINE Eq(h) == [n \in 0 .. Len(parts) |->
                       IF n = 0 THEN start ELSE Config!Enter(h[n - 1], parts[n])]
<1> DEFINE At == CHOOSE h : h = Eq(h)
<1>1. Config!Lookup(start, parts) = At[Len(parts)]
  BY Zenon DEF Config!Lookup
<1>2. At = Eq(At)
  <2> DEFINE f == [n \in 0 .. Len(parts) |-> g[n]]
  <2>1. ASSUME NEW n \in 0 .. Len(parts)
        PROVE  g[n] = IF n = 0 THEN start ELSE Config!Enter(f[n - 1], parts[n])
    <3>1. n # 0 => n - 1 \in 0 .. Len(parts)
      OBVIOUS
    <3> QED BY <3>1
  <2>2. f = Eq(f)
    <3> HIDE DEF f
    <3>1. f = [n \in 0 .. Len(parts) |-> g[n]]
      BY DEF f
    <3> QED BY <2>1, <3>1
  <2> HIDE DEF f
  <2> QED BY <2>2, Zenon
<1> HIDE DEF At
<1> DEFINE Differ == {n \in 0 .. Len(parts) : At[n] # g[n]}
<1>3. ASSUME Differ # {} PROVE FALSE
  <2> DEFINE n == Min(Differ)
  <2>1. n \in Differ /\ \A m \in Differ : n <= m
    <3>1. Differ \subseteq Nat
      OBVIOUS
    <3> HIDE DEF Differ
    <3> QED BY <1>3, <3>1, Least
  <2> HIDE DEF n
  <2>2. n \in 0 .. Len(parts) /\ At[n] # g[n]
    BY <2>1
  <2>3. n # 0
    BY <1>2, <2>2
  <2>4. n - 1 \in 0 .. Len(parts)
    BY <2>2, <2>3
  <2>5. n - 1 \notin Differ
    <3>1. ~(n <= n - 1)
      BY <2>2
    <3> HIDE DEF Differ
    <3> QED BY <2>1, <3>1
  <2>6. At[n - 1] = g[n - 1]
    BY <2>4, <2>5
  <2>7. At[n] = Config!Enter(At[n - 1], parts[n]) /\ g[n] = Config!Enter(g[n - 1], parts[n])
    BY <1>2, <2>2, <2>3
  <2> QED BY <2>2, <2>6, <2>7
<1>4. Len(parts) \in 0 .. Len(parts)
  OBVIOUS
<1> QED BY <1>1, <1>3, <1>4

\* One more component of a sequence.
LEMMA OneMore ==
  ASSUME NEW S, NEW d \in Seq(S), NEW l \in Nat, l < Len(d)
  PROVE  Append(SubSeq(d, 1, l), d[l + 1]) = SubSeq(d, 1, l + 1)
<1>1. SubSeq(d, 1, l) \in Seq(S) /\ Len(SubSeq(d, 1, l)) = l /\ d[l + 1] \in S
  OBVIOUS
<1>2. SubSeq(d, 1, l + 1) \in Seq(S) /\ Len(SubSeq(d, 1, l + 1)) = l + 1
  OBVIOUS
<1>3. /\ Append(SubSeq(d, 1, l), d[l + 1]) \in Seq(S)
      /\ Len(Append(SubSeq(d, 1, l), d[l + 1])) = l + 1
  BY <1>1, AppendProperties
<1>4. ASSUME NEW i \in 1 .. (l + 1)
      PROVE  Append(SubSeq(d, 1, l), d[l + 1])[i] = SubSeq(d, 1, l + 1)[i]
  <2>1. SubSeq(d, 1, l + 1)[i] = d[i]
    OBVIOUS
  <2>2. CASE i = l + 1
    BY <1>1, <2>1, <2>2, AppendProperties
  <2>3. CASE i \in 1 .. l
    BY <1>1, <2>1, <2>3, AppendProperties
  <2> QED BY <2>2, <2>3
<1> QED BY <1>2, <1>3, <1>4, SeqEqual

\* What a path is made of.
Component == Config!Names \cup {".", ".."}

\* A leading "." is no step; every other component of a downward path is one.
Skip(parts) == IF parts # <<>> /\ parts[1] = "." THEN 1 ELSE 0
Whole(start, parts) == start \o SubSeq(parts, Skip(parts) + 1, Len(parts))
Depth(start, parts, k) == IF k = 0 THEN Len(start) ELSE Len(start) + k - Skip(parts)

GoesDown(parts) == \A i \in DOMAIN parts : parts[i] # ".." /\ (parts[i] = "." => i = 1)

LEMMA WholeFacts ==
  ASSUME NEW start \in Seq(Component), NEW parts \in Seq(Component)
  PROVE  /\ Whole(start, parts) \in Seq(Component)
         /\ Len(Whole(start, parts)) = Depth(start, parts, Len(parts))
         /\ Skip(parts) \in {0, 1} /\ Skip(parts) <= Len(parts)
         /\ \A k \in 0 .. Len(parts) : Depth(start, parts, k) \in Len(start) .. Len(Whole(start, parts))
         /\ \A m \in Len(start) .. Len(Whole(start, parts)) :
              \E k \in 0 .. Len(parts) : m = Depth(start, parts, k)
         /\ \A i \in 1 .. Len(start) : Whole(start, parts)[i] = start[i]
         /\ \A i \in (Skip(parts) + 1) .. Len(parts) :
              Whole(start, parts)[Len(start) + i - Skip(parts)] = parts[i]
<1> DEFINE s == Skip(parts)
<1> DEFINE rest == SubSeq(parts, s + 1, Len(parts))
<1>1. s \in {0, 1} /\ s <= Len(parts) /\ Len(parts) \in Nat /\ Len(start) \in Nat
  BY DEF Skip
<1> HIDE DEF s
<1>2. /\ rest \in Seq(Component) /\ Len(rest) = Len(parts) - s
      /\ \A i \in 1 .. (Len(parts) - s) : rest[i] = parts[s + i]
  BY <1>1
<1> HIDE DEF rest
<1>3. Whole(start, parts) = start \o rest
  BY DEF Whole, rest, s
<1>4. /\ Whole(start, parts) \in Seq(Component) /\ Len(Whole(start, parts)) = Len(start) + Len(rest)
      /\ \A i \in 1 .. Len(start) : Whole(start, parts)[i] = start[i]
      /\ \A i \in 1 .. Len(rest) : Whole(start, parts)[Len(start) + i] = rest[i]
  <2> DEFINE w == start \o rest
  <2>1. /\ w \in Seq(Component) /\ Len(w) = Len(start) + Len(rest)
        /\ \A i \in 1 .. Len(start) + Len(rest) :
             w[i] = IF i <= Len(start) THEN start[i] ELSE rest[i - Len(start)]
    BY <1>2, ConcatProperties
  <2>2. Len(rest) \in Nat
    BY <1>1, <1>2
  <2> HIDE DEF w
  <2>3. \A i \in 1 .. Len(start) : w[i] = start[i]
    BY <1>1, <2>1, <2>2
  <2>4. ASSUME NEW i \in 1 .. Len(rest) PROVE w[Len(start) + i] = rest[i]
    <3>1. /\ Len(start) + i \in 1 .. Len(start) + Len(rest)
          /\ ~(Len(start) + i <= Len(start)) /\ (Len(start) + i) - Len(start) = i
      BY <1>1, <2>2
    <3> QED BY <2>1, <3>1
  <2>5. Whole(start, parts) = w
    BY <1>3 DEF w
  <2> QED BY <2>1, <2>3, <2>4, <2>5
<1>5. \A k : Depth(start, parts, k) = IF k = 0 THEN Len(start) ELSE Len(start) + k - s
  BY DEF Depth, s
<1>6. Len(Whole(start, parts)) = Depth(start, parts, Len(parts))
  <2>1. Depth(start, parts, Len(parts)) =
          IF Len(parts) = 0 THEN Len(start) ELSE Len(start) + Len(parts) - s
    BY <1>5
  <2> QED BY <1>1, <1>2, <1>4, <2>1
<1>7. \A k \in 0 .. Len(parts) : Depth(start, parts, k) \in Len(start) .. Len(Whole(start, parts))
  BY <1>1, <1>2, <1>4, <1>5
<1>8. ASSUME NEW m \in Len(start) .. Len(Whole(start, parts))
      PROVE  \E k \in 0 .. Len(parts) : m = Depth(start, parts, k)
  <2>1. CASE m = Len(start)
    BY <1>1, <1>5, <2>1
  <2>2. CASE m # Len(start)
    <3>1. m - Len(start) + s \in 0 .. Len(parts) /\ m - Len(start) + s # 0
      BY <1>1, <1>2, <1>4, <2>2
    <3>2. m = Depth(start, parts, m - Len(start) + s)
      BY <1>1, <1>5, <3>1
    <3> QED BY <3>1, <3>2
  <2> QED BY <2>1, <2>2
<1>9. ASSUME NEW i \in (s + 1) .. Len(parts)
      PROVE  Whole(start, parts)[Len(start) + i - s] = parts[i]
  <2>1. i - s \in 1 .. Len(rest) /\ i - s \in 1 .. (Len(parts) - s) /\ s + (i - s) = i
    BY <1>1, <1>2
  <2>2. Whole(start, parts)[Len(start) + (i - s)] = rest[i - s]
    BY <1>4, <2>1
  <2>3. rest[i - s] = parts[i]
    BY <1>2, <2>1
  <2>4. Len(start) + i - s = Len(start) + (i - s)
    BY <1>1
  <2> QED BY <2>2, <2>3, <2>4
<1> QED BY <1>1, <1>4, <1>6, <1>7, <1>8, <1>9 DEF s

\* What the kernel makes of the first k components of a downward path.
LEMMA DownwardLookup ==
  ASSUME NEW start \in Seq(Component), NEW parts \in Seq(Component), GoesDown(parts),
         NEW k \in 0 .. Len(parts)
  PROVE  Config!Lookup(start, SubSeq(parts, 1, k)) =
           SubSeq(Whole(start, parts), 1, Depth(start, parts, k))
<1> DEFINE part == SubSeq(parts, 1, k)
           d == Whole(start, parts)
           g == [n \in 0 .. k |-> SubSeq(d, 1, Depth(start, parts, n))]
<1>1. part \in Seq(Component) /\ Len(part) = k /\ \A n \in 1 .. k : part[n] = parts[n]
  OBVIOUS
<1>2. /\ d \in Seq(Component) /\ Skip(parts) \in {0, 1} /\ Len(start) \in Nat /\ Len(d) \in Nat
      /\ \A i \in 1 .. Len(start) : d[i] = start[i]
      /\ \A n \in 0 .. k : Depth(start, parts, n) \in Len(start) .. Len(d)
  <2>1. /\ d \in Seq(Component) /\ Skip(parts) \in {0, 1}
        /\ \A i \in 1 .. Len(start) : d[i] = start[i]
        /\ \A n \in 0 .. Len(parts) : Depth(start, parts, n) \in Len(start) .. Len(d)
    BY WholeFacts
  <2>2. \A n \in 0 .. k : n \in 0 .. Len(parts)
    OBVIOUS
  <2> HIDE DEF d
  <2> QED BY <2>1, <2>2
<1>3. SubSeq(d, 1, Depth(start, parts, 0)) = start
  <2>1. Depth(start, parts, 0) = Len(start) /\ Len(start) <= Len(d)
    BY <1>2 DEF Depth
  <2> HIDE DEF d
  <2>2. /\ SubSeq(d, 1, Len(start)) \in Seq(Component) /\ Len(SubSeq(d, 1, Len(start))) = Len(start)
        /\ \A i \in 1 .. Len(start) : SubSeq(d, 1, Len(start))[i] = start[i]
    BY <1>2, <2>1
  <2> QED BY <2>1, <2>2, SeqEqual
<1>4. ASSUME NEW n \in 1 .. k
      PROVE  SubSeq(d, 1, Depth(start, parts, n)) =
               Config!Enter(SubSeq(d, 1, Depth(start, parts, n - 1)), parts[n])
  <2>0. n \in DOMAIN parts /\ n - 1 \in 0 .. k
    OBVIOUS
  <2>1. CASE parts[n] = "."
    <3>1. n = 1 /\ Skip(parts) = 1
      BY <2>0, <2>1 DEF GoesDown, Skip
    <3>2. Depth(start, parts, n) = Depth(start, parts, n - 1)
      BY <1>2, <3>1 DEF Depth
    <3> QED BY <2>1, <3>2 DEF Config!Enter
  <2>2. CASE parts[n] # "."
    <3>1. n > Skip(parts)
      <4>1. n = 1 => Skip(parts) = 0
        BY <2>2 DEF Skip
      <4> QED BY <1>2, <4>1
    <3>2. d[Len(start) + n - Skip(parts)] = parts[n]
      <4>1. n \in (Skip(parts) + 1) .. Len(parts)
        BY <1>2, <3>1
      <4> QED BY <4>1, WholeFacts
    <3>3. /\ Depth(start, parts, n) = Depth(start, parts, n - 1) + 1
          /\ Depth(start, parts, n) = Len(start) + n - Skip(parts)
      <4>1. n = 1 => Skip(parts) = 0
        BY <2>2 DEF Skip
      <4> QED BY <4>1, <1>2 DEF Depth
    <3>4. Depth(start, parts, n - 1) \in Nat /\ Depth(start, parts, n - 1) < Len(d)
      BY <1>2, <2>0, <3>3
    <3>5. Append(SubSeq(d, 1, Depth(start, parts, n - 1)), d[Depth(start, parts, n - 1) + 1]) =
            SubSeq(d, 1, Depth(start, parts, n - 1) + 1)
      BY <1>2, <3>4, OneMore
    <3>6. parts[n] # ".."
      BY <2>0 DEF GoesDown
    <3>7. Config!Enter(SubSeq(d, 1, Depth(start, parts, n - 1)), parts[n]) =
            Append(SubSeq(d, 1, Depth(start, parts, n - 1)), parts[n])
      BY <2>2, <3>6 DEF Config!Enter
    <3> HIDE DEF d
    <3> QED BY <3>2, <3>3, <3>5, <3>7
  <2> QED BY <2>1, <2>2
<1> HIDE DEF d
<1>5. ASSUME NEW n \in 0 .. k
      PROVE  g[n] = IF n = 0 THEN start ELSE Config!Enter(g[n - 1], part[n])
  <2>1. CASE n = 0
    BY <1>3, <2>1
  <2>2. CASE n # 0
    <3>1. n \in 1 .. k /\ n - 1 \in 0 .. k
      BY <2>2
    <3>2. part[n] = parts[n]
      BY <1>1, <3>1
    <3>3. g[n] = Config!Enter(g[n - 1], parts[n])
      BY <1>4, <3>1
    <3> QED BY <2>2, <3>2, <3>3
  <2> QED BY <2>1, <2>2
<1>6. g[k] = SubSeq(d, 1, Depth(start, parts, k))
  <2>1. k \in 0 .. k
    OBVIOUS
  <2> QED BY <2>1
<1>7. Config!Lookup(start, part) = g[Len(part)]
  <2> HIDE DEF part, g
  <2>1. Len(part) \in Nat
    BY <1>1
  <2>2. \A n \in 0 .. Len(part) : g[n] = IF n = 0 THEN start ELSE Config!Enter(g[n - 1], part[n])
    BY <1>1, <1>5
  <2> QED BY <2>1, <2>2, LookupIsUnique, Zenon
<1> QED BY <1>1, <1>6, <1>7 DEF d

\* The nearest directory that decides, by its depth.
LEMMA NearestAt ==
  ASSUME NEW d \in Seq(Component), NEW l \in 0 .. Len(d), SubSeq(d, 1, l) \in tomls \cup gits,
         \A m \in (l + 1) .. Len(d) : SubSeq(d, 1, m) \notin tomls \cup gits
  PROVE  Config!Nearest(d) = IF SubSeq(d, 1, l) \in tomls THEN SubSeq(d, 1, l) ELSE None
<1> DEFINE p == SubSeq(d, 1, l)
           best == CHOOSE q \in Config!Deciding(d) : \A r \in Config!Deciding(d) : Len(r) <= Len(q)
<1>1. \A m \in 0 .. Len(d) : Len(SubSeq(d, 1, m)) = m
  OBVIOUS
<1>2. \A q \in Config!Deciding(d) : \E m \in 0 .. l : q = SubSeq(d, 1, m)
  <2> SUFFICES ASSUME NEW q \in Config!Deciding(d) PROVE \E m \in 0 .. l : q = SubSeq(d, 1, m)
    OBVIOUS
  <2>1. PICK m \in 0 .. Len(d) : q = SubSeq(d, 1, m) /\ q \in tomls \cup gits
    BY DEF Config!Deciding, Config!Prefixes
  <2>2. ~(m \in (l + 1) .. Len(d))
    BY <2>1
  <2>3. m \in 0 .. l
    BY <2>2
  <2> QED BY <2>1, <2>3
<1>3. p \in Config!Deciding(d)
  BY DEF Config!Deciding, Config!Prefixes
<1>4. \A q \in Config!Deciding(d) : Len(q) \in 0 .. l /\ (Len(q) = l => q = p)
  <2> SUFFICES ASSUME NEW q \in Config!Deciding(d) PROVE Len(q) \in 0 .. l /\ (Len(q) = l => q = p)
    OBVIOUS
  <2>1. PICK m \in 0 .. l : q = SubSeq(d, 1, m)
    BY <1>2
  <2>2. Len(q) = m
    BY <1>1, <2>1
  <2> QED BY <2>1, <2>2
<1>5. Len(p) = l
  BY <1>1
<1> HIDE DEF p
<1>6. \A q \in Config!Deciding(d) : Len(q) <= Len(p)
  BY <1>4, <1>5
<1>7. best \in Config!Deciding(d) /\ \A r \in Config!Deciding(d) : Len(r) <= Len(best)
  BY <1>3, <1>6
<1> HIDE DEF best
<1>8. best = p
  BY <1>3, <1>4, <1>5, <1>7
<1>9. Config!Nearest(d) = IF best \in tomls THEN best ELSE None
  <2>1. Config!Deciding(d) # {}
    BY <1>3
  <2> QED BY <2>1, Zenon DEF Config!Nearest, best
<1> QED BY <1>8, <1>9 DEF p

LEMMA NearestIsNone ==
  ASSUME NEW d \in Seq(Component), \A m \in 0 .. Len(d) : SubSeq(d, 1, m) \notin tomls \cup gits
  PROVE  Config!Nearest(d) = None
<1>1. Config!Deciding(d) = {}
  BY DEF Config!Deciding, Config!Prefixes
<1> QED BY <1>1 DEF Config!Nearest

\* If nothing decides from `start` on down, what decides lies above it.
LEMMA NearestIsAbove ==
  ASSUME NEW d \in Seq(Component), NEW start \in Seq(Component), Len(start) <= Len(d),
         \A i \in 1 .. Len(start) : d[i] = start[i],
         \A m \in Len(start) .. Len(d) : SubSeq(d, 1, m) \notin tomls \cup gits
  PROVE  \/ Config!Nearest(d) = None
         \/ Config!IsStrictPrefix(Config!Nearest(d), start) /\ Len(start) > 0
<1> DEFINE T == {m \in 0 .. Len(d) : SubSeq(d, 1, m) \in tomls \cup gits}
<1>0. Len(d) \in Nat /\ Len(start) \in Nat
  OBVIOUS
<1>1. CASE T = {}
  BY <1>1, NearestIsNone
<1>2. CASE T # {}
  <2>1. T \in SUBSET (0 .. Len(d))
    OBVIOUS
  <2>2. PICK l \in T : \A m \in T : m <= l
    <3> HIDE DEF T
    <3> QED BY <1>0, <1>2, <2>1, Greatest
  <2>3. l \in 0 .. Len(d) /\ SubSeq(d, 1, l) \in tomls \cup gits
    OBVIOUS
  <2>4. \A m \in (l + 1) .. Len(d) : SubSeq(d, 1, m) \notin tomls \cup gits
    <3> SUFFICES ASSUME NEW m \in (l + 1) .. Len(d), SubSeq(d, 1, m) \in tomls \cup gits PROVE FALSE
      OBVIOUS
    <3>1. m \in 0 .. Len(d) /\ ~(m <= l)
      BY <1>0, <2>3
    <3>2. m \in T
      BY <3>1
    <3> QED BY <2>2, <3>1, <3>2
  <2>5. l < Len(start)
    <3>1. ~(l \in Len(start) .. Len(d))
      BY <2>3
    <3> QED BY <1>0, <2>3, <3>1
  <2>6. Config!Nearest(d) = SubSeq(d, 1, l) \/ Config!Nearest(d) = None
    BY <2>3, <2>4, NearestAt
  <2>7. Config!IsStrictPrefix(SubSeq(d, 1, l), start)
    <3> DEFINE p == SubSeq(d, 1, l)
    <3>1. p \in Seq(Component) /\ Len(p) = l /\ \A i \in 1 .. l : p[i] = d[i]
      BY <2>3
    <3> HIDE DEF p
    <3>2. /\ SubSeq(p, 1, l) \in Seq(Component) /\ Len(SubSeq(p, 1, l)) = l
          /\ \A i \in 1 .. l : SubSeq(p, 1, l)[i] = p[i]
      BY <2>3, <3>1
    <3>3. /\ SubSeq(start, 1, l) \in Seq(Component) /\ Len(SubSeq(start, 1, l)) = l
          /\ \A i \in 1 .. l : SubSeq(start, 1, l)[i] = start[i]
      BY <1>0, <2>3, <2>5
    <3>4. \A i \in 1 .. l : SubSeq(p, 1, l)[i] = SubSeq(start, 1, l)[i]
      <4>1. \A i \in 1 .. l : i \in 1 .. Len(start)
        BY <1>0, <2>3, <2>5
      <4> QED BY <3>1, <3>2, <3>3, <4>1
    <3>5. SubSeq(p, 1, l) = SubSeq(start, 1, l)
      BY <3>2, <3>3, <3>4, SeqEqual
    <3>6. p # start
      BY <1>0, <2>3, <2>5, <3>1
    <3>7. Len(p) <= Len(start)
      BY <1>0, <2>3, <2>5, <3>1
    <3> QED BY <3>1, <3>5, <3>6, <3>7 DEF Config!IsStrictPrefix, Config!IsPrefix, p
  <2>8. Len(start) > 0
    BY <1>0, <2>3, <2>5
  <2> QED BY <2>6, <2>7, <2>8
<1> HIDE DEF T
<1> QED BY <1>1, <1>2

\* Where the search is when k components are left, as the kernel sees it.
Base        == IF path.absolute THEN <<>> ELSE cwd
Stand(k)    == Config!Lookup(Base, SubSeq(path.parts, 1, k))
Decides(k)  == Stand(k) \in tomls \cup gits

PathShape ==
  /\ path \in [absolute : BOOLEAN, parts : Seq(Component)] /\ cwd \in Seq(Component)
  /\ dir \in [absolute : BOOLEAN, parts : Seq(Component)] /\ dir.absolute = path.absolute
  /\ \A i \in DOMAIN path.parts : path.parts[i] = "." => i = 1 /\ ~path.absolute

\* Nothing below the directory looked at decides, and the search ended for one
\* of three reasons. Nothing is assumed of "..".
Climbed ==
  \E k \in 0 .. Len(path.parts) :
    /\ dir.parts = SubSeq(path.parts, 1, k)
    /\ \A j \in (k + 1) .. Len(path.parts) : ~Decides(j)
    /\ pc = "done" => \/ result = Stand(k) /\ Stand(k) \in tomls
                      \/ result = None /\ Stand(k) \in gits \ tomls
                      \/ result = None /\ k = 0 /\ ~Decides(0)

ConfigInv == subject = "config" => PathShape /\ Climbed

LEMMA ConfigStart == ASSUME Config!Init PROVE PathShape /\ Climbed
<1>1. path \in [absolute : BOOLEAN, parts : Seq(Component)] /\ dir = path /\ pc = "look"
  <2>1. path \in [absolute : BOOLEAN, parts : BoundedSeq(Component, MaxPath)]
    BY DEF Config!Init, Config!Texts, Config!BoundedSeq, BoundedSeq, Config!SeqOf, SeqOf, Component
  <2>2. ASSUME NEW p \in BoundedSeq(Component, MaxPath) PROVE p \in Seq(Component)
    <3>1. MaxPath \in Nat
      BY ConfigAssumption DEF Config!TreeAssumption
    <3> QED BY <3>1 DEF BoundedSeq, SeqOf
  <2> QED BY <2>1, <2>2 DEF Config!Init
<1>2. /\ cwd \in Seq(Component)
      /\ \A i \in DOMAIN path.parts : path.parts[i] = "." => i = 1 /\ ~path.absolute
  <2>1. cwd \in Seq(Config!Names)
    BY ConfigAssumption DEF Config!Init, Config!TreeAssumption
  <2>2. cwd \in Seq(Component)
    BY <2>1 DEF Component
  <2> QED BY <2>2 DEF Config!Init, Config!Texts
<1>3. PathShape
  BY <1>1, <1>2 DEF PathShape
<1>4. Len(path.parts) \in 0 .. Len(path.parts) /\ dir.parts = SubSeq(path.parts, 1, Len(path.parts))
  BY <1>1
<1>5. \A j \in (Len(path.parts) + 1) .. Len(path.parts) : ~Decides(j)
  BY <1>1
<1> QED BY <1>1, <1>3, <1>4, <1>5 DEF Climbed

LEMMA ConfigMoves ==
  ASSUME PathShape, Climbed, Config!Next
  PROVE  PathShape' /\ Climbed'
<1>1. UNCHANGED <<path, cwd, tomls, gits>>
  BY DEF Config!Next, Config!Found, Config!StopAtGit, Config!Climb, Config!RunOut, Config!Done,
         Config!tree_vars
<1>2. \A k : Stand(k)' = Stand(k) /\ Decides(k)' = Decides(k)
  BY <1>1 DEF Stand, Base, Decides
<1>3. PICK k \in 0 .. Len(path.parts) :
        /\ dir.parts = SubSeq(path.parts, 1, k)
        /\ \A j \in (k + 1) .. Len(path.parts) : ~Decides(j)
  BY DEF Climbed
<1>4. Config!Real(dir) = Stand(k)
  BY <1>3 DEF Config!Real, Stand, Base, PathShape
<1>5. path.parts \in Seq(Component) /\ Len(path.parts) \in Nat
  BY DEF PathShape
<1>6. CASE Config!Found \/ Config!StopAtGit \/ Config!RunOut
  <2>1. dir' = dir /\ pc' = "done"
    BY <1>6 DEF Config!Found, Config!StopAtGit, Config!RunOut, Config!Done
  <2>2. PathShape'
    BY <1>1, <2>1 DEF PathShape
  <2>3. \/ result' = Stand(k) /\ Stand(k) \in tomls
        \/ result' = None /\ Stand(k) \in gits \ tomls
        \/ result' = None /\ k = 0 /\ ~Decides(0)
    <3>1. CASE Config!Found
      BY <1>4, <3>1 DEF Config!Found, Config!Done
    <3>2. CASE Config!StopAtGit
      BY <1>4, <3>2 DEF Config!StopAtGit, Config!Done
    <3>3. CASE Config!RunOut
      <4>1. result' = None /\ ~Decides(k) /\ dir.parts = <<>>
        BY <1>4, <3>3 DEF Config!RunOut, Config!Done, Config!HasParent, Decides
      <4>2. Len(SubSeq(path.parts, 1, k)) = k
        BY <1>5
      <4>3. k = 0
        BY <1>3, <4>1, <4>2
      <4> QED BY <4>1, <4>3
    <3> QED BY <1>6, <3>1, <3>2, <3>3
  <2> QED BY <1>1, <1>2, <1>3, <2>1, <2>2, <2>3 DEF Climbed
<1>7. CASE Config!Climb
  <2>1. /\ pc = "look" /\ pc' = pc /\ ~Decides(k) /\ dir.parts # <<>>
        /\ dir' = [dir EXCEPT !.parts = SubSeq(@, 1, Len(@) - 1)]
    BY <1>4, <1>7 DEF Config!Climb, Config!HasParent, Config!Parent, Decides
  <2>2. k \in 1 .. Len(path.parts)
    <3>1. k # 0
      BY <1>3, <1>5, <2>1
    <3> QED BY <1>5, <3>1
  <2>3. dir'.parts = SubSeq(path.parts, 1, k - 1) /\ dir'.parts \in Seq(Component)
    <3>1. dir'.parts = SubSeq(dir.parts, 1, Len(dir.parts) - 1)
      BY <2>1 DEF PathShape
    <3>2. Len(dir.parts) = k
      BY <1>3, <1>5
    <3>3. SubSeq(SubSeq(path.parts, 1, k), 1, k - 1) = SubSeq(path.parts, 1, k - 1)
      BY <1>5, <2>2
    <3>4. SubSeq(path.parts, 1, k - 1) \in Seq(Component)
      BY <1>5, <2>2
    <3> QED BY <1>3, <3>1, <3>2, <3>3, <3>4
  <2>4. PathShape'
    <3>1. dir' \in [absolute : BOOLEAN, parts : Seq(Component)] /\ dir'.absolute = dir.absolute
      BY <2>1, <2>3 DEF PathShape
    <3> QED BY <1>1, <3>1 DEF PathShape
  <2>5. \A j \in ((k - 1) + 1) .. Len(path.parts) : ~Decides(j)
    BY <1>3, <2>1, <2>2
  <2>6. k - 1 \in 0 .. Len(path.parts)
    BY <2>2
  <2> QED BY <1>1, <1>2, <2>1, <2>3, <2>4, <2>5, <2>6 DEF Climbed
<1> QED BY <1>6, <1>7 DEF Config!Next

LEMMA FilesKeepConfig == FilesSpec => []ConfigInv
<1>1. FilesInit => ConfigInv
  BY ConfigStart DEF FilesInit, ConfigInv
<1>2. ConfigInv /\ [FilesNext]_files_vars => ConfigInv'
  <2> SUFFICES ASSUME ConfigInv, [FilesNext]_files_vars, subject' = "config"
               PROVE  PathShape' /\ Climbed'
    BY DEF ConfigInv
  <2>1. subject = "config" /\ PathShape /\ Climbed
    BY DEF FilesNext, files_vars, ConfigInv
  <2>2. CASE ConfigStep
    BY <2>1, <2>2, ConfigMoves DEF ConfigStep
  <2>3. CASE UNCHANGED config_vars
    <3>1. UNCHANGED <<cwd, tomls, gits, path, dir, pc, result>>
      BY <2>3 DEF config_vars
    <3>2. PathShape'
      BY <2>1, <3>1 DEF PathShape
    <3>3. \A k : Stand(k)' = Stand(k) /\ Decides(k)' = Decides(k)
      BY <3>1 DEF Stand, Base, Decides
    <3>4. Climbed'
      BY <2>1, <3>1, <3>3 DEF Climbed
    <3> QED BY <3>2, <3>4
  <2>4. ConfigStep \/ UNCHANGED config_vars
    BY DEF FilesNext, files_vars, ReportStep, FileStep, AnswerStep, CollisionStep, BaselineStep
  <2> QED BY <2>2, <2>3, <2>4
<1> QED BY <1>1, <1>2, PTL DEF FilesSpec

\* A search that has ended for a downward path, by depths on the way to the real
\* directory.
LEMMA EndedSearch ==
  ASSUME PathShape, Climbed, pc = "done", Config!Downward(path)
  PROVE  \/ result = Config!Nearest(Config!Real(path))
         \/ /\ result = None /\ Len(Base) > 0
            /\ Config!IsStrictPrefix(Config!Nearest(Config!Real(path)), Base)
<1> DEFINE parts == path.parts
           d == Whole(Base, parts)
           At(k) == Depth(Base, parts, k)
<1>1. Base \in Seq(Component) /\ parts \in Seq(Component) /\ Len(parts) \in Nat
  <2>1. parts \in Seq(Component) /\ cwd \in Seq(Component)
    BY DEF PathShape
  <2>2. Base = <<>> \/ Base = cwd
    BY DEF Base
  <2>3. <<>> \in Seq(Component)
    OBVIOUS
  <2>4. Base \in Seq(Component)
    BY <2>1, <2>2, <2>3
  <2>5. Len(parts) \in Nat
    BY <2>1
  <2> QED BY <2>1, <2>4, <2>5
<1>2. GoesDown(parts)
  BY DEF PathShape, Config!Downward, Config!ToSet, GoesDown
<1>3. /\ d \in Seq(Component) /\ Len(d) = At(Len(parts)) /\ Len(d) \in Nat /\ Len(Base) \in Nat
      /\ \A k \in 0 .. Len(parts) : At(k) \in Len(Base) .. Len(d)
      /\ \A m \in Len(Base) .. Len(d) : \E k \in 0 .. Len(parts) : m = At(k)
      /\ \A i \in 1 .. Len(Base) : d[i] = Base[i]
      /\ \A j, k \in 0 .. Len(parts) : At(j) < At(k) => j < k
  <2>1. /\ d \in Seq(Component) /\ Len(d) = At(Len(parts))
        /\ \A k \in 0 .. Len(parts) : At(k) \in Len(Base) .. Len(d)
        /\ \A m \in Len(Base) .. Len(d) : \E k \in 0 .. Len(parts) : m = At(k)
        /\ \A i \in 1 .. Len(Base) : d[i] = Base[i]
        /\ Skip(parts) \in {0, 1}
    BY <1>1, WholeFacts
  <2>2. \A j, k \in 0 .. Len(parts) : At(j) < At(k) => j < k
    <3> SUFFICES ASSUME NEW j \in 0 .. Len(parts), NEW k \in 0 .. Len(parts), At(j) < At(k) PROVE j < k
      OBVIOUS
    <3>1. Skip(parts) \in Nat /\ Len(Base) \in Nat /\ j \in Nat /\ k \in Nat /\ At(k) <= Len(d)
      BY <1>1, <2>1
    <3>2. At(j) \in Nat /\ At(k) \in Nat /\ At(j) >= Len(Base) /\ At(k) >= Len(Base)
      BY <1>1, <2>1
    <3>3. /\ At(j) = IF j = 0 THEN Len(Base) ELSE Len(Base) + j - Skip(parts)
          /\ At(k) = IF k = 0 THEN Len(Base) ELSE Len(Base) + k - Skip(parts)
      BY DEF Depth
    <3> HIDE DEF At
    <3> QED BY <1>1, <2>1, <3>1, <3>2, <3>3
  <2> HIDE DEF d, At
  <2> QED BY <1>1, <2>1, <2>2
<1>4. ASSUME NEW k \in 0 .. Len(parts) PROVE Stand(k) = SubSeq(d, 1, At(k))
  BY <1>1, <1>2, DownwardLookup DEF Stand
<1>5. Config!Real(path) = d
  <2>1. SubSeq(parts, 1, Len(parts)) = parts /\ Len(parts) \in 0 .. Len(parts)
    BY <1>1
  <2>2. Config!Real(path) = Stand(Len(parts))
    BY <2>1 DEF Config!Real, Stand, Base
  <2>3. SubSeq(d, 1, Len(d)) = d
    BY <1>3
  <2> QED BY <1>3, <1>4, <2>1, <2>2, <2>3
<1> HIDE DEF d, At
<1>6. PICK k \in 0 .. Len(parts) :
        /\ \A j \in (k + 1) .. Len(parts) : ~Decides(j)
        /\ \/ result = Stand(k) /\ Stand(k) \in tomls
           \/ result = None /\ Stand(k) \in gits \ tomls
           \/ result = None /\ k = 0 /\ ~Decides(0)
  BY DEF Climbed
<1>7. ASSUME NEW m \in (At(k) + 1) .. Len(d) PROVE SubSeq(d, 1, m) \notin tomls \cup gits
  <2>1. m \in Len(Base) .. Len(d) /\ At(k) < m
    BY <1>3
  <2>2. PICK j \in 0 .. Len(parts) : m = At(j)
    BY <1>3, <2>1
  <2>3. j \in (k + 1) .. Len(parts)
    BY <1>1, <1>3, <2>1, <2>2
  <2> QED BY <1>4, <1>6, <2>2, <2>3 DEF Decides
<1>8. CASE Stand(k) \in tomls \cup gits
  <2>1. At(k) \in 0 .. Len(d) /\ SubSeq(d, 1, At(k)) \in tomls \cup gits
    <3>1. At(k) \in Len(Base) .. Len(d)
      BY <1>3
    <3>2. At(k) \in 0 .. Len(d)
      BY <1>3, <3>1
    <3> QED BY <1>4, <1>8, <3>2
  <2>2. Config!Nearest(d) = IF SubSeq(d, 1, At(k)) \in tomls THEN SubSeq(d, 1, At(k)) ELSE None
    BY <1>3, <1>7, <2>1, NearestAt
  <2>3. result = Config!Nearest(d)
    BY <1>4, <1>6, <1>8, <2>2 DEF Decides
  <2> QED BY <1>5, <2>3
<1>9. CASE Stand(k) \notin tomls \cup gits
  <2>1. result = None /\ k = 0
    BY <1>6, <1>9
  <2>2. At(0) = Len(Base)
    BY DEF At, Depth
  <2>3. \A m \in Len(Base) .. Len(d) : SubSeq(d, 1, m) \notin tomls \cup gits
    <3> SUFFICES ASSUME NEW m \in Len(Base) .. Len(d) PROVE SubSeq(d, 1, m) \notin tomls \cup gits
      OBVIOUS
    <3>1. CASE m = Len(Base)
      BY <1>4, <1>9, <2>1, <2>2, <3>1
    <3>2. CASE m # Len(Base)
      <4>1. m \in (At(k) + 1) .. Len(d)
        BY <1>3, <2>1, <2>2, <3>2
      <4> QED BY <1>7, <4>1
    <3> QED BY <3>1, <3>2
  <2>4. Len(Base) <= Len(d)
    <3>1. 0 \in 0 .. Len(parts)
      BY <1>1
    <3> QED BY <1>3, <2>2, <3>1
  <2>5. \/ Config!Nearest(d) = None
        \/ Config!IsStrictPrefix(Config!Nearest(d), Base) /\ Len(Base) > 0
    BY <1>1, <1>3, <2>3, <2>4, NearestIsAbove
  <2> QED BY <1>5, <2>1, <2>5
<1> QED BY <1>8, <1>9

\* For any tree of directories, files and repositories, and a path of any
\* length without "..": the nearest configuration is used, nothing from beyond a
\* repository, and what is missed lies above the working directory.
THEOREM SearchFindsNearest == FilesSpec => []NearestIsFound
<1>1. ConfigInv => NearestIsFound
  <2> SUFFICES ASSUME PathShape, Climbed, pc = "done", Config!Downward(path)
               PROVE  /\ path.absolute => result = Config!Nearest(Config!Real(path))
                      /\ ~path.absolute =>
                           \/ result = Config!Nearest(Config!Real(path))
                           \/ /\ result = None
                              /\ Config!IsStrictPrefix(Config!Nearest(Config!Real(path)), cwd)
    BY DEF ConfigInv, NearestIsFound, Config!AbsoluteIsNearest, Config!RelativeIsNearestOrMissed
  <2>1. CASE ~path.absolute
    BY <2>1, EndedSearch DEF Base
  <2>2. CASE path.absolute
    <3>1. ~(Len(Base) > 0)
      BY <2>2 DEF Base
    <3> QED BY <2>2, <3>1, EndedSearch
  <2> QED BY <2>1, <2>2
<1> QED BY <1>1, FilesKeepConfig, PTL

-----------------------------------------------------------------------------
(* What was recorded hides as much *)

Prints(s) == Known!FingerprintFindings(s)

\* How many of the first n findings have the key.
Copies(s, n, key) == {i \in 1 .. n : s[i] = key}
Seen(s, n, key)   == Cardinality(Copies(s, n, key))

LEMMA SeenIsFinite ==
  ASSUME NEW s \in Seq(Keys), NEW n \in 0 .. Len(s), NEW key
  PROVE  IsFiniteSet(Copies(s, n, key)) /\ Seen(s, n, key) \in Nat
<1>1. Copies(s, n, key) \in SUBSET (1 .. n) /\ n \in Int
  BY DEF Copies
<1>2. IsFiniteSet(1 .. n)
  BY <1>1, FS_Interval
<1> QED BY <1>1, <1>2, FS_Subset, FS_CardinalityType DEF Seen

LEMMA SeenGrows ==
  ASSUME NEW s \in Seq(Keys), NEW m \in 0 .. Len(s), NEW n \in 0 .. Len(s), m <= n, NEW key
  PROVE  Seen(s, m, key) <= Seen(s, n, key)
<1>1. Copies(s, m, key) \in SUBSET Copies(s, n, key)
  BY DEF Copies
<1> QED BY <1>1, SeenIsFinite, FS_Subset DEF Seen

LEMMA SeenSteps ==
  ASSUME NEW s \in Seq(Keys), NEW key
  PROVE  /\ Seen(s, 0, key) = 0
         /\ \A n \in 1 .. Len(s) :
              Seen(s, n, key) = Seen(s, n - 1, key) + (IF s[n] = key THEN 1 ELSE 0)
<1>1. Copies(s, 0, key) = {}
  BY DEF Copies
<1>2. ASSUME NEW n \in 1 .. Len(s)
      PROVE  Seen(s, n, key) = Seen(s, n - 1, key) + (IF s[n] = key THEN 1 ELSE 0)
  <2>1. n - 1 \in 0 .. Len(s) /\ Len(s) \in Nat
    OBVIOUS
  <2>2. n \notin Copies(s, n - 1, key) /\ IsFiniteSet(Copies(s, n - 1, key)) /\ Seen(s, n - 1, key) \in Nat
    <3>1. n \notin 1 .. (n - 1)
      BY <2>1
    <3>2. n \notin Copies(s, n - 1, key)
      BY <3>1 DEF Copies
    <3> QED BY <2>1, <3>2, SeenIsFinite
  <2>3. CASE s[n] = key
    <3>1. Copies(s, n, key) = Copies(s, n - 1, key) \cup {n}
      BY <2>1, <2>3 DEF Copies
    <3> QED BY <2>2, <2>3, <3>1, FS_AddElement DEF Seen
  <2>4. CASE s[n] # key
    <3>1. Copies(s, n, key) = Copies(s, n - 1, key)
      BY <2>1, <2>4 DEF Copies
    <3> QED BY <2>2, <2>4, <3>1 DEF Seen
  <2> QED BY <2>3, <2>4
<1> QED BY <1>1, <1>2, FS_EmptySet DEF Seen

\* Every number below the count is the number of those before some place.
LEMMA SeenHits ==
  ASSUME NEW s \in Seq(Keys), NEW key, NEW o \in Nat, o < Seen(s, Len(s), key)
  PROVE  \E j \in 1 .. Len(s) : s[j] = key /\ Seen(s, j - 1, key) = o
<1> DEFINE Past == {n \in 0 .. Len(s) : o < Seen(s, n, key)}
<1>1. Len(s) \in Nat /\ Len(s) \in Past
  OBVIOUS
<1>2. PICK n \in Past : \A m \in Past : n <= m
  <2>1. Past \subseteq Nat /\ Past # {}
    BY <1>1
  <2> HIDE DEF Past
  <2> QED BY <2>1, Least
<1>3. n \in 0 .. Len(s) /\ o < Seen(s, n, key)
  OBVIOUS
<1>4. n # 0
  BY <1>3, SeenSteps
<1>5. n - 1 \in 0 .. Len(s) /\ ~(n <= n - 1) /\ n \in 1 .. Len(s)
  BY <1>3, <1>4
<1>6. n - 1 \notin Past
  <2> HIDE DEF Past
  <2> QED BY <1>2, <1>5
<1>7. ~(o < Seen(s, n - 1, key)) /\ Seen(s, n - 1, key) \in Nat
  BY <1>5, <1>6, SeenIsFinite
<1>8. Seen(s, n, key) = Seen(s, n - 1, key) + (IF s[n] = key THEN 1 ELSE 0)
  BY <1>5, SeenSteps
<1> QED BY <1>3, <1>5, <1>7, <1>8

LEMMA CountIsSeen ==
  ASSUME NEW s \in Seq(Keys), NEW key
  PROVE  /\ Known!Count(s, key) = Seen(s, Len(s), key)
         /\ \A n \in 0 .. Len(s) : Known!Count(SubSeq(s, 1, n), key) = Seen(s, n, key)
<1>1. \A T : Known!Cardinality(T) = Cardinality(T)
  BY Zenon DEF Known!Cardinality, Cardinality
<1>2. \A t : Known!Count(t, key) = Cardinality({i \in DOMAIN t : t[i] = key})
  BY <1>1, Zenon DEF Known!Count, Known!Quantify
<1>3. {i \in DOMAIN s : s[i] = key} = Copies(s, Len(s), key)
  BY DEF Copies
<1>4. ASSUME NEW n \in 0 .. Len(s)
      PROVE  {i \in DOMAIN SubSeq(s, 1, n) : SubSeq(s, 1, n)[i] = key} = Copies(s, n, key)
  <2>1. /\ DOMAIN SubSeq(s, 1, n) = 1 .. n
        /\ \A i \in 1 .. n : SubSeq(s, 1, n)[i] = s[i]
    OBVIOUS
  <2> QED BY <2>1 DEF Copies
<1> QED BY <1>2, <1>3, <1>4 DEF Seen

\* A fingerprint is the key and the number of those before.
LEMMA PrintIs ==
  ASSUME NEW s \in Seq(Keys)
  PROVE  /\ DOMAIN Prints(s) = 1 .. Len(s)
         /\ \A i \in 1 .. Len(s) :
              Prints(s)[i] = [key |-> s[i], occurrence |-> Seen(s, i - 1, s[i])]
<1>1. DOMAIN s = 1 .. Len(s)
  OBVIOUS
<1>2. \A i \in 1 .. Len(s) : Known!Count(SubSeq(s, 1, i - 1), s[i]) = Seen(s, i - 1, s[i])
  <2>1. ASSUME NEW i \in 1 .. Len(s) PROVE i - 1 \in 0 .. Len(s)
    OBVIOUS
  <2> QED BY <2>1, CountIsSeen
<1>3. Prints(s) = [i \in 1 .. Len(s) |-> [key |-> s[i], occurrence |-> Seen(s, i - 1, s[i])]]
  BY <1>1, <1>2 DEF Prints, Known!FingerprintFindings
<1> QED BY <1>3

\* Two of them are equal if both parts are.
LEMMA SamePrint ==
  ASSUME NEW s \in Seq(Keys), NEW r \in Seq(Keys), NEW i \in 1 .. Len(s), NEW j \in 1 .. Len(r)
  PROVE  Prints(r)[j] = Prints(s)[i] <=> r[j] = s[i] /\ Seen(r, j - 1, s[i]) = Seen(s, i - 1, s[i])
<1>1. \A a, b, c, d, p, q :
        p = [key |-> a, occurrence |-> b] /\ q = [key |-> c, occurrence |-> d] =>
          (p = q <=> a = c /\ b = d)
  BY SMT
<1>2. /\ Prints(r)[j] = [key |-> r[j], occurrence |-> Seen(r, j - 1, r[j])]
      /\ Prints(s)[i] = [key |-> s[i], occurrence |-> Seen(s, i - 1, s[i])]
  BY PrintIs
<1>3. Prints(r)[j] = Prints(s)[i] <=> r[j] = s[i] /\ Seen(r, j - 1, r[j]) = Seen(s, i - 1, s[i])
  BY <1>1, <1>2
<1>4. r[j] = s[i] => Seen(r, j - 1, r[j]) = Seen(r, j - 1, s[i])
  OBVIOUS
<1> QED BY <1>3, <1>4, Zenon

\* The fingerprints of one scan are different.
LEMMA PrintsDiffer ==
  ASSUME NEW s \in Seq(Keys), NEW i \in 1 .. Len(s), NEW j \in 1 .. Len(s), i < j
  PROVE  Prints(s)[i] # Prints(s)[j]
<1> SUFFICES ASSUME s[j] = s[i], Seen(s, j - 1, s[i]) = Seen(s, i - 1, s[i]) PROVE FALSE
  BY SamePrint
<1>1. i - 1 \in 0 .. Len(s) /\ j - 1 \in 0 .. Len(s) /\ i \in 0 .. Len(s) /\ i <= j - 1
  OBVIOUS
<1>2. Seen(s, i, s[i]) = Seen(s, i - 1, s[i]) + 1 /\ Seen(s, i - 1, s[i]) \in Nat
  BY <1>1, SeenSteps, SeenIsFinite
<1>3. Seen(s, i, s[i]) <= Seen(s, j - 1, s[i])
  BY <1>1, SeenGrows
<1> QED BY <1>2, <1>3

\* A fingerprint is among those of another scan if that has as many of the key.
LEMMA PrintIsShared ==
  ASSUME NEW s \in Seq(Keys), NEW r \in Seq(Keys), NEW i \in 1 .. Len(s)
  PROVE  (\E j \in 1 .. Len(r) : Prints(r)[j] = Prints(s)[i])
           <=> Seen(s, i - 1, s[i]) < Seen(r, Len(r), s[i])
<1> DEFINE o == Seen(s, i - 1, s[i])
<1>1. i - 1 \in 0 .. Len(s) /\ o \in Nat
  BY SeenIsFinite
<1> HIDE DEF o
<1>2. \A j \in 1 .. Len(r) : Prints(r)[j] = Prints(s)[i] <=> r[j] = s[i] /\ Seen(r, j - 1, s[i]) = o
  BY SamePrint DEF o
<1>3. ASSUME NEW j \in 1 .. Len(r), r[j] = s[i], Seen(r, j - 1, s[i]) = o
      PROVE  o < Seen(r, Len(r), s[i])
  <2>1. j \in 0 .. Len(r) /\ Len(r) \in 0 .. Len(r) /\ j <= Len(r)
    OBVIOUS
  <2>2. Seen(r, j, s[i]) = o + 1
    BY <1>3, SeenSteps
  <2>3. Seen(r, j, s[i]) <= Seen(r, Len(r), s[i]) /\ Seen(r, Len(r), s[i]) \in Nat
    BY <2>1, SeenGrows, SeenIsFinite
  <2> QED BY <1>1, <2>2, <2>3
<1>4. o < Seen(r, Len(r), s[i]) => \E j \in 1 .. Len(r) : r[j] = s[i] /\ Seen(r, j - 1, s[i]) = o
  BY <1>1, SeenHits
<1> QED BY <1>2, <1>3, <1>4 DEF o

-----------------------------------------------------------------------------

\* What a bag is after each of the findings, from what it was after the one
\* before: there is a function that says so, by induction over their number.
InsertsOf(bag, f, len, h) ==
  [i \in 0 .. len |-> IF i = 0 THEN bag ELSE Known!BagAdd(h[i - 1], f[i])]

LEMMA InsertedIsDefined ==
  ASSUME NEW bag, NEW f, NEW len \in Nat
  PROVE  \E h : h = InsertsOf(bag, f, len, h)
<1> USE DEF InsertsOf
<1> DEFINE To(h, n) == h = InsertsOf(bag, f, n, h)
           Lacking  == {n \in 0 .. len : ~\E h : To(h, n)}
<1>1. ASSUME Lacking # {} PROVE FALSE
  <2>1. PICK n \in Lacking : \A m \in Lacking : n <= m
    <3>1. Lacking \subseteq Nat
      OBVIOUS
    <3> HIDE DEF Lacking
    <3> QED BY <1>1, <3>1, Least
  <2>2. n \in 0 .. len /\ ~\E h : To(h, n)
    OBVIOUS
  <2>3. CASE n = 0
    <3> DEFINE h == [i \in 0 .. 0 |-> bag]
    <3>1. To(h, 0)
      OBVIOUS
    <3> QED BY <2>2, <2>3, <3>1
  <2>4. CASE n # 0
    <3>1. n - 1 \in 0 .. len /\ ~(n <= n - 1)
      BY <2>2, <2>4
    <3>2. n - 1 \notin Lacking
      <4> HIDE DEF Lacking
      <4> QED BY <2>1, <3>1
    <3>3. PICK k : To(k, n - 1)
      BY <3>1, <3>2
    <3> DEFINE h == [i \in 0 .. n |-> IF i = n THEN Known!BagAdd(k[n - 1], f[n]) ELSE k[i]]
    <3>4. ASSUME NEW i \in 0 .. n
          PROVE  h[i] = IF i = 0 THEN bag ELSE Known!BagAdd(h[i - 1], f[i])
      <4>1. CASE i = n
        <5>1. h[i] = Known!BagAdd(k[n - 1], f[n]) /\ h[n - 1] = k[n - 1]
          BY <4>1, <2>2, <2>4
        <5> QED BY <4>1, <5>1, <2>4
      <4>2. CASE i # n
        <5>1. i \in 0 .. (n - 1)
          BY <4>2, <2>2
        <5>2. h[i] = k[i] /\ (i # 0 => h[i - 1] = k[i - 1])
          BY <5>1, <4>2, <2>2
        <5>3. k[i] = IF i = 0 THEN bag ELSE Known!BagAdd(k[i - 1], f[i])
          BY <3>3, <5>1
        <5> QED BY <5>2, <5>3
      <4> QED BY <4>1, <4>2
    <3>5. h = [i \in 0 .. n |-> h[i]]
      OBVIOUS
    <3> HIDE DEF h
    <3>6. To(h, n)
      BY <3>4, <3>5
    <3> QED BY <2>2, <3>6
  <2> QED BY <2>3, <2>4
<1>2. len \in 0 .. len
  OBVIOUS
<1> QED BY <1>1, <1>2

LEMMA BagDomains ==
  ASSUME NEW B, NEW x
  PROVE  /\ DOMAIN Known!BagAdd(B, x) = DOMAIN B \cup {x}
         /\ DOMAIN Known!BagRemove(B, x) \subseteq DOMAIN B
         /\ DOMAIN B \ {x} \subseteq DOMAIN Known!BagRemove(B, x)
<1>1. DOMAIN Known!BagAdd(B, x) = DOMAIN B \cup {x}
  BY DEF Known!BagAdd
<1>2. DOMAIN Known!BagRemove(B, x) \subseteq DOMAIN B /\ DOMAIN B \ {x} \subseteq DOMAIN Known!BagRemove(B, x)
  BY DEF Known!BagRemove
<1> QED BY <1>1, <1>2

\* Recording a scan adds its fingerprints, whatever their number is by then.
LEMMA Recording ==
  ASSUME NEW s \in Seq(Keys), Known!Record(s)
  PROVE  /\ DOMAIN baseline' = DOMAIN baseline \cup {Prints(s)[i] : i \in 1 .. Len(s)}
         /\ recorded' = Append(recorded, s) /\ UNCHANGED <<against, scan, new, hidden>>
<1> DEFINE After == CHOOSE h : h = [i \in 0 .. Len(s) |->
             IF i = 0 THEN baseline ELSE Known!BagAdd(h[i - 1], Prints(s)[i])]
<1>1. /\ baseline' = After[Len(s)]
      /\ recorded' = Append(recorded, s) /\ UNCHANGED <<against, scan, new, hidden>>
  BY Zenon DEF Known!Record, Prints
<1>2. Len(s) \in Nat
  OBVIOUS
<1>3. After = CHOOSE h : h = InsertsOf(baseline, Prints(s), Len(s), h)
  BY DEF InsertsOf
<1> HIDE DEF After
<1>4. After = InsertsOf(baseline, Prints(s), Len(s), After)
  BY <1>2, <1>3, InsertedIsDefined, Zenon
<1>5. \A i \in 0 .. Len(s) :
        After[i] = IF i = 0 THEN baseline ELSE Known!BagAdd(After[i - 1], Prints(s)[i])
  BY <1>4 DEF InsertsOf
<1> DEFINE Grown(i) == DOMAIN After[i] = DOMAIN baseline \cup {Prints(s)[j] : j \in 1 .. i}
           Fails    == {i \in 0 .. Len(s) : ~Grown(i)}
<1>6. ASSUME Fails # {} PROVE FALSE
  <2>1. PICK n \in Fails : \A m \in Fails : n <= m
    <3>1. Fails \subseteq Nat
      OBVIOUS
    <3> HIDE DEF Fails
    <3> QED BY <1>6, <3>1, Least
  <2>2. n \in 0 .. Len(s) /\ ~Grown(n)
    OBVIOUS
  <2>3. n # 0
    <3>1. DOMAIN After[0] = DOMAIN baseline
      BY <1>2, <1>5
    <3> QED BY <2>2, <3>1
  <2>4. n - 1 \in 0 .. Len(s) /\ ~(n <= n - 1)
    BY <2>2, <2>3
  <2>5. Grown(n - 1)
    <3>1. n - 1 \notin Fails
      <4> HIDE DEF Fails
      <4> QED BY <2>1, <2>4
    <3> HIDE DEF Grown
    <3> QED BY <2>4, <3>1
  <2>6. After[n] = Known!BagAdd(After[n - 1], Prints(s)[n])
    BY <1>5, <2>2, <2>3
  <2>7. DOMAIN After[n] = DOMAIN After[n - 1] \cup {Prints(s)[n]}
    BY <2>6, BagDomains
  <2>8. {Prints(s)[j] : j \in 1 .. n} = {Prints(s)[j] : j \in 1 .. (n - 1)} \cup {Prints(s)[n]}
    <3>1. \A j : j \in 1 .. n <=> j \in 1 .. (n - 1) \/ j = n
      BY <2>2, <2>3
    <3> QED BY <3>1
  <2> QED BY <2>2, <2>5, <2>7, <2>8
<1>7. Grown(Len(s))
  BY <1>2, <1>6
<1> QED BY <1>1, <1>7

\* The same for what the filter holds after each of the findings.
Fresh(bag) == [remaining |-> bag, new |-> {}, hidden |-> 0]
TakesOf(bag, s, len, h) ==
  [i \in 0 .. len |-> IF i = 0 THEN Fresh(bag) ELSE Known!FilterStep(s, h[i - 1], i)]

LEMMA FilteredIsDefined ==
  ASSUME NEW bag, NEW s, NEW len \in Nat
  PROVE  \E h : h = TakesOf(bag, s, len, h)
<1> USE DEF TakesOf
<1> DEFINE To(h, n) == h = TakesOf(bag, s, n, h)
           Lacking  == {n \in 0 .. len : ~\E h : To(h, n)}
<1>1. ASSUME Lacking # {} PROVE FALSE
  <2>1. PICK n \in Lacking : \A m \in Lacking : n <= m
    <3>1. Lacking \subseteq Nat
      OBVIOUS
    <3> HIDE DEF Lacking
    <3> QED BY <1>1, <3>1, Least
  <2>2. n \in 0 .. len /\ ~\E h : To(h, n)
    OBVIOUS
  <2>3. CASE n = 0
    <3> DEFINE h == [i \in 0 .. 0 |-> Fresh(bag)]
    <3>1. To(h, 0)
      OBVIOUS
    <3> QED BY <2>2, <2>3, <3>1
  <2>4. CASE n # 0
    <3>1. n - 1 \in 0 .. len /\ ~(n <= n - 1)
      BY <2>2, <2>4
    <3>2. n - 1 \notin Lacking
      <4> HIDE DEF Lacking
      <4> QED BY <2>1, <3>1
    <3>3. PICK k : To(k, n - 1)
      BY <3>1, <3>2
    <3> DEFINE h == [i \in 0 .. n |-> IF i = n THEN Known!FilterStep(s, k[n - 1], n) ELSE k[i]]
    <3>4. ASSUME NEW i \in 0 .. n
          PROVE  h[i] = IF i = 0 THEN Fresh(bag) ELSE Known!FilterStep(s, h[i - 1], i)
      <4>1. CASE i = n
        <5>1. h[i] = Known!FilterStep(s, k[n - 1], n) /\ h[n - 1] = k[n - 1]
          BY <4>1, <2>2, <2>4
        <5> QED BY <4>1, <5>1, <2>4
      <4>2. CASE i # n
        <5>1. i \in 0 .. (n - 1)
          BY <4>2, <2>2
        <5>2. h[i] = k[i] /\ (i # 0 => h[i - 1] = k[i - 1])
          BY <5>1, <4>2, <2>2
        <5>3. k[i] = IF i = 0 THEN Fresh(bag) ELSE Known!FilterStep(s, k[i - 1], i)
          BY <3>3, <5>1
        <5> QED BY <5>2, <5>3
      <4> QED BY <4>1, <4>2
    <3>5. h = [i \in 0 .. n |-> h[i]]
      OBVIOUS
    <3> HIDE DEF h
    <3>6. To(h, n)
      BY <3>4, <3>5
    <3> QED BY <2>2, <3>6
  <2> QED BY <2>3, <2>4
<1>2. len \in 0 .. len
  OBVIOUS
<1> QED BY <1>1, <1>2

\* What was taken and what was not, after some of the findings.
Taken(s, i)    == {j \in 1 .. i : Prints(s)[j] \in DOMAIN baseline}
NotTaken(s, i) == {j \in 1 .. i : Prints(s)[j] \notin DOMAIN baseline}

Took(s, state, i) ==
  \E remaining :
    /\ state = [remaining |-> remaining, new |-> NotTaken(s, i), hidden |-> Cardinality(Taken(s, i))]
    /\ DOMAIN remaining \subseteq DOMAIN baseline
    /\ DOMAIN baseline \ {Prints(s)[j] : j \in 1 .. i} \subseteq DOMAIN remaining

LEMMA TakingStep ==
  ASSUME NEW s \in Seq(Keys), NEW n \in 1 .. Len(s), NEW state, Took(s, state, n - 1)
  PROVE  Took(s, Known!FilterStep(s, state, n), n)
<1>1. PICK remaining :
        /\ state = [remaining |-> remaining, new |-> NotTaken(s, n - 1), hidden |-> Cardinality(Taken(s, n - 1))]
        /\ DOMAIN remaining \subseteq DOMAIN baseline
        /\ DOMAIN baseline \ {Prints(s)[j] : j \in 1 .. (n - 1)} \subseteq DOMAIN remaining
  BY DEF Took
<1> DEFINE f == Prints(s)[n]
<1>2. f \notin {Prints(s)[j] : j \in 1 .. (n - 1)}
  <2> SUFFICES ASSUME NEW j \in 1 .. (n - 1), Prints(s)[j] = f PROVE FALSE
    OBVIOUS
  <2>1. j \in 1 .. Len(s) /\ j < n
    OBVIOUS
  <2> QED BY <2>1, PrintsDiffer
<1>3. {Prints(s)[j] : j \in 1 .. n} = {Prints(s)[j] : j \in 1 .. (n - 1)} \cup {f}
  <2>1. \A j : j \in 1 .. n <=> j \in 1 .. (n - 1) \/ j = n
    OBVIOUS
  <2> QED BY <2>1
<1> HIDE DEF f
<1>4. f \in DOMAIN remaining <=> f \in DOMAIN baseline
  BY <1>1, <1>2
<1>5. Known!FilterStep(s, state, n) =
        IF f \in DOMAIN remaining
        THEN [remaining |-> Known!BagRemove(remaining, f), new |-> NotTaken(s, n - 1),
              hidden |-> Cardinality(Taken(s, n - 1)) + 1]
        ELSE [remaining |-> remaining, new |-> NotTaken(s, n - 1) \cup {n},
              hidden |-> Cardinality(Taken(s, n - 1))]
  <2> DEFINE c == Cardinality(Taken(s, n - 1))  t == NotTaken(s, n - 1)
  <2>1. Known!FilterStep(s, state, n) =
          IF f \in DOMAIN state.remaining
          THEN [state EXCEPT !.remaining = Known!BagRemove(@, f), !.hidden = @ + 1]
          ELSE [state EXCEPT !.new = @ \cup {n}]
    BY DEF Known!FilterStep, f, Prints
  <2>2. state = [remaining |-> remaining, new |-> t, hidden |-> c]
    BY <1>1
  <2> HIDE DEF c, t
  <2>3. Known!FilterStep(s, state, n) =
        IF f \in DOMAIN remaining
        THEN [remaining |-> Known!BagRemove(remaining, f), new |-> t, hidden |-> c + 1]
        ELSE [remaining |-> remaining, new |-> t \cup {n}, hidden |-> c]
    BY <2>1, <2>2
  <2> QED BY <2>3 DEF c, t
<1>6. CASE f \in DOMAIN baseline
  <2>1. Taken(s, n) = Taken(s, n - 1) \cup {n} /\ n \notin Taken(s, n - 1) /\ NotTaken(s, n) = NotTaken(s, n - 1)
    BY <1>6 DEF Taken, NotTaken, f
  <2>2. IsFiniteSet(Taken(s, n - 1))
    <3>1. Taken(s, n - 1) \in SUBSET (1 .. (n - 1)) /\ n - 1 \in Int
      BY DEF Taken
    <3>2. IsFiniteSet(1 .. (n - 1))
      BY <3>1, FS_Interval
    <3> QED BY <3>1, <3>2, FS_Subset
  <2>3. Cardinality(Taken(s, n)) = Cardinality(Taken(s, n - 1)) + 1
    BY <2>1, <2>2, FS_AddElement
  <2>4. Known!FilterStep(s, state, n) =
          [remaining |-> Known!BagRemove(remaining, f), new |-> NotTaken(s, n), hidden |-> Cardinality(Taken(s, n))]
    BY <1>4, <1>5, <1>6, <2>1, <2>3
  <2>5. /\ DOMAIN Known!BagRemove(remaining, f) \subseteq DOMAIN baseline
        /\ DOMAIN baseline \ {Prints(s)[j] : j \in 1 .. n} \subseteq DOMAIN Known!BagRemove(remaining, f)
    BY <1>1, <1>3, BagDomains
  <2> QED BY <2>4, <2>5 DEF Took
<1>7. CASE f \notin DOMAIN baseline
  <2>1. Taken(s, n) = Taken(s, n - 1) /\ NotTaken(s, n) = NotTaken(s, n - 1) \cup {n}
    BY <1>7 DEF Taken, NotTaken, f
  <2>2. Known!FilterStep(s, state, n) =
          [remaining |-> remaining, new |-> NotTaken(s, n), hidden |-> Cardinality(Taken(s, n))]
    BY <1>4, <1>5, <1>7, <2>1
  <2>3. DOMAIN baseline \ {Prints(s)[j] : j \in 1 .. n} \subseteq DOMAIN remaining
    BY <1>1, <1>3
  <2> QED BY <1>1, <2>2, <2>3 DEF Took
<1> QED BY <1>6, <1>7

LEMMA Filtering ==
  ASSUME NEW s \in Seq(Keys), Known!Filter(s)
  PROVE  /\ scan' = s /\ against' = Len(recorded) /\ UNCHANGED <<baseline, recorded>>
         /\ new' = NotTaken(s, Len(s)) /\ hidden' = Cardinality(Taken(s, Len(s)))
<1> DEFINE After == CHOOSE h : h = [i \in 0 .. Len(s) |->
             IF i = 0 THEN [remaining |-> baseline, new |-> {}, hidden |-> 0]
                      ELSE Known!FilterStep(s, h[i - 1], i)]
<1>1. /\ scan' = s /\ against' = Len(recorded) /\ UNCHANGED <<baseline, recorded>>
      /\ new' = After[Len(s)].new /\ hidden' = After[Len(s)].hidden
  BY Zenon DEF Known!Filter
<1>2. Len(s) \in Nat
  OBVIOUS
<1>3. After = CHOOSE h : h = TakesOf(baseline, s, Len(s), h)
  BY DEF TakesOf, Fresh
<1> HIDE DEF After
<1>4. After = TakesOf(baseline, s, Len(s), After)
  BY <1>2, <1>3, FilteredIsDefined, Zenon
<1>5. \A i \in 0 .. Len(s) :
        After[i] = IF i = 0 THEN Fresh(baseline) ELSE Known!FilterStep(s, After[i - 1], i)
  BY <1>4 DEF TakesOf
<1> DEFINE Fails == {i \in 0 .. Len(s) : ~Took(s, After[i], i)}
<1>6. ASSUME Fails # {} PROVE FALSE
  <2>1. PICK n \in Fails : \A m \in Fails : n <= m
    <3>1. Fails \subseteq Nat
      OBVIOUS
    <3> HIDE DEF Fails
    <3> QED BY <1>6, <3>1, Least
  <2>2. n \in 0 .. Len(s) /\ ~Took(s, After[n], n)
    OBVIOUS
  <2>3. n # 0
    <3>1. After[0] = Fresh(baseline)
      BY <1>2, <1>5
    <3>2. NotTaken(s, 0) = {} /\ Cardinality(Taken(s, 0)) = 0
      <4>1. NotTaken(s, 0) = {} /\ Taken(s, 0) = {}
        BY DEF Taken, NotTaken
      <4> QED BY <4>1, FS_EmptySet
    <3>3. Fresh(baseline) = [remaining |-> baseline, new |-> NotTaken(s, 0), hidden |-> Cardinality(Taken(s, 0))]
      BY <3>2 DEF Fresh
    <3>4. Took(s, After[0], 0)
      BY <3>1, <3>3 DEF Took
    <3> QED BY <2>2, <3>4
  <2>4. n - 1 \in 0 .. Len(s) /\ ~(n <= n - 1) /\ n \in 1 .. Len(s)
    BY <2>2, <2>3
  <2>5. Took(s, After[n - 1], n - 1)
    <3>1. n - 1 \notin Fails
      <4> HIDE DEF Fails
      <4> QED BY <2>1, <2>4
    <3> QED BY <2>4, <3>1
  <2>6. After[n] = Known!FilterStep(s, After[n - 1], n)
    BY <1>5, <2>2, <2>3
  <2> QED BY <2>2, <2>4, <2>5, <2>6, TakingStep
<1>7. Took(s, After[Len(s)], Len(s))
  BY <1>2, <1>6
<1> QED BY <1>1, <1>7 DEF Took

Fits(s, key, m, n) == {i \in 1 .. n : s[i] = key /\ Seen(s, i - 1, key) < m}

\* Those with fewer than m before them: as many as there are, and m at most.
LEMMA FitsAreCounted ==
  ASSUME NEW s \in Seq(Keys), NEW key, NEW m \in Nat
  PROVE  \A n \in 0 .. Len(s) :
           /\ IsFiniteSet(Fits(s, key, m, n))
           /\ Cardinality(Fits(s, key, m, n)) = IF Seen(s, n, key) <= m THEN Seen(s, n, key) ELSE m
<1> DEFINE Right(n) == /\ IsFiniteSet(Fits(s, key, m, n))
                       /\ Cardinality(Fits(s, key, m, n)) = IF Seen(s, n, key) <= m THEN Seen(s, n, key) ELSE m
           Wrong == {n \in 0 .. Len(s) : ~Right(n)}
<1>1. ASSUME Wrong # {} PROVE FALSE
  <2>1. PICK n \in Wrong : \A k \in Wrong : n <= k
    <3>1. Wrong \subseteq Nat
      OBVIOUS
    <3> HIDE DEF Wrong
    <3> QED BY <1>1, <3>1, Least
  <2>2. n \in 0 .. Len(s) /\ ~Right(n)
    OBVIOUS
  <2>3. n # 0
    <3>1. Fits(s, key, m, 0) = {}
      BY DEF Fits
    <3>2. IsFiniteSet({}) /\ Cardinality({}) = 0 /\ Seen(s, 0, key) = 0
      BY FS_EmptySet, SeenSteps
    <3>3. Right(0)
      <4>1. IsFiniteSet(Fits(s, key, m, 0)) /\ Cardinality(Fits(s, key, m, 0)) = 0
        BY <3>1, <3>2, Zenon
      <4>2. 0 <= m
        OBVIOUS
      <4> QED BY <3>2, <4>1, <4>2
    <3> HIDE DEF Right
    <3> QED BY <2>2, <3>3
  <2>4. n - 1 \in 0 .. Len(s) /\ ~(n <= n - 1) /\ n \in 1 .. Len(s)
    BY <2>2, <2>3
  <2>5. Right(n - 1)
    <3>1. n - 1 \notin Wrong
      <4> HIDE DEF Wrong
      <4> QED BY <2>1, <2>4
    <3> HIDE DEF Right
    <3> QED BY <2>4, <3>1
  <2>6. /\ Seen(s, n, key) = Seen(s, n - 1, key) + (IF s[n] = key THEN 1 ELSE 0)
        /\ Seen(s, n - 1, key) \in Nat
    BY <2>4, SeenSteps, SeenIsFinite
  <2>7. n \notin Fits(s, key, m, n - 1)
    <3>1. n \notin 1 .. (n - 1)
      BY <2>4
    <3> QED BY <3>1 DEF Fits
  <2>8. \A i : i \in 1 .. n <=> i \in 1 .. (n - 1) \/ i = n
    BY <2>4
  <2>9. CASE s[n] = key /\ Seen(s, n - 1, key) < m
    <3>1. Fits(s, key, m, n) = Fits(s, key, m, n - 1) \cup {n}
      BY <2>8, <2>9 DEF Fits
    <3> DEFINE before == Fits(s, key, m, n - 1)
    <3>0. IsFiniteSet(before) /\ n \notin before
      BY <2>5, <2>7
    <3> HIDE DEF before
    <3>3. IsFiniteSet(before \cup {n}) /\ Cardinality(before \cup {n}) = Cardinality(before) + 1
      BY <3>0, FS_AddElement
    <3>2. /\ IsFiniteSet(Fits(s, key, m, n))
          /\ Cardinality(Fits(s, key, m, n)) = Cardinality(Fits(s, key, m, n - 1)) + 1
      BY <3>1, <3>3 DEF before
    <3> QED BY <2>2, <2>5, <2>6, <2>9, <3>2
  <2>10. CASE ~(s[n] = key /\ Seen(s, n - 1, key) < m)
    <3>1. Fits(s, key, m, n) = Fits(s, key, m, n - 1)
      BY <2>8, <2>10 DEF Fits
    <3> QED BY <2>2, <2>5, <2>6, <2>10, <3>1
  <2> QED BY <2>9, <2>10
<1> HIDE DEF Right
<1>2. \A n \in 0 .. Len(s) : Right(n)
  BY <1>1
<1> QED BY <1>2 DEF Right

-----------------------------------------------------------------------------

\* The numbers of findings the scans recorded had are bounded.
LEMMA CountsAreBounded ==
  ASSUME NEW rs \in Seq(Seq(Keys)), NEW key, NEW l \in 0 .. Len(rs)
  PROVE  \E top \in Nat : \A k \in 1 .. l : Seen(rs[k], Len(rs[k]), key) \in 0 .. top
<1> DEFINE Bounded(n) == \E top \in Nat : \A k \in 1 .. n : Seen(rs[k], Len(rs[k]), key) \in 0 .. top
           Free == {n \in 0 .. Len(rs) : ~Bounded(n)}
<1>1. ASSUME Free # {} PROVE FALSE
  <2>1. PICK n \in Free : \A k \in Free : n <= k
    <3>1. Free \subseteq Nat
      OBVIOUS
    <3> HIDE DEF Free
    <3> QED BY <1>1, <3>1, Least
  <2>2. n \in 0 .. Len(rs) /\ ~Bounded(n)
    OBVIOUS
  <2>3. n # 0
    BY <2>2
  <2>4. n - 1 \in 0 .. Len(rs) /\ ~(n <= n - 1) /\ n \in 1 .. Len(rs)
    BY <2>2, <2>3
  <2>5. PICK top \in Nat : \A k \in 1 .. (n - 1) : Seen(rs[k], Len(rs[k]), key) \in 0 .. top
    <3>1. n - 1 \notin Free
      <4> HIDE DEF Free
      <4> QED BY <2>1, <2>4
    <3> QED BY <2>4, <3>1
  <2> DEFINE c == Seen(rs[n], Len(rs[n]), key)
  <2>6. c \in Nat
    <3>1. rs[n] \in Seq(Keys) /\ Len(rs[n]) \in 0 .. Len(rs[n])
      BY <2>4
    <3> QED BY <3>1, SeenIsFinite
  <2>7. \A k \in 1 .. n : Seen(rs[k], Len(rs[k]), key) \in 0 .. (top + c)
    <3> SUFFICES ASSUME NEW k \in 1 .. n PROVE Seen(rs[k], Len(rs[k]), key) \in 0 .. (top + c)
      OBVIOUS
    <3>1. CASE k = n
      BY <2>6, <3>1
    <3>2. CASE k # n
      <4>1. k \in 1 .. (n - 1)
        BY <2>4, <3>2
      <4>2. Seen(rs[k], Len(rs[k]), key) \in 0 .. top
        BY <2>5, <4>1
      <4> HIDE DEF c
      <4> QED BY <2>6, <4>2
    <3> QED BY <3>1, <3>2
  <2>8. top + c \in Nat
    BY <2>6
  <2> QED BY <2>2, <2>7, <2>8
<1> HIDE DEF Bounded
<1>2. Bounded(l)
  BY <1>1
<1> QED BY <1>2 DEF Bounded

\* The most that any of them had.
LEMMA MostIs ==
  ASSUME NEW key, recorded \in Seq(Seq(Keys)), against \in 0 .. Len(recorded)
  PROVE  /\ Known!Most(key) \in Nat
         /\ \A o \in Nat : o < Known!Most(key) <=>
              \E k \in 1 .. against : o < Seen(recorded[k], Len(recorded[k]), key)
<1> DEFINE C(k) == Seen(recorded[k], Len(recorded[k]), key)
           T    == {0} \cup {C(k) : k \in 1 .. against}
<1>1. Known!Most(key) = CHOOSE x \in T : \A y \in T : x >= y
  <2>1. \A k \in 1 .. against : Known!Count(recorded[k], key) = C(k)
    <3>1. \A k \in 1 .. against : recorded[k] \in Seq(Keys)
      OBVIOUS
    <3> QED BY <3>1, CountIsSeen
  <2>2. Known!ToSet(SubSeq(recorded, 1, against)) = {recorded[k] : k \in 1 .. against}
    <3>1. DOMAIN SubSeq(recorded, 1, against) = 1 .. against /\
          \A k \in 1 .. against : SubSeq(recorded, 1, against)[k] = recorded[k]
      OBVIOUS
    <3> QED BY <3>1 DEF Known!ToSet
  <2>3. {0} \cup {Known!Count(r, key) : r \in Known!ToSet(SubSeq(recorded, 1, against))} = T
    BY <2>1, <2>2
  <2> HIDE DEF T
  <2> QED BY <2>3, Zenon DEF Known!Most, Known!Max
<1>2. PICK top \in Nat : \A k \in 1 .. against : C(k) \in 0 .. top
  BY CountsAreBounded
<1> HIDE DEF C
<1>3. T \in SUBSET (0 .. top) /\ T # {}
  BY <1>2
<1>4. \E x \in T : \A y \in T : y <= x
  <2> HIDE DEF T
  <2> QED BY <1>3, Greatest
<1>5. \E x \in T : \A y \in T : x >= y
  BY <1>3, <1>4
<1>6. Known!Most(key) \in T /\ \A y \in T : Known!Most(key) >= y
  <2> HIDE DEF T
  <2> QED BY <1>1, <1>5
<1>7. Known!Most(key) \in Nat
  BY <1>3, <1>6
<1>8. ASSUME NEW o \in Nat PROVE o < Known!Most(key) <=> \E k \in 1 .. against : o < C(k)
  <2>1. ASSUME o < Known!Most(key) PROVE \E k \in 1 .. against : o < C(k)
    BY <1>6, <2>1
  <2>2. ASSUME NEW k \in 1 .. against, o < C(k) PROVE o < Known!Most(key)
    <3>1. C(k) \in T /\ C(k) \in Nat
      BY <1>2
    <3>2. Known!Most(key) >= C(k)
      <4> HIDE DEF T
      <4> QED BY <1>6, <3>1
    <3> QED BY <1>7, <2>2, <3>1, <3>2
  <2> QED BY <2>1, <2>2
<1> QED BY <1>7, <1>8 DEF C

\* What is recorded, and what the last filter said of the scan it was given.
Matched(i) == \E k \in 1 .. against : \E j \in 1 .. Len(recorded[k]) : Prints(recorded[k])[j] = Prints(scan)[i]

BaselineInv ==
  /\ recorded \in Seq(Seq(Keys)) /\ scan \in Seq(Keys) /\ against \in 0 .. Len(recorded)
  /\ \A f : f \in DOMAIN baseline <=>
             \E k \in 1 .. Len(recorded) : \E j \in 1 .. Len(recorded[k]) : Prints(recorded[k])[j] = f
  /\ new = {i \in 1 .. Len(scan) : ~Matched(i)}
  /\ hidden = Cardinality({i \in 1 .. Len(scan) : Matched(i)})

LEMMA BaselineStarts == ASSUME Known!Init PROVE BaselineInv
<1>1. recorded = <<>> /\ scan = <<>> /\ against = 0 /\ new = {} /\ hidden = 0 /\ DOMAIN baseline = {}
  BY DEF Known!Init, Known!EmptyBag, Known!SetToBag
<1>2. {i \in 1 .. Len(scan) : Matched(i)} = {} /\ {i \in 1 .. Len(scan) : ~Matched(i)} = {}
  BY <1>1
<1> QED BY <1>1, <1>2, FS_EmptySet DEF BaselineInv

LEMMA ScansAreSequences == ASSUME NEW s \in Known!Scans PROVE s \in Seq(Keys)
  BY DEF Known!Scans, Known!BoundedSeq, Known!SeqOf

LEMMA RecordKeeps ==
  ASSUME BaselineInv, NEW s \in Seq(Keys), Known!Record(s)
  PROVE  BaselineInv'
<1> DEFINE n == Len(recorded) + 1
<1>1. /\ DOMAIN baseline' = DOMAIN baseline \cup {Prints(s)[i] : i \in 1 .. Len(s)}
      /\ recorded' = Append(recorded, s) /\ UNCHANGED <<against, scan, new, hidden>>
  BY Recording
<1>2. /\ recorded' \in Seq(Seq(Keys)) /\ Len(recorded') = n /\ n \in Nat
      /\ recorded'[n] = s /\ \A k \in 1 .. (n - 1) : recorded'[k] = recorded[k]
      /\ \A k : k \in 1 .. n <=> k \in 1 .. (n - 1) \/ k = n
      /\ n - 1 = Len(recorded)
  BY <1>1 DEF BaselineInv
<1> HIDE DEF n
<1>3. \A i : Matched(i)' <=> Matched(i)
  <2>1. \A k \in 1 .. against : recorded'[k] = recorded[k]
    BY <1>2 DEF BaselineInv
  <2> SUFFICES ASSUME NEW i PROVE Matched(i)' <=> Matched(i)
    OBVIOUS
  <2>2. Matched(i)' <=>
          \E k \in 1 .. against : \E j \in 1 .. Len(recorded'[k]) : Prints(recorded'[k])[j] = Prints(scan)[i]
    BY <1>1 DEF Matched
  <2> QED BY <2>1, <2>2 DEF Matched
<1>4. /\ new' = {i \in 1 .. Len(scan') : ~Matched(i)'}
      /\ hidden' = Cardinality({i \in 1 .. Len(scan') : Matched(i)'})
  <2>1. {i \in 1 .. Len(scan') : Matched(i)'} = {i \in 1 .. Len(scan) : Matched(i)}
    BY <1>1, <1>3
  <2>2. {i \in 1 .. Len(scan') : ~Matched(i)'} = {i \in 1 .. Len(scan) : ~Matched(i)}
    BY <1>1, <1>3
  <2> QED BY <1>1, <2>1, <2>2 DEF BaselineInv
<1>5. ASSUME NEW f
      PROVE  f \in DOMAIN baseline' <=>
               \E k \in 1 .. n : \E j \in 1 .. Len(recorded'[k]) : Prints(recorded'[k])[j] = f
  <2>1. f \in DOMAIN baseline <=>
          \E k \in 1 .. (n - 1) : \E j \in 1 .. Len(recorded[k]) : Prints(recorded[k])[j] = f
    BY <1>2 DEF BaselineInv
  <2>2. f \in DOMAIN baseline' <=> f \in DOMAIN baseline \/ \E j \in 1 .. Len(s) : Prints(s)[j] = f
    BY <1>1
  <2> QED BY <1>2, <2>1, <2>2
<1>6. scan' \in Seq(Keys) /\ against' \in 0 .. Len(recorded')
  BY <1>1, <1>2 DEF BaselineInv
<1> QED BY <1>2, <1>4, <1>5, <1>6 DEF BaselineInv

LEMMA FilterKeeps ==
  ASSUME BaselineInv, NEW s \in Seq(Keys), Known!Filter(s)
  PROVE  BaselineInv'
<1>1. /\ scan' = s /\ against' = Len(recorded) /\ baseline' = baseline /\ recorded' = recorded
      /\ new' = NotTaken(s, Len(s)) /\ hidden' = Cardinality(Taken(s, Len(s)))
  BY Filtering
<1>2. \A i : Matched(i)' <=> Prints(s)[i] \in DOMAIN baseline
  BY <1>1 DEF Matched, BaselineInv
<1>3. /\ NotTaken(s, Len(s)) = {i \in 1 .. Len(scan') : ~Matched(i)'}
      /\ Taken(s, Len(s)) = {i \in 1 .. Len(scan') : Matched(i)'}
  BY <1>1, <1>2 DEF NotTaken, Taken
<1>4. against' \in 0 .. Len(recorded')
  BY <1>1 DEF BaselineInv
<1> QED BY <1>1, <1>3, <1>4 DEF BaselineInv

LEMMA FilesKeepBaseline == FilesSpec => []BaselineInv
<1>1. FilesInit => BaselineInv
  BY BaselineStarts DEF FilesInit
<1>2. BaselineInv /\ [FilesNext]_files_vars => BaselineInv'
  <2> SUFFICES ASSUME BaselineInv, [FilesNext]_files_vars PROVE BaselineInv'
    OBVIOUS
  <2>1. CASE BaselineStep
    <3>1. PICK s \in Known!Scans : Known!Record(s) \/ Known!Filter(s)
      BY <2>1 DEF BaselineStep, Known!Next
    <3>2. s \in Seq(Keys)
      BY ScansAreSequences
    <3> QED BY <3>1, <3>2, RecordKeeps, FilterKeeps
  <2>2. CASE UNCHANGED baseline_vars
    BY <2>2 DEF baseline_vars, BaselineInv, Matched
  <2>3. BaselineStep \/ UNCHANGED baseline_vars
    BY DEF FilesNext, files_vars, ReportStep, ConfigStep, FileStep, AnswerStep, CollisionStep
  <2> QED BY <2>1, <2>2, <2>3
<1> QED BY <1>1, <1>2, PTL DEF FilesSpec

\* A finding is taken for a known one if fewer of its key come before it than
\* some scan recorded had.
LEMMA MatchedIs ==
  ASSUME BaselineInv, NEW i \in 1 .. Len(scan)
  PROVE  Matched(i) <=> Seen(scan, i - 1, scan[i]) < Known!Most(scan[i])
<1>1. i - 1 \in 0 .. Len(scan) /\ scan \in Seq(Keys) /\ recorded \in Seq(Seq(Keys)) /\ against \in 0 .. Len(recorded)
  BY DEF BaselineInv
<1>2. Seen(scan, i - 1, scan[i]) \in Nat
  BY <1>1, SeenIsFinite
<1>3. \A k \in 1 .. against :
        (\E j \in 1 .. Len(recorded[k]) : Prints(recorded[k])[j] = Prints(scan)[i])
          <=> Seen(scan, i - 1, scan[i]) < Seen(recorded[k], Len(recorded[k]), scan[i])
  <2>1. \A k \in 1 .. against : recorded[k] \in Seq(Keys)
    BY <1>1
  <2> QED BY <1>1, <2>1, PrintIsShared
<1> QED BY <1>1, <1>2, <1>3, MostIs DEF Matched

LEMMA BaselineHides == ASSUME BaselineInv PROVE Known!BaselineFindings
<1>1. scan \in Seq(Keys) /\ recorded \in Seq(Seq(Keys)) /\ against \in 0 .. Len(recorded) /\ Len(scan) \in Nat
  BY DEF BaselineInv
<1>2. \A T : Known!Cardinality(T) = Cardinality(T)
  BY Zenon DEF Known!Cardinality, Cardinality
<1>3. Known!Cardinality(new) + hidden = Len(scan)
  <2> DEFINE old == {i \in 1 .. Len(scan) : Matched(i)}
  <2>1. hidden = Cardinality(old) /\ old \in SUBSET (1 .. Len(scan)) /\ new \in SUBSET (1 .. Len(scan))
        /\ new \cup old = 1 .. Len(scan) /\ new \cap old = {}
    BY DEF BaselineInv
  <2>2. IsFiniteSet(1 .. Len(scan)) /\ Cardinality(1 .. Len(scan)) = Len(scan)
    <3> DEFINE n == Len(scan)
    <3>1. n \in Int /\ 1 \in Int /\ n - 1 + 1 = n /\ (1 > n => n = 0)
      BY <1>1
    <3> HIDE DEF n
    <3>2. IsFiniteSet(1 .. n) /\ Cardinality(1 .. n) = n
      BY <3>1, FS_Interval
    <3> QED BY <3>2 DEF n
  <2> HIDE DEF old
  <2>3. IsFiniteSet(old) /\ IsFiniteSet(new) /\ Cardinality(old) \in Nat /\ Cardinality(new) \in Nat
    BY <2>1, <2>2, FS_Subset, FS_CardinalityType
  <2>4. Cardinality(new \cup old) = Cardinality(new) + Cardinality(old) - Cardinality({})
    BY <2>1, <2>3, FS_Union
  <2>5. Cardinality({}) = 0
    BY FS_EmptySet
  <2>6. Cardinality(new) + Cardinality(old) = Len(scan)
    <3>1. Cardinality(new \cup old) = Len(scan)
      BY <2>1, <2>2, Zenon
    <3>2. \A a, b, c \in Nat : c = a + b - 0 => a + b = c
      OBVIOUS
    <3>3. Len(scan) = Cardinality(new) + Cardinality(old) - 0
      BY <2>4, <2>5, <3>1, Zenon
    <3> QED BY <1>1, <2>3, <3>2, <3>3, Zenon
  <2>7. Known!Cardinality(new) = Cardinality(new)
    BY <1>2
  <2> QED BY <2>1, <2>6, <2>7
<1>4. ASSUME NEW key \in Keys
      PROVE  /\ Known!Cardinality(Known!Hidden(key)) = Known!Min({Known!Count(scan, key), Known!Most(key)})
             /\ \A i \in Known!Hidden(key), j \in new : scan[j] = key => i < j
  <2> DEFINE m == Known!Most(key)  c == Seen(scan, Len(scan), key)
  <2>1. m \in Nat
    BY <1>1, MostIs
  <2>2. c \in Nat /\ Known!Count(scan, key) = c
    BY <1>1, SeenIsFinite, CountIsSeen
  <2>3. \A i \in 1 .. Len(scan) : scan[i] = key => (i \in new <=> ~(Seen(scan, i - 1, key) < m))
    BY MatchedIs DEF BaselineInv
  <2>4. Known!Hidden(key) = Fits(scan, key, m, Len(scan))
    <3>1. DOMAIN scan = 1 .. Len(scan)
      BY <1>1
    <3> HIDE DEF m
    <3> QED BY <2>3, <3>1 DEF Known!Hidden, Fits
  <2> HIDE DEF m, c
  <2>5. Cardinality(Known!Hidden(key)) = IF c <= m THEN c ELSE m
    <3>1. Len(scan) \in 0 .. Len(scan)
      BY <1>1
    <3> QED BY <1>1, <2>1, <2>4, <3>1, FitsAreCounted DEF c
  <2>6. Known!Min({c, m}) = IF c <= m THEN c ELSE m
    <3>1. Known!Min({c, m}) = Min({c, m})
      BY Zenon DEF Known!Min, Min
    <3>2. Min({c, m}) \in {c, m} /\ \A y \in {c, m} : Min({c, m}) <= y
      BY <2>1, <2>2, Least
    <3> QED BY <2>1, <2>2, <3>1, <3>2
  <2>7. ASSUME NEW i \in Known!Hidden(key), NEW j \in new, scan[j] = key PROVE i < j
    <3>1. i \in 1 .. Len(scan) /\ Seen(scan, i - 1, key) < m
      BY <2>4 DEF Fits
    <3>2. j \in 1 .. Len(scan)
      BY DEF BaselineInv
    <3>3. ~(Seen(scan, j - 1, key) < m)
      BY <2>3, <2>7, <3>2
    <3>4. i - 1 \in 0 .. Len(scan) /\ j - 1 \in 0 .. Len(scan)
      BY <1>1, <3>1, <3>2
    <3>5. Seen(scan, i - 1, key) \in Nat /\ Seen(scan, j - 1, key) \in Nat
      BY <1>1, <3>4, SeenIsFinite
    <3>6. j - 1 <= i - 1 => Seen(scan, j - 1, key) <= Seen(scan, i - 1, key)
      BY <1>1, <3>4, SeenGrows
    <3> QED BY <2>1, <3>1, <3>2, <3>3, <3>5, <3>6
  <2>8. Known!Cardinality(Known!Hidden(key)) = Known!Min({Known!Count(scan, key), Known!Most(key)})
    BY <1>2, <2>2, <2>5, <2>6 DEF m
  <2> QED BY <2>7, <2>8
<1> QED BY <1>3, <1>4 DEF Known!BaselineFindings

\* A record hides as many findings of a key as the scan that had most of them,
\* the first ones, and no finding is lost, for any number of scans of any
\* length.
THEOREM RecordsHideTheirNumber == FilesSpec => []BaselineFindings
<1>1. BaselineInv => BaselineFindings
  BY BaselineHides DEF BaselineFindings
<1> QED BY <1>1, FilesKeepBaseline, PTL

-----------------------------------------------------------------------------
(* Sorted sequences *)

Ascending(R, T, s) == \A i, j \in 1 .. Cardinality(T) : i < j => <<s[i], s[j]>> \in R
Onto(T, s)         == \A x \in T : \E i \in 1 .. Cardinality(T) : s[i] = x
Sorted(R, T, s)    == s \in [1 .. Cardinality(T) -> T] /\ Ascending(R, T, s) /\ Onto(T, s)
Orders(R, S) ==
  /\ \A x, y, z \in S : <<x, y>> \in R /\ <<y, z>> \in R => <<x, z>> \in R
  /\ \A x, y \in S : x = y \/ <<x, y>> \in R \/ <<y, x>> \in R
  /\ \A x \in S : <<x, x>> \notin R

\* A finite set that has an order has a last element, if smaller sets can be sorted.
LEMMA LastOf ==
  ASSUME NEW T, NEW R, Orders(R, T), NEW x \in T, IsFiniteSet(T \ {x}), NEW s, Sorted(R, T \ {x}, s)
  PROVE  \E m \in T : \A y \in T : y # m => <<y, m>> \in R
<1> DEFINE U == T \ {x}
           n == Cardinality(U)
<1>1. n \in Nat
  BY FS_CardinalityType
<1>2. /\ \A i \in 1 .. n : s[i] \in U /\ s[i] \in T
      /\ \A i, j \in 1 .. n : i < j => <<s[i], s[j]>> \in R
      /\ \A y \in U : \E i \in 1 .. n : s[i] = y
  BY DEF Sorted, Ascending, Onto
<1>3. /\ \A a, b, c \in T : <<a, b>> \in R /\ <<b, c>> \in R => <<a, c>> \in R
      /\ \A a, b \in T : a = b \/ <<a, b>> \in R \/ <<b, a>> \in R
  BY DEF Orders
<1> HIDE DEF n
<1>4. CASE n = 0
  <2>1. \A y \in T : y = x
    <3>1. ~\E i : i \in 1 .. 0
      OBVIOUS
    <3> QED BY <1>2, <1>4, <3>1
  <2> QED BY <2>1
<1>5. CASE n # 0
  <2>1. n \in 1 .. n /\ \A i \in 1 .. n : i = n \/ i < n
    BY <1>1, <1>5
  <2>2. CASE <<s[n], x>> \in R
    <3>1. ASSUME NEW y \in T, y # x PROVE <<y, x>> \in R
      <4>1. PICK i \in 1 .. n : s[i] = y
        BY <1>2, <3>1
      <4>2. i = n \/ <<s[i], s[n]>> \in R
        BY <1>2, <2>1
      <4> QED BY <1>2, <1>3, <2>1, <2>2, <4>1, <4>2
    <3> QED BY <3>1
  <2>3. CASE <<s[n], x>> \notin R
    <3>1. <<x, s[n]>> \in R /\ s[n] \in T
      BY <1>2, <1>3, <2>1, <2>3
    <3>2. ASSUME NEW y \in T, y # s[n] PROVE <<y, s[n]>> \in R
      <4>1. CASE y = x
        BY <3>1, <4>1
      <4>2. CASE y # x
        <5>1. PICK i \in 1 .. n : s[i] = y
          BY <1>2, <4>2
        <5> QED BY <1>2, <2>1, <3>2, <5>1
      <4> QED BY <4>1, <4>2
    <3> QED BY <3>1, <3>2
  <2> QED BY <2>2, <2>3
<1> QED BY <1>4, <1>5

\* Every finite set that has an order can be sorted: by induction over its size.
LEMMA SortedExists ==
  ASSUME NEW S, IsFiniteSet(S), NEW R, Orders(R, S)
  PROVE  \E s : Sorted(R, S, s)
<1> DEFINE Can(n) == \A T \in SUBSET S : Cardinality(T) = n => \E s : Sorted(R, T, s)
           Good   == {n \in 0 .. Cardinality(S) : Can(n)}
<1>1. Cardinality(S) \in Nat /\ \A T \in SUBSET S : IsFiniteSet(T) /\ Cardinality(T) \in Nat /\ Orders(R, T)
  <2>1. \A T \in SUBSET S : IsFiniteSet(T) /\ Cardinality(T) \in Nat
    BY FS_Subset, FS_CardinalityType
  <2>2. ASSUME NEW T \in SUBSET S PROVE Orders(R, T)
    BY DEF Orders
  <2> QED BY <2>1, <2>2, FS_CardinalityType
<1>2. 0 \in Good
  <2> SUFFICES ASSUME NEW T \in SUBSET S, Cardinality(T) = 0 PROVE \E s : Sorted(R, T, s)
    BY <1>1
  <2>1. T = {}
    BY <1>1, FS_EmptySet
  <2> DEFINE s == [i \in 1 .. 0 |-> i]
  <2>2. s \in [1 .. 0 -> T]
    OBVIOUS
  <2>3. Sorted(R, T, s)
    BY <2>1, <2>2 DEF Sorted, Ascending, Onto
  <2> QED BY <2>3
<1>3. ASSUME NEW n \in Good, n < Cardinality(S) PROVE n + 1 \in Good
  <2>1. n \in Nat /\ n + 1 \in 0 .. Cardinality(S) /\ n + 1 # 0 /\ Can(n)
    BY <1>1, <1>3
  <2> HIDE DEF Can
  <2>2. ASSUME NEW T \in SUBSET S, Cardinality(T) = n + 1 PROVE \E s : Sorted(R, T, s)
    <3>1. PICK x \in T : TRUE
      BY <2>1, <2>2, FS_EmptySet
    <3>2. ASSUME NEW y \in T
          PROVE  IsFiniteSet(T \ {y}) /\ Cardinality(T \ {y}) = n /\ \E s : Sorted(R, T \ {y}, s)
      <4>1. Cardinality(T \ {y}) = n
        <5>1. IsFiniteSet(T)
          BY <1>1
        <5>2. Cardinality(T \ {y}) = Cardinality(T) - 1
          BY <5>1, FS_RemoveElement
        <5> QED BY <2>1, <2>2, <5>2
      <4>2. T \ {y} \in SUBSET S
        OBVIOUS
      <4> QED BY <1>1, <2>1, <4>1, <4>2 DEF Can
    <3>3. PICK m \in T : \A y \in T : y # m => <<y, m>> \in R
      <4>1. PICK r : Sorted(R, T \ {x}, r)
        BY <3>2
      <4> QED BY <1>1, <3>2, <4>1, LastOf
    <3>4. PICK r : Sorted(R, T \ {m}, r)
      BY <3>2
    <3>5. /\ r \in [1 .. n -> T \ {m}]
          /\ \A i, j \in 1 .. n : i < j => <<r[i], r[j]>> \in R
          /\ \A y \in T \ {m} : \E i \in 1 .. n : r[i] = y
      BY <3>2, <3>4 DEF Sorted, Ascending, Onto
    <3> DEFINE s == [i \in 1 .. (n + 1) |-> IF i = n + 1 THEN m ELSE r[i]]
    <3>6. \A i \in 1 .. (n + 1) : i = n + 1 \/ i \in 1 .. n
      BY <2>1
    <3>7. s \in [1 .. (n + 1) -> T]
      BY <3>5, <3>6
    <3>8. /\ s[n + 1] = m /\ n + 1 \in 1 .. (n + 1)
          /\ \A i \in 1 .. n : s[i] = r[i] /\ i \in 1 .. (n + 1) /\ i # n + 1
      BY <2>1
    <3> HIDE DEF s
    <3>9. ASSUME NEW i \in 1 .. (n + 1), NEW j \in 1 .. (n + 1), i < j PROVE <<s[i], s[j]>> \in R
      <4>1. i \in 1 .. n
        BY <2>1, <3>9
      <4>2. CASE j = n + 1
        <5>1. r[i] \in T /\ r[i] # m
          BY <3>5, <4>1
        <5> QED BY <3>3, <3>8, <4>1, <4>2, <5>1
      <4>3. CASE j # n + 1
        <5>1. j \in 1 .. n
          BY <3>6, <4>3
        <5> QED BY <3>5, <3>8, <3>9, <4>1, <5>1
      <4> QED BY <4>2, <4>3
    <3>10. ASSUME NEW y \in T PROVE \E i \in 1 .. (n + 1) : s[i] = y
      BY <3>5, <3>8
    <3>11. Sorted(R, T, s)
      BY <2>2, <3>7, <3>9, <3>10 DEF Sorted, Ascending, Onto
    <3> QED BY <3>11
  <2> QED BY <2>1, <2>2 DEF Can
<1>4. Cardinality(S) \in Good
  <2>1. Good \in SUBSET (0 .. Cardinality(S)) /\ Cardinality(S) \in 0 .. Cardinality(S)
    BY <1>1
  <2> HIDE DEF Good
  <2> QED BY <1>1, <1>2, <1>3, <2>1, Throughout
<1>5. S \in SUBSET S /\ Can(Cardinality(S))
  BY <1>4
<1> QED BY <1>5

\* What ascends and is as long as the set has it all.
LEMMA AscendingIsOnto ==
  ASSUME NEW T, IsFiniteSet(T), NEW R, \A x \in T : <<x, x>> \notin R,
         NEW s \in [1 .. Cardinality(T) -> T], Ascending(R, T, s)
  PROVE  Sorted(R, T, s)
<1> DEFINE n == Cardinality(T)
<1>1. n \in Nat /\ IsFiniteSet(1 .. n) /\ Cardinality(1 .. n) = n
  <2>1. n \in Nat
    BY FS_CardinalityType
  <2>2. Cardinality(1 .. n) = n /\ IsFiniteSet(1 .. n)
    <3> HIDE DEF n
    <3>1. 0 <= n /\ n - 1 + 1 = n
      BY <2>1
    <3>2. Cardinality(1 .. n) = IF 1 > n THEN 0 ELSE n - 1 + 1
      BY <2>1, FS_Interval
    <3>3. IsFiniteSet(1 .. n)
      BY <2>1, FS_Interval
    <3> QED BY <2>1, <3>1, <3>2, <3>3
  <2> QED BY <2>1, <2>2
<1>2. ASSUME NEW i \in 1 .. n, NEW j \in 1 .. n, i # j PROVE s[i] # s[j]
  <2>1. i < j \/ j < i
    BY <1>1, <1>2
  <2>2. <<s[i], s[j]>> \in R \/ <<s[j], s[i]>> \in R
    BY <2>1 DEF Ascending
  <2> QED BY <2>2
<1>3. s \in Injection(1 .. n, T)
  BY <1>2 DEF Injection, IsInjective
<1>4. s \in Surjection(1 .. n, T)
  BY <1>1, <1>3, FS_Injection
<1> QED BY <1>4 DEF Sorted, Onto, Surjection

\* There is one way to sort a set.
LEMMA SortedIsUnique ==
  ASSUME NEW T, IsFiniteSet(T), NEW R, Orders(R, T), NEW s, NEW r, Sorted(R, T, s), Sorted(R, T, r)
  PROVE  s = r
<1> DEFINE n   == Cardinality(T)
           Bad == {i \in 1 .. n : s[i] # r[i]}
<1>1. n \in Nat /\ s \in [1 .. n -> T] /\ r \in [1 .. n -> T]
  BY FS_CardinalityType DEF Sorted
<1>2. /\ \A i, j \in 1 .. n : i < j => <<s[i], s[j]>> \in R /\ <<r[i], r[j]>> \in R
      /\ \A x \in T : (\E i \in 1 .. n : s[i] = x) /\ (\E i \in 1 .. n : r[i] = x)
  BY DEF Sorted, Ascending, Onto
<1>3. /\ \A x, y \in T : ~(<<x, y>> \in R /\ <<y, x>> \in R)
      /\ \A x \in T : <<x, x>> \notin R
  BY DEF Orders
<1> HIDE DEF n
<1>4. ASSUME Bad # {} PROVE FALSE
  <2>1. PICK i \in Bad : \A j \in Bad : i <= j
    <3>1. Bad \subseteq Nat
      BY <1>1
    <3> HIDE DEF Bad
    <3> QED BY <1>4, <3>1, Least
  <2>2. i \in 1 .. n /\ s[i] # r[i] /\ s[i] \in T /\ r[i] \in T
    BY <1>1
  <2>3. \A j \in 1 .. n : j < i => s[j] = r[j]
    <3>1. ASSUME NEW j \in 1 .. n, j < i, s[j] # r[j] PROVE FALSE
      <4>1. j \in Bad /\ ~(i <= j)
        BY <1>1, <2>2, <3>1
      <4> HIDE DEF Bad
      <4> QED BY <2>1, <4>1
    <3> QED BY <3>1
  <2>4. PICK j \in 1 .. n : r[j] = s[i]
    BY <1>2, <2>2
  <2>5. PICK k \in 1 .. n : s[k] = r[i]
    BY <1>2, <2>2
  <2>6. i < j
    <3>1. j < i => <<s[j], s[i]>> \in R /\ s[j] = s[i]
      BY <1>2, <2>2, <2>3, <2>4
    <3>2. ~(j < i) /\ j # i
      BY <1>3, <2>2, <2>4, <3>1
    <3> QED BY <1>1, <2>2, <2>4, <3>2
  <2>7. i < k
    <3>1. k < i => <<r[k], r[i]>> \in R /\ r[k] = r[i]
      BY <1>2, <2>2, <2>3, <2>5
    <3>2. ~(k < i) /\ k # i
      BY <1>3, <2>2, <2>5, <3>1
    <3> QED BY <1>1, <2>2, <2>5, <3>2
  <2>8. <<r[i], s[i]>> \in R /\ <<s[i], r[i]>> \in R
    BY <1>2, <2>2, <2>4, <2>5, <2>6, <2>7
  <2> QED BY <1>3, <2>2, <2>8
<1>5. \A i \in 1 .. n : s[i] = r[i]
  BY <1>4
<1> QED BY <1>1, <1>5

-----------------------------------------------------------------------------
(* symbol-key-collision *)

\* Numbers are in order.
LEMMA BelowOrders == ASSUME NEW T \in SUBSET Nat PROVE Orders(Below, T)
<1>1. \A x, y \in Nat : <<x, y>> \in Below <=> x < y
  BY DEF Below
<1>2. /\ \A x, y, z \in T : x < y /\ y < z => x < z
      /\ \A x, y \in T : x = y \/ x < y \/ y < x
      /\ \A x \in T : ~(x < x)
  <2>1. \A x, y, z \in Nat : x < y /\ y < z => x < z
    OBVIOUS
  <2>2. \A x, y \in Nat : x = y \/ x < y \/ y < x
    OBVIOUS
  <2>3. \A x \in Nat : ~(x < x)
    OBVIOUS
  <2> QED BY <2>1, <2>2, <2>3
<1>3. \A x \in T : x \in Nat
  OBVIOUS
<1> QED BY <1>1, <1>2, <1>3 DEF Orders

LEMMA CollisionCounts ==
  /\ \A T : Collision!Cardinality(T) = Cardinality(T)
  /\ \A T : Collision!Min(T) = Min(T)
<1>1. \A T : Collision!Cardinality(T) = Cardinality(T)
  BY Zenon DEF Collision!Cardinality, Cardinality
<1>2. \A T : Collision!Min(T) = Min(T)
  BY Zenon DEF Collision!Min, Min
<1> QED BY <1>1, <1>2

\* A set of positions in order.
LEMMA InOrderIs ==
  ASSUME NEW T \in SUBSET Nat, IsFiniteSet(T)
  PROVE  Sorted(Below, T, Collision!InOrder(T))
<1> DEFINE n == Cardinality(T)
           Rises(s) == \A i, j \in DOMAIN s : i < j => s[i] < s[j]
<1>1. Collision!InOrder(T) = CHOOSE s \in [1 .. n -> T] : Rises(s)
  BY CollisionCounts, Zenon DEF Collision!InOrder
<1>2. Orders(Below, T)
  BY BelowOrders
<1>3. PICK r : Sorted(Below, T, r)
  BY <1>2, SortedExists
<1>4. \A s \in [1 .. n -> T] : Rises(s) <=> Ascending(Below, T, s)
  <2>1. \A x, y \in T : <<x, y>> \in Below <=> x < y
    BY DEF Below
  <2> QED BY <2>1 DEF Ascending
<1>5. r \in [1 .. n -> T] /\ Rises(r)
  BY <1>3, <1>4 DEF Sorted
<1> HIDE DEF Rises
<1>6. Collision!InOrder(T) \in [1 .. n -> T] /\ Rises(Collision!InOrder(T))
  BY <1>1, <1>5, Zenon
<1>7. \A x \in T : <<x, x>> \notin Below
  BY <1>2 DEF Orders
<1> QED BY <1>4, <1>6, <1>7, AscendingIsOnto

\* The keys there were to report, and what belongs to one.
Slots == {Collision!Slot(uses[i]) : i \in DOMAIN uses}
Later(slot) == Collision!Distinct(slot) \ {Min(Collision!Distinct(slot))}

\* The first use of a key in its group, and of each source of it.
LEMMA DistinctIs ==
  ASSUME uses \in Seq(Collision!Uses), NEW slot \in Slots
  PROVE  LET D == Collision!Distinct(slot) IN
           /\ D \in SUBSET (1 .. Len(uses)) /\ IsFiniteSet(D)
           /\ Min(D) \in D /\ \A d \in D : Min(D) <= d
           /\ \A d \in D : Collision!Slot(uses[d]) = slot
           /\ \A d, e \in D : Collision!Source(uses[d]) = Collision!Source(uses[e]) => d = e
           /\ \A i \in DOMAIN uses : Collision!Slot(uses[i]) = slot =>
                \E d \in D : Collision!Source(uses[d]) = Collision!Source(uses[i])
<1> DEFINE D == Collision!Distinct(slot)
<1>1. DOMAIN uses = 1 .. Len(uses) /\ Len(uses) \in Nat
  OBVIOUS
<1>2. \A i : i \in Collision!Occurrences(slot) <=> i \in 1 .. Len(uses) /\ Collision!Slot(uses[i]) = slot
  BY <1>1, Zenon DEF Collision!Occurrences
<1>3. \A i : i \in D <=> /\ i \in Collision!Occurrences(slot)
                         /\ ~\E j \in Collision!Occurrences(slot) :
                               j < i /\ Collision!Source(uses[j]) = Collision!Source(uses[i])
  BY Zenon DEF Collision!Distinct
<1> HIDE DEF D
<1>4. D \in SUBSET (1 .. Len(uses)) /\ IsFiniteSet(D) /\ \A d \in D : Collision!Slot(uses[d]) = slot
  <2>1. D \in SUBSET (1 .. Len(uses)) /\ \A d \in D : Collision!Slot(uses[d]) = slot
    BY <1>2, <1>3
  <2>2. IsFiniteSet(1 .. Len(uses))
    BY <1>1, FS_Interval
  <2> QED BY <2>1, <2>2, FS_Subset
<1>5. ASSUME NEW i \in 1 .. Len(uses), Collision!Slot(uses[i]) = slot
      PROVE  \E d \in D : Collision!Source(uses[d]) = Collision!Source(uses[i])
  <2> DEFINE Same == {j \in Collision!Occurrences(slot) : Collision!Source(uses[j]) = Collision!Source(uses[i])}
  <2>1. i \in Same /\ Same \subseteq Nat
    <3>1. \A j \in Collision!Occurrences(slot) : j \in Nat
      BY <1>2
    <3>2. i \in Collision!Occurrences(slot)
      BY <1>2, <1>5
    <3> QED BY <3>1, <3>2
  <2>2. PICK d \in Same : \A j \in Same : d <= j
    <3> HIDE DEF Same
    <3> QED BY <2>1, Least
  <2>3. \A j \in Same : ~(j < d)
    <3> HIDE DEF Same
    <3>1. \A j \in Same : j \in Nat /\ d \in Nat
      BY <2>1
    <3> QED BY <2>2, <3>1
  <2>4. d \in D
    BY <1>3, <2>3
  <2> QED BY <2>4
<1>6. \A d, e \in D : Collision!Source(uses[d]) = Collision!Source(uses[e]) => d = e
  <2> SUFFICES ASSUME NEW d \in D, NEW e \in D, Collision!Source(uses[d]) = Collision!Source(uses[e])
               PROVE  d = e
    OBVIOUS
  <2>1. ~(d < e) /\ ~(e < d)
    BY <1>3
  <2>2. d \in 1 .. Len(uses) /\ e \in 1 .. Len(uses)
    BY <1>4
  <2> QED BY <2>1, <2>2
<1>7. D # {}
  <2>1. PICK i \in DOMAIN uses : Collision!Slot(uses[i]) = slot
    BY DEF Slots
  <2> QED BY <1>1, <1>5, <2>1
<1>8. Min(D) \in D /\ \A d \in D : Min(D) <= d
  <2>1. D \subseteq Nat
    BY <1>4
  <2> QED BY <1>7, <2>1, Least
<1> QED BY <1>1, <1>4, <1>5, <1>6, <1>8 DEF D

\* Before the visitors are through nothing is reported; then, what was reported
\* is all there is of some keys, in order key by key.
CollisionInv ==
  /\ uses \in Seq(Collision!Uses) /\ visited \in BOOLEAN
  /\ \A k \in 1 .. Len(uses) : ~uses[k].fresh => k > 1 /\ uses[k].fn = uses[k - 1].fn
  /\ filed \subseteq Slots
  /\ ~visited => filed = Slots /\ emitted = <<>>
  /\ emitted \in Seq(1 .. Len(uses))
  /\ \A a \in DOMAIN emitted : \E slot \in Slots \ filed : emitted[a] \in Later(slot)
  /\ \A slot \in Slots \ filed : \A i \in Later(slot) : \E a \in DOMAIN emitted : emitted[a] = i
  /\ \A a, b \in DOMAIN emitted :
       a < b /\ Collision!Slot(uses[emitted[a]]) = Collision!Slot(uses[emitted[b]]) => emitted[a] < emitted[b]

LEMMA CollisionStarts == ASSUME Collision!Init PROVE CollisionInv
<1>1. uses = <<>> /\ visited = FALSE /\ filed = {} /\ emitted = <<>>
  BY DEF Collision!Init
<1>2. Slots = {} /\ Len(uses) = 0
  BY <1>1 DEF Slots
<1>3. uses \in Seq(Collision!Uses) /\ emitted \in Seq(1 .. Len(uses)) /\ DOMAIN emitted = {}
  BY <1>1
<1>4. ~\E k : k \in 1 .. 0
  OBVIOUS
<1> QED BY <1>1, <1>2, <1>3, <1>4 DEF CollisionInv

LEMMA VisitKeeps == ASSUME CollisionInv, NEW u \in Collision!Uses, Collision!Visit(u) PROVE CollisionInv'
<1>1. /\ ~visited /\ visited' = visited /\ emitted' = emitted /\ uses' = Append(uses, u)
      /\ filed' = filed \cup {Collision!Slot(u)}
      /\ ~u.fresh => uses # <<>> /\ u.fn = Collision!Last(uses).fn
  BY DEF Collision!Visit
<1>2. /\ uses \in Seq(Collision!Uses) /\ visited = FALSE /\ filed = Slots /\ emitted = <<>>
      /\ \A k \in 1 .. Len(uses) : ~uses[k].fresh => k > 1 /\ uses[k].fn = uses[k - 1].fn
  BY <1>1 DEF CollisionInv
<1>3. /\ uses' \in Seq(Collision!Uses) /\ Len(uses') = Len(uses) + 1 /\ Len(uses) \in Nat
      /\ uses'[Len(uses) + 1] = u /\ \A k \in 1 .. Len(uses) : uses'[k] = uses[k]
  BY <1>1, <1>2, AppendProperties
<1>4. Slots' = Slots \cup {Collision!Slot(u)}
  <2>1. DOMAIN uses = 1 .. Len(uses) /\ DOMAIN uses' = 1 .. Len(uses')
    BY <1>2, <1>3
  <2>2. \A k : k \in 1 .. Len(uses') <=> k \in 1 .. Len(uses) \/ k = Len(uses) + 1
    BY <1>3
  <2>3. Slots' = {Collision!Slot(uses'[k]) : k \in DOMAIN uses'}
    BY DEF Slots, Collision!Slot, Collision!Group, Collision!Contract
  <2> QED BY <1>3, <2>1, <2>2, <2>3 DEF Slots
<1>5. ASSUME NEW k \in 1 .. Len(uses'), ~uses'[k].fresh PROVE k > 1 /\ uses'[k].fn = uses'[k - 1].fn
  <2>1. CASE k \in 1 .. Len(uses)
    <3>1. k > 1 /\ uses[k].fn = uses[k - 1].fn /\ k - 1 \in 1 .. Len(uses)
      BY <1>2, <1>3, <1>5, <2>1
    <3> QED BY <1>3, <2>1, <3>1
  <2>2. CASE k = Len(uses) + 1
    <3>1. uses # <<>> /\ u.fn = uses[Len(uses)].fn
      BY <1>1, <1>3, <1>5, <2>2 DEF Collision!Last
    <3>2. Len(uses) # 0
      BY <1>2, <3>1
    <3>3. k > 1 /\ k - 1 = Len(uses) /\ k - 1 \in 1 .. Len(uses)
      BY <1>3, <2>2, <3>2
    <3> QED BY <1>3, <2>2, <3>1, <3>3
  <2> QED BY <1>3, <2>1, <2>2
<1>6. filed' = Slots' /\ emitted' = <<>> /\ visited' = FALSE
  BY <1>1, <1>2, <1>4
<1>7. emitted' \in Seq(1 .. Len(uses')) /\ DOMAIN emitted' = {} /\ Slots' \ filed' = {}
  BY <1>6
<1> QED BY <1>3, <1>5, <1>6, <1>7 DEF CollisionInv

LEMMA VisitedKeeps == ASSUME CollisionInv, Collision!Visited PROVE CollisionInv'
<1>1. visited' = TRUE /\ UNCHANGED <<uses, filed, emitted>>
  BY DEF Collision!Visited
<1>2. Slots' = Slots /\ (\A slot : Later(slot)' = Later(slot)) /\ \A i : Collision!Slot(uses[i])' = Collision!Slot(uses[i])
  BY <1>1 DEF Slots, Later, Collision!Slot, Collision!Group, Collision!Contract, Collision!Distinct,
              Collision!Occurrences, Collision!Source
<1> QED BY <1>1, <1>2 DEF CollisionInv

\* Two sequences, one after the other.
LEMMA Joined ==
  ASSUME NEW S, NEW e \in Seq(S), NEW s \in Seq(S)
  PROVE  /\ e \o s \in Seq(S) /\ Len(e \o s) = Len(e) + Len(s) /\ Len(e) \in Nat
         /\ \A a \in 1 .. Len(e) : (e \o s)[a] = e[a]
         /\ \A k \in 1 .. Len(s) : (e \o s)[Len(e) + k] = s[k]
<1>1. e \o s \in Seq(S) /\ Len(e \o s) = Len(e) + Len(s) /\ Len(e) \in Nat /\ Len(s) \in Nat
  BY ConcatProperties
<1>2. \A a \in 1 .. (Len(e) + Len(s)) : (e \o s)[a] = IF a <= Len(e) THEN e[a] ELSE s[a - Len(e)]
  BY ConcatProperties
<1>3. \A a \in 1 .. Len(e) : a \in 1 .. (Len(e) + Len(s)) /\ a <= Len(e)
  BY <1>1
<1>4. \A k \in 1 .. Len(s) :
        Len(e) + k \in 1 .. (Len(e) + Len(s)) /\ ~(Len(e) + k <= Len(e)) /\ Len(e) + k - Len(e) = k
  BY <1>1
<1>5. ASSUME NEW k \in 1 .. Len(s) PROVE (e \o s)[Len(e) + k] = s[k]
  <2>1. (e \o s)[Len(e) + k] = s[Len(e) + k - Len(e)]
    BY <1>2, <1>4
  <2> QED BY <1>4, <2>1
<1> QED BY <1>1, <1>2, <1>3, <1>5

LEMMA EmitKeeps ==
  ASSUME CollisionInv, NEW slot \in filed, Collision!Emit(slot)
  PROVE  CollisionInv'
<1> DEFINE s == Collision!InOrder(Later(slot))
           n == Cardinality(Later(slot))
           m == Len(emitted)
<1>1. /\ visited /\ filed' = filed \ {slot} /\ UNCHANGED <<uses, visited>>
      /\ emitted' = emitted \o s
  BY CollisionCounts, Zenon DEF Collision!Emit, Later
<1>2. /\ uses \in Seq(Collision!Uses) /\ filed \subseteq Slots /\ slot \in Slots
      /\ emitted \in Seq(1 .. Len(uses))
      /\ \A a \in DOMAIN emitted : \E o \in Slots \ filed : emitted[a] \in Later(o)
      /\ \A o \in Slots \ filed : \A i \in Later(o) : \E a \in DOMAIN emitted : emitted[a] = i
      /\ \A a, b \in DOMAIN emitted :
           a < b /\ Collision!Slot(uses[emitted[a]]) = Collision!Slot(uses[emitted[b]]) => emitted[a] < emitted[b]
  BY Zenon DEF CollisionInv
<1>3. /\ \A o \in Slots : Later(o) \in SUBSET (1 .. Len(uses)) /\ IsFiniteSet(Later(o))
      /\ \A o \in Slots : \A i \in Later(o) : Collision!Slot(uses[i]) = o
  <2>1. ASSUME NEW o \in Slots
        PROVE  /\ Later(o) \in SUBSET (1 .. Len(uses)) /\ IsFiniteSet(Later(o))
               /\ \A i \in Later(o) : Collision!Slot(uses[i]) = o
    <3>1. /\ Collision!Distinct(o) \in SUBSET (1 .. Len(uses)) /\ IsFiniteSet(Collision!Distinct(o))
          /\ \A d \in Collision!Distinct(o) : Collision!Slot(uses[d]) = o
      BY <1>2, DistinctIs
    <3>2. Later(o) \in SUBSET Collision!Distinct(o)
      BY DEF Later
    <3> QED BY <3>1, <3>2, FS_Subset
  <2> QED BY <2>1
<1>4. Sorted(Below, Later(slot), s)
  <2>1. Later(slot) \in SUBSET Nat
    <3>1. Later(slot) \in SUBSET (1 .. Len(uses)) /\ 1 .. Len(uses) \in SUBSET Nat
      BY <1>2, <1>3
    <3> QED BY <3>1
  <2> QED BY <1>2, <1>3, <2>1, InOrderIs
<1> HIDE DEF s
<1>5. /\ s \in [1 .. n -> Later(slot)] /\ n \in Nat
      /\ \A i, j \in 1 .. n : i < j => s[i] < s[j]
      /\ \A i \in Later(slot) : \E k \in 1 .. n : s[k] = i
  <2>1. n \in Nat
    BY <1>2, <1>3, FS_CardinalityType
  <2>2. \A x, y : <<x, y>> \in Below => x < y
    BY DEF Below
  <2> QED BY <1>4, <2>1, <2>2 DEF Sorted, Ascending, Onto
<1> HIDE DEF n
<1>6. s \in Seq(1 .. Len(uses)) /\ Len(s) = n
  <2>1. \A k \in 1 .. n : s[k] \in 1 .. Len(uses)
    BY <1>2, <1>3, <1>5
  <2>2. s \in [1 .. n -> 1 .. Len(uses)]
    BY <1>5, <2>1
  <2> QED BY <1>5, <2>2
<1>7. /\ emitted' \in Seq(1 .. Len(uses)) /\ Len(emitted') = m + n /\ m \in Nat
      /\ \A a \in 1 .. m : emitted'[a] = emitted[a]
      /\ \A k \in 1 .. n : emitted'[m + k] = s[k]
  BY <1>1, <1>2, <1>6, Joined
<1>8. /\ DOMAIN emitted = 1 .. m /\ DOMAIN emitted' = 1 .. (m + n)
      /\ \A a \in 1 .. (m + n) : a \in 1 .. m \/ \E k \in 1 .. n : a = m + k
      /\ \A a \in 1 .. m : a \in 1 .. (m + n)
      /\ \A k \in 1 .. n : m + k \in 1 .. (m + n)
  <2>1. DOMAIN emitted = 1 .. m /\ DOMAIN emitted' = 1 .. (m + n)
    BY <1>2, <1>7
  <2>2. ASSUME NEW a \in 1 .. (m + n), a \notin 1 .. m PROVE \E k \in 1 .. n : a = m + k
    <3>1. a - m \in 1 .. n /\ a = m + (a - m)
      BY <1>5, <1>7, <2>2
    <3> QED BY <3>1
  <2>3. /\ \A a \in 1 .. m : a \in 1 .. (m + n)
        /\ \A k \in 1 .. n : m + k \in 1 .. (m + n)
    BY <1>5, <1>7
  <2> QED BY <2>1, <2>2, <2>3
<1> HIDE DEF m
<1>9. ASSUME NEW a \in DOMAIN emitted' PROVE \E o \in Slots \ filed' : emitted'[a] \in Later(o)
  <2>1. CASE a \in 1 .. m
    <3>1. PICK o \in Slots \ filed : emitted[a] \in Later(o)
      BY <1>2, <1>8, <2>1
    <3> QED BY <1>1, <1>7, <2>1, <3>1
  <2>2. CASE \E k \in 1 .. n : a = m + k
    <3>1. emitted'[a] \in Later(slot) /\ slot \in Slots \ filed'
      BY <1>1, <1>2, <1>5, <1>7, <2>2
    <3> QED BY <3>1
  <2> QED BY <1>8, <2>1, <2>2
<1>10. ASSUME NEW o \in Slots \ filed', NEW i \in Later(o) PROVE \E a \in DOMAIN emitted' : emitted'[a] = i
  <2>1. CASE o = slot
    <3>1. PICK k \in 1 .. n : s[k] = i
      BY <1>5, <2>1
    <3> QED BY <1>7, <1>8, <3>1
  <2>2. CASE o # slot
    <3>1. o \in Slots \ filed
      BY <1>1, <2>2
    <3>2. PICK a \in DOMAIN emitted : emitted[a] = i
      BY <1>2, <3>1
    <3> QED BY <1>7, <1>8, <3>2
  <2> QED BY <2>1, <2>2
<1>11. ASSUME NEW a \in DOMAIN emitted', NEW b \in DOMAIN emitted', a < b,
              Collision!Slot(uses[emitted'[a]]) = Collision!Slot(uses[emitted'[b]])
       PROVE  emitted'[a] < emitted'[b]
  <2>1. ASSUME NEW c \in 1 .. m PROVE Collision!Slot(uses[emitted[c]]) # slot
    <3>1. PICK o \in Slots \ filed : emitted[c] \in Later(o)
      BY <1>2, <1>8
    <3> QED BY <1>3, <3>1
  <2>2. \A k \in 1 .. n : Collision!Slot(uses[s[k]]) = slot
    BY <1>2, <1>3, <1>5
  <2>3. CASE a \in 1 .. m /\ b \in 1 .. m
    BY <1>2, <1>7, <1>8, <1>11, <2>3
  <2>4. CASE a \in 1 .. m /\ b \notin 1 .. m
    BY <1>7, <1>8, <1>11, <2>1, <2>2, <2>4
  <2>5. CASE a \notin 1 .. m /\ b \in 1 .. m
    BY <1>7, <1>8, <1>11, <2>1, <2>2, <2>5
  <2>6. CASE a \notin 1 .. m /\ b \notin 1 .. m
    <3>1. PICK j \in 1 .. n : a = m + j
      BY <1>8, <2>6
    <3>2. PICK k \in 1 .. n : b = m + k
      BY <1>8, <2>6
    <3>3. j < k
      BY <1>5, <1>7, <1>11, <3>1, <3>2
    <3> QED BY <1>5, <1>7, <3>1, <3>2, <3>3
  <2> QED BY <2>3, <2>4, <2>5, <2>6
<1>12. Slots' = Slots /\ (\A o : Later(o)' = Later(o)) /\ \A i : Collision!Slot(uses[i])' = Collision!Slot(uses[i])
  BY <1>1 DEF Slots, Later, Collision!Slot, Collision!Group, Collision!Contract, Collision!Distinct,
              Collision!Occurrences, Collision!Source
<1>13. /\ uses' = uses /\ visited' = TRUE /\ filed' \subseteq Slots
       /\ visited \in BOOLEAN /\ \A k \in 1 .. Len(uses) : ~uses[k].fresh => k > 1 /\ uses[k].fn = uses[k - 1].fn
  BY <1>1, <1>2 DEF CollisionInv
<1>14. /\ \A a \in DOMAIN emitted' : \E o \in Slots' \ filed' : emitted'[a] \in Later(o)'
       /\ \A o \in Slots' \ filed' : \A i \in Later(o)' : \E a \in DOMAIN emitted' : emitted'[a] = i
       /\ \A a, b \in DOMAIN emitted' :
            a < b /\ Collision!Slot(uses'[emitted'[a]]) = Collision!Slot(uses'[emitted'[b]]) => emitted'[a] < emitted'[b]
  BY <1>9, <1>10, <1>11, <1>12, <1>13
<1>15. \A o : Later(o)' = Later(o)
  BY <1>12
<1> QED BY <1>2, <1>7, <1>12, <1>13, <1>14, Zenon DEF CollisionInv, Collision!Slot, Collision!Group, Collision!Contract

LEMMA FilesKeepCollision == FilesSpec => []CollisionInv
<1>1. FilesInit => CollisionInv
  BY CollisionStarts DEF FilesInit
<1>2. CollisionInv /\ [FilesNext]_files_vars => CollisionInv'
  <2> SUFFICES ASSUME CollisionInv, [FilesNext]_files_vars PROVE CollisionInv'
    OBVIOUS
  <2>1. CASE CollisionStep
    <3>1. Collision!Visited \/ (\E u \in Collision!Uses : Collision!Visit(u)) \/ (\E slot \in filed : Collision!Emit(slot))
      BY <2>1 DEF CollisionStep, Collision!Next
    <3> QED BY <3>1, VisitedKeeps, VisitKeeps, EmitKeeps
  <2>2. CASE UNCHANGED collision_vars
    <3>1. UNCHANGED <<uses, visited, filed, emitted>>
      BY <2>2 DEF collision_vars
    <3>2. Slots' = Slots /\ (\A o : Later(o)' = Later(o)) /\ \A i : Collision!Slot(uses[i])' = Collision!Slot(uses[i])
      BY <3>1 DEF Slots, Later, Collision!Slot, Collision!Group, Collision!Contract, Collision!Distinct,
                  Collision!Occurrences, Collision!Source
    <3> QED BY <3>1, <3>2 DEF CollisionInv
  <2>3. CollisionStep \/ UNCHANGED collision_vars
    BY DEF FilesNext, files_vars, ReportStep, ConfigStep, FileStep, AnswerStep, BaselineStep
  <2> QED BY <2>1, <2>2, <2>3
<1> QED BY <1>1, <1>2, PTL DEF FilesSpec

\* The lines of the uses: they do not descend, and a function has its own.
LEMMA UsesHaveLines ==
  ASSUME CollisionInv, NEW i \in 1 .. Len(uses), NEW j \in 1 .. Len(uses), i <= j
  PROVE  /\ Collision!LineOf(i) \in Nat /\ Collision!LineOf(i) <= Collision!LineOf(j)
         /\ Collision!LineOf(i) = Collision!LineOf(j) => Collision!Group(uses[i]) = Collision!Group(uses[j])
<1> DEFINE New(k) == {l \in 1 .. k : uses[l].fresh}
<1>1. /\ uses \in Seq(Collision!Uses) /\ Len(uses) \in Nat
      /\ \A k \in 1 .. Len(uses) : ~uses[k].fresh => k > 1 /\ uses[k].fn = uses[k - 1].fn
  BY DEF CollisionInv
<1>2. \A k : Collision!LineOf(k) = Cardinality(New(k))
  BY CollisionCounts, Zenon DEF Collision!LineOf, Collision!Quantify
<1>3. \A k \in 1 .. Len(uses) : IsFiniteSet(New(k)) /\ Cardinality(New(k)) \in Nat
  <2>1. \A k \in 1 .. Len(uses) : IsFiniteSet(1 .. k)
    BY FS_Interval
  <2>2. \A k : New(k) \in SUBSET (1 .. k)
    OBVIOUS
  <2> QED BY <2>1, <2>2, FS_Subset, FS_CardinalityType
<1>4. New(i) \in SUBSET New(j)
  OBVIOUS
<1>5. /\ Cardinality(New(i)) <= Cardinality(New(j))
      /\ Cardinality(New(i)) = Cardinality(New(j)) => New(i) = New(j)
  BY <1>3, <1>4, FS_Subset
<1>6. ASSUME New(i) = New(j) PROVE uses[i].fn = uses[j].fn
  <2> DEFINE Good == {k \in i .. j : uses[k].fn = uses[i].fn}
  <2>1. i \in Nat /\ j \in Nat /\ Good \in SUBSET (i .. j) /\ i \in Good /\ j \in i .. j
    OBVIOUS
  <2>2. ASSUME NEW k \in Good, k < j PROVE k + 1 \in Good
    <3>1. k + 1 \in i .. j /\ k + 1 \in 1 .. j /\ k + 1 \in 1 .. Len(uses) /\ k + 1 - 1 = k /\ k + 1 \notin 1 .. i
      BY <2>2
    <3>2. ~uses[k + 1].fresh
      BY <1>6, <3>1
    <3>3. uses[k + 1].fn = uses[k].fn
      BY <1>1, <3>1, <3>2
    <3> QED BY <3>1, <3>3
  <2>3. j \in Good
    <3> HIDE DEF Good
    <3> QED BY <2>1, <2>2, Throughout
  <2> QED BY <2>3
<1> HIDE DEF New
<1>7. uses[i].fn = uses[j].fn => Collision!Group(uses[i]) = Collision!Group(uses[j])
  BY DEF Collision!Group, Collision!Contract
<1> QED BY <1>2, <1>3, <1>5, <1>6, <1>7

\* What was reported, as positions without duplicates.
LEMMA EmittedIs ==
  ASSUME CollisionInv
  PROVE  LET T == Collision!ToSet(emitted) m == Len(emitted) IN
           /\ m \in Nat /\ DOMAIN emitted = 1 .. m /\ emitted \in [1 .. m -> T]
           /\ \A i : i \in T <=> \E a \in 1 .. m : emitted[a] = i
           /\ T \in SUBSET (1 .. Len(uses)) /\ T \in SUBSET Nat /\ IsFiniteSet(T) /\ Cardinality(T) = m
           /\ IsFiniteSet(1 .. m) /\ Cardinality(1 .. m) = m
<1> DEFINE T == Collision!ToSet(emitted)
           m == Len(emitted)
<1>1. /\ emitted \in Seq(1 .. Len(uses)) /\ uses \in Seq(Collision!Uses)
      /\ \A a, b \in DOMAIN emitted :
           a < b /\ Collision!Slot(uses[emitted[a]]) = Collision!Slot(uses[emitted[b]]) => emitted[a] < emitted[b]
  BY DEF CollisionInv
<1>2. m \in Nat /\ DOMAIN emitted = 1 .. m /\ \A a \in 1 .. m : emitted[a] \in 1 .. Len(uses)
  BY <1>1
<1>3. T = {emitted[a] : a \in DOMAIN emitted}
  BY Zenon DEF Collision!ToSet
<1> HIDE DEF T, m
<1>4. \A i : i \in T <=> \E a \in 1 .. m : emitted[a] = i
  BY <1>2, <1>3
<1>5. T \in SUBSET (1 .. Len(uses))
  BY <1>2, <1>4
<1>6. T \in SUBSET Nat
  <2>1. \A i \in 1 .. Len(uses) : i \in Nat
    OBVIOUS
  <2> QED BY <1>5, <2>1
<1>7. emitted \in [1 .. m -> T]
  BY <1>1, <1>2, <1>4
<1>8. ASSUME NEW a \in 1 .. m, NEW b \in 1 .. m, a # b PROVE emitted[a] # emitted[b]
  <2>1. a < b \/ b < a
    BY <1>2, <1>8
  <2>2. emitted[a] \in Nat /\ emitted[b] \in Nat
    BY <1>2
  <2>3. emitted[a] = emitted[b] => emitted[a] < emitted[b] \/ emitted[b] < emitted[a]
    BY <1>1, <1>2, <2>1
  <2> QED BY <2>2, <2>3
<1>9. emitted \in Bijection(1 .. m, T)
  BY <1>4, <1>7, <1>8 DEF Bijection, Injection, Surjection, IsInjective
<1>10. IsFiniteSet(1 .. m) /\ Cardinality(1 .. m) = m
  <2>1. Cardinality(1 .. m) = IF 1 > m THEN 0 ELSE m - 1 + 1
    BY <1>2, FS_Interval
  <2>2. IsFiniteSet(1 .. m)
    BY <1>2, FS_Interval
  <2> QED BY <1>2, <2>1, <2>2
<1>11. IsFiniteSet(T) /\ Cardinality(T) = Cardinality(1 .. m)
  <2>1. ExistsBijection(1 .. m, T)
    BY <1>9 DEF ExistsBijection
  <2> QED BY <1>10, <2>1, FS_Bijection
<1> QED BY <1>2, <1>4, <1>5, <1>6, <1>7, <1>10, <1>11 DEF T, m

\* The sorted report is the reported uses in source order.
LEMMA ReportIsInOrder ==
  ASSUME CollisionInv,
         \A i, j \in Collision!ToSet(emitted) :
           Collision!LineOf(i) = Collision!LineOf(j) => uses[i].key = uses[j].key
  PROVE  Collision!Report = Collision!InOrder(Collision!ToSet(emitted))
<1> DEFINE T == Collision!ToSet(emitted)
           m == Len(emitted)
           At(a) == Collision!LineOf(emitted[a])
           R == {ab \in (1 .. m) \X (1 .. m) : Collision!Before(ab[1], ab[2])}
           Rises(p) == \A a, b \in 1 .. m : a < b => Collision!Before(p[a], p[b])
           order == CHOOSE p \in [1 .. m -> 1 .. m] : Rises(p)
           Rep(P) == LET q == CHOOSE p \in [P -> P] : \A a, b \in P : a < b => Collision!Before(p[a], p[b])
                     IN  [n \in P |-> emitted[q[n]]]
<1>1. /\ m \in Nat /\ DOMAIN emitted = 1 .. m /\ emitted \in [1 .. m -> T]
      /\ T \in SUBSET (1 .. Len(uses)) /\ T \in SUBSET Nat /\ IsFiniteSet(T) /\ Cardinality(T) = m
      /\ IsFiniteSet(1 .. m) /\ Cardinality(1 .. m) = m
  BY EmittedIs
<1>2. Collision!Report = [n \in 1 .. m |-> emitted[order[n]]]
  <2>1. Collision!Report = Rep(DOMAIN emitted)
    BY Zenon DEF Collision!Report
  <2>2. Rep(1 .. m) = [n \in 1 .. m |-> emitted[order[n]]]
    BY Zenon
  <2>3. DOMAIN emitted = 1 .. m
    BY <1>1
  <2> HIDE DEF Rep
  <2> QED BY <2>1, <2>2, <2>3
<1> HIDE DEF T, m, Rep
<1>3. \A a \in 1 .. m : At(a) \in Nat /\ emitted[a] \in T /\ emitted[a] \in 1 .. Len(uses)
  <2>1. \A a \in 1 .. m : emitted[a] \in T /\ emitted[a] \in 1 .. Len(uses)
    BY <1>1
  <2>2. \A i \in 1 .. Len(uses) : Collision!LineOf(i) \in Nat
    <3>1. \A i \in 1 .. Len(uses) : i <= i
      OBVIOUS
    <3> QED BY <3>1, UsesHaveLines
  <2> QED BY <2>1, <2>2
<1>4. \A a, b \in 1 .. m : <<a, b>> \in R <=> At(a) < At(b) \/ (At(a) = At(b) /\ a < b)
  BY DEF Collision!Before
<1> HIDE DEF At, R
<1>5. Orders(R, 1 .. m)
  <2>1. ASSUME NEW a \in 1 .. m, NEW b \in 1 .. m, NEW c \in 1 .. m, <<a, b>> \in R, <<b, c>> \in R
        PROVE  <<a, c>> \in R
    <3>1. a \in Nat /\ b \in Nat /\ c \in Nat /\ At(a) \in Nat /\ At(b) \in Nat /\ At(c) \in Nat
      BY <1>3
    <3>2. (At(a) < At(b) \/ (At(a) = At(b) /\ a < b)) /\ (At(b) < At(c) \/ (At(b) = At(c) /\ b < c))
      BY <1>4, <2>1
    <3>3. At(a) < At(c) \/ (At(a) = At(c) /\ a < c)
      BY <3>1, <3>2
    <3> QED BY <1>4, <3>3
  <2>2. ASSUME NEW a \in 1 .. m, NEW b \in 1 .. m PROVE a = b \/ <<a, b>> \in R \/ <<b, a>> \in R
    <3>1. a \in Nat /\ b \in Nat /\ At(a) \in Nat /\ At(b) \in Nat
      BY <1>3
    <3>2. \/ a = b \/ At(a) < At(b) \/ At(b) < At(a) \/ (At(a) = At(b) /\ a < b) \/ (At(b) = At(a) /\ b < a)
      BY <3>1
    <3> QED BY <1>4, <3>2
  <2>3. ASSUME NEW a \in 1 .. m PROVE <<a, a>> \notin R
    <3>1. a \in Nat /\ At(a) \in Nat
      BY <1>3
    <3> QED BY <1>4, <3>1
  <2> QED BY <2>1, <2>2, <2>3 DEF Orders
<1>6. order \in [1 .. m -> 1 .. m] /\ Rises(order)
  <2>1. PICK p : Sorted(R, 1 .. m, p)
    BY <1>1, <1>5, SortedExists
  <2>2. p \in [1 .. m -> 1 .. m] /\ \A a, b \in 1 .. m : a < b => <<p[a], p[b]>> \in R
    BY <1>1, <2>1 DEF Sorted, Ascending
  <2>3. \A x, y : <<x, y>> \in R => Collision!Before(x, y)
    BY DEF R
  <2>4. Rises(p)
    BY <2>2, <2>3
  <2> HIDE DEF Rises
  <2> QED BY <2>2, <2>4, Zenon
<1> HIDE DEF order
<1> DEFINE r == [n \in 1 .. m |-> emitted[order[n]]]
<1>7. r \in [1 .. m -> T]
  BY <1>1, <1>6
<1>8. ASSUME NEW a \in 1 .. m, NEW b \in 1 .. m, a < b PROVE <<r[a], r[b]>> \in Below
  <2> DEFINE x == emitted[order[a]]
             y == emitted[order[b]]
  <2>1. /\ order[a] \in 1 .. m /\ order[b] \in 1 .. m /\ x \in T /\ y \in T
        /\ x \in 1 .. Len(uses) /\ y \in 1 .. Len(uses) /\ r[a] = x /\ r[b] = y
    BY <1>3, <1>6
  <2>2. Collision!Before(order[a], order[b])
    BY <1>6, <1>8
  <2>3. CASE Collision!LineOf(x) < Collision!LineOf(y)
    <3>1. y <= x => Collision!LineOf(y) <= Collision!LineOf(x)
      BY <2>1, UsesHaveLines
    <3>2. Collision!LineOf(x) \in Nat /\ Collision!LineOf(y) \in Nat
      BY <1>3, <2>1 DEF At
    <3>3. x \in Nat /\ y \in Nat /\ x < y
      BY <2>1, <2>3, <3>1, <3>2
    <3> QED BY <2>1, <3>3 DEF Below
  <2>4. CASE Collision!LineOf(x) = Collision!LineOf(y) /\ order[a] < order[b]
    <3>1. uses[x].key = uses[y].key
      BY <2>1, <2>4 DEF T
    <3>2. Collision!Group(uses[x]) = Collision!Group(uses[y])
      <4>1. x <= y \/ y <= x
        BY <2>1
      <4> HIDE DEF x, y
      <4>2. CASE x <= y
        BY <2>1, <2>4, <4>2, UsesHaveLines
      <4>3. CASE y <= x
        BY <2>1, <2>4, <4>3, UsesHaveLines
      <4> QED BY <4>1, <4>2, <4>3
    <3>3. Collision!Slot(uses[x]) = Collision!Slot(uses[y])
      BY <3>1, <3>2 DEF Collision!Slot
    <3>4. x < y
      BY <1>1, <2>1, <2>4, <3>3 DEF CollisionInv
    <3>5. x \in Nat /\ y \in Nat
      BY <2>1
    <3> QED BY <2>1, <3>4, <3>5 DEF Below
  <2> QED BY <2>2, <2>3, <2>4 DEF Collision!Before
<1> HIDE DEF r
<1>9. Sorted(Below, T, r)
  <2>1. \A x \in T : <<x, x>> \notin Below
    BY <1>1, BelowOrders DEF Orders
  <2>2. Ascending(Below, T, r)
    BY <1>1, <1>8 DEF Ascending
  <2> QED BY <1>1, <1>7, <2>1, <2>2, AscendingIsOnto
<1>10. Orders(Below, T) /\ Sorted(Below, T, Collision!InOrder(T))
  BY <1>1, BelowOrders, InOrderIs
<1>11. r = Collision!InOrder(T)
  BY <1>1, <1>9, <1>10, SortedIsUnique
<1> QED BY <1>2, <1>11 DEF T, r

\* When all is reported, of every key each source's first use but the first.
LEMMA AllIsReported ==
  ASSUME CollisionInv, visited, filed = {}
  PROVE  \A i : i \in Collision!ToSet(emitted) <=>
                  /\ i \in 1 .. Len(uses) /\ Collision!Slot(uses[i]) \in Slots
                  /\ i \in Later(Collision!Slot(uses[i]))
<1> DEFINE T == Collision!ToSet(emitted)
<1>1. /\ uses \in Seq(Collision!Uses)
      /\ \A a \in DOMAIN emitted : \E slot \in Slots : emitted[a] \in Later(slot)
      /\ \A slot \in Slots : \A i \in Later(slot) : \E a \in DOMAIN emitted : emitted[a] = i
  BY DEF CollisionInv
<1>2. DOMAIN emitted = 1 .. Len(emitted) /\ \A i : i \in T <=> \E a \in 1 .. Len(emitted) : emitted[a] = i
  BY EmittedIs
<1> HIDE DEF T
<1>3. \A slot \in Slots : \A i \in Later(slot) : i \in 1 .. Len(uses) /\ Collision!Slot(uses[i]) = slot
  BY <1>1, DistinctIs DEF Later
<1>4. ASSUME NEW i \in T
      PROVE  i \in 1 .. Len(uses) /\ Collision!Slot(uses[i]) \in Slots /\ i \in Later(Collision!Slot(uses[i]))
  <2>1. PICK slot \in Slots : i \in Later(slot)
    BY <1>1, <1>2
  <2> QED BY <1>3, <2>1
<1>5. \A slot \in Slots : \A i \in Later(slot) : i \in T
  BY <1>1, <1>2
<1> QED BY <1>4, <1>5 DEF T

\* A key's findings are one fewer than its sources.
SourcesAt(slot) == {Collision!Source(uses[i]) : i \in {j \in 1 .. Len(uses) : Collision!Slot(uses[j]) = slot}}

LEMMA FindingsPerKey ==
  ASSUME CollisionInv, NEW slot \in Slots
  PROVE  /\ IsFiniteSet(Later(slot)) /\ IsFiniteSet(SourcesAt(slot))
         /\ Cardinality(Later(slot)) \in Nat
         /\ Cardinality(SourcesAt(slot)) = Cardinality(Later(slot)) + 1
<1> DEFINE D == Collision!Distinct(slot)
           S == SourcesAt(slot)
<1>1. uses \in Seq(Collision!Uses) /\ DOMAIN uses = 1 .. Len(uses)
  BY DEF CollisionInv
<1>2. /\ D \in SUBSET (1 .. Len(uses)) /\ IsFiniteSet(D) /\ Min(D) \in D
      /\ \A d \in D : Collision!Slot(uses[d]) = slot
      /\ \A d, e \in D : Collision!Source(uses[d]) = Collision!Source(uses[e]) => d = e
      /\ \A i \in DOMAIN uses : Collision!Slot(uses[i]) = slot =>
           \E d \in D : Collision!Source(uses[d]) = Collision!Source(uses[i])
  BY <1>1, DistinctIs
<1>3. \A s : s \in S <=> \E i \in 1 .. Len(uses) : Collision!Slot(uses[i]) = slot /\ Collision!Source(uses[i]) = s
  BY DEF SourcesAt
<1>4. Later(slot) = D \ {Min(D)}
  BY DEF Later
<1> HIDE DEF D, S
<1> DEFINE f == [d \in D |-> Collision!Source(uses[d])]
<1>5. f \in Bijection(D, S)
  <2>1. \A d \in D : Collision!Source(uses[d]) \in S
    BY <1>2, <1>3
  <2>2. \A s \in S : \E d \in D : Collision!Source(uses[d]) = s
    BY <1>1, <1>2, <1>3
  <2>3. f \in [D -> S] /\ \A d \in D : f[d] = Collision!Source(uses[d])
    BY <2>1
  <2> HIDE DEF f
  <2>4. \A s \in S : \E d \in D : f[d] = s
    BY <2>2, <2>3
  <2>5. \A d, e \in D : f[d] = f[e] => d = e
    BY <1>2, <2>3
  <2> QED BY <2>3, <2>4, <2>5 DEF Bijection, Injection, Surjection, IsInjective
<1>6. IsFiniteSet(S) /\ Cardinality(S) = Cardinality(D)
  <2>1. ExistsBijection(D, S)
    BY <1>5 DEF ExistsBijection
  <2> QED BY <1>2, <2>1, FS_Bijection
<1>7. IsFiniteSet(D \ {Min(D)}) /\ Cardinality(D \ {Min(D)}) = Cardinality(D) - 1
  BY <1>2, FS_RemoveElement
<1>8. Cardinality(D) \in Nat /\ Cardinality(D \ {Min(D)}) \in Nat
  BY <1>2, <1>7, FS_CardinalityType
<1> QED BY <1>4, <1>6, <1>7, <1>8 DEF S

\* The contracts, and what is filed together.
LEMMA ContractsAre ==
  ASSUME uses \in Seq(Collision!Uses), NEW i \in 1 .. Len(uses)
  PROVE  /\ Collision!Contract(uses[i]) \in {"A", "B", "m::C", "n::D"}
         /\ Collision!Group(uses[i]) \in {"A", "B", "module"}
         /\ \A c \in {"A", "B"} : Collision!Group(uses[i]) = c <=> Collision!Contract(uses[i]) = c
         /\ Collision!Group(uses[i]) = "module" <=> Collision!Contract(uses[i]) \in {"m::C", "n::D"}
         /\ Collision!Group(uses[i]) = "module" <=> Collision!Inline(Collision!Contract(uses[i]))
         /\ Collision!Slot(uses[i]) = <<Collision!Group(uses[i]), uses[i].key>> /\ uses[i].key \in {"k", "l"}
<1>1. uses[i] \in Collision!Uses
  OBVIOUS
<1>2. uses[i].fn \in {1, 2, 3, 4, 5} /\ uses[i].key \in {"k", "l"}
  BY <1>1 DEF Collision!Uses, Collision!Functions
<1>3. Collision!Contract(uses[i]) \in {"A", "B", "m::C", "n::D"}
  BY <1>2 DEF Collision!Contract, Collision!Functions
<1>4. /\ Collision!Group(uses[i]) = IF Collision!Contract(uses[i]) \in {"A", "B"}
                                      THEN Collision!Contract(uses[i]) ELSE "module"
      /\ Collision!Inline(Collision!Contract(uses[i])) <=> Collision!Contract(uses[i]) \notin {"A", "B"}
  BY DEF Collision!Group, Collision!Inline
<1> QED BY <1>2, <1>3, <1>4 DEF Collision!Slot

\* Of a set's findings, those of one slot.
LEMMA FoundAt ==
  ASSUME CollisionInv, visited, filed = {}, NEW slot
  PROVE  LET F == {i \in Collision!ToSet(emitted) : Collision!Slot(uses[i]) = slot} IN
           /\ slot \in Slots => F = Later(slot)
           /\ slot \notin Slots => F = {} /\ SourcesAt(slot) = {}
<1> DEFINE T == Collision!ToSet(emitted)
<1>1. uses \in Seq(Collision!Uses) /\ DOMAIN uses = 1 .. Len(uses)
  BY DEF CollisionInv
<1>2. \A i : i \in T <=> /\ i \in 1 .. Len(uses) /\ Collision!Slot(uses[i]) \in Slots
                         /\ i \in Later(Collision!Slot(uses[i]))
  BY AllIsReported
<1> HIDE DEF T
<1>3. slot \in Slots => \A i \in Later(slot) : i \in 1 .. Len(uses) /\ Collision!Slot(uses[i]) = slot
  BY <1>1, DistinctIs DEF Later
<1>4. slot \notin Slots => SourcesAt(slot) = {}
  BY <1>1 DEF Slots, SourcesAt
<1>5. slot \notin Slots => {i \in T : Collision!Slot(uses[i]) = slot} = {}
  BY <1>2
<1>6. slot \in Slots => {i \in T : Collision!Slot(uses[i]) = slot} = Later(slot)
  BY <1>2, <1>3
<1> QED BY <1>4, <1>5, <1>6 DEF T

LEMMA MaxWithZero == ASSUME NEW n \in Nat PROVE Collision!Max({0, n}) = n /\ Collision!Max({0, 0 - 1}) = 0
<1> DEFINE Top(S, x) == x \in S /\ \A y \in S : x >= y
<1>1. \A S : Collision!Max(S) = CHOOSE x : Top(S, x)
  BY Zenon DEF Collision!Max
<1>2. Top({0, n}, n) /\ (\A x : Top({0, n}, x) => x = n)
  OBVIOUS
<1>3. Top({0, 0 - 1}, 0) /\ (\A x : Top({0, 0 - 1}, x) => x = 0)
  OBVIOUS
<1> HIDE DEF Top
<1> QED BY <1>1, <1>2, <1>3, Zenon

LEMMA CollisionHolds == ASSUME CollisionInv PROVE Collision!CollisionFindings
<1> SUFFICES ASSUME visited, filed = {} PROVE Collision!CollisionFindings
  BY DEF Collision!CollisionFindings
<1> DEFINE T == Collision!ToSet(emitted)
           Of(c, key) == {u \in Collision!ToSet(uses) : Collision!Contract(u) = c /\ u.key = key}
<1>1. uses \in Seq(Collision!Uses) /\ DOMAIN uses = 1 .. Len(uses) /\ Len(uses) \in Nat
  BY DEF CollisionInv
<1>2. \A i : i \in T <=> /\ i \in 1 .. Len(uses) /\ Collision!Slot(uses[i]) \in Slots
                         /\ i \in Later(Collision!Slot(uses[i]))
  BY AllIsReported
<1>3. \A u : u \in Collision!ToSet(uses) <=> \E i \in 1 .. Len(uses) : uses[i] = u
  <2>1. Collision!ToSet(uses) = {uses[i] : i \in DOMAIN uses}
    BY Zenon DEF Collision!ToSet
  <2> QED BY <1>1, <2>1
<1>4. \A c, key, s : s \in Collision!SourcesOf(c, key) <=>
        \E i \in 1 .. Len(uses) : /\ Collision!Contract(uses[i]) = c /\ uses[i].key = key
                                  /\ Collision!Source(uses[i]) = s
  <2>1. \A c, key : Collision!SourcesOf(c, key) = {Collision!Source(u) : u \in Of(c, key)}
    BY Zenon DEF Collision!SourcesOf
  <2> QED BY <1>3, <2>1
<1>5. \A slot, s : s \in SourcesAt(slot) <=>
        \E i \in 1 .. Len(uses) : Collision!Slot(uses[i]) = slot /\ Collision!Source(uses[i]) = s
  BY DEF SourcesAt
<1>6. \A c, key, i : i \in Collision!Found(c, key) <=>
        i \in T /\ Collision!Contract(uses[i]) = c /\ uses[i].key = key
  BY DEF Collision!Found
<1> HIDE DEF T, Of
<1>7. ASSUME NEW c \in {"A", "B"}, NEW key \in {"k", "l"}
      PROVE  Collision!Cardinality(Collision!Found(c, key))
               = Collision!Max({0, Collision!Cardinality(Collision!SourcesOf(c, key)) - 1})
  <2> DEFINE slot == <<c, key>>
  <2>1. \A i \in 1 .. Len(uses) : Collision!Slot(uses[i]) = slot <=> Collision!Contract(uses[i]) = c /\ uses[i].key = key
    <3> SUFFICES ASSUME NEW i \in 1 .. Len(uses)
                 PROVE  Collision!Slot(uses[i]) = slot <=> Collision!Contract(uses[i]) = c /\ uses[i].key = key
      OBVIOUS
    <3>1. /\ Collision!Slot(uses[i]) = <<Collision!Group(uses[i]), uses[i].key>>
          /\ Collision!Group(uses[i]) = c <=> Collision!Contract(uses[i]) = c
      BY <1>1, ContractsAre
    <3> QED BY <3>1
  <2>2. Collision!Found(c, key) = {i \in T : Collision!Slot(uses[i]) = slot}
    BY <1>2, <1>6, <2>1
  <2>3. Collision!SourcesOf(c, key) = SourcesAt(slot)
    <3> HIDE DEF slot
    <3>1. \A s : s \in Collision!SourcesOf(c, key) <=> s \in SourcesAt(slot)
      BY <1>4, <1>5, <2>1
    <3>2. /\ Collision!SourcesOf(c, key) = {Collision!Source(u) : u \in Of(c, key)}
          /\ SourcesAt(slot) = {Collision!Source(uses[i]) : i \in {j \in 1 .. Len(uses) : Collision!Slot(uses[j]) = slot}}
      BY Zenon DEF Collision!SourcesOf, SourcesAt, Of
    <3> QED BY <3>1, <3>2
  <2> HIDE DEF slot
  <2>4. CASE slot \in Slots
    <3>1. Collision!Found(c, key) = Later(slot)
      BY <2>2, <2>4, FoundAt DEF T
    <3>2. Cardinality(Later(slot)) \in Nat /\ Cardinality(SourcesAt(slot)) - 1 = Cardinality(Later(slot))
      BY <2>4, FindingsPerKey
    <3> QED BY <2>3, <3>1, <3>2, MaxWithZero, CollisionCounts
  <2>5. CASE slot \notin Slots
    <3>1. Collision!Found(c, key) = {} /\ SourcesAt(slot) = {}
      BY <2>2, <2>5, FoundAt DEF T
    <3>2. Cardinality({}) = 0
      BY FS_EmptySet
    <3>3. 0 \in Nat
      OBVIOUS
    <3> QED BY <2>3, <3>1, <3>2, <3>3, MaxWithZero, CollisionCounts
  <2> QED BY <2>4, <2>5
<1>8. ASSUME NEW i \in T
      PROVE  LET c == Collision!Contract(uses[i]) IN
               \/ Collision!Cardinality(Collision!SourcesOf(c, uses[i].key)) > 1
               \/ Collision!Inline(c) /\ \E j \in 1 .. (i - 1) :
                    /\ Collision!Inline(Collision!Contract(uses[j])) /\ Collision!Contract(uses[j]) # c
                    /\ uses[j].key = uses[i].key
  <2> DEFINE slot == Collision!Slot(uses[i])
             D == Collision!Distinct(slot)
             c == Collision!Contract(uses[i])
             S == Collision!SourcesOf(c, uses[i].key)
             j == Min(D)
  <2>1. i \in 1 .. Len(uses) /\ slot \in Slots /\ i \in D /\ i # j
    BY <1>2, <1>8 DEF Later
  <2>2. /\ D \in SUBSET (1 .. Len(uses)) /\ j \in D /\ \A d \in D : j <= d
        /\ \A d \in D : Collision!Slot(uses[d]) = slot
        /\ \A d, e \in D : Collision!Source(uses[d]) = Collision!Source(uses[e]) => d = e
    BY <1>1, <2>1, DistinctIs
  <2> HIDE DEF D, j
  <2>3. j \in 1 .. Len(uses) /\ j \in 1 .. (i - 1)
    BY <2>1, <2>2
  <2>4. Collision!Source(uses[i]) # Collision!Source(uses[j]) /\ Collision!Slot(uses[j]) = Collision!Slot(uses[i])
    BY <2>1, <2>2
  <2>5. Collision!Group(uses[j]) = Collision!Group(uses[i]) /\ uses[j].key = uses[i].key
    BY <2>4 DEF Collision!Slot
  <2>6. CASE Collision!Contract(uses[j]) = c
    <3>1. Collision!Source(uses[i]) \in S /\ Collision!Source(uses[j]) \in S
      BY <1>4, <2>1, <2>3, <2>5, <2>6
    <3>2. IsFiniteSet(S)
      <4>1. IsFiniteSet(1 .. Len(uses))
        BY <1>1, FS_Interval
      <4>2. IsFiniteSet({Collision!Source(uses[k]) : k \in 1 .. Len(uses)})
        <5> DEFINE g == [k \in 1 .. Len(uses) |-> Collision!Source(uses[k])]
                   R == {Collision!Source(uses[k]) : k \in 1 .. Len(uses)}
        <5>1. g \in Surjection(1 .. Len(uses), R)
          BY DEF Surjection
        <5> HIDE DEF R, g
        <5>2. IsFiniteSet(R)
          BY <4>1, <5>1, FS_Surjection
        <5> QED BY <5>2 DEF R
      <4>3. S \subseteq {Collision!Source(uses[k]) : k \in 1 .. Len(uses)}
        BY <1>4
      <4> QED BY <4>2, <4>3, FS_Subset
    <3>3. Cardinality(S \ {Collision!Source(uses[i])}) = Cardinality(S) - 1 /\ IsFiniteSet(S \ {Collision!Source(uses[i])})
      BY <3>1, <3>2, FS_RemoveElement
    <3>4. S \ {Collision!Source(uses[i])} # {}
      BY <2>4, <3>1
    <3>5. Cardinality(S) \in Nat /\ Cardinality(S \ {Collision!Source(uses[i])}) \in Nat
          /\ Cardinality(S \ {Collision!Source(uses[i])}) # 0
      BY <3>2, <3>3, <3>4, FS_CardinalityType, FS_EmptySet
    <3>6. Cardinality(S) > 1
      BY <3>3, <3>5
    <3> QED BY <3>6, CollisionCounts
  <2>7. CASE Collision!Contract(uses[j]) # c
    <3>1. /\ \A b \in {"A", "B"} : Collision!Group(uses[i]) = b <=> Collision!Contract(uses[i]) = b
          /\ \A b \in {"A", "B"} : Collision!Group(uses[j]) = b <=> Collision!Contract(uses[j]) = b
          /\ Collision!Group(uses[i]) \in {"A", "B", "module"}
          /\ Collision!Group(uses[i]) = "module" <=> Collision!Inline(Collision!Contract(uses[i]))
          /\ Collision!Group(uses[j]) = "module" <=> Collision!Inline(Collision!Contract(uses[j]))
      BY <1>1, <2>1, <2>3, ContractsAre
    <3>2. Collision!Group(uses[i]) = "module"
      BY <2>5, <2>7, <3>1
    <3> QED BY <2>3, <2>5, <2>7, <3>1, <3>2
  <2> QED BY <2>6, <2>7
<1>9. ASSUME NEW key \in {"k", "l"}, NEW c \in {"m::C", "n::D"}
      PROVE  Collision!Cardinality(Collision!Found("m::C", key) \cup Collision!Found("n::D", key))
               >= Collision!Cardinality(Collision!SourcesOf(c, key)) - 1
  <2> DEFINE slot == <<"module", key>>
             S == Collision!SourcesOf(c, key)
             F == Collision!Found("m::C", key) \cup Collision!Found("n::D", key)
  <2>1. \A i \in 1 .. Len(uses) : Collision!Slot(uses[i]) = slot <=>
                                    Collision!Contract(uses[i]) \in {"m::C", "n::D"} /\ uses[i].key = key
    <3> SUFFICES ASSUME NEW i \in 1 .. Len(uses)
                 PROVE  Collision!Slot(uses[i]) = slot <=>
                          Collision!Contract(uses[i]) \in {"m::C", "n::D"} /\ uses[i].key = key
      OBVIOUS
    <3>1. /\ Collision!Slot(uses[i]) = <<Collision!Group(uses[i]), uses[i].key>>
          /\ Collision!Group(uses[i]) = "module" <=> Collision!Contract(uses[i]) \in {"m::C", "n::D"}
      BY <1>1, ContractsAre
    <3> QED BY <3>1
  <2>2. F = {i \in T : Collision!Slot(uses[i]) = slot}
    BY <1>2, <1>6, <2>1
  <2>3. S \subseteq SourcesAt(slot)
    BY <1>4, <1>5, <2>1
  <2> HIDE DEF slot, S, F
  <2>4. CASE slot \in Slots
    <3>1. F = Later(slot)
      BY <2>2, <2>4, FoundAt DEF T
    <3>2. /\ IsFiniteSet(SourcesAt(slot)) /\ Cardinality(Later(slot)) \in Nat
          /\ Cardinality(SourcesAt(slot)) = Cardinality(Later(slot)) + 1
      BY <2>4, FindingsPerKey
    <3>3. Cardinality(S) \in Nat /\ Cardinality(S) <= Cardinality(SourcesAt(slot))
      BY <2>3, <3>2, FS_Subset, FS_CardinalityType
    <3>4. Cardinality(F) >= Cardinality(S) - 1
      BY <3>1, <3>2, <3>3
    <3> QED BY <3>4, CollisionCounts DEF F, S
  <2>5. CASE slot \notin Slots
    <3>1. F = {} /\ S = {}
      BY <2>2, <2>3, <2>5, FoundAt DEF T
    <3>2. Cardinality({}) = 0
      BY FS_EmptySet
    <3>3. Cardinality(F) >= Cardinality(S) - 1
      BY <3>1, <3>2
    <3> QED BY <3>3, CollisionCounts DEF F, S
  <2> QED BY <2>4, <2>5
<1>10. (\A i, j \in T : Collision!LineOf(i) = Collision!LineOf(j) => uses[i].key = uses[j].key) =>
         Collision!Report = Collision!InOrder(T)
  BY ReportIsInOrder DEF T
<1> QED BY <1>7, <1>8, <1>9, <1>10, Zenon DEF Collision!CollisionFindings, T

\* symbol-key-collision reports the same list whatever the order of its map, one
\* finding per source of a key of a contract but the first.
THEOREM CollisionsAreReported == FilesSpec => []CollisionFindings
<1>1. CollisionInv => CollisionFindings
  BY CollisionHolds DEF CollisionFindings
<1> QED BY <1>1, FilesKeepCollision, PTL
=============================================================================
