--------------------------- MODULE MethodUseProofs ---------------------------
(***************************************************************************)
(* The other half of the families on Method, for bodies of any length and  *)
(* depth: what a method computes with, reads, takes from its caller and    *)
(* calls, and initializers that can run again.                             *)
(***************************************************************************)
EXTENDS MethodProofs

-----------------------------------------------------------------------------
(* Arithmetic *)

LEMMA ArithmeticLines == \A b, i : Arithmetic!Line(b, i) = Lines(b, i)
<1>1. \A T : Arithmetic!Cardinality(T) = Cardinality(T)
  BY Zenon DEF Arithmetic!Cardinality, Cardinality
<1> QED BY <1>1, Zenon DEF Arithmetic!Line, Arithmetic!Quantify, Lines, Starts

LEMMA ArithmeticEnds ==
  ASSUME NEW i \in Nat, NEW j \in Nat
  PROVE  /\ i <= j => Arithmetic!Min({i, j}) = i /\ Arithmetic!Max({i, j}) = j
         /\ j <= i => Arithmetic!Min({i, j}) = j /\ Arithmetic!Max({i, j}) = i
<1>1. /\ i <= j => /\ \A x \in {i, j} : i <= x /\ x <= j
                   /\ \A x \in {i, j} : (\A y \in {i, j} : x <= y) => x = i
                   /\ \A x \in {i, j} : (\A y \in {i, j} : x >= y) => x = j
      /\ j <= i => /\ \A x \in {i, j} : j <= x /\ x <= i
                   /\ \A x \in {i, j} : (\A y \in {i, j} : x <= y) => x = j
                   /\ \A x \in {i, j} : (\A y \in {i, j} : x >= y) => x = i
  OBVIOUS
<1>2. (\E x \in {i, j} : \A y \in {i, j} : x <= y) => 
        Arithmetic!Min({i, j}) \in {i, j} /\ \A y \in {i, j} : Arithmetic!Min({i, j}) <= y
  BY Zenon DEF Arithmetic!Min
<1>3. (\E x \in {i, j} : \A y \in {i, j} : x >= y) => 
        Arithmetic!Max({i, j}) \in {i, j} /\ \A y \in {i, j} : Arithmetic!Max({i, j}) >= y
  BY Zenon DEF Arithmetic!Max
<1>4. /\ \E x \in {i, j} : \A y \in {i, j} : x <= y
      /\ \E x \in {i, j} : \A y \in {i, j} : x >= y
  <2>1. CASE i <= j
    <3>1. \A y \in {i, j} : i <= y /\ j >= y
      BY <2>1
    <3> QED BY <3>1
  <2>2. CASE j <= i
    <3>1. \A y \in {i, j} : j <= y /\ i >= y
      BY <2>2
    <3> QED BY <3>1
  <2> QED BY <2>1, <2>2
<1> QED BY <1>1, <1>2, <1>3, <1>4

LEMMA ArithmeticOfBody ==
  ASSUME NEW b \in Seq(Arithmetic!Statements)
  PROVE  Arithmetic!ArithmeticFindings(b)
<1>1. DOMAIN b = 1 .. Len(b) /\ Len(b) \in Nat
  OBVIOUS
<1>2. \A i \in DOMAIN b :
        /\ b[i].on \in [left : {"amount", "idx", "v", "1"}, right : {"amount", "idx", "v", "1"}]
        /\ b[i].does \in {"assign", "divide_assign", "checked"} => b[i].on.left # "1"
  <2>1. \A i \in DOMAIN b : b[i] \in Arithmetic!Statements
    OBVIOUS
  <2> QED BY <2>1 DEF Arithmetic!Statements, Arithmetic!Operands, Arithmetic!Variables
<1>3. ASSUME NEW i \in DOMAIN b, b[i].does = "plain", ~Arithmetic!Constant(b[i]),
             i \notin Arithmetic!UncheckedArithmetic(b)
      PROVE  \E j \in DOMAIN b :
               /\ b[j].does = "checked"
               /\ \A k \in (Arithmetic!Min({i, j}) + 1) .. Arithmetic!Max({i, j}) : ~b[k].fresh
               /\ {b[j].on.left, b[j].on.right} = {b[i].on.left, b[i].on.right}
  <2>1. Arithmetic!IsUnchecked(b[i])
    BY <1>3 DEF Arithmetic!IsUnchecked, Arithmetic!Constant
  <2>2. Arithmetic!UsesSafeArithmetic(b, i)
    BY <1>3, <2>1 DEF Arithmetic!UncheckedArithmetic
  <2>3. PICK j \in DOMAIN b :
          /\ b[j].does = "checked" /\ Lines(b, j) = Lines(b, i)
          /\ \/ b[j].on = b[i].on
             \/ b[j].on = [left |-> b[i].on.right, right |-> b[i].on.left]
    BY <2>2, ArithmeticLines DEF Arithmetic!UsesSafeArithmetic
  <2>4. {b[j].on.left, b[j].on.right} = {b[i].on.left, b[i].on.right}
    BY <2>3
  <2>5. i \in Nat /\ j \in Nat
    BY <1>1
  <2>6. /\ \A k \in (i + 1) .. j : ~b[k].fresh
        /\ \A k \in (j + 1) .. i : ~b[k].fresh
    BY <2>3, <2>5, LinesOrder
  <2>7. \A k \in (Arithmetic!Min({i, j}) + 1) .. Arithmetic!Max({i, j}) : ~b[k].fresh
    <3>1. i <= j => Arithmetic!Min({i, j}) = i /\ Arithmetic!Max({i, j}) = j
      BY <2>5, ArithmeticEnds
    <3>2. j <= i => Arithmetic!Min({i, j}) = j /\ Arithmetic!Max({i, j}) = i
      BY <2>5, ArithmeticEnds
    <3>3. i <= j \/ j <= i
      BY <2>5
    <3> QED BY <2>6, <3>1, <3>2, <3>3
  <2> QED BY <2>3, <2>4, <2>7
<1>4. ASSUME NEW i \in Arithmetic!UncheckedArithmetic(b), Arithmetic!Money(b[i])
      PROVE  Arithmetic!InferSeverity(b[i]) = "high" \/ b[i].on.left = "idx"
  <2>1. b[i].on \in [left : {"amount", "idx", "v", "1"}, right : {"amount", "idx", "v", "1"}]
    BY <1>2 DEF Arithmetic!UncheckedArithmetic
  <2>2. b[i].on.left \in {"amount", "idx", "v", "1"} /\ ("amount" = b[i].on.left \/ "amount" = b[i].on.right)
    BY <1>4, <2>1 DEF Arithmetic!Money
  <2> QED BY <2>2 DEF Arithmetic!InferSeverity, Arithmetic!SeverityOf
<1>5. Arithmetic!UncheckedDivisors(b) \subseteq Arithmetic!IntegerDivisionTruncation(b)
  BY DEF Arithmetic!UncheckedDivisors, Arithmetic!IntegerDivisionTruncation
<1>6. Arithmetic!UncheckedArithmetic(b) \cap Arithmetic!IntegerDivisionTruncation(b) = {}
  BY DEF Arithmetic!UncheckedArithmetic, Arithmetic!IntegerDivisionTruncation, Arithmetic!IsUnchecked
<1> QED BY <1>3, <1>4, <1>5, <1>6 DEF Arithmetic!ArithmeticFindings

\* unchecked-arithmetic and the divisions, for bodies of any length: only a
\* checked operation on the same line excuses one, the severity follows the
\* money, and every division is reported once, as a division.
THEOREM UncheckedOperationsAreFound == ChecksSpec => []ArithmeticFindings
<1>1. BodyInv => ArithmeticFindings
  <2> SUFFICES ASSUME BodyInv, check = "arithmetic" PROVE Arithmetic!ArithmeticFindings(statements)
    BY DEF ArithmeticFindings
  <2>1. check \in DOMAIN Vocabulary /\ Vocabulary[check] = Arithmetic!Statements
    BY DEF Vocabulary
  <2> QED BY <2>1, ArithmeticOfBody DEF BodyInv
<1> QED BY <1>1, BodiesAreWalked, PTL

-----------------------------------------------------------------------------
(* Reads of keys that may not be there *)

LEMMA StorageIsBodies ==
  /\ \A b : Storage!Runs(b) = Bodies!Runs(b)
  /\ \A b, i : Storage!Depth(b, i) = Bodies!Depth(b, i)
  /\ \A b, i, j : Storage!InBlockOf(b, i, j) <=> Bodies!InBlockOf(b, i, j)
  /\ \A b, i : Storage!Line(b, i) = Lines(b, i)
<1>1. \A T : Storage!Cardinality(T) = Cardinality(T) /\ Bodies!Cardinality(T) = Cardinality(T)
  BY Zenon DEF Storage!Cardinality, Bodies!Cardinality, Cardinality
<1>2. \A b, i : Storage!Line(b, i) = Lines(b, i)
  BY <1>1, Zenon DEF Storage!Line, Storage!Quantify, Lines, Starts
<1>3. \A b, i : Storage!Depth(b, i) = Bodies!Depth(b, i)
  BY <1>1, Zenon DEF Storage!Depth, Bodies!Depth, Storage!Quantify, Bodies!Quantify
<1>4. \A b : Storage!Runs(b) = Bodies!Runs(b)
  BY Zenon DEF Storage!Runs, Bodies!Runs, Storage!Walk, Bodies!Walk, Storage!Start, Bodies!Start,
    Storage!Advance, Bodies!Advance, Storage!Skips, Bodies!Skips, Storage!Takes, Bodies!Takes,
    Storage!Does, Bodies!Does, Storage!Leaves, Bodies!Leaves, Storage!Live, Bodies!Live
<1>5. \A b, i, j : Storage!InBlockOf(b, i, j) <=> Bodies!InBlockOf(b, i, j)
  BY <1>3 DEF Storage!InBlockOf, Bodies!InBlockOf
<1> QED BY <1>2, <1>3, <1>4, <1>5

LEMMA StorageWords ==
  \A s \in Storage!Statements : s.does = "remove" => s = Storage!Do("remove", s.on)
  BY DEF Storage!Statements, Storage!Do, Storage!Also

\* Behind a gate, every execution knows.
LEMMA GatesAreKnown ==
  ASSUME NEW b \in Seq(Storage!Statements), NEW run, IsRun(b, run), NEW n \in DOMAIN run,
         NEW j \in 1 .. (run[n] - 1), Storage!Gates(b, j, run[n])
  PROVE  Storage!Knows(b, run, n)
<1> DEFINE i == run[n]
<1>1. /\ b[j].on = b[i].on /\ b[j].does \in {"guard", "if"} /\ Bodies!InBlockOf(b, j, i)
      /\ \A k \in j .. i : b[k] # Storage!Do("remove", b[i].on)
  BY StorageIsBodies DEF Storage!Gates
<1>2. PICK m \in 1 .. (n - 1) : run[m] = j
  BY <1>1 DEF IsRun
<1>3. /\ run \in Seq(Nat) /\ n \in Nat /\ i \in Nat /\ m \in DOMAIN run
      /\ \A p \in DOMAIN run : run[p] \in Nat /\ run[p] \in DOMAIN b
      /\ \A p, q \in DOMAIN run : run[p] < run[q] <=> p < q
  <2>1. /\ run \in Seq(Nat) /\ \A p \in DOMAIN run : run[p] \in 1 .. Len(b)
        /\ \A p, q \in DOMAIN run : run[p] < run[q] <=> p < q
    BY DEF IsRun
  <2>2. DOMAIN run = 1 .. Len(run) /\ DOMAIN b = 1 .. Len(b) /\ m \in 1 .. (n - 1)
    BY <2>1
  <2>3. \A p \in DOMAIN run : run[p] \in Nat /\ run[p] \in DOMAIN b
    BY <2>1, <2>2
  <2>4. n \in Nat /\ m \in DOMAIN run
    BY <2>2
  <2> QED BY <2>1, <2>3, <2>4
<1> HIDE DEF i
<1>4. ASSUME NEW p \in m .. (n - 1), b[run[p]].does = "remove", b[run[p]].on = b[i].on
      PROVE  FALSE
  <2>1. p \in DOMAIN run /\ p < n /\ m <= p
    <3>1. DOMAIN run = 1 .. Len(run) /\ Len(run) \in Nat /\ m \in Nat /\ n \in 1 .. Len(run)
      <4>1. run \in Seq(Nat)
        BY <1>3, Zenon
      <4>2. DOMAIN run = 1 .. Len(run) /\ Len(run) \in Nat
        BY <4>1
      <4>3. n \in 1 .. Len(run) /\ m \in Nat
        BY <1>2, <4>2
      <4> QED BY <4>2, <4>3
    <3>2. p \in Int /\ m <= p /\ p <= n - 1 /\ 1 <= m
      BY <1>2, <3>1
    <3> QED BY <3>1, <3>2
  <2>2. run[p] < i
    BY <1>3, <2>1 DEF i
  <2>3. j <= run[p]
    <3>1. ~(run[p] < run[m])
      BY <1>2, <1>3, <2>1
    <3> QED BY <1>2, <1>3, <2>1, <3>1
  <2>4. run[p] \in j .. i
    <3>1. run[p] \in Nat /\ run[m] \in Nat /\ j = run[m] /\ i \in Nat
      BY <1>2, <1>3, <2>1
    <3> QED BY <2>2, <2>3, <3>1
  <2>5. b[run[p]] \in Storage!Statements
    <3>1. run[p] \in DOMAIN b
      BY <1>3, <2>1
    <3> QED BY <3>1
  <2>6. b[run[p]] # Storage!Do("remove", b[i].on)
    BY <1>1, <2>4
  <2> QED BY <1>4, <2>5, <2>6, StorageWords
<1> QED BY <1>1, <1>2, <1>4 DEF Storage!Knows, i

LEMMA ReadsOfBody ==
  ASSUME NEW b \in Seq(Storage!Statements), WalkInv(b), Reached(b)
  PROVE  Storage!ReadFindings(b)
<1>1. DOMAIN b = 1 .. Len(b) /\ Len(b) \in Nat
  OBVIOUS
<1>2. \A run \in Bodies!Runs(b) : IsRun(b, run)
  BY RunsAreRuns
<1>3. ASSUME NEW i \in DOMAIN b, Storage!IsRead(b[i]), Storage!MayPanic(b, i),
             i \notin Storage!UninitializedStorageRead(b)
      PROVE  \E j \in 1 .. (i - 1) : /\ b[j].does \in {"has", "guard", "if"}
                                     /\ b[j].on = b[i].on /\ ~Storage!Gates(b, j, i)
  <2>1. Storage!HasAbove(b, i)
    BY <1>3 DEF Storage!UninitializedStorageRead
  <2>2. PICK j \in DOMAIN b : /\ b[j].does \in {"has", "guard", "if"} /\ b[j].on = b[i].on
                              /\ Lines(b, j) < Lines(b, i)
    BY <2>1, StorageIsBodies DEF Storage!HasAbove
  <2>3. j \in 1 .. (i - 1)
    <3>1. i \in Nat /\ j \in Nat /\ 1 <= j
      BY <1>1
    <3>2. j < i
      BY <2>2, <3>1, LinesOrder
    <3> QED BY <3>1, <3>2
  <2>4. PICK run \in Bodies!Runs(b) : \E n \in DOMAIN run : run[n] = i /\ ~Storage!Knows(b, run, n)
    BY <1>3, StorageIsBodies DEF Storage!MayPanic
  <2>5. PICK n \in DOMAIN run : run[n] = i /\ ~Storage!Knows(b, run, n)
    BY <2>4
  <2>6. ~Storage!Gates(b, j, i)
    BY <1>2, <2>3, <2>5, GatesAreKnown
  <2> QED BY <2>2, <2>3, <2>6
<1>4. ASSUME NEW i \in DOMAIN b, i \in Storage!UninitializedStorageRead(b),
             ~Storage!MayPanic(b, i), b[i].does # "default"
      PROVE  \E j \in 1 .. (i - 1) :
               /\ b[j].on = b[i].on
               /\ b[j].does \in {"assert", "set", "unwrap"} \/ Storage!Line(b, j) = Storage!Line(b, i)
  <2>1. b[i].does = "unwrap" /\ ~Storage!HasAbove(b, i)
    BY <1>4 DEF Storage!UninitializedStorageRead, Storage!IsRead
  <2>2. Plain(b[i])
    BY <2>1 DEF Plain
  <2>3. PICK run \in Bodies!Runs(b) : IsRun(b, run) /\ \E n \in DOMAIN run : run[n] = i
    BY <1>1, <2>2, PlainIsRun
  <2>4. PICK n \in DOMAIN run : run[n] = i
    BY <2>3
  <2>5. Storage!Knows(b, run, n)
    BY <1>4, <2>1, <2>4, StorageIsBodies DEF Storage!MayPanic
  <2>6. PICK m \in 1 .. (n - 1) : /\ b[run[m]].on = b[i].on
                                  /\ b[run[m]].does \in {"guard", "assert", "if", "set", "unwrap"}
    BY <2>4, <2>5 DEF Storage!Knows
  <2>7. run[m] \in DOMAIN b /\ run[m] \in 1 .. (i - 1)
    <3>1. run \in Seq(Nat)
      BY <2>3 DEF IsRun
    <3>2. m \in DOMAIN run /\ m < n
      BY <3>1
    <3>3. run[m] \in 1 .. Len(b) /\ run[m] < i
      BY <2>3, <2>4, <3>2 DEF IsRun
    <3> QED BY <1>1, <3>3
  <2>8. CASE b[run[m]].does \in {"assert", "set", "unwrap"}
    BY <2>6, <2>7, <2>8
  <2>9. CASE b[run[m]].does \in {"guard", "if"}
    <3>1. ~(Lines(b, run[m]) < Lines(b, i))
      BY <2>1, <2>6, <2>7, <2>9, StorageIsBodies DEF Storage!HasAbove
    <3>2. i \in Nat /\ run[m] \in Nat /\ run[m] <= i
      BY <1>1, <2>7
    <3>3. /\ Lines(b, run[m]) \in Nat /\ Lines(b, i) \in Nat
          /\ Lines(b, run[m]) <= Lines(b, i)
      BY <3>2, LinesOrder
    <3>4. Lines(b, run[m]) = Lines(b, i)
      BY <3>1, <3>3
    <3> QED BY <2>6, <2>7, <3>4, StorageIsBodies
  <2> QED BY <2>6, <2>8, <2>9
<1>5. ASSUME NEW i \in DOMAIN b, Storage!IsRead(b[i]) \/ b[i].does = "option"
      PROVE  i \in Storage!UninitializedStorageRead(b) \cup Storage!PanicInContract(b) \/ Storage!HasAbove(b, i)
  BY <1>5 DEF Storage!UninitializedStorageRead, Storage!PanicInContract
<1>6. \A i \in Storage!UninitializedStorageRead(b) \cap Storage!PanicInContract(b) : b[i].does = "default"
  BY DEF Storage!UninitializedStorageRead, Storage!PanicInContract, Storage!IsRead
<1> QED BY <1>3, <1>4, <1>5, <1>6 DEF Storage!ReadFindings

\* uninitialized-storage-read and panic-in-contract, for bodies of any length
\* and depth: a read that an execution reaches without knowing the key is there
\* is reported, unless a `has` above it gates nothing; a report is of such a
\* read, but for the limits named; and no unwrap falls between the two checks.
THEOREM UnguardedReadsAreFound == ChecksSpec => []ReadFindings
<1>1. BodyInv => ReadFindings
  <2> SUFFICES ASSUME BodyInv, check = "storage" PROVE Storage!ReadFindings(statements)
    BY DEF ReadFindings
  <2>1. check \in DOMAIN Vocabulary /\ Vocabulary[check] = Storage!Statements
    BY DEF Vocabulary
  <2> QED BY <2>1, ReadsOfBody DEF BodyInv
<1> QED BY <1>1, BodiesAreWalked, PTL

-----------------------------------------------------------------------------
(* Inputs nothing validated *)

LEMMA GuardsIsBodies ==
  /\ \A b : Guards!Runs(b) = Bodies!Runs(b)
  /\ \A b, i, j : Guards!InBlockOf(b, i, j) <=> Bodies!InBlockOf(b, i, j)
<1>1. \A T : Guards!Cardinality(T) = Cardinality(T) /\ Bodies!Cardinality(T) = Cardinality(T)
  BY Zenon DEF Guards!Cardinality, Bodies!Cardinality, Cardinality
<1>2. \A b, i : Guards!Depth(b, i) = Bodies!Depth(b, i)
  BY <1>1, Zenon DEF Guards!Depth, Bodies!Depth, Guards!Quantify, Bodies!Quantify
<1>3. \A b : Guards!Runs(b) = Bodies!Runs(b)
  BY Zenon DEF Guards!Runs, Bodies!Runs, Guards!Walk, Bodies!Walk, Guards!Start, Bodies!Start,
    Guards!Advance, Bodies!Advance, Guards!Skips, Bodies!Skips, Guards!Takes, Bodies!Takes,
    Guards!Does, Bodies!Does, Guards!Leaves, Bodies!Leaves, Guards!Live, Bodies!Live
<1>4. \A b, i, j : Guards!InBlockOf(b, i, j) <=> Bodies!InBlockOf(b, i, j)
  BY <1>2 DEF Guards!InBlockOf, Bodies!InBlockOf
<1> QED BY <1>3, <1>4

LEMMA GuardsWords ==
  \A s \in Guards!Statements :
    /\ s.does = "use" => s.on \in {"x", "y"}
    /\ s.does \in {"use", "guard", "compare", "assert", "checked"} => s.on # "-"
  BY DEF Guards!Statements, Guards!Do

\* What the five checks take for a validation, and whose.
LEMMA TokensAre ==
  /\ \A c \in Guards!Checks :
       /\ Guards!Tokens(c) \subseteq {"compare", "guard", "if", "assert", "checked"}
       /\ {"guard", "if"} \subseteq Guards!Tokens(c)
       /\ c \notin {"length", "divisor"} => "assert" \in Guards!Tokens(c)
  /\ \A c \in Guards!Checks : \A s, name : Guards!IsOf(c, s, name) =>
       s.on = name \/ (c \notin {"length", "divisor"} /\ s.on \in {"x", "y"})
  /\ \A c \in Guards!Checks : \A s, name :
       s.on = name /\ name \in {"x", "y"} /\ s.does # "compare" => Guards!IsOf(c, s, name)
<1>1. ASSUME NEW c \in Guards!Checks
      PROVE  /\ Guards!Tokens(c) \subseteq {"compare", "guard", "if", "assert", "checked"}
             /\ {"guard", "if"} \subseteq Guards!Tokens(c)
             /\ c \notin {"length", "divisor"} => "assert" \in Guards!Tokens(c)
  BY DEF Guards!Checks, Guards!Tokens, Guards!ZeroAddressTokens, Guards!SelfTransferTokens,
    Guards!LengthTokens, Guards!DivisorTokens, Guards!AmountTokens
<1>2. ASSUME NEW c \in Guards!Checks, NEW s, NEW name
      PROVE  /\ Guards!IsOf(c, s, name) =>
                  s.on = name \/ (c \notin {"length", "divisor"} /\ s.on \in {"x", "y"})
             /\ s.on = name /\ name \in {"x", "y"} /\ s.does # "compare" => Guards!IsOf(c, s, name)
  BY DEF Guards!Checks, Guards!IsOf
<1> QED BY <1>1, <1>2

LEMMA GuardsOfBody ==
  ASSUME NEW b \in Seq(Guards!Statements), WalkInv(b), Reached(b)
  PROVE  Guards!GuardFindings(b)
<1>1. DOMAIN b = 1 .. Len(b) /\ Len(b) \in Nat /\ \A i \in DOMAIN b : b[i] \in Guards!Statements
  OBVIOUS
<1>2. \A run \in Bodies!Runs(b) : IsRun(b, run)
  BY RunsAreRuns
<1>3. SUFFICES ASSUME NEW c \in Guards!Checks, NEW i \in DOMAIN b, b[i].does = "use"
               PROVE  /\ Guards!Bad(b, i) =>
                           \/ Guards!Reported(c, b, i)
                           \/ \E j \in DOMAIN b :
                                /\ b[j].does \in {"compare", "checked"} \/ Guards!Validates(b[j])
                                /\ \/ b[j].on = b[i].on /\ ~Guards!Gates(b, j, i)
                                   \/ c \notin {"length", "divisor"} /\ b[j].on \notin {b[i].on, "-"}
                      /\ Guards!Reported(c, b, i) =>
                           \/ Guards!Bad(b, i)
                           \/ /\ c \in {"length", "divisor"}
                              /\ \E j \in 1 .. (i - 1) : b[j].does = "assert" /\ b[j].on = b[i].on
  BY DEF Guards!GuardFindings, Guards!Places
<1>4. b[i].on \in {"x", "y"} /\ Plain(b[i])
  BY <1>1, <1>3, GuardsWords DEF Plain
\* What gates the use was passed by every execution that comes to it.
<1>5. ASSUME Guards!Bad(b, i), NEW j \in DOMAIN b, Guards!Gates(b, j, i), b[j].on = b[i].on
      PROVE  FALSE
  <2>1. PICK run \in Bodies!Runs(b) : \E n \in DOMAIN run :
          run[n] = i /\ ~\E m \in 1 .. (n - 1) : Guards!Validates(b[run[m]]) /\ b[run[m]].on = b[i].on
    BY <1>5, GuardsIsBodies DEF Guards!Bad
  <2>2. PICK n \in DOMAIN run :
          run[n] = i /\ ~\E m \in 1 .. (n - 1) : Guards!Validates(b[run[m]]) /\ b[run[m]].on = b[i].on
    BY <2>1
  <2>3. /\ j \in 1 .. (run[n] - 1) /\ Bodies!InBlockOf(b, j, run[n])
        /\ Guards!Validates(b[j]) /\ b[j].does \notin {"else", "end"}
    <3>1. j < i /\ Guards!Validates(b[j]) /\ Bodies!InBlockOf(b, j, i)
      BY <1>5, GuardsIsBodies DEF Guards!Gates
    <3> QED BY <1>1, <2>2, <3>1 DEF Guards!Validates
  <2>4. PICK m \in 1 .. (n - 1) : run[m] = j
    BY <1>2, <2>3 DEF IsRun
  <2> QED BY <1>5, <2>2, <2>3, <2>4
<1>6. ASSUME Guards!Bad(b, i), ~Guards!Reported(c, b, i)
      PROVE  \E j \in DOMAIN b :
               /\ b[j].does \in {"compare", "checked"} \/ Guards!Validates(b[j])
               /\ \/ b[j].on = b[i].on /\ ~Guards!Gates(b, j, i)
                  \/ c \notin {"length", "divisor"} /\ b[j].on \notin {b[i].on, "-"}
  <2>1. PICK j \in DOMAIN b : b[j].does \in Guards!Tokens(c) /\ Guards!IsOf(c, b[j], b[i].on)
    BY <1>6 DEF Guards!Reported, Guards!Recognised
  <2>2. b[j].does \in {"compare", "checked"} \/ Guards!Validates(b[j])
    BY <2>1, TokensAre DEF Guards!Validates
  <2>3. b[j].on = b[i].on \/ (c \notin {"length", "divisor"} /\ b[j].on \in {"x", "y"})
    BY <2>1, TokensAre
  <2> QED BY <1>5, <1>6, <2>2, <2>3
<1>7. ASSUME Guards!Reported(c, b, i), ~Guards!Bad(b, i)
      PROVE  /\ c \in {"length", "divisor"}
             /\ \E j \in 1 .. (i - 1) : b[j].does = "assert" /\ b[j].on = b[i].on
  <2>1. PICK run \in Bodies!Runs(b) : IsRun(b, run) /\ \E n \in DOMAIN run : run[n] = i
    BY <1>1, <1>4, PlainIsRun
  <2>2. PICK n \in DOMAIN run : run[n] = i
    BY <2>1
  <2>3. PICK m \in 1 .. (n - 1) : Guards!Validates(b[run[m]]) /\ b[run[m]].on = b[i].on
    BY <1>7, <2>2, GuardsIsBodies DEF Guards!Bad
  <2>4. run[m] \in DOMAIN b /\ run[m] \in 1 .. (i - 1)
    <3>1. run \in Seq(Nat)
      BY <2>1 DEF IsRun
    <3>2. m \in DOMAIN run /\ m < n
      BY <3>1
    <3>3. run[m] \in 1 .. Len(b) /\ run[m] < i
      BY <2>1, <2>2, <3>2 DEF IsRun
    <3> QED BY <1>1, <3>3
  <2>5. b[run[m]].does \in {"guard", "if", "assert"}
    BY <2>3 DEF Guards!Validates
  <2>6. Guards!IsOf(c, b[run[m]], b[i].on)
    BY <1>4, <2>3, <2>5, TokensAre
  <2>7. b[run[m]].does \notin Guards!Tokens(c)
    BY <1>7, <2>4, <2>6 DEF Guards!Reported, Guards!Recognised
  <2>8. b[run[m]].does = "assert" /\ c \in {"length", "divisor"}
    BY <2>5, <2>7, TokensAre
  <2> QED BY <2>3, <2>4, <2>8
<1> QED BY <1>6, <1>7

\* The five checks of inputs, for bodies of any length and depth: an execution
\* that comes to a use with an input nothing looked at is reported, unless a
\* comparison that gates nothing, or one of another input, passes for its
\* validation; and a report is of such a use, but for the assertions not seen.
THEOREM UnvalidatedUsesAreFound == ChecksSpec => []GuardFindings
<1>1. BodyInv => GuardFindings
  <2> SUFFICES ASSUME BodyInv, check = "guards" PROVE Guards!GuardFindings(statements)
    BY DEF GuardFindings
  <2>1. check \in DOMAIN Vocabulary /\ Vocabulary[check] = Guards!Statements
    BY DEF Vocabulary
  <2> QED BY <2>1, GuardsOfBody DEF BodyInv
<1> QED BY <1>1, BodiesAreWalked, PTL

-----------------------------------------------------------------------------
(* What becomes of a result, and where a call may go *)

LEMMA InvokeIsBodies ==
  /\ \A b : Invoke!Runs(b) = Bodies!Runs(b)
  /\ \A b, i : Invoke!Depth(b, i) = Bodies!Depth(b, i)
  /\ \A b, i, j : Invoke!InBlockOf(b, i, j) <=> Bodies!InBlockOf(b, i, j)
<1>1. \A T : Invoke!Cardinality(T) = Cardinality(T) /\ Bodies!Cardinality(T) = Cardinality(T)
  BY Zenon DEF Invoke!Cardinality, Bodies!Cardinality, Cardinality
<1>2. \A b, i : Invoke!Depth(b, i) = Bodies!Depth(b, i)
  BY <1>1, Zenon DEF Invoke!Depth, Bodies!Depth, Invoke!Quantify, Bodies!Quantify
<1>3. \A b : Invoke!Runs(b) = Bodies!Runs(b)
  BY Zenon DEF Invoke!Runs, Bodies!Runs, Invoke!Walk, Bodies!Walk, Invoke!Start, Bodies!Start,
    Invoke!Advance, Bodies!Advance, Invoke!Skips, Bodies!Skips, Invoke!Takes, Bodies!Takes,
    Invoke!Does, Bodies!Does, Invoke!Leaves, Bodies!Leaves, Invoke!Live, Bodies!Live
<1>4. \A b, i, j : Invoke!InBlockOf(b, i, j) <=> Bodies!InBlockOf(b, i, j)
  BY <1>2 DEF Invoke!InBlockOf, Bodies!InBlockOf
<1> QED BY <1>2, <1>3, <1>4

LEMMA InvokeWords ==
  \A s \in Invoke!Statements :
    s.does = "call" => /\ s.on \in {"bare", "inline", "_", "_x", "x", "pattern", "?"}
                       /\ s.on = "inline" => s = Invoke!Do("call", "inline")
<1> SUFFICES ASSUME NEW s \in Invoke!Statements, s.does = "call"
             PROVE  \E on \in Invoke!Uses : s = Invoke!Do("call", on) /\ s.on = on
  BY DEF Invoke!Uses
<1>1. CASE s \in {Invoke!Do("call", on) : on \in Invoke!Uses}
  BY <1>1 DEF Invoke!Do
<1>2. CASE s \notin {Invoke!Do("call", on) : on \in Invoke!Uses}
  <2>1. s.does \in {"read", "bind", "rebind", "get", "if", "else", "end"}
    BY <1>2 DEF Invoke!Statements, Invoke!Do
  <2> QED BY <2>1
<1> QED BY <1>1, <1>2

\* The ends of a set of positions.
LEMMA InvokeEnds ==
  ASSUME NEW N \in Nat, NEW P \in SUBSET (1 .. N), P # {}
  PROVE  /\ Invoke!Min(P) \in P /\ \A y \in P : Invoke!Min(P) <= y
         /\ Invoke!Max(P) \in P /\ \A y \in P : y <= Invoke!Max(P)
<1>1. P \subseteq Nat
  OBVIOUS
<1>2. \E x \in P : \A y \in P : x <= y
  BY <1>1, Least
<1>3. PICK z \in P : \A y \in P : y <= z
  BY Greatest
<1>4. \A y \in P : z >= y
  BY <1>1, <1>3
<1>5. Invoke!Min(P) \in P /\ \A y \in P : Invoke!Min(P) <= y
  BY <1>2, Zenon DEF Invoke!Min
<1>6. Invoke!Max(P) \in P /\ \A y \in P : Invoke!Max(P) >= y
  BY <1>4, Zenon DEF Invoke!Max
<1>7. \A y \in P : y <= Invoke!Max(P)
  BY <1>1, <1>6
<1> QED BY <1>5, <1>6, <1>7

\* A block within a block: at the same depth it is the same block.
LEMMA SameBlock ==
  ASSUME NEW S, NEW b \in Seq(S), NEW i \in 1 .. Len(b), NEW j \in 1 .. Len(b), NEW k \in i .. j,
         Bodies!InBlockOf(b, i, j), Bodies!Depth(b, k) = Bodies!Depth(b, i)
  PROVE  Bodies!InBlockOf(b, k, j)
<1>1. \A l \in k .. j : l \in i .. j
  OBVIOUS
<1> QED BY <1>1 DEF Bodies!InBlockOf

\* The `let` that a name belongs to
LEMMA BinderIs ==
  ASSUME NEW b \in Seq(Invoke!Statements), NEW j \in DOMAIN b
  PROVE  /\ Invoke!Binder(b, j) # 0 =>
              /\ Invoke!Binder(b, j) \in 1 .. (j - 1)
              /\ Invoke!Binds(b[Invoke!Binder(b, j)])
              /\ Bodies!InBlockOf(b, Invoke!Binder(b, j), j)
         /\ \A k \in 1 .. (j - 1) : Invoke!Binds(b[k]) /\ Bodies!InBlockOf(b, k, j) =>
              Invoke!Binder(b, j) # 0 /\ k <= Invoke!Binder(b, j)
<1> DEFINE lets == {i \in 1 .. (j - 1) : Invoke!Binds(b[i]) /\ Bodies!InBlockOf(b, i, j)}
           at   == Invoke!Binder(b, j)
<1>1. at = IF lets = {} THEN 0 ELSE Invoke!Max(lets)
  BY InvokeIsBodies DEF Invoke!Binder
<1>2. j - 1 \in Nat /\ lets \in SUBSET (1 .. (j - 1))
  OBVIOUS
<1>3. \A k \in 1 .. (j - 1) : k \in lets <=> Invoke!Binds(b[k]) /\ Bodies!InBlockOf(b, k, j)
  OBVIOUS
<1> HIDE DEF lets, at
<1>4. lets # {} => Invoke!Max(lets) \in lets /\ \A y \in lets : y <= Invoke!Max(lets)
  BY <1>2, InvokeEnds
<1>5. at # 0 => at \in lets
  BY <1>1, <1>4
<1>6. \A k \in lets : at # 0 /\ k <= at
  BY <1>1, <1>2, <1>4
<1> QED BY <1>2, <1>3, <1>5, <1>6 DEF at

LEMMA ResultsOfBody ==
  ASSUME NEW b \in Seq(Invoke!Statements), WalkInv(b), Reached(b)
  PROVE  Invoke!InvokeFindings(b)
<1>1. DOMAIN b = 1 .. Len(b) /\ Len(b) \in Nat /\ \A i \in DOMAIN b : b[i] \in Invoke!Statements
  OBVIOUS
<1>2. \A run \in Bodies!Runs(b) : IsRun(b, run)
  BY RunsAreRuns
<1>3. \A i \in 1 .. Len(b) : Bodies!Depth(b, i) \in Int
  BY <1>1, DepthIs, OfIsFinite
<1>4. ASSUME NEW i \in DOMAIN b, Invoke!IsCall(b[i]), ~Invoke!IsRead(b, i),
             b[i].on \notin {"?", "pattern"}, i \notin Invoke!UncheckedInvokeReturn(b)
      PROVE  \E j \in (i + 1) .. Len(b) : Invoke!Binds(b[j]) /\ Bodies!Depth(b, j) > Bodies!Depth(b, i)
  <2>1. b[i].on = "x" /\ Invoke!UsedBelow(b, i)
    <3>1. b[i].on \in {"bare", "inline", "_", "_x", "x", "pattern", "?"}
      BY <1>1, <1>4, InvokeWords DEF Invoke!IsCall
    <3> QED BY <1>4, <3>1 DEF Invoke!UncheckedInvokeReturn, Invoke!Places
  <2>2. PICK j \in (i + 1) .. Len(b) :
          /\ Bodies!InBlockOf(b, i, j) /\ Invoke!Reads(b[j]) /\ b[j].on = "x"
          /\ ~\E k \in (i + 1) .. (j - 1) : Invoke!Binds(b[k]) /\ Bodies!Depth(b, k) = Bodies!Depth(b, i)
    BY <2>1, InvokeIsBodies DEF Invoke!UsedBelow
  <2>3. j \in DOMAIN b /\ i \in 1 .. (j - 1) /\ Plain(b[j])
    BY <1>1, <2>2 DEF Invoke!Reads, Plain
  <2>4. PICK run \in Bodies!Runs(b) : \E n \in DOMAIN run : run[n] = j
    BY <1>1, <2>3, PlainIsRun
  <2> DEFINE k == Invoke!Binder(b, j)
  <2>5. k # i
    BY <1>4, <2>1, <2>2, <2>4, InvokeIsBodies DEF Invoke!IsRead
  <2>6. Invoke!Binds(b[i])
    BY <1>4, <2>1 DEF Invoke!Binds, Invoke!IsCall
  <2>7. k # 0 /\ i <= k
    BY <2>2, <2>3, <2>6, BinderIs
  <2>8. k \in 1 .. (j - 1) /\ Invoke!Binds(b[k])
    BY <2>3, <2>7, BinderIs
  <2> HIDE DEF k
  <2>9. k \in (i + 1) .. (j - 1) /\ k \in (i + 1) .. Len(b) /\ k \in i .. j /\ k \in 1 .. Len(b)
    BY <1>1, <2>3, <2>5, <2>7, <2>8
  <2>10. Bodies!Depth(b, k) >= Bodies!Depth(b, i) /\ Bodies!Depth(b, k) # Bodies!Depth(b, i)
    BY <2>2, <2>8, <2>9 DEF Bodies!InBlockOf
  <2>11. Bodies!Depth(b, k) > Bodies!Depth(b, i)
    BY <1>1, <1>3, <2>9, <2>10
  <2> QED BY <2>8, <2>9, <2>11
<1>5. ASSUME NEW i \in DOMAIN b, Invoke!IsRead(b, i), i \in Invoke!UncheckedInvokeReturn(b),
             b[i].on # "_x"
      PROVE  FALSE
  <2>1. b[i].on = "x" /\ \E run \in Bodies!Runs(b) : \E n \in DOMAIN run :
          Invoke!Reads(b[run[n]]) /\ b[run[n]].on = "x" /\ Invoke!Binder(b, run[n]) = i
    BY <1>5, InvokeIsBodies DEF Invoke!IsRead
  <2>2. PICK j \in DOMAIN b : Invoke!Reads(b[j]) /\ b[j].on = "x" /\ Invoke!Binder(b, j) = i
    BY <1>1, <1>2, <2>1 DEF IsRun
  <2>3. i # 0
    BY <1>1
  <2>4. i \in 1 .. (j - 1) /\ Bodies!InBlockOf(b, i, j)
    BY <2>2, <2>3, BinderIs
  <2>5. ASSUME NEW k \in (i + 1) .. (j - 1), Invoke!Binds(b[k]),
               Bodies!Depth(b, k) = Bodies!Depth(b, i)
        PROVE  FALSE
    <3>1. i \in 1 .. Len(b) /\ j \in 1 .. Len(b) /\ k \in i .. j /\ k \in 1 .. (j - 1) /\ ~(k <= i)
      BY <1>1
    <3>2. Bodies!InBlockOf(b, k, j)
      BY <2>4, <2>5, <3>1, SameBlock
    <3> QED BY <2>2, <2>5, <3>1, <3>2, BinderIs
  <2>6. j \in (i + 1) .. Len(b)
    BY <1>1, <2>4
  <2>7. Invoke!UsedBelow(b, i)
    BY <2>1, <2>2, <2>4, <2>5, <2>6, InvokeIsBodies DEF Invoke!UsedBelow
  <2> QED BY <1>5, <2>1, <2>7 DEF Invoke!UncheckedInvokeReturn
<1> QED BY <1>4, <1>5, InvokeIsBodies DEF Invoke!InvokeFindings, Invoke!Places

LEMMA DelegatesOfBody ==
  ASSUME NEW b \in Seq(Invoke!Statements), WalkInv(b), Reached(b)
  PROVE  Invoke!DelegateFindings(b)
<1> DEFINE gets  == {i \in DOMAIN b : Invoke!IsGet(b[i])}
           calls == {i \in DOMAIN b : Invoke!IsCall(b[i])}
           first == Invoke!First(b, Invoke!IsGet)
           above == {i \in calls : i <= first}
           risk  == Invoke!DelegateCallRisk(b)
<1>1. DOMAIN b = 1 .. Len(b) /\ Len(b) \in Nat /\ \A i \in DOMAIN b : b[i] \in Invoke!Statements
  OBVIOUS
<1>2. \A run \in Bodies!Runs(b) : IsRun(b, run)
  BY RunsAreRuns
<1>3. \A i : i \in Invoke!AfterRead(b) <=>
        /\ i \in calls
        /\ \/ b[i].on = "inline"
           \/ \E run \in Bodies!Runs(b) : \E n \in DOMAIN run :
                run[n] = i /\ \E m \in 1 .. (n - 1) : Invoke!IsGet(b[run[m]])
  BY InvokeIsBodies DEF Invoke!AfterRead, Invoke!Places
<1>4. ASSUME Invoke!AfterRead(b) # {} PROVE gets # {} /\ calls # {}
  <2>1. PICK i : i \in Invoke!AfterRead(b)
    BY <1>4
  <2>2. CASE b[i].on = "inline"
    BY <1>1, <1>3, <2>1, <2>2, InvokeWords DEF Invoke!IsCall, Invoke!IsGet
  <2>3. CASE \E run \in Bodies!Runs(b) : \E n \in DOMAIN run :
               run[n] = i /\ \E m \in 1 .. (n - 1) : Invoke!IsGet(b[run[m]])
    <3>1. PICK run \in Bodies!Runs(b), n \in Nat :
            n \in DOMAIN run /\ \E m \in 1 .. (n - 1) : Invoke!IsGet(b[run[m]])
      <4>1. \A run \in Bodies!Runs(b) : run \in Seq(Nat)
        BY <1>2 DEF IsRun
      <4> QED BY <2>3, <4>1
    <3>2. PICK m \in 1 .. (n - 1) : Invoke!IsGet(b[run[m]])
      BY <3>1
    <3>3. run \in Seq(Nat)
      BY <1>2 DEF IsRun
    <3>4. m \in DOMAIN run
      BY <3>1, <3>3
    <3>5. run[m] \in gets
      BY <1>1, <1>2, <3>2, <3>4 DEF IsRun
    <3> QED BY <1>3, <2>1, <3>5
  <2> QED BY <1>3, <2>1, <2>2, <2>3
<1>5. /\ Invoke!Has(b, Invoke!IsGet) <=> gets # {}
      /\ Invoke!Has(b, Invoke!IsCall) <=> calls # {}
      /\ gets # {} => first = Invoke!Min(gets)
      /\ calls # {} => Invoke!First(b, Invoke!IsCall) = Invoke!Min(calls)
      /\ Invoke!Places(b, Invoke!IsCall) = calls
  BY DEF Invoke!Has, Invoke!Places, Invoke!First
<1>6. gets # {} /\ calls # {} =>
        risk = IF above # {} THEN Invoke!Max(above) ELSE Invoke!Min(calls)
  BY <1>5 DEF Invoke!DelegateCallRisk
<1>7. /\ gets \in SUBSET (1 .. Len(b)) /\ calls \in SUBSET (1 .. Len(b)) /\ above \in SUBSET calls
      /\ \A i \in calls : i \in above <=> i <= first
      /\ \A i \in calls : Invoke!IsCall(b[i])
      /\ \A i \in gets : Invoke!IsGet(b[i])
  BY <1>1
<1> HIDE DEF gets, calls, first, above, risk
<1>8. SUFFICES ASSUME gets # {}, calls # {}, risk \notin Invoke!AfterRead(b)
               PROVE  /\ risk # 0
                      /\ risk < first \/ Bodies!Depth(b, first) > 0
  BY <1>4, InvokeIsBodies DEF Invoke!DelegateFindings, Invoke!Inside, first, risk
<1>9. first \in gets
  BY <1>1, <1>5, <1>7, <1>8, InvokeEnds
<1>10. risk \in calls /\ (above # {} => risk \in above)
  <2>1. above # {} => Invoke!Max(above) \in above
    BY <1>1, <1>7, InvokeEnds
  <2>2. Invoke!Min(calls) \in calls
    BY <1>1, <1>7, <1>8, InvokeEnds
  <2> QED BY <1>6, <1>7, <1>8, <2>1, <2>2
<1>11. risk \in 1 .. Len(b) /\ first \in 1 .. Len(b)
  BY <1>7, <1>9, <1>10
<1>12. CASE risk = first
  <2>1. b[risk].does = "call" /\ Invoke!IsGet(b[risk])
    BY <1>7, <1>9, <1>10, <1>12 DEF Invoke!IsCall
  <2>2. b[risk].on = "inline"
    BY <2>1 DEF Invoke!IsGet, Invoke!Do
  <2> QED BY <1>3, <1>8, <1>10, <2>2
<1>13. CASE risk < first
  BY <1>11, <1>13
<1>14. CASE first < risk
  <2>1. SUFFICES ASSUME ~(Bodies!Depth(b, first) > 0) PROVE FALSE
    BY <1>11
  <2>2. Bodies!Depth(b, first) = 0
    <3>1. Bodies!Depth(b, first) >= 0 /\ Bodies!Depth(b, first) \in Int
      BY <1>1, <1>11, DepthIs, OfIsFinite DEF WalkInv, WellNested
    <3> QED BY <2>1, <3>1
  <2>3. Bodies!InBlockOf(b, first, risk)
    BY <1>11, <2>2, AtTheTop DEF WalkInv
  <2>4. Plain(b[risk]) /\ b[first].does \notin {"else", "end"}
    BY <1>7, <1>9, <1>10 DEF Invoke!IsCall, Invoke!IsGet, Invoke!Do, Plain
  <2>5. PICK run \in Bodies!Runs(b) : IsRun(b, run) /\ \E n \in DOMAIN run : run[n] = risk
    BY <1>11, <2>4, PlainIsRun
  <2>6. PICK n \in DOMAIN run : run[n] = risk
    BY <2>5
  <2>7. first \in 1 .. (run[n] - 1)
    BY <1>11, <1>14, <2>6
  <2>8. \E m \in 1 .. (n - 1) : run[m] = first
    BY <2>3, <2>4, <2>5, <2>6, <2>7 DEF IsRun
  <2> QED BY <1>3, <1>7, <1>8, <1>9, <1>10, <2>6, <2>8
<1> QED BY <1>11, <1>12, <1>13, <1>14

\* unchecked-invoke-return and delegate-call-risk, for bodies of any length and
\* depth: a result no execution reads is reported, unless a `let` of an inner
\* block hides it, and none that is read but for its underscore; and if an
\* execution calls after it read storage, the method is reported, at such a call
\* but for the places named.
THEOREM UnreadResultsAreFound == ChecksSpec => []InvokeFindings
<1>1. BodyInv => InvokeFindings
  <2> SUFFICES ASSUME BodyInv, check = "invoke"
               PROVE  Invoke!InvokeFindings(statements) /\ Invoke!DelegateFindings(statements)
    BY DEF InvokeFindings
  <2>1. check \in DOMAIN Vocabulary /\ Vocabulary[check] = Invoke!Statements
    BY DEF Vocabulary
  <2> QED BY <2>1, ResultsOfBody, DelegatesOfBody DEF BodyInv
<1> QED BY <1>1, BodiesAreWalked, PTL

-----------------------------------------------------------------------------
(* Initializers that can run again *)

\* The statement on a contract that is already initialized.
Now(s) == [s EXCEPT !.on = CASE @ = "has" -> "true" [] @ = "absent" -> "false" [] OTHER -> @]
Known  == {Now(s) : s \in Storage!InitStatements}

LEMMA InitWords ==
  \A s \in Storage!InitStatements :
    /\ s = [does |-> s.does, on |-> s.on, fresh |-> TRUE]
    /\ s.does \in {"guard", "if", "assert", "set", "else", "end", "return"}
    /\ s.on \in {"has", "absent", "both", "flag", "-"}
    /\ s.on \in {"has", "absent", "both"} => s.does \in {"guard", "if", "assert"}
  BY DEF Storage!InitStatements, Storage!Do

LEMMA NowIs ==
  ASSUME NEW s \in Storage!InitStatements
  PROVE  /\ Now(s) \in Known /\ Now(s).does = s.does
         /\ s.on = "has" => Now(s).on = "true"
         /\ s.on = "absent" => Now(s).on = "false"
         /\ s.on \notin {"has", "absent"} => Now(s) = s
<1>1. PICK d, o : s = [does |-> d, on |-> o, fresh |-> TRUE]
  BY InitWords
<1> DEFINE on == CASE o = "has" -> "true" [] o = "absent" -> "false" [] OTHER -> o
<1>2. s.does = d /\ s.on = o
  BY <1>1
<1>3. Now(s) = [s EXCEPT !.on = on]
  BY <1>2 DEF Now
<1>4. /\ o = "has" => on = "true"
      /\ o = "absent" => on = "false"
      /\ o \notin {"has", "absent"} => on = o
  OBVIOUS
<1> HIDE DEF on
<1>5. Now(s) = [does |-> d, on |-> on, fresh |-> TRUE]
  BY <1>1, <1>3
<1>6. Now(s) \in Known
  BY DEF Known
<1>7. Now(s).does = s.does /\ Now(s).on = on
  BY <1>2, <1>5
<1>8. s.on \notin {"has", "absent"} => Now(s) = s
  BY <1>1, <1>2, <1>4, <1>5
<1> QED BY <1>2, <1>4, <1>6, <1>7, <1>8

\* The body has the same shape the second time.
LEMMA AgainIs ==
  ASSUME NEW b \in Seq(Storage!InitStatements)
  PROVE  LET c == Storage!Again(b) IN
         /\ c \in Seq(Known) /\ Len(c) = Len(b) /\ DOMAIN c = DOMAIN b
         /\ \A i \in 1 .. Len(b) : c[i] = Now(b[i])
         /\ \A i \in 0 .. Len(b) : Bodies!Depth(c, i) = Bodies!Depth(b, i)
         /\ \A i \in 1 .. Len(b) : \A j \in 1 .. Len(b) :
              Bodies!InBlockOf(c, i, j) <=> Bodies!InBlockOf(b, i, j)
<1> DEFINE c == Storage!Again(b)  n == Len(b)
<1>1. DOMAIN b = 1 .. n /\ n \in Nat /\ \A i \in 1 .. n : b[i] \in Storage!InitStatements
  OBVIOUS
<1>2. c = [i \in 1 .. n |-> Now(b[i])]
  BY <1>1, Zenon DEF Storage!Again, Now
<1> HIDE DEF c, n
<1>3. \A i \in 1 .. n : Now(b[i]) \in Known /\ Now(b[i]).does = b[i].does
  BY <1>1, NowIs
<1>4. c \in Seq(Known) /\ Len(c) = n /\ DOMAIN c = 1 .. n
  BY <1>1, <1>2, <1>3
<1>5. \A i \in 1 .. n : c[i] = Now(b[i]) /\ c[i].does = b[i].does
  BY <1>2, <1>3
<1>6. \A what : \A i \in 0 .. n : Of(c, i, what) = Of(b, i, what)
  BY <1>1, <1>5 DEF Of
<1>7. \A i \in 0 .. n : Bodies!Depth(c, i) = Bodies!Depth(b, i)
  BY <1>6, DepthIs
<1>8. ASSUME NEW i \in 1 .. n, NEW j \in 1 .. n
      PROVE  Bodies!InBlockOf(c, i, j) <=> Bodies!InBlockOf(b, i, j)
  <2>1. \A k \in i .. j : k \in 1 .. n /\ k \in 0 .. n /\ i \in 0 .. n
    BY <1>1
  <2>2. \A k \in i .. j : c[k].does = b[k].does /\ Bodies!Depth(c, k) = Bodies!Depth(b, k)
    BY <1>5, <1>7, <2>1
  <2>3. Bodies!Depth(c, i) = Bodies!Depth(b, i)
    BY <1>1, <1>7
  <2> QED BY <2>2, <2>3 DEF Bodies!InBlockOf
<1> QED BY <1>1, <1>4, <1>5, <1>7, <1>8 DEF c, n

LEMMA AgainStep ==
  ASSUME NEW b \in Seq(Storage!InitStatements), NEW s \in Storage!InitStatements
  PROVE  Storage!Again(Append(b, s)) = Append(Storage!Again(b), Now(s))
<1> DEFINE c == Append(b, s)  n == Len(b)
<1>1. n \in Nat /\ c \in Seq(Storage!InitStatements) /\ Len(c) = n + 1
      /\ c[n + 1] = s /\ \A i \in 1 .. n : c[i] = b[i]
  OBVIOUS
<1>2. /\ Storage!Again(b) \in Seq(Known) /\ Len(Storage!Again(b)) = n
      /\ \A i \in 1 .. n : Storage!Again(b)[i] = Now(b[i])
  BY AgainIs
<1>3. /\ Storage!Again(c) \in Seq(Known) /\ Len(Storage!Again(c)) = n + 1
      /\ \A i \in 1 .. (n + 1) : Storage!Again(c)[i] = Now(c[i])
  BY <1>1, AgainIs
<1>4. Now(s) \in Known
  BY NowIs
<1> HIDE DEF c, n
<1> DEFINE u == Storage!Again(c)  v == Append(Storage!Again(b), Now(s))
<1>5. u \in Seq(Known) /\ Len(u) = n + 1 /\ \A i \in 1 .. (n + 1) : u[i] = Now(c[i])
  BY <1>3
<1>6. /\ v \in Seq(Known) /\ Len(v) = n + 1 /\ v[n + 1] = Now(s)
      /\ \A i \in 1 .. n : v[i] = Now(b[i])
  BY <1>1, <1>2, <1>4
<1>7. \A i \in 1 .. (n + 1) : u[i] = v[i]
  <2> HIDE DEF u, v
  <2> SUFFICES ASSUME NEW i \in 1 .. (n + 1) PROVE u[i] = v[i]
    OBVIOUS
  <2>1. CASE i = n + 1
    BY <1>1, <1>5, <1>6, <2>1
  <2>2. CASE i \in 1 .. n
    BY <1>1, <1>5, <1>6, <2>2
  <2> QED BY <1>1, <2>1, <2>2
<1> HIDE DEF u, v
<1>8. u = v
  BY <1>1, <1>5, <1>6, <1>7
<1> QED BY <1>8 DEF u, v, c

-----------------------------------------------------------------------------

\* A block on top that is entered for certain; nobody skips it, and nobody gets
\* past a return of it.
Entered(b, i) == b[i].does = "if" /\ b[i].on = "true" /\ Bodies!Depth(b, i) = 1
Straight(b, r) ==
  \A i \in 1 .. Len(b) : Entered(b, i) /\ Bodies!InBlockOf(b, i, Len(b)) => r.skip # 1
Ended(b, r) ==
  \A i \in 1 .. Len(b) : \A j \in i .. Len(b) :
    Entered(b, i) /\ Bodies!InBlockOf(b, i, j) /\ b[j].does = "return" /\ Bodies!Depth(b, j) = 1 =>
      r.over /\ \A a : Did(r, a) => a < j

\* What an execution skips after a statement that may begin or end it.
LEMMA AdvanceSkips ==
  ASSUME NEW r \in States, NEW s, NEW i \in Nat, NEW x \in Bodies!Advance(r, s, i)
  PROVE  /\ s.does = "if" /\ s.on = "true" => x.skip = r.skip
         /\ s.does = "else" => x.skip \in {0, r.skip, r.depth}
         /\ s.does = "end" => x.skip \in {0, r.skip}
         /\ s.does = "return" => x.did = r.did /\ x.over = (r.over \/ Bodies!Live(r))
         /\ r.over => x.over /\ x.did = r.did
<1>1. r.did \in Seq(Nat) /\ r.depth \in Int /\ r.skip \in Int /\ r.over \in BOOLEAN
      /\ r = [did |-> r.did, depth |-> r.depth, skip |-> r.skip, over |-> r.over]
  BY DEF States
<1>2. ASSUME s.does = "if", s.on = "true" PROVE x.skip = r.skip
  <2>1. x = Bodies!Takes(r, i)
    BY <1>2 DEF Bodies!Advance
  <2> DEFINE deeper == r.depth + 1  done == IF Bodies!Live(r) THEN Append(r.did, i) ELSE r.did
  <2>2. x = [r EXCEPT !.depth = deeper, !.did = done]
    BY <2>1 DEF Bodies!Takes
  <2> HIDE DEF deeper, done
  <2> QED BY <1>1, <2>2
<1>3. ASSUME s.does = "else" PROVE x.skip \in {0, r.skip, r.depth}
  <2> DEFINE skipped == IF r.skip = r.depth THEN 0 ELSE IF Bodies!Live(r) THEN r.depth ELSE r.skip
  <2>1. x = [r EXCEPT !.skip = skipped]
    BY <1>3 DEF Bodies!Advance
  <2>2. skipped \in {0, r.skip, r.depth}
    OBVIOUS
  <2> HIDE DEF skipped
  <2> QED BY <1>1, <2>1, <2>2
<1>4. ASSUME s.does = "end" PROVE x.skip \in {0, r.skip}
  <2> DEFINE skipped == IF r.skip = r.depth THEN 0 ELSE r.skip  out == r.depth - 1
  <2>1. x = [r EXCEPT !.depth = out, !.skip = skipped]
    BY <1>4 DEF Bodies!Advance
  <2>2. skipped \in {0, r.skip}
    OBVIOUS
  <2> HIDE DEF skipped, out
  <2> QED BY <1>1, <2>1, <2>2
<1>5. ASSUME s.does = "return" PROVE x.did = r.did /\ x.over = (r.over \/ Bodies!Live(r))
  <2> DEFINE done == r.over \/ Bodies!Live(r)
  <2>1. x = [r EXCEPT !.over = done]
    BY <1>5 DEF Bodies!Advance, Bodies!Leaves
  <2> HIDE DEF done
  <2>2. x.did = r.did /\ x.over = done
    BY <1>1, <2>1
  <2> QED BY <2>2 DEF done
<1>6. ASSUME r.over PROVE x.over /\ x.did = r.did
  <2>1. ~Bodies!Live(r)
    BY <1>6 DEF Bodies!Live
  <2> QED BY <1>6, <2>1, AdvanceStep
<1> QED BY <1>2, <1>3, <1>4, <1>5, <1>6

\* An `if` is one block deeper than what is before it, and a block up to a
\* position is one up to any earlier.
LEMMA IfIsDeeper ==
  ASSUME NEW S, NEW b \in Seq(S), WellNested(b), NEW i \in 1 .. Len(b), b[i].does = "if"
  PROVE  i - 1 \in 0 .. Len(b) /\ Bodies!Depth(b, i) >= 1
<1>1. i \in Nat /\ i - 1 \in Nat /\ i - 1 < i /\ i = (i - 1) + 1
  OBVIOUS
<1> DEFINE k == i - 1
<1>2. k \in Nat /\ i = k + 1 /\ k \in 0 .. Len(b)
  BY <1>1
<1> HIDE DEF k
<1>3. /\ Cardinality(Of(b, i, "if")) = Cardinality(Of(b, k, "if")) + 1
      /\ Of(b, i, "end") = Of(b, k, "end")
  <2>1. Of(b, i, "if") = Of(b, k, "if") \cup {i} /\ i \notin Of(b, k, "if")
    BY <1>2 DEF Of
  <2>2. IsFiniteSet(Of(b, k, "if")) /\ Cardinality(Of(b, k, "if")) \in Nat
    BY <1>2, OfIsFinite
  <2>3. Of(b, i, "end") = Of(b, k, "end")
    BY <1>2 DEF Of
  <2> QED BY <2>1, <2>2, <2>3, FS_AddElement
<1>4. Cardinality(Of(b, k, "if")) \in Nat /\ Cardinality(Of(b, k, "end")) \in Nat
  BY <1>2, OfIsFinite
<1>5. Bodies!Depth(b, i) = Bodies!Depth(b, k) + 1 /\ Bodies!Depth(b, k) \in Int
  BY <1>3, <1>4, DepthIs
<1>6. Bodies!Depth(b, k) >= 0
  <2>1. CASE k = 0
    <3>1. Of(b, 0, "if") = {} /\ Of(b, 0, "end") = {}
      BY DEF Of
    <3>2. Bodies!Depth(b, 0) = Cardinality({}) - Cardinality({})
      BY <3>1, DepthIs
    <3> QED BY <2>1, <3>2, FS_EmptySet
  <2>2. CASE k # 0
    <3>1. k \in 1 .. Len(b)
      BY <1>2, <2>2
    <3> QED BY <3>1 DEF WellNested
  <2> QED BY <2>1, <2>2
<1> QED BY <1>2, <1>5, <1>6 DEF k

LEMMA Shorter ==
  ASSUME NEW b, NEW i \in Nat, NEW j \in Nat, NEW w \in Nat, i <= w, w < j, Bodies!InBlockOf(b, i, j)
  PROVE  Bodies!InBlockOf(b, i, w)
<1>1. \A k \in i .. w : k \in i .. j
  OBVIOUS
<1> QED BY <1>1 DEF Bodies!InBlockOf

LEMMA EndedStep ==
  ASSUME NEW S, NEW b \in Seq(S), NEW s \in S, WalkInv(b),
         NEW r \in Bodies!Walk(b), Straight(b, r), Ended(b, r),
         NEW x \in Bodies!Advance(r, s, Len(b) + 1)
  PROVE  Straight(Append(b, s), x) /\ Ended(Append(b, s), x)
<1> DEFINE c == Append(b, s)  n == Len(b)
<1>1. n \in Nat /\ Len(c) = n + 1 /\ c[n + 1] = s /\ \A i \in 1 .. n : c[i] = b[i]
  BY OneMoreStatement
<1>2. /\ \A i \in 0 .. n : Bodies!Depth(b, i) \in Int /\ Bodies!Depth(c, i) = Bodies!Depth(b, i)
      /\ Bodies!Depth(c, n + 1) = Bodies!Depth(b, n) + Nests(s)
      /\ \A j, i \in 1 .. n : Bodies!InBlockOf(c, j, i) <=> Bodies!InBlockOf(b, j, i)
      /\ \A j \in 1 .. n : Bodies!InBlockOf(c, j, n + 1) =>
           /\ Bodies!InBlockOf(b, j, n)
           /\ Bodies!Depth(c, n + 1) >= Bodies!Depth(b, j)
           /\ s.does = "else" => Bodies!Depth(c, n + 1) > Bodies!Depth(b, j)
  BY OneMoreStatement
<1>3. /\ r \in States /\ r.depth = Bodies!Depth(b, n) /\ r.skip \in 0 .. r.depth
      /\ \A a : Did(r, a) => a \in 1 .. n
  BY DEF WalkInv, InOrder, Did
<1>4. r.depth \in Int /\ r.skip \in Int /\ r.over \in BOOLEAN
  BY <1>3 DEF States
<1>5. /\ s.does = "if" /\ s.on = "true" => x.skip = r.skip
      /\ s.does = "else" => x.skip \in {0, r.skip, r.depth}
      /\ s.does = "end" => x.skip \in {0, r.skip}
      /\ s.does = "return" => x.did = r.did /\ x.over = (r.over \/ Bodies!Live(r))
      /\ r.over => x.over /\ x.did = r.did
  BY <1>1, <1>3, AdvanceSkips
<1>6. s.does \notin {"else", "end"} => x.skip = r.skip \/ (s.does = "if" /\ x.skip = r.depth + 1)
  BY <1>1, <1>3, AdvanceStep
<1> HIDE DEF c, n
<1>7. \A i \in 1 .. (n + 1) : i \in 1 .. n \/ i = n + 1
  BY <1>1
\* The block was entered before this statement, and is not left by it.
<1>8. ASSUME NEW i \in 1 .. n, Entered(c, i), Bodies!InBlockOf(c, i, n + 1)
      PROVE  /\ r.skip # 1 /\ r.depth >= 1
             /\ Bodies!Depth(c, n + 1) >= 1
             /\ s.does = "else" => Bodies!Depth(c, n + 1) > 1
  <2>1. i \in 0 .. n /\ Bodies!Depth(b, i) = 1 /\ Entered(b, i)
    BY <1>1, <1>2, <1>8 DEF Entered
  <2>2. Bodies!InBlockOf(b, i, n)
    BY <1>2, <1>8
  <2>3. r.skip # 1
    BY <2>1, <2>2 DEF Straight, n
  <2>4. Bodies!Depth(b, n) >= 1
    <3>1. n \in i .. n
      BY <1>1
    <3> QED BY <2>1, <2>2, <3>1 DEF Bodies!InBlockOf
  <2> QED BY <1>2, <1>3, <1>8, <2>1, <2>3, <2>4
<1>9. ASSUME NEW i \in 1 .. (n + 1), Entered(c, i), Bodies!InBlockOf(c, i, n + 1)
      PROVE  x.skip # 1
  <2>1. CASE i = n + 1
    <3>1. s.does = "if" /\ s.on = "true" /\ Bodies!Depth(c, n + 1) = 1
      BY <1>1, <1>9, <2>1 DEF Entered
    <3>2. r.depth = 0
      BY <1>2, <1>3, <1>4, <3>1 DEF Nests
    <3> QED BY <1>3, <1>5, <3>1, <3>2
  <2>2. CASE i \in 1 .. n
    <3>1. /\ r.skip # 1 /\ r.depth >= 1
          /\ s.does = "else" => Bodies!Depth(c, n + 1) > 1
      BY <1>8, <1>9, <2>2
    <3>2. CASE s.does = "else"
      <4>1. r.depth # 1
        BY <1>2, <1>3, <1>4, <3>1, <3>2 DEF Nests
      <4> QED BY <1>5, <3>1, <3>2, <4>1
    <3>3. CASE s.does = "end"
      BY <1>5, <3>1, <3>3
    <3>4. CASE s.does \notin {"else", "end"}
      BY <1>4, <1>6, <3>1, <3>4
    <3> QED BY <3>2, <3>3, <3>4
  <2> QED BY <1>7, <2>1, <2>2
<1>10. ASSUME NEW i \in 1 .. (n + 1), NEW j \in i .. (n + 1), Entered(c, i),
              Bodies!InBlockOf(c, i, j), c[j].does = "return", Bodies!Depth(c, j) = 1
       PROVE  x.over /\ \A a : Did(x, a) => a < j
  <2>1. CASE j = n + 1
    <3>1. s.does = "return"
      BY <1>1, <1>10, <2>1
    <3>2. i \in 1 .. n
      BY <1>1, <1>7, <1>10, <3>1 DEF Entered
    <3>3. r.skip # 1
      BY <1>8, <1>10, <2>1, <3>2
    <3>4. r.depth = 1
      BY <1>2, <1>3, <1>4, <1>10, <2>1, <3>1 DEF Nests
    <3>5. r.skip = 0
      BY <1>3, <3>3, <3>4
    <3>6. x.did = r.did /\ x.over
      BY <1>5, <3>1, <3>5 DEF Bodies!Live
    <3>7. \A a \in 1 .. n : a < n + 1
      BY <1>1
    <3> QED BY <1>3, <2>1, <3>6, <3>7 DEF Did
  <2>2. CASE j # n + 1
    <3>1. i \in 1 .. n /\ j \in i .. n /\ j \in 1 .. n
      BY <1>1, <2>2
    <3>2. j \in 0 .. n /\ i \in 0 .. n
      BY <3>1
    <3>3. /\ Entered(b, i) /\ Bodies!InBlockOf(b, i, j)
          /\ b[j].does = "return" /\ Bodies!Depth(b, j) = 1
      BY <1>1, <1>2, <1>10, <3>1, <3>2 DEF Entered
    <3>4. r.over /\ \A a : Did(r, a) => a < j
      BY <3>1, <3>3 DEF Ended, n
    <3> QED BY <1>5, <3>4 DEF Did
  <2> QED BY <2>1, <2>2
<1>11. Straight(c, x)
  BY <1>1, <1>9 DEF Straight
<1>12. Ended(c, x)
  BY <1>1, <1>10 DEF Ended
<1> QED BY <1>11, <1>12 DEF c

\* What holds of every execution of the body on an initialized contract.
SecondRuns(b) ==
  WalkInv(Storage!Again(b))
  /\ \A r \in Bodies!Walk(Storage!Again(b)) : Straight(Storage!Again(b), r) /\ Ended(Storage!Again(b), r)
AgainInv == check = "init" => statements \in Seq(Storage!InitStatements) /\ SecondRuns(statements)

LEMMA SecondRunsStart == SecondRuns(<<>>)
<1>1. Storage!Again(<<>>) = <<>>
  BY DEF Storage!Again
<1> QED BY <1>1, WalkInvStarts DEF SecondRuns, Straight, Ended

LEMMA SecondRunsStep ==
  ASSUME NEW b \in Seq(Storage!InitStatements), NEW s \in Storage!InitStatements, SecondRuns(b),
         s.does \in {"else", "end"} => Bodies!Depth(b, Len(b)) > 0
  PROVE  SecondRuns(Append(b, s))
<1> DEFINE c == Storage!Again(b)
<1>1. /\ c \in Seq(Known) /\ Len(c) = Len(b)
      /\ \A i \in 0 .. Len(b) : Bodies!Depth(c, i) = Bodies!Depth(b, i)
  BY AgainIs
<1>2. Now(s) \in Known /\ Now(s).does = s.does
  BY NowIs
<1>3. Storage!Again(Append(b, s)) = Append(c, Now(s))
  BY AgainStep
<1>4. Len(b) \in 0 .. Len(b)
  OBVIOUS
<1>5. WalkInv(c) /\ \A r \in Bodies!Walk(c) : Straight(c, r) /\ Ended(c, r)
  BY DEF SecondRuns
<1> HIDE DEF c
<1>6. Now(s).does \in {"else", "end"} => Bodies!Depth(c, Len(c)) > 0
  BY <1>1, <1>2, <1>4
<1>7. WalkInv(Append(c, Now(s)))
  BY <1>1, <1>2, <1>5, <1>6, WalkInvStep
<1>8. ASSUME NEW x \in Bodies!Walk(Append(c, Now(s)))
      PROVE  Straight(Append(c, Now(s)), x) /\ Ended(Append(c, Now(s)), x)
  <2>1. PICK r \in Bodies!Walk(c) : x \in Bodies!Advance(r, Now(s), Len(c) + 1)
    BY <1>1, <1>2, WalkStep
  <2> QED BY <1>1, <1>2, <1>5, <2>1, EndedStep
<1> QED BY <1>3, <1>7, <1>8 DEF SecondRuns

LEMMA AgainIsWalked == ChecksSpec => []AgainInv
<1>1. ChecksInit => AgainInv
  <2> SUFFICES ASSUME ChecksInit PROVE AgainInv
    OBVIOUS
  <2>1. statements = <<>>
    BY DEF ChecksInit
  <2> QED BY <2>1, SecondRunsStart DEF AgainInv
<1>2. AgainInv /\ [ChecksNext]_<<vars, check, named, statements>> => AgainInv'
  <2> SUFFICES ASSUME AgainInv, [ChecksNext]_<<vars, check, named, statements>> PROVE AgainInv'
    OBVIOUS
  <2>1. check' = check
    BY DEF ChecksNext
  <2>2. CASE statements' = statements
    BY <2>1, <2>2 DEF AgainInv, SecondRuns, Storage!InitStatements
  <2>3. CASE Write
    <3> SUFFICES ASSUME check = "init"
                 PROVE  statements' \in Seq(Storage!InitStatements) /\ SecondRuns(statements')
      BY <2>1 DEF AgainInv
    <3>1. PICK s \in Storage!InitStatements :
            Bodies!Fits(statements, s, Nesting) /\ statements' = Append(statements, s)
      BY <2>3 DEF Write, Vocabulary
    <3>2. statements \in Seq(Storage!InitStatements) /\ SecondRuns(statements)
      BY DEF AgainInv
    <3>3. s.does \in {"else", "end"} => Bodies!Depth(statements, Len(statements)) > 0
      BY <3>1 DEF Bodies!Fits, Bodies!Inside
    <3>4. SecondRuns(Append(statements, s))
      BY <3>2, <3>3, SecondRunsStep
    <3> QED BY <3>1, <3>2, <3>4
  <2> QED BY <2>2, <2>3 DEF ChecksNext
<1> QED BY <1>1, <1>2, PTL DEF ChecksSpec

LEMMA InitOfBody ==
  ASSUME NEW b \in Seq(Storage!InitStatements), WalkInv(b), Reached(b), SecondRuns(b)
  PROVE  Storage!InitFindings(b)
<1> DEFINE c == Storage!Again(b)
<1>1. DOMAIN b = 1 .. Len(b) /\ Len(b) \in Nat /\ \A i \in DOMAIN b : b[i] \in Storage!InitStatements
  OBVIOUS
<1>2. /\ c \in Seq(Known) /\ Len(c) = Len(b)
      /\ \A i \in 1 .. Len(b) : c[i] = Now(b[i])
      /\ \A i \in 0 .. Len(b) : Bodies!Depth(c, i) = Bodies!Depth(b, i)
      /\ \A i \in 1 .. Len(b) : \A j \in 1 .. Len(b) :
           Bodies!InBlockOf(c, i, j) <=> Bodies!InBlockOf(b, i, j)
  BY AgainIs
<1>3. WalkInv(c) /\ \A r \in Bodies!Walk(c) : Straight(c, r) /\ Ended(c, r)
  BY DEF SecondRuns
<1>4. Storage!WritesAgain(b) <=> \E run \in Bodies!Runs(c) : \E n \in DOMAIN run : Storage!IsWrite(b[run[n]])
  BY StorageIsBodies DEF Storage!WritesAgain
<1>5. Storage!Has(b, Storage!IsWrite) <=> \E i \in DOMAIN b : Storage!IsWrite(b[i])
  BY DEF Storage!Has, Storage!Places
<1> HIDE DEF c
<1>6. \A i \in 1 .. Len(b) : Bodies!Depth(b, i) \in Int /\ Bodies!Depth(b, i) >= 0
  BY <1>1, DepthIs, OfIsFinite DEF WalkInv, WellNested
<1>7. \A i \in DOMAIN b : /\ c[i].does = b[i].does
                          /\ b[i].on = "has" => c[i].on = "true"
                          /\ b[i].on = "absent" => c[i].on = "false"
                          /\ b[i].on \notin {"has", "absent"} => c[i] = b[i]
  BY <1>1, <1>2, NowIs
\* A guard that holds on top of the body keeps every execution from a write.
<1>8. ASSUME NEW i \in DOMAIN b, NEW w \in DOMAIN b, Storage!IsGuard(b, i), Storage!IsWrite(b[w]), i < w,
             b[i].on \notin {"both", IF b[i].does = "assert" THEN "has" ELSE "absent"},
             ~(Bodies!Depth(b, i) > (IF b[i].does = "if" THEN 1 ELSE 0)),
             b[i].does = "if" => /\ \A j \in DOMAIN b : b[j].does = "assert" => ~Bodies!InBlockOf(b, i, j)
                                 /\ ~Bodies!InBlockOf(b, i, w),
             NEW r \in Bodies!Walk(c), Did(r, w)
      PROVE  FALSE
  <2>1. b[i].on \in {"has", "absent"} /\ b[i].does \in {"guard", "assert", "if"}
    BY <1>8 DEF Storage!IsGuard, Storage!IsCheck
  <2>2. i \in 1 .. Len(b) /\ w \in 1 .. Len(b) /\ i \in 1 .. w
    BY <1>1, <1>8
  <2>3. CASE b[i].does \in {"guard", "assert"}
    <3>1. Bodies!Depth(b, i) = 0
      BY <1>6, <1>8, <2>2, <2>3
    <3>2. Bodies!InBlockOf(c, i, w)
      BY <1>2, <2>2, <3>1, AtTheTop DEF WalkInv
    <3>3. Did(r, i)
      BY <1>2, <1>3, <1>7, <1>8, <2>2, <2>3, <3>2 DEF WalkInv, Dominated
    <3>4. Carried(c[i])
      BY <1>3, <3>3 DEF WalkInv, InOrder, Did
    <3> QED BY <1>7, <1>8, <2>1, <2>3, <3>4 DEF Carried
  <2>4. CASE b[i].does = "if"
    <3>1. PICK j \in (i + 1) .. Len(b) :
            b[j].does \in {"return", "assert"} /\ Bodies!Depth(b, j) = Bodies!Depth(b, i) /\ Bodies!InBlockOf(b, i, j)
      BY <1>8, <2>4, StorageIsBodies DEF Storage!IsGuard, Storage!Diverges
    <3>2. j \in 1 .. Len(b) /\ j \in i .. Len(b) /\ i \in 0 .. Len(b) /\ j \in 0 .. Len(b)
      BY <2>2
    <3>3. b[j].does = "return"
      BY <1>1, <1>8, <2>4, <3>1, <3>2
    <3>4. Bodies!Depth(b, i) = 1
      <4>1. i - 1 \in 0 .. Len(b) /\ Bodies!Depth(b, i) >= 1
        BY <2>2, <2>4, IfIsDeeper DEF WalkInv
      <4> QED BY <1>6, <1>8, <2>2, <2>4, <4>1
    <3>5. Entered(c, i) /\ Bodies!InBlockOf(c, i, j) /\ c[j].does = "return" /\ Bodies!Depth(c, j) = 1
      BY <1>1, <1>2, <1>7, <1>8, <2>1, <2>2, <2>4, <3>1, <3>2, <3>3, <3>4 DEF Entered
    <3>6. w < j
      BY <1>2, <1>3, <1>8, <2>2, <3>2, <3>5 DEF Ended
    <3>7. Bodies!InBlockOf(b, i, w)
      BY <2>2, <3>1, <3>2, <3>6, Shorter
    <3> QED BY <1>8, <2>4, <3>7
  <2> QED BY <2>1, <2>3, <2>4
<1>9. ASSUME Storage!WritesAgain(b), ~Storage!ReInitializationRisk(b)
      PROVE  \E i \in DOMAIN b :
               /\ Storage!IsGuard(b, i)
               /\ \/ b[i].on \in {"both", IF b[i].does = "assert" THEN "has" ELSE "absent"}
                  \/ Bodies!Depth(b, i) > (IF b[i].does = "if" THEN 1 ELSE 0)
                  \/ b[i].does = "if" /\ \E j \in DOMAIN b : b[j].does = "assert" /\ Bodies!InBlockOf(b, i, j)
                  \/ \E j \in DOMAIN b :
                       Storage!IsWrite(b[j]) /\ (j < i \/ (b[i].does = "if" /\ Bodies!InBlockOf(b, i, j)))
  <2>1. PICK run \in Bodies!Runs(c) : \E n \in DOMAIN run : Storage!IsWrite(b[run[n]])
    BY <1>4, <1>9
  <2>2. PICK n \in DOMAIN run : Storage!IsWrite(b[run[n]])
    BY <2>1
  <2>3. PICK r \in Bodies!Walk(c) : run = r.did
    BY DEF Bodies!Runs
  <2>4. run[n] \in DOMAIN b /\ Did(r, run[n])
    BY <1>1, <1>2, <1>3, <2>3 DEF WalkInv, InOrder, Did
  <2>5. PICK i \in DOMAIN b : Storage!IsGuard(b, i)
    BY <1>5, <1>9, <2>2, <2>4 DEF Storage!ReInitializationRisk
  <2>6. i # run[n] /\ i \in Nat /\ run[n] \in Nat
    BY <1>1, <2>2, <2>4, <2>5 DEF Storage!IsGuard, Storage!IsWrite
  <2> QED BY <1>8, <2>2, <2>4, <2>5, <2>6
<1>10. ASSUME Storage!ReInitializationRisk(b),
              ~\E i \in DOMAIN b : b[i].does = "if" /\ Storage!IsCheck(b[i])
       PROVE  Storage!WritesAgain(b)
  <2>1. PICK w \in DOMAIN b : Storage!IsWrite(b[w])
    BY <1>5, <1>10 DEF Storage!ReInitializationRisk
  <2>2. \A i \in DOMAIN b : b[i].on \notin {"has", "absent", "both"}
    BY <1>1, <1>10, InitWords DEF Storage!ReInitializationRisk, Storage!IsGuard, Storage!IsCheck
  <2>3. c = b
    <3>1. \A i \in 1 .. Len(b) : c[i] = b[i]
      BY <1>1, <1>7, <2>2
    <3> QED BY <1>1, <1>2, <3>1
  <2>4. Plain(b[w])
    BY <2>1 DEF Storage!IsWrite, Plain
  <2>5. PICK run \in Bodies!Runs(b) : \E n \in DOMAIN run : run[n] = w
    BY <1>1, <2>4, PlainIsRun
  <2> QED BY <1>4, <2>1, <2>3, <2>5
<1> QED BY <1>9, <1>10, StorageIsBodies DEF Storage!InitFindings

\* re-initialization-risk, for bodies of any length and depth: an initializer
\* that an execution writes with a second time is reported, unless its check of
\* storage is of no use in one of the ways named; and a report means a second
\* write, unless a check stands before a block.
THEOREM SecondInitializationsAreFound == ChecksSpec => []InitFindings
<1>1. BodyInv /\ AgainInv => InitFindings
  <2> SUFFICES ASSUME BodyInv, AgainInv, check = "init" PROVE Storage!InitFindings(statements)
    BY DEF InitFindings
  <2>1. check \in DOMAIN Vocabulary
    BY DEF Vocabulary
  <2> QED BY <2>1, InitOfBody DEF BodyInv, AgainInv
<1> QED BY <1>1, BodiesAreWalked, AgainIsWalked, PTL
=============================================================================
