---------------------------- MODULE MethodProofs ----------------------------
(***************************************************************************)
(* Proofs about the checks that look a finished body over: for bodies of   *)
(* any length and depth, what they report is what executions do.           *)
(***************************************************************************)
EXTENDS MCBodyChecks, TLAPS, SequenceTheorems, FiniteSetTheorems, WellFoundedInduction

-----------------------------------------------------------------------------
(* Positions and lines *)

\* The order of the numbers, and that nothing descends in it forever.
Below == {ss \in Nat \X Nat : ss[1] < ss[2]}

LEMMA BelowIsWellFounded == IsWellFoundedOn(Below, Nat)
  BY NatLessThanWellFounded, Zenon DEF OpToRel, Below

\* A set of numbers with anything in it has a least one.
LEMMA Least ==
  ASSUME NEW S, S \subseteq Nat, S # {}
  PROVE  \E x \in S : \A y \in S : x <= y
<1>1. PICK x \in S : \A y \in S : ~ (<<y, x>> \in Below)
  BY BelowIsWellFounded, WFMin, Zenon
<1>2. ASSUME NEW y \in S PROVE x <= y
  <2>1. x \in Nat /\ y \in Nat
    OBVIOUS
  <2>2. y < x => <<y, x>> \in Below
    BY <2>1 DEF Below
  <2> QED BY <1>1, <2>1, <2>2
<1> QED BY <1>2

\* The lines of a body are counted by the statements that start one.
Starts(b, i) == {j \in 1 .. i : b[j].fresh}

LEMMA StartsAreFinite ==
  ASSUME NEW b, NEW i \in Nat
  PROVE  IsFiniteSet(Starts(b, i)) /\ Cardinality(Starts(b, i)) \in Nat
<1>1. IsFiniteSet(1 .. i)
  BY FS_Interval
<1>2. Starts(b, i) \in SUBSET (1 .. i)
  BY DEF Starts
<1> QED BY <1>1, <1>2, FS_Subset, FS_CardinalityType

LEMMA LinesGrow ==
  ASSUME NEW b, NEW i \in Nat, NEW j \in Nat, i <= j
  PROVE  /\ Cardinality(Starts(b, i)) <= Cardinality(Starts(b, j))
         /\ Cardinality(Starts(b, i)) = Cardinality(Starts(b, j)) =>
              \A k \in (i + 1) .. j : ~b[k].fresh
<1>1. Starts(b, i) \in SUBSET Starts(b, j)
  BY DEF Starts
<1>2. IsFiniteSet(Starts(b, j))
  BY StartsAreFinite
<1>3. Starts(b, i) = Starts(b, j) => \A k \in (i + 1) .. j : ~b[k].fresh
  <2> SUFFICES ASSUME Starts(b, i) = Starts(b, j), NEW k \in (i + 1) .. j, b[k].fresh
               PROVE  FALSE
    OBVIOUS
  <2>1. k \in Starts(b, j) /\ k \notin Starts(b, i)
    BY DEF Starts
  <2> QED BY <2>1
<1> QED BY <1>1, <1>2, <1>3, FS_Subset

-----------------------------------------------------------------------------
(* Executions, statement by statement *)

Advanced(rs, b, i) == UNION {Bodies!Advance(r, b[i], i) : r \in rs}
WalksOf(b, h) ==
  [i \in 0 .. Len(b) |-> IF i = 0 THEN {Bodies!Start} ELSE Advanced(h[i - 1], b, i)]

\* The function says it up to the n-th statement.
Follows(g, b, n) ==
  \A i \in 0 .. n : g[i] = IF i = 0 THEN {Bodies!Start} ELSE Advanced(g[i - 1], b, i)

\* There is one function that says where the executions are after each
\* statement: by induction over the statements.
LEMMA WalkIsUnique ==
  ASSUME NEW b, Len(b) \in Nat, NEW n \in 0 .. Len(b), NEW g, NEW h,
         Follows(g, b, n), Follows(h, b, n)
  PROVE  g[n] = h[n]
<1> DEFINE Differ == {i \in 0 .. n : g[i] # h[i]}
<1>1. ASSUME Differ # {} PROVE FALSE
  <2>1. PICK i \in Differ : \A j \in Differ : i <= j
    <3>1. Differ \subseteq Nat
      OBVIOUS
    <3> HIDE DEF Differ
    <3> QED BY <1>1, <3>1, Least
  <2>2. i \in 0 .. n /\ g[i] # h[i]
    OBVIOUS
  <2>3. i # 0
    BY <2>2 DEF Follows
  <2>4. i - 1 \in 0 .. n /\ ~(i <= i - 1)
    BY <2>2, <2>3
  <2>5. i - 1 \notin Differ
    <3> HIDE DEF Differ
    <3> QED BY <2>1, <2>4
  <2>6. g[i - 1] = h[i - 1]
    BY <2>4, <2>5
  <2> QED BY <2>2, <2>3, <2>6 DEF Follows
<1>2. n \in 0 .. n
  OBVIOUS
<1> QED BY <1>1, <1>2

LEMMA WalkIsDefined ==
  ASSUME NEW b, Len(b) \in Nat
  PROVE  \E h : h = WalksOf(b, h)
<1> DEFINE To(h, n) == h = [i \in 0 .. n |-> IF i = 0 THEN {Bodies!Start} ELSE Advanced(h[i - 1], b, i)]
           Lacking  == {n \in 0 .. Len(b) : ~\E h : To(h, n)}
<1>1. ASSUME Lacking # {} PROVE FALSE
  <2>1. PICK n \in Lacking : \A m \in Lacking : n <= m
    <3>1. Lacking \subseteq Nat
      OBVIOUS
    <3> HIDE DEF Lacking
    <3> QED BY <1>1, <3>1, Least
  <2>2. n \in 0 .. Len(b) /\ ~\E h : To(h, n)
    OBVIOUS
  <2>3. CASE n = 0
    <3> DEFINE h == [i \in 0 .. 0 |-> {Bodies!Start}]
    <3>1. To(h, 0)
      OBVIOUS
    <3> QED BY <2>2, <2>3, <3>1
  <2>4. CASE n # 0
    <3>1. n - 1 \in 0 .. Len(b) /\ ~(n <= n - 1)
      BY <2>2, <2>4
    <3>2. n - 1 \notin Lacking
      <4> HIDE DEF Lacking
      <4> QED BY <2>1, <3>1
    <3>3. PICK k : To(k, n - 1)
      BY <3>1, <3>2
    <3> DEFINE h == [i \in 0 .. n |-> IF i = n THEN Advanced(k[n - 1], b, n) ELSE k[i]]
    <3>4. ASSUME NEW i \in 0 .. n
          PROVE  h[i] = IF i = 0 THEN {Bodies!Start} ELSE Advanced(h[i - 1], b, i)
      <4>1. CASE i = n
        <5>1. h[i] = Advanced(k[n - 1], b, n) /\ h[n - 1] = k[n - 1]
          BY <4>1, <2>2, <2>4
        <5> QED BY <4>1, <5>1, <2>4
      <4>2. CASE i # n
        <5>1. i \in 0 .. (n - 1)
          BY <4>2, <2>2
        <5>2. h[i] = k[i] /\ (i # 0 => h[i - 1] = k[i - 1])
          BY <5>1, <4>2, <2>2
        <5>3. k[i] = IF i = 0 THEN {Bodies!Start} ELSE Advanced(k[i - 1], b, i)
          BY <3>3, <5>1
        <5> QED BY <5>2, <5>3
      <4> QED BY <4>1, <4>2
    <3>5. h = [i \in 0 .. n |-> h[i]]
      OBVIOUS
    <3> HIDE DEF h
    <3>6. To(h, n)
      BY <3>4, <3>5
    <3> QED BY <2>2, <3>6
  <2> QED BY <2>3, <2>4
<1>2. Len(b) \in 0 .. Len(b)
  OBVIOUS
<1>3. PICK h : To(h, Len(b))
  BY <1>1, <1>2
<1>4. h = WalksOf(b, h)
  BY <1>3 DEF WalksOf
<1> QED BY <1>4

\* Where the executions are: any function that satisfies the equation says it.
LEMMA WalkIs ==
  ASSUME NEW b, Len(b) \in Nat
  PROVE  \E h : h = WalksOf(b, h) /\ Bodies!Walk(b) = h[Len(b)]
<1> DEFINE At == CHOOSE h : h = [i \in 0 .. Len(b) |->
             IF i = 0 THEN {Bodies!Start} ELSE UNION {Bodies!Advance(r, b[i], i) : r \in h[i - 1]}]
<1>1. Bodies!Walk(b) = At[Len(b)]
  BY Zenon DEF Bodies!Walk
<1>2. At = CHOOSE h : h = WalksOf(b, h)
  BY DEF WalksOf, Advanced
<1> HIDE DEF At
<1>3. At = WalksOf(b, At)
  BY <1>2, WalkIsDefined, Zenon
<1> QED BY <1>1, <1>3

\* Before the first statement, and after one more.
LEMMA WalkStarts == Bodies!Walk(<<>>) = {Bodies!Start}
<1>1. Len(<<>>) = 0
  OBVIOUS
<1>2. PICK h : h = WalksOf(<<>>, h) /\ Bodies!Walk(<<>>) = h[0]
  BY <1>1, WalkIs
<1>3. h[0] = {Bodies!Start}
  BY <1>1, <1>2 DEF WalksOf
<1> QED BY <1>2, <1>3

LEMMA WalkStep ==
  ASSUME NEW S, NEW b \in Seq(S), NEW s \in S
  PROVE  \A x : x \in Bodies!Walk(Append(b, s)) <=>
           \E r \in Bodies!Walk(b) : x \in Bodies!Advance(r, s, Len(b) + 1)
<1> DEFINE c == Append(b, s)  n == Len(b)
<1>1. n \in Nat /\ Len(c) = n + 1 /\ c[n + 1] = s /\ \A i \in 1 .. n : c[i] = b[i]
  OBVIOUS
<1> HIDE DEF c, n
<1>2. PICK g : g = WalksOf(c, g) /\ Bodies!Walk(c) = g[n + 1]
  BY <1>1, WalkIs
<1>3. PICK h : h = WalksOf(b, h) /\ Bodies!Walk(b) = h[n]
  BY <1>1, WalkIs DEF n
<1>4. Follows(h, b, n)
  BY <1>3 DEF WalksOf, Follows, n
<1>5. ASSUME NEW i \in 0 .. n
      PROVE  g[i] = IF i = 0 THEN {Bodies!Start} ELSE Advanced(g[i - 1], b, i)
  <2>1. i \in 0 .. Len(c)
    BY <1>1
  <2>2. g[i] = IF i = 0 THEN {Bodies!Start} ELSE Advanced(g[i - 1], c, i)
    BY <2>1, <1>2 DEF WalksOf
  <2>3. i # 0 => c[i] = b[i]
    BY <1>1
  <2> QED BY <2>2, <2>3 DEF Advanced
<1>6. g[n] = h[n]
  <2>1. n = Len(b) /\ Len(b) \in Nat /\ n \in 0 .. Len(b)
    BY <1>1 DEF n
  <2>2. Follows(g, b, n)
    BY <1>5 DEF Follows
  <2> QED BY <1>4, <2>1, <2>2, WalkIsUnique
<1>7. g[n + 1] = Advanced(g[n], c, n + 1)
  <2>1. n + 1 \in 0 .. Len(c) /\ n + 1 # 0 /\ (n + 1) - 1 = n
    BY <1>1
  <2>2. g[n + 1] = Advanced(g[(n + 1) - 1], c, n + 1)
    BY <2>1, <1>2 DEF WalksOf
  <2> QED BY <2>1, <2>2
<1>8. Bodies!Walk(c) = UNION {Bodies!Advance(r, s, n + 1) : r \in Bodies!Walk(b)}
  BY <1>1, <1>2, <1>3, <1>6, <1>7 DEF Advanced
<1>9. \A x : x \in Bodies!Walk(c) <=> \E r \in Bodies!Walk(b) : x \in Bodies!Advance(r, s, n + 1)
  <2> HIDE DEF c
  <2> QED BY <1>8, Zenon
<1> QED BY <1>9 DEF c, n

-----------------------------------------------------------------------------
(* What one statement does to an execution *)

States == [did : Seq(Nat), depth : Int, skip : Int, over : BOOLEAN]

\* Statements that every execution carries out that gets to them, and those
\* that can end one.
Plain(s) == s.does \notin {"if", "else", "end", "return", "guard", "assert"}
Exits(s) == s.does \in {"return", "guard"}
Nests(s) == IF s.does = "if" THEN 1 ELSE IF s.does = "end" THEN -1 ELSE 0

\* What an execution can have carried out.
Carried(s) ==
  /\ s.does \notin {"else", "end", "return"}
  /\ s.does = "if" => s.on # "false"
  /\ s.does = "guard" => s.on # "true"
  /\ s.does = "assert" => s.on # "false"

LEMMA AdvanceStep ==
  ASSUME NEW r \in States, NEW s, NEW i \in Nat, NEW x \in Bodies!Advance(r, s, i)
  PROVE  /\ x \in States
         /\ x.did = r.did \/ (Bodies!Live(r) /\ Carried(s) /\ x.did = Append(r.did, i))
         /\ Plain(s) => /\ x.did = IF Bodies!Live(r) THEN Append(r.did, i) ELSE r.did
                        /\ x.over = r.over
         /\ x.depth = r.depth + Nests(s)
         /\ x.over => r.over \/ Exits(s)
         /\ r.over => x.over
         /\ r.skip # 0 /\ x.skip # r.skip => s.does \in {"else", "end"} /\ r.skip = r.depth
         /\ s.does \notin {"else", "end"} => x.skip = r.skip \/ (s.does = "if" /\ x.skip = r.depth + 1)
         /\ Bodies!Live(r) /\ s.does \notin {"else", "end"} =>
              x.did = Append(r.did, i) \/ x.over \/ (s.does = "if" /\ x.skip = r.depth + 1)
         /\ r.skip \in 0 .. r.depth /\ (s.does \in {"else", "end"} => r.depth > 0) =>
              x.skip \in 0 .. x.depth
<1> USE DEF Bodies!Live, Plain, Exits, Nests, Carried
<1>1. Append(r.did, i) \in Seq(Nat) /\ r.did \in Seq(Nat) /\ r.depth \in Int /\ r.skip \in Int
      /\ r.over \in BOOLEAN
  BY DEF States
<1>2. /\ Bodies!Does(r, i) \in States
      /\ Bodies!Leaves(r) \in States
      /\ Bodies!Takes(r, i) \in States
      /\ Bodies!Skips(r, i) \in States
  <2>1. Bodies!Does(r, i) \in States
    BY <1>1 DEF Bodies!Does, States
  <2>2. Bodies!Leaves(r) \in States
    BY <1>1 DEF Bodies!Leaves, States
  <2>3. Bodies!Takes(r, i) \in States
    <3> DEFINE d == r.depth + 1
               l == IF Bodies!Live(r) THEN Append(r.did, i) ELSE r.did
    <3>1. d \in Int /\ l \in Seq(Nat)
      BY <1>1
    <3>2. Bodies!Takes(r, i) = [r EXCEPT !.depth = d, !.did = l]
      BY Zenon DEF Bodies!Takes
    <3> HIDE DEF d, l
    <3> QED BY <3>1, <3>2 DEF States
  <2>4. Bodies!Skips(r, i) \in States
    <3> DEFINE d == r.depth + 1
               k == IF Bodies!Live(r) THEN r.depth + 1 ELSE r.skip
    <3>1. d \in Int /\ k \in Int
      BY <1>1
    <3>2. Bodies!Skips(r, i) = [r EXCEPT !.depth = d, !.skip = k]
      BY Zenon DEF Bodies!Skips
    <3> HIDE DEF d, k
    <3> QED BY <3>1, <3>2 DEF States
  <2> QED BY <2>1, <2>2, <2>3, <2>4
<1>3. CASE s.does = "if"
  <2>1. x = Bodies!Skips(r, i) \/ (x = Bodies!Takes(r, i) /\ s.on # "false")
    BY <1>3 DEF Bodies!Advance
  <2>2. CASE x = Bodies!Skips(r, i)
    <3> DEFINE d == r.depth + 1
               k == IF Bodies!Live(r) THEN r.depth + 1 ELSE r.skip
    <3>1. Bodies!Skips(r, i) = [r EXCEPT !.depth = d, !.skip = k]
      BY Zenon DEF Bodies!Skips
    <3> HIDE DEF d, k
    <3>2. x \in States /\ x.did = r.did /\ x.depth = d /\ x.skip = k /\ x.over = r.over
      BY <1>2, <2>2, <3>1 DEF States
    <3>3. d = r.depth + 1 /\ k = IF Bodies!Live(r) THEN r.depth + 1 ELSE r.skip
      BY DEF d, k
    <3> QED BY <1>1, <1>3, <3>2, <3>3
  <2>3. CASE x = Bodies!Takes(r, i) /\ s.on # "false"
    <3>1. /\ x \in States /\ x.skip = r.skip /\ x.depth = r.depth + 1 /\ x.over = r.over
          /\ x.did = IF Bodies!Live(r) THEN Append(r.did, i) ELSE r.did
      BY <1>2, <2>3 DEF Bodies!Takes, States
    <3> QED BY <1>1, <1>3, <2>3, <3>1
  <2> QED BY <2>1, <2>2, <2>3
<1>4. CASE s.does = "else"
  <2>1. x = [r EXCEPT !.skip = IF @ = r.depth THEN 0 ELSE IF Bodies!Live(r) THEN r.depth ELSE @]
    BY <1>4 DEF Bodies!Advance
  <2> DEFINE k == IF r.skip = r.depth THEN 0 ELSE IF Bodies!Live(r) THEN r.depth ELSE r.skip
  <2>2. k \in Int
    BY <1>1
  <2>3. x = [r EXCEPT !.skip = k]
    BY <2>1, Zenon
  <2> HIDE DEF k
  <2>4. x \in States /\ x.did = r.did /\ x.depth = r.depth /\ x.skip = k /\ x.over = r.over
    BY <2>2, <2>3 DEF States
  <2>5. k = IF r.skip = r.depth THEN 0 ELSE IF Bodies!Live(r) THEN r.depth ELSE r.skip
    BY DEF k
  <2> QED BY <1>1, <1>4, <2>4, <2>5
<1>5. CASE s.does = "end"
  <2>1. x = [r EXCEPT !.depth = @ - 1, !.skip = IF @ = r.depth THEN 0 ELSE @]
    BY <1>5 DEF Bodies!Advance
  <2> DEFINE d == r.depth - 1
             k == IF r.skip = r.depth THEN 0 ELSE r.skip
  <2>2. d \in Int /\ k \in Int
    BY <1>1
  <2>3. x = [r EXCEPT !.depth = d, !.skip = k]
    BY <2>1, Zenon
  <2> HIDE DEF d, k
  <2>4. x \in States /\ x.did = r.did /\ x.depth = d /\ x.skip = k /\ x.over = r.over
    BY <2>2, <2>3 DEF States
  <2>5. d = r.depth - 1 /\ k = IF r.skip = r.depth THEN 0 ELSE r.skip
    BY DEF d, k
  <2> QED BY <1>1, <1>5, <2>4, <2>5
<1>6. CASE s.does \in {"return", "guard", "assert"}
  <2>1. \/ x = Bodies!Leaves(r) /\ s.does # "assert"
        \/ x = Bodies!Does(r, i) /\ (Bodies!Live(r) => Carried(s))
    BY <1>6 DEF Bodies!Advance
  <2>2. CASE x = Bodies!Leaves(r) /\ s.does # "assert"
    <3> DEFINE o == r.over \/ Bodies!Live(r)
    <3>1. Bodies!Leaves(r) = [r EXCEPT !.over = o]
      BY Zenon DEF Bodies!Leaves
    <3>2. o <=> r.over \/ Bodies!Live(r)
      OBVIOUS
    <3> HIDE DEF o
    <3>3. x \in States /\ x.did = r.did /\ x.depth = r.depth /\ x.skip = r.skip /\ (x.over <=> o)
      BY <1>2, <2>2, <3>1 DEF States
    <3> QED BY <1>1, <1>6, <2>2, <3>2, <3>3
  <2>3. CASE x = Bodies!Does(r, i) /\ (Bodies!Live(r) => Carried(s))
    <3>1. /\ x \in States /\ x.skip = r.skip /\ x.depth = r.depth /\ x.over = r.over
          /\ x.did = IF Bodies!Live(r) THEN Append(r.did, i) ELSE r.did
      BY <1>2, <2>3 DEF Bodies!Does, States
    <3> QED BY <1>1, <1>6, <2>3, <3>1
  <2> QED BY <2>1, <2>2, <2>3
<1>7. CASE Plain(s)
  <2>1. x = Bodies!Does(r, i)
    BY <1>7 DEF Bodies!Advance
  <2>2. /\ x \in States /\ x.skip = r.skip /\ x.depth = r.depth /\ x.over = r.over
        /\ x.did = IF Bodies!Live(r) THEN Append(r.did, i) ELSE r.did
    BY <1>2, <2>1 DEF Bodies!Does, States
  <2> QED BY <1>1, <1>7, <2>2
<1> QED BY <1>3, <1>4, <1>5, <1>6, <1>7

\* No execution is lost, unless an assertion is known to fail.
LEMMA AdvanceGoesOn ==
  ASSUME NEW r, NEW s, NEW i, s.does = "assert" => s.on # "false"
  PROVE  Bodies!Advance(r, s, i) # {}
<1>1. CASE s.does = "if"
  <2>1. CASE s.on # "true"
    <3>1. Bodies!Skips(r, i) \in Bodies!Advance(r, s, i)
      BY <1>1, <2>1 DEF Bodies!Advance
    <3> QED BY <3>1
  <2>2. CASE s.on = "true"
    <3>1. Bodies!Takes(r, i) \in Bodies!Advance(r, s, i)
      BY <1>1, <2>2 DEF Bodies!Advance
    <3> QED BY <3>1
  <2> QED BY <2>1, <2>2
<1>2. CASE s.does = "guard"
  <2>1. CASE s.on # "true"
    <3>1. Bodies!Does(r, i) \in Bodies!Advance(r, s, i)
      BY <1>2, <2>1 DEF Bodies!Advance
    <3> QED BY <3>1
  <2>2. CASE s.on = "true"
    <3>1. Bodies!Leaves(r) \in Bodies!Advance(r, s, i)
      BY <1>2, <2>2 DEF Bodies!Advance
    <3> QED BY <3>1
  <2> QED BY <2>1, <2>2
<1>3. CASE s.does = "assert"
  <2>1. Bodies!Does(r, i) \in Bodies!Advance(r, s, i)
    BY <1>3 DEF Bodies!Advance
  <2> QED BY <2>1
<1>4. CASE s.does \notin {"if", "guard", "assert"}
  BY <1>4 DEF Bodies!Advance
<1> QED BY <1>1, <1>2, <1>3, <1>4

-----------------------------------------------------------------------------
(* Depth *)

Of(b, i, what) == {j \in 1 .. i : b[j].does = what}

LEMMA OfIsFinite ==
  ASSUME NEW b, NEW i \in Nat, NEW what
  PROVE  IsFiniteSet(Of(b, i, what)) /\ Cardinality(Of(b, i, what)) \in Nat
<1>1. IsFiniteSet(1 .. i)
  BY FS_Interval
<1>2. Of(b, i, what) \in SUBSET (1 .. i)
  BY DEF Of
<1> QED BY <1>1, <1>2, FS_Subset, FS_CardinalityType

LEMMA DepthIs ==
  ASSUME NEW b, NEW i
  PROVE  Bodies!Depth(b, i) = Cardinality(Of(b, i, "if")) - Cardinality(Of(b, i, "end"))
<1>1. \A T : Bodies!Cardinality(T) = Cardinality(T)
  BY Zenon DEF Bodies!Cardinality, Cardinality
<1> QED BY <1>1, Zenon DEF Bodies!Depth, Bodies!Quantify, Of

LEMMA DepthStep ==
  ASSUME NEW S, NEW b \in Seq(S), NEW s \in S
  PROVE  /\ \A i \in 0 .. Len(b) : Bodies!Depth(b, i) \in Int
         /\ \A i \in 0 .. Len(b) : Bodies!Depth(Append(b, s), i) = Bodies!Depth(b, i)
         /\ Bodies!Depth(Append(b, s), Len(b) + 1) = Bodies!Depth(b, Len(b)) + Nests(s)
<1> DEFINE c == Append(b, s)  n == Len(b)
<1>1. n \in Nat /\ Len(c) = n + 1 /\ c[n + 1] = s /\ \A i \in 1 .. n : c[i] = b[i]
  OBVIOUS
<1> HIDE DEF c, n
<1>2. \A i \in 0 .. n : Bodies!Depth(b, i) \in Int
  BY <1>1, OfIsFinite, DepthIs
<1>3. \A what : \A i \in 0 .. n : Of(c, i, what) = Of(b, i, what)
  BY <1>1 DEF Of
<1>4. \A i \in 0 .. n : Bodies!Depth(c, i) = Bodies!Depth(b, i)
  BY <1>3, DepthIs
<1>5. ASSUME NEW what
      PROVE  Cardinality(Of(c, n + 1, what)) =
               Cardinality(Of(b, n, what)) + (IF s.does = what THEN 1 ELSE 0)
  <2>1. n + 1 \notin Of(b, n, what)
    BY <1>1 DEF Of
  <2>2. IsFiniteSet(Of(b, n, what)) /\ Cardinality(Of(b, n, what)) \in Nat
    BY <1>1, OfIsFinite
  <2>3. CASE s.does = what
    <3>1. Of(c, n + 1, what) = Of(b, n, what) \cup {n + 1}
      BY <1>1, <2>3 DEF Of
    <3> QED BY <2>1, <2>2, <2>3, <3>1, FS_AddElement
  <2>4. CASE s.does # what
    <3>1. Of(c, n + 1, what) = Of(b, n, what)
      BY <1>1, <2>4 DEF Of
    <3> QED BY <2>2, <2>4, <3>1
  <2> QED BY <2>3, <2>4
<1>6. Bodies!Depth(c, n + 1) = Bodies!Depth(b, n) + Nests(s)
  <2>1. /\ Cardinality(Of(b, n, "if")) \in Nat /\ Cardinality(Of(b, n, "end")) \in Nat
    BY <1>1, OfIsFinite
  <2>2. /\ Cardinality(Of(c, n + 1, "if")) = Cardinality(Of(b, n, "if")) + (IF s.does = "if" THEN 1 ELSE 0)
        /\ Cardinality(Of(c, n + 1, "end")) = Cardinality(Of(b, n, "end")) + (IF s.does = "end" THEN 1 ELSE 0)
    BY <1>5
  <2>3. /\ Bodies!Depth(c, n + 1) = Cardinality(Of(c, n + 1, "if")) - Cardinality(Of(c, n + 1, "end"))
        /\ Bodies!Depth(b, n) = Cardinality(Of(b, n, "if")) - Cardinality(Of(b, n, "end"))
    BY DepthIs
  <2> QED BY <2>1, <2>2, <2>3 DEF Nests
<1> QED BY <1>2, <1>4, <1>6 DEF c, n

-----------------------------------------------------------------------------
(* What holds of the executions of a body *)

Did(r, a)          == \E n \in DOMAIN r.did : r.did[n] = a
ExitedBefore(b, a) == \E j \in 1 .. a : Exits(b[j])

\* An `else` is one of an `if`, and no block ends before it begins.
WellNested(b) ==
  \A k \in 1 .. Len(b) :
    Bodies!Depth(b, k) >= 0 /\ (b[k].does = "else" => Bodies!Depth(b, k) > 0)

\* It did what it did in order, and is where the body is.
InOrder(b, r) ==
  /\ r \in States
  /\ \A n \in DOMAIN r.did : r.did[n] \in 1 .. Len(b) /\ Carried(b[r.did[n]])
  /\ \A m, n \in DOMAIN r.did : m < n => r.did[m] < r.did[n]
  /\ r.depth = Bodies!Depth(b, Len(b)) /\ r.skip \in 0 .. r.depth
  /\ r.over => ExitedBefore(b, Len(b))

\* In a block it came into, or past the one that began the block, it did what
\* is above; if it did not, it is over, or skips that block or one around it.
Passed(b, r) ==
  \A j \in 1 .. Len(b) :
    b[j].does \notin {"else", "end"} /\ Bodies!InBlockOf(b, j, Len(b)) =>
      Did(r, j) \/ r.over \/ r.skip \in 1 .. Bodies!Depth(b, j)

\* So whatever it did, it did after everything above in the blocks around it.
Dominated(b, r) ==
  \A i \in 1 .. Len(b) : Did(r, i) =>
    \A j \in 1 .. i :
      b[j].does \notin {"else", "end"} /\ Bodies!InBlockOf(b, j, i) => Did(r, j)

\* What is in no block is skipped by nobody.
Complete(b, r) ==
  \A a \in 1 .. Len(b) :
    Plain(b[a]) /\ Bodies!Depth(b, a) = 0 => Did(r, a) \/ ExitedBefore(b, a)

WalkInv(b) ==
  /\ WellNested(b)
  /\ \A r \in Bodies!Walk(b) : InOrder(b, r) /\ Passed(b, r) /\ Dominated(b, r) /\ Complete(b, r)

\* There is no dead code: some execution does it.
Reached(b) ==
  \A a \in 1 .. Len(b) : Plain(b[a]) => \E r \in Bodies!Walk(b) : Did(r, a)

LEMMA WalkInvStarts == WalkInv(<<>>) /\ Reached(<<>>)
<1>1. Len(<<>>) = 0
  OBVIOUS
<1>2. Bodies!Depth(<<>>, 0) = 0
  <2>1. \A what : Of(<<>>, 0, what) = {}
    BY DEF Of
  <2>2. Bodies!Depth(<<>>, 0) = Cardinality({}) - Cardinality({})
    BY <2>1, DepthIs
  <2> QED BY <2>2, FS_EmptySet
<1>3. ASSUME NEW r \in Bodies!Walk(<<>>)
      PROVE  InOrder(<<>>, r)
  <2>1. r = [did |-> <<>>, depth |-> 0, skip |-> 0, over |-> FALSE]
    BY WalkStarts DEF Bodies!Start
  <2>2. r \in States
    BY <2>1 DEF States
  <2> QED BY <1>1, <1>2, <2>1, <2>2 DEF InOrder
<1> QED BY <1>1, <1>3 DEF WalkInv, WellNested, Passed, Dominated, Complete, Reached

\* A body and one more statement
LEMMA OneMoreStatement ==
  ASSUME NEW S, NEW b \in Seq(S), NEW s \in S
  PROVE  LET c == Append(b, s)  n == Len(b) IN
         /\ n \in Nat /\ Len(c) = n + 1 /\ c[n + 1] = s /\ \A i \in 1 .. n : c[i] = b[i]
         /\ \A i \in 0 .. n : Bodies!Depth(b, i) \in Int /\ Bodies!Depth(c, i) = Bodies!Depth(b, i)
         /\ Bodies!Depth(c, n + 1) = Bodies!Depth(b, n) + Nests(s)
         /\ \A j, i \in 1 .. n : Bodies!InBlockOf(c, j, i) <=> Bodies!InBlockOf(b, j, i)
         /\ \A j \in 1 .. n : Bodies!InBlockOf(c, j, n + 1) =>
              /\ Bodies!InBlockOf(b, j, n)
              /\ Bodies!Depth(c, n + 1) >= Bodies!Depth(b, j)
              /\ s.does = "else" => Bodies!Depth(c, n + 1) > Bodies!Depth(b, j)
<1> DEFINE c == Append(b, s)  n == Len(b)
<1>1. n \in Nat /\ Len(c) = n + 1 /\ c[n + 1] = s /\ \A i \in 1 .. n : c[i] = b[i]
  OBVIOUS
<1>2. /\ \A i \in 0 .. n : Bodies!Depth(b, i) \in Int /\ Bodies!Depth(c, i) = Bodies!Depth(b, i)
      /\ Bodies!Depth(c, n + 1) = Bodies!Depth(b, n) + Nests(s)
  BY DepthStep
<1> HIDE DEF c, n
<1>3. \A j, i \in 1 .. n : Bodies!InBlockOf(c, j, i) <=> Bodies!InBlockOf(b, j, i)
  <2> SUFFICES ASSUME NEW j \in 1 .. n, NEW i \in 1 .. n
               PROVE  Bodies!InBlockOf(c, j, i) <=> Bodies!InBlockOf(b, j, i)
    OBVIOUS
  <2>1. \A k \in j .. i : k \in 1 .. n /\ k \in 0 .. n /\ j \in 0 .. n
    BY <1>1
  <2>2. \A k \in j .. i : c[k] = b[k] /\ Bodies!Depth(c, k) = Bodies!Depth(b, k)
    BY <1>1, <1>2, <2>1
  <2>3. Bodies!Depth(c, j) = Bodies!Depth(b, j)
    BY <1>1, <1>2
  <2> QED BY <2>2, <2>3 DEF Bodies!InBlockOf
<1>4. ASSUME NEW j \in 1 .. n, Bodies!InBlockOf(c, j, n + 1)
      PROVE  /\ Bodies!InBlockOf(b, j, n)
             /\ Bodies!Depth(c, n + 1) >= Bodies!Depth(b, j)
             /\ s.does = "else" => Bodies!Depth(c, n + 1) > Bodies!Depth(b, j)
  <2>1. n + 1 \in j .. (n + 1) /\ \A k \in j .. n : k \in j .. (n + 1)
    BY <1>1
  <2>2. Bodies!Depth(c, j) = Bodies!Depth(b, j)
    BY <1>1, <1>2
  <2>3. Bodies!InBlockOf(c, j, n)
    BY <1>4, <2>1 DEF Bodies!InBlockOf
  <2>4. n \in 1 .. n
    BY <1>1
  <2>5. Bodies!InBlockOf(b, j, n)
    BY <1>3, <2>3, <2>4
  <2>6. /\ Bodies!Depth(c, n + 1) >= Bodies!Depth(c, j)
        /\ c[n + 1].does = "else" => Bodies!Depth(c, n + 1) > Bodies!Depth(c, j)
    BY <1>4, <2>1 DEF Bodies!InBlockOf
  <2> QED BY <1>1, <2>2, <2>5, <2>6
<1> QED BY <1>1, <1>2, <1>3, <1>4 DEF c, n

\* After one more statement, an execution has done what it had, and perhaps that
\* statement.
LEMMA DidStep ==
  ASSUME NEW r \in States, NEW x \in States, NEW i \in Nat,
         x.did = r.did \/ (Bodies!Live(r) /\ x.did = Append(r.did, i))
  PROVE  /\ \A a : Did(r, a) => Did(x, a)
         /\ \A a : Did(x, a) => Did(r, a) \/ (a = i /\ Bodies!Live(r))
         /\ x.did = Append(r.did, i) => Did(x, i)
<1>1. r.did \in Seq(Nat)
  BY DEF States
<1>2. CASE x.did = r.did /\ x.did # Append(r.did, i)
  BY <1>2 DEF Did
<1>3. CASE x.did = Append(r.did, i) /\ Bodies!Live(r)
  <2> DEFINE n == Len(r.did)
  <2>1. n \in Nat /\ DOMAIN r.did = 1 .. n /\ DOMAIN x.did = 1 .. (n + 1)
    BY <1>1, <1>3
  <2>2. x.did[n + 1] = i /\ \A m \in 1 .. n : x.did[m] = r.did[m]
    BY <1>1, <1>3
  <2> HIDE DEF n
  <2>3. \A m \in 1 .. (n + 1) : m \in 1 .. n \/ m = n + 1
    BY <2>1
  <2>4. (\A m \in 1 .. n : m \in 1 .. (n + 1)) /\ n + 1 \in 1 .. (n + 1)
    BY <2>1
  <2> QED BY <1>3, <2>1, <2>2, <2>3, <2>4 DEF Did
<1> QED BY <1>2, <1>3, <1>1

LEMMA WalkInvStep ==
  ASSUME NEW S, NEW b \in Seq(S), NEW s \in S, WalkInv(b),
         s.does \in {"else", "end"} => Bodies!Depth(b, Len(b)) > 0
  PROVE  WalkInv(Append(b, s))
<1> DEFINE c == Append(b, s)  n == Len(b)
<1>1. n \in Nat /\ Len(c) = n + 1 /\ c[n + 1] = s /\ \A i \in 1 .. n : c[i] = b[i]
  BY OneMoreStatement
<1>2. /\ \A i \in 0 .. n : Bodies!Depth(b, i) \in Int /\ Bodies!Depth(c, i) = Bodies!Depth(b, i)
      /\ Bodies!Depth(c, n + 1) = Bodies!Depth(b, n) + Nests(s)
  BY OneMoreStatement
<1>3. \A j, i \in 1 .. n : Bodies!InBlockOf(c, j, i) <=> Bodies!InBlockOf(b, j, i)
  BY OneMoreStatement
<1>4. \A j \in 1 .. n : Bodies!InBlockOf(c, j, n + 1) =>
        /\ Bodies!InBlockOf(b, j, n)
        /\ Bodies!Depth(c, n + 1) >= Bodies!Depth(b, j)
        /\ s.does = "else" => Bodies!Depth(c, n + 1) > Bodies!Depth(b, j)
  BY OneMoreStatement
<1>5. \A x : x \in Bodies!Walk(c) <=> \E r \in Bodies!Walk(b) : x \in Bodies!Advance(r, s, n + 1)
  BY WalkStep
<1>6. s.does \in {"else", "end"} => Bodies!Depth(b, n) > 0
  OBVIOUS
<1> HIDE DEF c, n
<1>7. \A i \in 1 .. (n + 1) : i \in 1 .. n \/ i = n + 1
  BY <1>1
<1>8. WellNested(c)
  <2>1. Bodies!Depth(b, n) \in Int /\ Bodies!Depth(b, n) >= 0
    <3>1. CASE n = 0
      <4>1. b = <<>>
        BY <3>1 DEF n
      <4>2. \A what : Of(<<>>, 0, what) = {}
        BY DEF Of
      <4>3. Bodies!Depth(<<>>, 0) = Cardinality({}) - Cardinality({})
        BY <4>2, DepthIs
      <4> QED BY <3>1, <4>1, <4>3, FS_EmptySet
    <3>2. CASE n # 0
      <4>1. n \in 1 .. Len(b) /\ n \in 0 .. n
        BY <1>1, <3>2 DEF n
      <4> QED BY <1>2, <4>1 DEF WalkInv, WellNested
    <3> QED BY <3>1, <3>2
  <2>2. Bodies!Depth(c, n + 1) >= 0 /\ (s.does = "else" => Bodies!Depth(c, n + 1) > 0)
    BY <1>2, <1>6, <2>1 DEF Nests
  <2>3. \A i \in 1 .. n : i \in 0 .. n /\ i \in 1 .. Len(b)
    BY <1>1 DEF n
  <2>4. \A i \in 1 .. n : Bodies!Depth(c, i) >= 0 /\ (c[i].does = "else" => Bodies!Depth(c, i) > 0)
    BY <1>1, <1>2, <2>3 DEF WalkInv, WellNested
  <2> QED BY <1>1, <1>7, <2>2, <2>4 DEF WellNested
<1>9. ASSUME NEW x \in Bodies!Walk(c)
      PROVE  InOrder(c, x) /\ Passed(c, x) /\ Dominated(c, x) /\ Complete(c, x)
  <2>1. PICK r \in Bodies!Walk(b) : x \in Bodies!Advance(r, s, n + 1)
    BY <1>5, <1>9
  <2>2. InOrder(b, r) /\ Passed(b, r) /\ Dominated(b, r) /\ Complete(b, r)
    BY DEF WalkInv
  <2>3. r \in States /\ n + 1 \in Nat
    BY <1>1, <2>2 DEF InOrder
  <2>4. /\ x \in States
        /\ x.did = r.did \/ (Bodies!Live(r) /\ Carried(s) /\ x.did = Append(r.did, n + 1))
        /\ Plain(s) => /\ x.did = IF Bodies!Live(r) THEN Append(r.did, n + 1) ELSE r.did
                       /\ x.over = r.over
        /\ x.depth = r.depth + Nests(s)
        /\ x.over => r.over \/ Exits(s)
        /\ r.over => x.over
        /\ r.skip # 0 /\ x.skip # r.skip => s.does \in {"else", "end"} /\ r.skip = r.depth
        /\ s.does \notin {"else", "end"} => x.skip = r.skip \/ (s.does = "if" /\ x.skip = r.depth + 1)
        /\ Bodies!Live(r) /\ s.does \notin {"else", "end"} =>
             x.did = Append(r.did, n + 1) \/ x.over \/ (s.does = "if" /\ x.skip = r.depth + 1)
        /\ r.skip \in 0 .. r.depth /\ (s.does \in {"else", "end"} => r.depth > 0) =>
             x.skip \in 0 .. x.depth
    BY <2>1, <2>3, AdvanceStep
  <2>5. r.depth = Bodies!Depth(b, n) /\ r.skip \in 0 .. r.depth /\ r.depth \in Int
    BY <2>2, <2>3 DEF InOrder, n, States
  <2>6. /\ \A a : Did(r, a) => Did(x, a)
        /\ \A a : Did(x, a) => Did(r, a) \/ (a = n + 1 /\ Bodies!Live(r))
        /\ x.did = Append(r.did, n + 1) => Did(x, n + 1)
    BY <2>3, <2>4, DidStep
  <2>7. \A a : Did(r, a) => a \in 1 .. n
    BY <2>2 DEF InOrder, Did, n
  <2>8. \A a \in 1 .. n : ExitedBefore(b, a) => ExitedBefore(c, a)
    <3>1. \A a \in 1 .. n : \A j \in 1 .. a : j \in 1 .. n
      BY <1>1
    <3> QED BY <1>1, <3>1 DEF ExitedBefore
  <2>9. r.over => ExitedBefore(c, n + 1)
    <3>1. \A j \in 1 .. n : j \in 1 .. (n + 1)
      BY <1>1
    <3>2. r.over => ExitedBefore(b, n)
      BY <2>2 DEF InOrder, n
    <3> QED BY <1>1, <3>1, <3>2 DEF ExitedBefore
  <2>10. InOrder(c, x)
    <3>1. \A a : Did(x, a) => a \in 1 .. (n + 1) /\ Carried(c[a])
      <4>1. \A a : Did(r, a) => a \in 1 .. n /\ Carried(b[a])
        BY <2>2 DEF InOrder, Did, n
      <4>2. Did(x, n + 1) => Carried(s)
        <5>1. ~Did(r, n + 1)
          BY <1>1, <2>7
        <5>2. x.did = r.did => ~Did(x, n + 1)
          BY <5>1 DEF Did
        <5> QED BY <2>4, <5>2
      <4>3. n + 1 \in 1 .. (n + 1) /\ \A a \in 1 .. n : a \in 1 .. (n + 1)
        BY <1>1
      <4> QED BY <1>1, <2>6, <4>1, <4>2, <4>3
    <3>2. \A k \in DOMAIN x.did : x.did[k] \in 1 .. (n + 1) /\ Carried(c[x.did[k]])
      BY <3>1 DEF Did
    <3>3. ASSUME NEW k \in DOMAIN x.did, NEW m \in DOMAIN x.did, k < m
          PROVE  x.did[k] < x.did[m]
      <4>1. \A u, v \in DOMAIN r.did : u < v => r.did[u] < r.did[v]
        BY <2>2 DEF InOrder
      <4>2. \A u \in DOMAIN r.did : r.did[u] \in 1 .. n
        BY <2>7 DEF Did
      <4>3. CASE x.did = r.did
        BY <4>1, <4>3, <3>3
      <4>4. CASE x.did = Append(r.did, n + 1)
        <5> DEFINE l == Len(r.did)
        <5>1. r.did \in Seq(Nat)
          BY <2>3 DEF States
        <5>2. l \in Nat /\ DOMAIN r.did = 1 .. l /\ DOMAIN x.did = 1 .. (l + 1)
          BY <4>4, <5>1
        <5>3. x.did[l + 1] = n + 1 /\ \A u \in 1 .. l : x.did[u] = r.did[u]
          BY <4>4, <5>1
        <5> HIDE DEF l
        <5>4. k \in 1 .. l /\ (m \in 1 .. l \/ m = l + 1)
          BY <5>2, <3>3
        <5>5. x.did[k] = r.did[k] /\ r.did[k] \in 1 .. n
          BY <4>2, <5>2, <5>3, <5>4
        <5>6. CASE m = l + 1
          BY <1>1, <5>3, <5>5, <5>6
        <5>7. CASE m \in 1 .. l
          BY <4>1, <5>2, <5>3, <5>4, <5>5, <5>7, <3>3
        <5> QED BY <5>4, <5>6, <5>7
      <4> QED BY <2>4, <4>3, <4>4
    <3>4. x.depth = Bodies!Depth(c, n + 1)
      BY <1>2, <2>4, <2>5
    <3>5. x.skip \in 0 .. x.depth
      BY <1>6, <2>4, <2>5
    <3>6. x.over => ExitedBefore(c, n + 1)
      <4>1. n + 1 \in 1 .. (n + 1)
        BY <1>1
      <4>2. Exits(s) => ExitedBefore(c, n + 1)
        BY <1>1, <4>1 DEF ExitedBefore
      <4> QED BY <2>4, <2>9, <4>2
    <3> QED BY <1>1, <2>4, <3>2, <3>3, <3>4, <3>5, <3>6 DEF InOrder
  <2>11. Passed(c, x)
    <3> SUFFICES ASSUME NEW j \in 1 .. (n + 1), c[j].does \notin {"else", "end"},
                        Bodies!InBlockOf(c, j, n + 1)
                 PROVE  Did(x, j) \/ x.over \/ x.skip \in 1 .. Bodies!Depth(c, j)
      BY <1>1 DEF Passed
    <3>1. CASE j \in 1 .. n
      <4>1. /\ Bodies!InBlockOf(b, j, n) /\ Bodies!Depth(c, n + 1) >= Bodies!Depth(b, j)
            /\ s.does = "else" => Bodies!Depth(c, n + 1) > Bodies!Depth(b, j)
        BY <1>4, <3>1
      <4>2. b[j].does \notin {"else", "end"} /\ j \in 0 .. n
        BY <1>1, <3>1
      <4>3. Did(r, j) \/ r.over \/ r.skip \in 1 .. Bodies!Depth(b, j)
        BY <2>2, <3>1, <4>1, <4>2 DEF Passed, n
      <4>4. ASSUME r.skip \in 1 .. Bodies!Depth(b, j)
            PROVE  x.skip \in 1 .. Bodies!Depth(c, j)
        <5>1. Bodies!Depth(c, j) = Bodies!Depth(b, j) /\ Bodies!Depth(b, j) \in Int
              /\ Bodies!Depth(b, n) \in Int
          BY <1>1, <1>2, <4>2
        <5>2. s.does \in {"else", "end"} => r.skip # r.depth
          BY <1>2, <2>5, <4>1, <4>4, <5>1 DEF Nests
        <5>3. x.skip = r.skip
          BY <2>4, <4>4, <5>2
        <5> QED BY <4>4, <5>1, <5>3
      <4> QED BY <2>4, <2>6, <4>3, <4>4
    <3>2. CASE j = n + 1
      <4>1. s.does \notin {"else", "end"}
        BY <1>1, <3>2
      <4>2. CASE Bodies!Live(r)
        <5>1. x.did = Append(r.did, n + 1) \/ x.over \/ (s.does = "if" /\ x.skip = r.depth + 1)
          BY <2>4, <4>1, <4>2
        <5>2. s.does = "if" => Bodies!Depth(c, n + 1) = r.depth + 1
          BY <1>2, <2>5 DEF Nests
        <5> QED BY <2>5, <2>6, <3>2, <5>1, <5>2
      <4>3. CASE r.over
        BY <2>4, <4>3
      <4>4. CASE r.skip # 0
        <5>1. x.skip = r.skip
          BY <2>4, <4>1, <4>4
        <5>2. Bodies!Depth(c, n + 1) >= r.depth
          BY <1>2, <2>5, <4>1 DEF Nests
        <5>3. Bodies!Depth(c, n + 1) \in Int
          BY <1>2, <2>5 DEF Nests
        <5> QED BY <2>5, <3>2, <4>4, <5>1, <5>2, <5>3
      <4> QED BY <4>2, <4>3, <4>4 DEF Bodies!Live
    <3> QED BY <1>7, <3>1, <3>2
  <2>12. Dominated(c, x)
    <3> SUFFICES ASSUME NEW i \in 1 .. (n + 1), Did(x, i), NEW j \in 1 .. i,
                        c[j].does \notin {"else", "end"}, Bodies!InBlockOf(c, j, i)
                 PROVE  Did(x, j)
      BY <1>1 DEF Dominated
    <3>1. CASE i \in 1 .. n
      <4>1. i # n + 1 /\ j \in 1 .. n
        BY <1>1, <3>1
      <4>2. Did(r, i)
        BY <2>6, <4>1
      <4>3. b[j].does \notin {"else", "end"} /\ Bodies!InBlockOf(b, j, i)
        BY <1>1, <1>3, <3>1, <4>1
      <4>4. Did(r, j)
        BY <2>2, <3>1, <4>2, <4>3 DEF Dominated, n
      <4> QED BY <2>6, <4>4
    <3>2. CASE i = n + 1 /\ j \in 1 .. n
      <4>1. Bodies!Live(r)
        BY <1>1, <2>6, <2>7, <3>2
      <4>2. b[j].does \notin {"else", "end"} /\ Bodies!InBlockOf(b, j, n)
        BY <1>1, <1>4, <3>2
      <4>3. Did(r, j) \/ r.over \/ r.skip \in 1 .. Bodies!Depth(b, j)
        BY <2>2, <3>2, <4>2 DEF Passed, n
      <4> QED BY <2>6, <4>1, <4>3 DEF Bodies!Live
    <3>3. CASE j = i
      BY <3>3
    <3> QED BY <1>7, <1>1, <3>1, <3>2, <3>3
  <2>13. Complete(c, x)
    <3> SUFFICES ASSUME NEW a \in 1 .. (n + 1), Plain(c[a]), Bodies!Depth(c, a) = 0
                 PROVE  Did(x, a) \/ ExitedBefore(c, a)
      BY <1>1 DEF Complete
    <3>1. CASE a \in 1 .. n
      <4>1. a \in 0 .. n
        BY <1>1, <3>1
      <4>2. Plain(b[a]) /\ Bodies!Depth(b, a) = 0
        BY <1>1, <1>2, <3>1, <4>1
      <4>3. Did(r, a) \/ ExitedBefore(b, a)
        BY <2>2, <3>1, <4>2 DEF Complete, n
      <4> QED BY <2>6, <2>8, <3>1, <4>3
    <3>2. CASE a = n + 1
      <4>1. Plain(s)
        BY <1>1, <3>2
      <4>2. r.depth = 0
        <5>1. Bodies!Depth(c, n + 1) = 0
          BY <3>2
        <5>2. Nests(s) = 0
          BY <4>1 DEF Nests, Plain
        <5> QED BY <1>2, <2>5, <5>1, <5>2
      <4>3. r.skip = 0
        BY <2>5, <4>2
      <4>4. CASE r.over
        BY <2>9, <3>2, <4>4
      <4>5. CASE ~r.over
        BY <2>4, <2>6, <3>2, <4>1, <4>3, <4>5 DEF Bodies!Live
      <4> QED BY <4>4, <4>5
    <3> QED BY <1>7, <3>1, <3>2
  <2> QED BY <2>10, <2>11, <2>12, <2>13
<1> QED BY <1>8, <1>9 DEF WalkInv, c

\* What was reached stays reached, and what is not dead is reached.
LEMMA ReachedStep ==
  ASSUME NEW S, NEW b \in Seq(S), NEW s \in S, WalkInv(b), Reached(b),
         s.does = "assert" => s.on # "false",
         Plain(s) => \E r \in Bodies!Walk(b) : Bodies!Live(r)
  PROVE  Reached(Append(b, s))
<1> DEFINE c == Append(b, s)  n == Len(b)
<1>1. n \in Nat /\ Len(c) = n + 1 /\ c[n + 1] = s /\ \A i \in 1 .. n : c[i] = b[i]
  BY OneMoreStatement
<1>2. \A x : x \in Bodies!Walk(c) <=> \E r \in Bodies!Walk(b) : x \in Bodies!Advance(r, s, n + 1)
  BY WalkStep
<1> HIDE DEF c
<1>3. ASSUME NEW r \in Bodies!Walk(b)
      PROVE  \E x \in Bodies!Walk(c) :
               /\ \A a : Did(r, a) => Did(x, a)
               /\ Plain(s) /\ Bodies!Live(r) => Did(x, n + 1)
  <2>1. PICK x : x \in Bodies!Advance(r, s, n + 1)
    BY AdvanceGoesOn
  <2>2. x \in Bodies!Walk(c)
    BY <1>2, <2>1
  <2>3. r \in States /\ n + 1 \in Nat
    BY <1>1 DEF WalkInv, InOrder
  <2>4. /\ x \in States
        /\ x.did = r.did \/ (Bodies!Live(r) /\ Carried(s) /\ x.did = Append(r.did, n + 1))
        /\ Plain(s) => x.did = IF Bodies!Live(r) THEN Append(r.did, n + 1) ELSE r.did
    BY <2>1, <2>3, AdvanceStep
  <2>5. /\ \A a : Did(r, a) => Did(x, a)
        /\ x.did = Append(r.did, n + 1) => Did(x, n + 1)
    BY <2>3, <2>4, DidStep
  <2> QED BY <2>2, <2>4, <2>5
<1>4. SUFFICES ASSUME NEW a \in 1 .. (n + 1), Plain(c[a])
               PROVE  \E x \in Bodies!Walk(c) : Did(x, a)
  BY <1>1 DEF Reached, c
<1>5. CASE a \in 1 .. n
  <2>1. PICK r \in Bodies!Walk(b) : Did(r, a)
    BY <1>1, <1>4, <1>5 DEF Reached
  <2> QED BY <1>3, <2>1
<1>6. CASE a = n + 1
  <2>1. Plain(s)
    BY <1>1, <1>4, <1>6
  <2>2. PICK r \in Bodies!Walk(b) : Bodies!Live(r)
    BY <2>1
  <2> QED BY <1>3, <1>6, <2>1, <2>2
<1> QED BY <1>1, <1>4, <1>5, <1>6

-----------------------------------------------------------------------------
(* The bodies that are written *)

\* No condition is known beforehand.
LEMMA NothingIsKnown ==
  \A family \in DOMAIN Vocabulary : \A s \in Vocabulary[family] : s.does = "assert" => s.on # "false"
<1>1. \A s \in Auth!Statements : s.does # "assert"
  BY DEF Auth!Statements, Auth!Do, Auth!Also
<1>2. \A s \in Privileged!Statements : s.does # "assert"
  BY DEF Privileged!Statements, Privileged!Do, Privileged!Also
<1>3. \A s \in FollowUp!Statements : s.does # "assert"
  BY DEF FollowUp!Statements, FollowUp!Do
<1>4. \A s \in Storage!Statements : s.on # "false"
  BY DEF Storage!Statements, Storage!Do, Storage!Also
<1>5. \A s \in Storage!InitStatements : s.on # "false"
  BY DEF Storage!InitStatements, Storage!Do
<1>6. \A s \in Guards!Statements : s.on # "false"
  BY DEF Guards!Statements, Guards!Do
<1>7. \A s \in Invoke!Statements : s.does # "assert"
  BY DEF Invoke!Statements, Invoke!Do
<1>8. \A s \in Arithmetic!Statements : s.does # "assert"
  BY DEF Arithmetic!Statements
<1> QED BY <1>1, <1>2, <1>3, <1>4, <1>5, <1>6, <1>7, <1>8 DEF Vocabulary

BodyInv ==
  check \in DOMAIN Vocabulary =>
    statements \in Seq(Vocabulary[check]) /\ WalkInv(statements) /\ Reached(statements)

LEMMA BodyStarts == ChecksInit => BodyInv
<1> SUFFICES ASSUME ChecksInit PROVE BodyInv
  OBVIOUS
<1>1. statements = <<>>
  BY DEF ChecksInit
<1>2. statements \in Seq(Vocabulary[check])
  BY <1>1
<1> QED BY <1>1, <1>2, WalkInvStarts DEF BodyInv

LEMMA BodyStep == BodyInv /\ [ChecksNext]_<<vars, check, named, statements>> => BodyInv'
<1> SUFFICES ASSUME BodyInv, [ChecksNext]_<<vars, check, named, statements>> PROVE BodyInv'
  OBVIOUS
<1>1. check' = check
  BY DEF ChecksNext
<1>2. CASE statements' = statements
  BY <1>1, <1>2 DEF BodyInv, Vocabulary
<1>3. CASE Write
  <2>1. PICK s \in Vocabulary[check] :
          Bodies!Fits(statements, s, Nesting) /\ statements' = Append(statements, s)
    BY <1>3 DEF Write
  <2>2. check \in DOMAIN Vocabulary
    BY <1>3 DEF Write
  <2>3. statements \in Seq(Vocabulary[check]) /\ WalkInv(statements) /\ Reached(statements)
    BY <2>2 DEF BodyInv
  <2>4. /\ s.does \in {"else", "end"} => Bodies!Depth(statements, Len(statements)) > 0
        /\ Plain(s) => \E r \in Bodies!Walk(statements) : Bodies!Live(r)
    BY <2>1 DEF Bodies!Fits, Bodies!Inside, Plain
  <2>5. s.does = "assert" => s.on # "false"
    BY <2>2, NothingIsKnown
  <2>6. WalkInv(Append(statements, s))
    BY <2>3, <2>4, WalkInvStep
  <2>7. Reached(Append(statements, s))
    BY <2>3, <2>4, <2>5, ReachedStep
  <2>8. Append(statements, s) \in Seq(Vocabulary[check])
    BY <2>3
  <2>9. Vocabulary' = Vocabulary
    BY DEF Vocabulary
  <2> QED BY <1>1, <2>1, <2>6, <2>7, <2>8, <2>9 DEF BodyInv
<1> QED BY <1>2, <1>3 DEF ChecksNext

\* Whatever is written, its executions are as above.
LEMMA BodiesAreWalked == ChecksSpec => []BodyInv
  BY BodyStarts, BodyStep, PTL DEF ChecksSpec

-----------------------------------------------------------------------------
(* What the families use *)

\* A run of a body: in order, possible, past everything that nobody skips and
\* everything above in the blocks around what it did.
IsRun(b, run) ==
  /\ run \in Seq(Nat)
  /\ \A n \in DOMAIN run : run[n] \in 1 .. Len(b) /\ Carried(b[run[n]])
  /\ \A m, n \in DOMAIN run : run[m] < run[n] <=> m < n
  /\ \A a \in 1 .. Len(b) : Plain(b[a]) /\ Bodies!Depth(b, a) = 0 =>
       (\E n \in DOMAIN run : run[n] = a) \/ ExitedBefore(b, a)
  /\ \A n \in DOMAIN run : \A j \in 1 .. (run[n] - 1) :
       b[j].does \notin {"else", "end"} /\ Bodies!InBlockOf(b, j, run[n]) =>
         \E m \in 1 .. (n - 1) : run[m] = j

LEMMA RunsAreRuns ==
  ASSUME NEW b, WalkInv(b), NEW run \in Bodies!Runs(b)
  PROVE  IsRun(b, run)
<1>1. PICK r \in Bodies!Walk(b) : run = r.did
  BY DEF Bodies!Runs
<1>2. InOrder(b, r) /\ Dominated(b, r) /\ Complete(b, r)
  BY DEF WalkInv
<1>3. run \in Seq(Nat)
  BY <1>1, <1>2 DEF InOrder, States
<1>4. /\ \A n \in DOMAIN run : run[n] \in 1 .. Len(b) /\ Carried(b[run[n]])
      /\ \A m, n \in DOMAIN run : m < n => run[m] < run[n]
  BY <1>1, <1>2 DEF InOrder
<1>5. \A n \in DOMAIN run : n \in Nat /\ run[n] \in Nat
  BY <1>3
<1>6. \A m, n \in DOMAIN run : run[m] < run[n] <=> m < n
  <2> SUFFICES ASSUME NEW m \in DOMAIN run, NEW n \in DOMAIN run, run[m] < run[n]
               PROVE  m < n
    BY <1>4
  <2>1. ~(n < m)
    BY <1>4, <1>5
  <2>2. n # m
    BY <1>5
  <2> QED BY <1>5, <2>1, <2>2
<1>7. ASSUME NEW n \in DOMAIN run, NEW j \in 1 .. (run[n] - 1),
             b[j].does \notin {"else", "end"}, Bodies!InBlockOf(b, j, run[n])
      PROVE  \E m \in 1 .. (n - 1) : run[m] = j
  <2>1. Did(r, run[n])
    BY <1>1 DEF Did
  <2>2. j \in 1 .. run[n] /\ j < run[n]
    BY <1>5
  <2>3. Did(r, j)
    BY <1>2, <1>4, <1>7, <2>1, <2>2 DEF Dominated
  <2>4. PICK m \in DOMAIN run : run[m] = j
    BY <1>1, <2>3 DEF Did
  <2>5. m < n
    BY <1>6, <2>2, <2>4
  <2>6. m \in 1 .. (n - 1)
    BY <1>3, <2>5
  <2> QED BY <2>4, <2>6
<1>8. ASSUME NEW a \in 1 .. Len(b), Plain(b[a]), Bodies!Depth(b, a) = 0
      PROVE  (\E n \in DOMAIN run : run[n] = a) \/ ExitedBefore(b, a)
  BY <1>1, <1>2, <1>8 DEF Complete, Did
<1> QED BY <1>3, <1>4, <1>6, <1>7, <1>8 DEF IsRun

LEMMA PlainIsRun ==
  ASSUME NEW b, WalkInv(b), Reached(b), NEW a \in 1 .. Len(b), Plain(b[a])
  PROVE  \E run \in Bodies!Runs(b) : IsRun(b, run) /\ \E n \in DOMAIN run : run[n] = a
<1>1. PICK r \in Bodies!Walk(b) : Did(r, a)
  BY DEF Reached
<1>2. r.did \in Bodies!Runs(b)
  BY DEF Bodies!Runs
<1> QED BY <1>1, <1>2, RunsAreRuns DEF Did

\* Outside all blocks, everything below is in the same one.
LEMMA AtTheTop ==
  ASSUME NEW S, NEW b \in Seq(S), WellNested(b), NEW a \in 1 .. Len(b), NEW w \in 1 .. Len(b),
         Bodies!Depth(b, a) = 0
  PROVE  Bodies!InBlockOf(b, a, w)
<1>1. \A k \in a .. w : k \in 1 .. Len(b)
  OBVIOUS
<1> QED BY <1>1 DEF WellNested, Bodies!InBlockOf

\* Lines: below on the text, below in the body.
Lines(b, i) == Cardinality(Starts(b, i))

LEMMA LinesOrder ==
  ASSUME NEW b, NEW i \in Nat, NEW j \in Nat
  PROVE  /\ Lines(b, i) \in Nat
         /\ Lines(b, i) < Lines(b, j) => i < j
         /\ i <= j => Lines(b, i) <= Lines(b, j)
         /\ Lines(b, i) = Lines(b, j) => \A k \in (i + 1) .. j : ~b[k].fresh
<1>1. Lines(b, i) \in Nat /\ Lines(b, j) \in Nat
  BY StartsAreFinite DEF Lines
<1>2. i <= j => Lines(b, i) <= Lines(b, j)
  BY LinesGrow DEF Lines
<1>3. j <= i => Lines(b, j) <= Lines(b, i)
  BY LinesGrow DEF Lines
<1>4. Lines(b, i) = Lines(b, j) => \A k \in (i + 1) .. j : ~b[k].fresh
  BY LinesGrow DEF Lines
<1> QED BY <1>1, <1>2, <1>3, <1>4

-----------------------------------------------------------------------------
(* Authorization: missing, or too late *)

LEMMA AuthIsBodies ==
  /\ \A b : Auth!Runs(b) = Bodies!Runs(b)
  /\ \A b, i : Auth!Depth(b, i) = Bodies!Depth(b, i)
  /\ \A b, i : Auth!Line(b, i) = Lines(b, i)
<1>1. \A T : Auth!Cardinality(T) = Cardinality(T) /\ Bodies!Cardinality(T) = Cardinality(T)
  BY Zenon DEF Auth!Cardinality, Bodies!Cardinality, Cardinality
<1>2. \A b, i : Auth!Line(b, i) = Lines(b, i)
  BY <1>1, Zenon DEF Auth!Line, Auth!Quantify, Lines, Starts
<1>3. \A b, i : Auth!Depth(b, i) = Bodies!Depth(b, i)
  BY <1>1, Zenon DEF Auth!Depth, Bodies!Depth, Auth!Quantify, Bodies!Quantify
<1>4. \A b : Auth!Runs(b) = Bodies!Runs(b)
  BY Zenon DEF Auth!Runs, Bodies!Runs, Auth!Walk, Bodies!Walk, Auth!Start, Bodies!Start,
    Auth!Advance, Bodies!Advance, Auth!Skips, Bodies!Skips, Auth!Takes, Bodies!Takes,
    Auth!Does, Bodies!Does, Auth!Leaves, Bodies!Leaves, Auth!Live, Bodies!Live
<1> QED BY <1>2, <1>3, <1>4

LEMMA AuthFirsts ==
  ASSUME NEW S, NEW b \in Seq(S)
  PROVE  /\ Auth!Has(b, Auth!IsWrite) <=> \E i \in DOMAIN b : Auth!IsWrite(b[i])
         /\ Auth!Has(b, Auth!IsRequireAuth) <=> \E i \in DOMAIN b : Auth!IsRequireAuth(b[i])
         /\ Auth!Has(b, Auth!IsWrite) =>
              /\ Auth!FirstStorageWrite(b) \in DOMAIN b /\ Auth!IsWrite(b[Auth!FirstStorageWrite(b)])
              /\ \A i \in DOMAIN b : Auth!IsWrite(b[i]) => Auth!FirstStorageWrite(b) <= i
         /\ Auth!Has(b, Auth!IsRequireAuth) =>
              /\ Auth!FirstRequireAuth(b) \in DOMAIN b
              /\ Auth!IsRequireAuth(b[Auth!FirstRequireAuth(b)])
              /\ \A i \in DOMAIN b : Auth!IsRequireAuth(b[i]) => Auth!FirstRequireAuth(b) <= i
<1>1. DOMAIN b \subseteq Nat
  OBVIOUS
<1>2. \A P \in SUBSET DOMAIN b : P # {} => Auth!Min(P) \in P /\ \A y \in P : Auth!Min(P) <= y
  <2> SUFFICES ASSUME NEW P \in SUBSET DOMAIN b, P # {}
               PROVE  Auth!Min(P) \in P /\ \A y \in P : Auth!Min(P) <= y
    OBVIOUS
  <2>1. P \subseteq Nat
    BY <1>1
  <2>2. \E x \in P : \A y \in P : x <= y
    BY <2>1, Least
  <2> QED BY <2>2, Zenon DEF Auth!Min
<1>3. /\ Auth!Has(b, Auth!IsWrite) <=> {i \in DOMAIN b : Auth!IsWrite(b[i])} # {}
      /\ Auth!Has(b, Auth!IsRequireAuth) <=> {i \in DOMAIN b : Auth!IsRequireAuth(b[i])} # {}
      /\ Auth!Has(b, Auth!IsWrite) =>
           Auth!FirstStorageWrite(b) = Auth!Min({i \in DOMAIN b : Auth!IsWrite(b[i])})
      /\ Auth!Has(b, Auth!IsRequireAuth) =>
           Auth!FirstRequireAuth(b) = Auth!Min({i \in DOMAIN b : Auth!IsRequireAuth(b[i])})
  BY DEF Auth!Has, Auth!Places, Auth!FirstStorageWrite, Auth!FirstRequireAuth, Auth!First
<1> QED BY <1>2, <1>3

LEMMA AuthOfBody ==
  ASSUME NEW b \in Seq(Auth!Statements), WalkInv(b), Reached(b)
  PROVE  Auth!AuthFindings(b)
<1> DEFINE auth == Auth!FirstRequireAuth(b)  write == Auth!FirstStorageWrite(b)
<1>1. DOMAIN b = 1 .. Len(b) /\ Len(b) \in Nat
  OBVIOUS
<1>2. /\ Auth!Has(b, Auth!IsWrite) <=> \E i \in DOMAIN b : Auth!IsWrite(b[i])
      /\ Auth!Has(b, Auth!IsRequireAuth) <=> \E i \in DOMAIN b : Auth!IsRequireAuth(b[i])
      /\ Auth!Has(b, Auth!IsWrite) =>
           /\ write \in DOMAIN b /\ Auth!IsWrite(b[write])
           /\ \A i \in DOMAIN b : Auth!IsWrite(b[i]) => write <= i
      /\ Auth!Has(b, Auth!IsRequireAuth) =>
           /\ auth \in DOMAIN b /\ Auth!IsRequireAuth(b[auth])
           /\ \A i \in DOMAIN b : Auth!IsRequireAuth(b[i]) => auth <= i
  BY AuthFirsts
<1>3. Auth!MissingRequireAuth(b) <=>
        /\ Auth!Has(b, Auth!IsWrite) /\ ~Auth!Has(b, Auth!IsRequireAuth)
        /\ ~Auth!Has(b, Auth!IsHelper)
  <2>1. Auth!Has(b, Auth!IsGate) <=> Auth!Has(b, Auth!IsRequireAuth)
    BY DEF Auth!Has, Auth!Places, Auth!IsGate, Auth!IsRequireAuth
  <2>2. /\ Auth!Has(b, Auth!IsWrite) \in BOOLEAN /\ Auth!Has(b, Auth!IsGate) \in BOOLEAN
        /\ Auth!Has(b, Auth!IsHelper) \in BOOLEAN
    BY DEF Auth!Has
  <2> QED BY <2>1, <2>2 DEF Auth!MissingRequireAuth, Auth!FuncBodyScan
<1>4. Auth!AuthAfterStorageWrite(b) <=>
        /\ Auth!Has(b, Auth!IsWrite) /\ Auth!Has(b, Auth!IsRequireAuth)
        /\ Lines(b, write) < Lines(b, auth)
  BY AuthIsBodies DEF Auth!AuthAfterStorageWrite
<1>5. Auth!Has(b, Auth!IsHelper) <=> \E i \in DOMAIN b : Auth!IsHelper(b[i])
  BY DEF Auth!Has, Auth!Places
<1>6. Auth!Unguarded(b, Auth!IsWrite, Auth!Asks) <=>
        \E run \in Bodies!Runs(b) : \E n \in DOMAIN run :
          Auth!IsWrite(b[run[n]]) /\ \A m \in 1 .. (n - 1) : ~Auth!Asks(b[run[m]])
  BY AuthIsBodies DEF Auth!Unguarded
<1>7. \A i \in DOMAIN b : b[i] \in Auth!ToSet(b)
  BY DEF Auth!ToSet
<1>8. auth \in DOMAIN b /\ Auth!Hides(b) = {} =>
        Bodies!Depth(b, auth) <= 0 /\ Lines(b, auth) # Lines(b, write)
  <2> SUFFICES ASSUME auth \in DOMAIN b, Auth!Hides(b) = {}
               PROVE  Bodies!Depth(b, auth) <= 0 /\ Lines(b, auth) # Lines(b, write)
    OBVIOUS
  <2>1. auth # 0
    BY <1>1
  <2>2. "branch" \notin Auth!Hides(b) /\ "same line" \notin Auth!Hides(b)
    OBVIOUS
  <2>3. ~Auth!Inside(b, auth)
    BY <2>1, <2>2 DEF Auth!Hides
  <2>4. Auth!Line(b, auth) # Auth!Line(b, write)
    BY <2>1, <2>2 DEF Auth!Hides
  <2>5. Bodies!Depth(b, auth) \in Int
    BY <1>1, DepthIs, OfIsFinite
  <2> QED BY <2>3, <2>4, <2>5, AuthIsBodies DEF Auth!Inside
<1>9. Auth!Hides(b) = {} => ~Auth!Has(b, Auth!IsHelper)
  <2>1. Auth!Has(b, Auth!IsHelper) => "helper" \in Auth!Hides(b)
    BY DEF Auth!Hides
  <2> QED BY <2>1
<1> HIDE DEF auth, write
<1>10. ASSUME Auth!Unguarded(b, Auth!IsWrite, Auth!Asks), Auth!Hides(b) = {}
       PROVE  Auth!MissingRequireAuth(b) \/ Auth!AuthAfterStorageWrite(b)
  <2>0. PICK run \in Bodies!Runs(b) : \E n \in DOMAIN run :
          Auth!IsWrite(b[run[n]]) /\ \A m \in 1 .. (n - 1) : ~Auth!Asks(b[run[m]])
    BY <1>6, <1>10
  <2>1. PICK n \in DOMAIN run :
          Auth!IsWrite(b[run[n]]) /\ \A m \in 1 .. (n - 1) : ~Auth!Asks(b[run[m]])
    BY <2>0
  <2>2. IsRun(b, run)
    BY RunsAreRuns
  <2>3. run[n] \in DOMAIN b
    BY <1>1, <2>2 DEF IsRun
  <2>4. Auth!Has(b, Auth!IsWrite) /\ write \in DOMAIN b /\ write <= run[n]
    BY <1>2, <2>1, <2>3
  <2>5. CASE ~Auth!Has(b, Auth!IsRequireAuth)
    BY <1>3, <1>9, <1>10, <2>4, <2>5
  <2>6. CASE Auth!Has(b, Auth!IsRequireAuth)
    <3>1. auth \in DOMAIN b /\ Auth!IsRequireAuth(b[auth])
      BY <1>2, <2>6
    <3>2. auth \in Nat /\ write \in Nat /\ run[n] \in Nat
      BY <1>1, <2>3, <2>4, <3>1
    <3>3. SUFFICES ASSUME ~(Lines(b, write) < Lines(b, auth)) PROVE FALSE
      BY <1>4, <2>4, <2>6
    <3>4. Lines(b, auth) < Lines(b, write)
      BY <1>8, <1>10, <3>1, <3>2, <3>3, LinesOrder
    <3>5. auth < write
      BY <3>2, <3>4, LinesOrder
    <3>6. Bodies!Depth(b, auth) = 0
      <4>1. Bodies!Depth(b, auth) >= 0 /\ Bodies!Depth(b, auth) \in Int
        BY <1>1, <3>1, DepthIs, OfIsFinite DEF WalkInv, WellNested
      <4> QED BY <1>8, <1>10, <3>1, <4>1
    <3>7. Bodies!InBlockOf(b, auth, run[n])
      BY <1>1, <2>3, <3>1, <3>6, AtTheTop DEF WalkInv
    <3>8. auth \in 1 .. (run[n] - 1) /\ b[auth].does \notin {"else", "end"}
      BY <1>1, <2>4, <3>1, <3>2, <3>5 DEF Auth!IsRequireAuth
    <3>9. \E m \in 1 .. (n - 1) : run[m] = auth
      BY <2>2, <3>7, <3>8 DEF IsRun
    <3> QED BY <2>1, <3>1, <3>9 DEF Auth!Asks, Auth!IsRequireAuth
  <2> QED BY <2>5, <2>6
<1>11. ASSUME Auth!MissingRequireAuth(b) \/ Auth!AuthAfterStorageWrite(b),
              ~\E s \in Auth!ToSet(b) : Auth!Asks(s) /\ ~Auth!IsRequireAuth(s)
       PROVE  Auth!Unguarded(b, Auth!IsWrite, Auth!Asks)
  <2>1. write \in DOMAIN b /\ Auth!IsWrite(b[write])
    BY <1>2, <1>3, <1>4, <1>11
  <2>2. Plain(b[write])
    BY <2>1 DEF Auth!IsWrite, Plain
  <2>0. PICK run \in Bodies!Runs(b) : IsRun(b, run) /\ \E n \in DOMAIN run : run[n] = write
    BY <1>1, <2>1, <2>2, PlainIsRun
  <2>3. PICK n \in DOMAIN run : IsRun(b, run) /\ run[n] = write
    BY <2>0
  <2>4. ASSUME NEW m \in 1 .. (n - 1), Auth!Asks(b[run[m]])
        PROVE  FALSE
    <3>1. m \in DOMAIN run /\ m < n
      BY <2>3 DEF IsRun
    <3>2. run[m] \in DOMAIN b /\ run[m] < write
      BY <1>1, <2>3, <3>1 DEF IsRun
    <3>3. Auth!IsRequireAuth(b[run[m]])
      BY <1>7, <1>11, <2>4, <3>2
    <3>4. Auth!Has(b, Auth!IsRequireAuth) /\ auth <= run[m] /\ auth \in DOMAIN b
      BY <1>2, <3>2, <3>3
    <3>5. Lines(b, write) < Lines(b, auth)
      BY <1>3, <1>4, <1>11, <3>4
    <3>6. auth \in Nat /\ write \in Nat /\ run[m] \in Nat
      BY <1>1, <2>1, <3>2, <3>4
    <3>7. write < auth
      BY <3>5, <3>6, LinesOrder
    <3> QED BY <3>2, <3>4, <3>6, <3>7
  <2> QED BY <1>6, <2>1, <2>3, <2>4
<1>12. ~(Auth!MissingRequireAuth(b) /\ Auth!AuthAfterStorageWrite(b))
  BY <1>3, <1>4
<1> QED BY <1>10, <1>11, <1>12 DEF Auth!AuthFindings

\* missing-require-auth and auth-after-storage-write, for bodies of any length
\* and depth: no method is reported by both, every execution that writes before
\* it asked is reported but for the three limits, and a report is of one.
THEOREM UnauthorizedWritesAreFound == ChecksSpec => []AuthFindings
<1>1. BodyInv => AuthFindings
  <2> SUFFICES ASSUME BodyInv, check = "auth" PROVE Auth!AuthFindings(statements)
    BY DEF AuthFindings
  <2>1. check \in DOMAIN Vocabulary /\ Vocabulary[check] = Auth!Statements
    BY DEF Vocabulary
  <2> QED BY <2>1, AuthOfBody DEF BodyInv
<1> QED BY <1>1, BodiesAreWalked, PTL

-----------------------------------------------------------------------------
(* What has to come with a write *)

LEMMA FollowUpIsBodies ==
  /\ \A b : FollowUp!Runs(b) = Bodies!Runs(b)
  /\ \A b, i : FollowUp!Depth(b, i) = Bodies!Depth(b, i)
<1>1. \A T : FollowUp!Cardinality(T) = Cardinality(T) /\ Bodies!Cardinality(T) = Cardinality(T)
  BY Zenon DEF FollowUp!Cardinality, Bodies!Cardinality, Cardinality
<1>2. \A b, i : FollowUp!Depth(b, i) = Bodies!Depth(b, i)
  BY <1>1, Zenon DEF FollowUp!Depth, Bodies!Depth, FollowUp!Quantify, Bodies!Quantify
<1>3. \A b : FollowUp!Runs(b) = Bodies!Runs(b)
  BY Zenon DEF FollowUp!Runs, Bodies!Runs, FollowUp!Walk, Bodies!Walk, FollowUp!Start, Bodies!Start,
    FollowUp!Advance, Bodies!Advance, FollowUp!Skips, Bodies!Skips, FollowUp!Takes, Bodies!Takes,
    FollowUp!Does, Bodies!Does, FollowUp!Leaves, Bodies!Leaves, FollowUp!Live, Bodies!Live
<1> QED BY <1>2, <1>3

\* The statements of the family, by kind.
LEMMA FollowUpWords ==
  \A s \in FollowUp!Statements :
    /\ s = [does |-> s.does, on |-> s.on, fresh |-> TRUE]
    /\ s.does \in {"set", "extend", "remove", "fetch", "push", "publish", "nonce", "if", "else", "end", "return"}
    /\ s.does \in {"set", "extend"} => s.on \in {"k", "l", "t"}
    /\ s.does = "remove" => s.on = "k"
    /\ s.does = "fetch" => s.on \in {"k", "t"}
  BY DEF FollowUp!Statements, FollowUp!Do

\* What no execution may skip, none does.
LEMMA NeverSkipped ==
  ASSUME NEW b \in Seq(FollowUp!Statements), WalkInv(b), NEW run \in Bodies!Runs(b),
         NEW i \in DOMAIN b, Plain(b[i]), ~FollowUp!Skippable(b, i)
  PROVE  \E n \in DOMAIN run : run[n] = i
<1>1. DOMAIN b = 1 .. Len(b) /\ Len(b) \in Nat /\ \A j \in 1 .. Len(b) : b[j] \in FollowUp!Statements
  OBVIOUS
<1>2. IsRun(b, run)
  BY RunsAreRuns
<1>3. Bodies!Depth(b, i) = 0
  <2>1. Bodies!Depth(b, i) >= 0 /\ Bodies!Depth(b, i) \in Int
    BY <1>1, DepthIs, OfIsFinite DEF WalkInv, WellNested
  <2>2. ~(Bodies!Depth(b, i) > 0)
    BY FollowUpIsBodies DEF FollowUp!Skippable, FollowUp!Inside
  <2> QED BY <2>1, <2>2
<1>4. ~ExitedBefore(b, i)
  <2> SUFFICES ASSUME NEW j \in 1 .. i, Exits(b[j]) PROVE FALSE
    BY DEF ExitedBefore
  <2>1. j \in 1 .. Len(b)
    BY <1>1
  <2>2. b[j].does = "return"
    BY <1>1, <2>1, FollowUpWords DEF Exits
  <2> QED BY <2>2 DEF FollowUp!Skippable
<1> QED BY <1>1, <1>2, <1>3, <1>4 DEF IsRun

LEMMA EventsOfBody ==
  ASSUME NEW b \in Seq(FollowUp!Statements), WalkInv(b), Reached(b)
  PROVE  FollowUp!EventFindings(b)
<1>1. DOMAIN b = 1 .. Len(b) /\ Len(b) \in Nat
  OBVIOUS
<1>2. /\ FollowUp!Has(b, FollowUp!IsSet) <=> \E i \in DOMAIN b : FollowUp!IsSet(b[i])
      /\ FollowUp!Has(b, FollowUp!IsChange) <=> \E i \in DOMAIN b : FollowUp!IsChange(b[i])
      /\ FollowUp!Has(b, FollowUp!IsPublish) <=> \E i \in DOMAIN b : FollowUp!IsPublish(b[i])
      /\ FollowUp!Has(b, FollowUp!IsNonce) <=> \E i \in DOMAIN b : FollowUp!IsNonce(b[i])
  BY DEF FollowUp!Has, FollowUp!Places
<1>3. /\ FollowUp!Lacks(b, FollowUp!IsPublish) <=>
           \E run \in Bodies!Runs(b) : /\ \E n \in DOMAIN run : FollowUp!IsSet(b[run[n]])
                                       /\ ~\E n \in DOMAIN run : FollowUp!IsPublish(b[run[n]])
      /\ FollowUp!Lacks(b, FollowUp!IsNonce) <=>
           \E run \in Bodies!Runs(b) : /\ \E n \in DOMAIN run : FollowUp!IsSet(b[run[n]])
                                       /\ ~\E n \in DOMAIN run : FollowUp!IsNonce(b[run[n]])
  BY FollowUpIsBodies DEF FollowUp!Lacks
<1>4. /\ FollowUp!CanSkip(b, FollowUp!IsPublish) <=>
           \E i \in DOMAIN b : FollowUp!IsPublish(b[i]) /\ FollowUp!Skippable(b, i)
      /\ FollowUp!CanSkip(b, FollowUp!IsNonce) <=>
           \E i \in DOMAIN b : FollowUp!IsNonce(b[i]) /\ FollowUp!Skippable(b, i)
  BY DEF FollowUp!CanSkip
<1>5. \A run \in Bodies!Runs(b) : \A n \in DOMAIN run : run[n] \in DOMAIN b
  <2>1. \A run \in Bodies!Runs(b) : IsRun(b, run)
    BY RunsAreRuns
  <2> QED BY <1>1, <2>1 DEF IsRun
\* An execution that changes something, if there is one
<1>6. FollowUp!Has(b, FollowUp!IsSet) =>
        \E run \in Bodies!Runs(b) : \E n \in DOMAIN run : FollowUp!IsSet(b[run[n]])
  <2> SUFFICES ASSUME NEW i \in DOMAIN b, FollowUp!IsSet(b[i])
               PROVE  \E run \in Bodies!Runs(b) : \E n \in DOMAIN run : FollowUp!IsSet(b[run[n]])
    BY <1>2
  <2>1. Plain(b[i])
    BY DEF FollowUp!IsSet, Plain
  <2>2. PICK run \in Bodies!Runs(b) : \E n \in DOMAIN run : run[n] = i
    BY <1>1, <2>1, PlainIsRun
  <2> QED BY <2>2
<1>7. ASSUME NEW run \in Bodies!Runs(b), ~\E n \in DOMAIN run : FollowUp!IsPublish(b[run[n]]),
             FollowUp!Has(b, FollowUp!IsPublish)
      PROVE  FollowUp!CanSkip(b, FollowUp!IsPublish)
  <2>1. PICK i \in DOMAIN b : FollowUp!IsPublish(b[i])
    BY <1>2, <1>7
  <2>2. Plain(b[i])
    BY <2>1 DEF FollowUp!IsPublish, Plain
  <2> QED BY <1>4, <1>7, <2>1, <2>2, NeverSkipped
<1>8. ASSUME NEW run \in Bodies!Runs(b), ~\E n \in DOMAIN run : FollowUp!IsNonce(b[run[n]]),
             FollowUp!Has(b, FollowUp!IsNonce)
      PROVE  FollowUp!CanSkip(b, FollowUp!IsNonce)
  <2>1. PICK i \in DOMAIN b : FollowUp!IsNonce(b[i])
    BY <1>2, <1>8
  <2>2. Plain(b[i])
    BY <2>1 DEF FollowUp!IsNonce, Plain
  <2> QED BY <1>4, <1>8, <2>1, <2>2, NeverSkipped
<1>9. FollowUp!Has(b, FollowUp!IsSet) =>
        FollowUp!Has(b, FollowUp!IsChange) /\ FollowUp!Has(b, FollowUp!IsSetOrPush)
  BY <1>2 DEF FollowUp!Has, FollowUp!Places, FollowUp!IsChange, FollowUp!IsSetOrPush
<1>10. /\ FollowUp!Lacks(b, FollowUp!IsPublish) =>
            FollowUp!Has(b, FollowUp!IsSet)
            /\ (~FollowUp!Has(b, FollowUp!IsPublish) \/ FollowUp!CanSkip(b, FollowUp!IsPublish))
       /\ FollowUp!Lacks(b, FollowUp!IsNonce) =>
            FollowUp!Has(b, FollowUp!IsSet)
            /\ (~FollowUp!Has(b, FollowUp!IsNonce) \/ FollowUp!CanSkip(b, FollowUp!IsNonce))
  BY <1>2, <1>3, <1>5, <1>7, <1>8
<1>11. /\ FollowUp!Has(b, FollowUp!IsSet) /\ ~FollowUp!Has(b, FollowUp!IsPublish) =>
            FollowUp!Lacks(b, FollowUp!IsPublish)
       /\ FollowUp!Has(b, FollowUp!IsSet) /\ ~FollowUp!Has(b, FollowUp!IsNonce) =>
            FollowUp!Lacks(b, FollowUp!IsNonce)
  BY <1>2, <1>3, <1>5, <1>6
<1> QED
  BY <1>9, <1>10, <1>11 DEF FollowUp!EventFindings, FollowUp!MissingEventForAdminChange,
    FollowUp!MissingEventEmission, FollowUp!MissingNonce, FollowUp!AdminWrites

\* missing-event-emission, missing-event-for-admin-change and missing-nonce, for
\* bodies of any length and depth: a change that some execution makes without its
\* event or nonce is reported, unless that statement is there and may be skipped.
THEOREM MissingFollowUpsAreFound == ChecksSpec => []EventFindings
<1>1. BodyInv => EventFindings
  <2> SUFFICES ASSUME BodyInv, check = "follow_up" PROVE FollowUp!EventFindings(statements)
    BY DEF EventFindings
  <2>1. check \in DOMAIN Vocabulary /\ Vocabulary[check] = FollowUp!Statements
    BY DEF Vocabulary
  <2> QED BY <2>1, EventsOfBody DEF BodyInv
<1> QED BY <1>1, BodiesAreWalked, PTL

\* The greatest of some positions in a sequence
LEMMA Greatest ==
  ASSUME NEW n \in Nat, NEW P \in SUBSET (1 .. n), P # {}
  PROVE  \E x \in P : \A y \in P : y <= x
<1> DEFINE Gaps == {n - y : y \in P}
<1>1. \A y \in P : y \in Nat /\ n - y \in Nat
  OBVIOUS
<1>2. Gaps \subseteq Nat /\ Gaps # {}
  <2>1. PICK y \in P : TRUE
    OBVIOUS
  <2> QED BY <1>1, <2>1
<1>3. PICK g \in Gaps : \A h \in Gaps : g <= h
  <2> HIDE DEF Gaps
  <2> QED BY <1>2, Least
<1>4. PICK x \in P : g = n - x
  OBVIOUS
<1>5. ASSUME NEW y \in P PROVE y <= x
  <2>1. n - y \in Gaps
    OBVIOUS
  <2>2. n - x <= n - y
    BY <1>3, <1>4, <2>1
  <2>3. x \in Nat /\ y \in Nat
    BY <1>1
  <2> QED BY <2>2, <2>3
<1> QED BY <1>5

\* A key that an execution leaves to expire was written in it, and what extended
\* it there was undone by a removal further down.
LEMMA ExpiresOnly ==
  ASSUME NEW b, NEW run, IsRun(b, run), NEW key, FollowUp!Expires(b, run, key)
  PROVE  /\ \E n \in DOMAIN run : FollowUp!IsSet(b[run[n]]) /\ b[run[n]].on = key
         /\ \A n \in DOMAIN run : FollowUp!IsExtend(b[run[n]]) /\ b[run[n]].on = key =>
              \E m \in DOMAIN run :
                n <= m /\ b[run[m]].does = "remove" /\ b[run[m]].on = key
<1> DEFINE removes == FollowUp!Removes(b, run, key)
           sets    == FollowUp!Writes(b, run, key) \ removes
           gone    == IF removes = {} THEN 0 ELSE FollowUp!Max(removes)
<1>1. /\ sets # {} /\ FollowUp!Max(sets) > gone
      /\ ~\E n \in DOMAIN run : n > gone /\ FollowUp!IsExtend(b[run[n]]) /\ b[run[n]].on = key
  BY Zenon DEF FollowUp!Expires
<1>2. PICK l \in Nat : DOMAIN run = 1 .. l
  BY DEF IsRun
<1>3. /\ \A n \in FollowUp!Writes(b, run, key) :
           n \in DOMAIN run /\ FollowUp!IsSet(b[run[n]]) /\ b[run[n]].on = key
      /\ \A n \in removes :
           n \in DOMAIN run /\ b[run[n]].does = "remove" /\ b[run[n]].on = key
  BY DEF FollowUp!Writes, FollowUp!Removes
<1>4. \E n \in DOMAIN run : FollowUp!IsSet(b[run[n]]) /\ b[run[n]].on = key
  BY <1>1, <1>3
<1>5. ASSUME NEW n \in DOMAIN run, FollowUp!IsExtend(b[run[n]]), b[run[n]].on = key
      PROVE  \E m \in DOMAIN run : n <= m /\ b[run[m]].does = "remove" /\ b[run[m]].on = key
  <2>1. ~(n > gone)
    BY <1>1, <1>5
  <2>2. n \in Nat /\ n > 0
    BY <1>2
  <2>3. removes # {}
    BY <2>1, <2>2
  <2>4. removes \in SUBSET (1 .. l)
    BY <1>2, <1>3
  <2> HIDE DEF removes
  <2>5. \E x \in removes : \A y \in removes : y <= x
    BY <2>3, <2>4, Greatest
  <2>6. FollowUp!Max(removes) \in removes
    <3>1. \E x \in removes : \A y \in removes : x >= y
      <4>1. PICK x \in removes : \A y \in removes : y <= x
        BY <2>5
      <4>2. \A y \in removes : x >= y
        BY <2>4, <4>1
      <4> QED BY <4>2
    <3> QED BY <3>1, Zenon DEF FollowUp!Max
  <2>7. gone = FollowUp!Max(removes) /\ gone \in 1 .. l
    BY <2>3, <2>4, <2>6
  <2>8. n <= FollowUp!Max(removes)
    BY <2>1, <2>2, <2>7
  <2> QED BY <1>3, <2>6, <2>8
<1> QED BY <1>4, <1>5

\* A key that is written in an execution, and extended and removed nowhere in
\* the body, is left to expire by it.
LEMMA ExpiresIf ==
  ASSUME NEW b, NEW run, IsRun(b, run), NEW key,
         NEW n \in DOMAIN run, FollowUp!IsSet(b[run[n]]), b[run[n]].on = key,
         \A j \in 1 .. Len(b) : b[j].on = key => b[j].does # "remove" /\ ~FollowUp!IsExtend(b[j])
  PROVE  FollowUp!Expires(b, run, key)
<1>1. PICK l \in Nat : DOMAIN run = 1 .. l
  BY DEF IsRun
<1>2. \A m \in DOMAIN run : run[m] \in 1 .. Len(b)
  BY DEF IsRun
<1>3. FollowUp!Removes(b, run, key) = {}
  BY <1>2 DEF FollowUp!Removes, FollowUp!Writes
<1> DEFINE sets == FollowUp!Writes(b, run, key) \ FollowUp!Removes(b, run, key)
<1>4. n \in sets /\ sets \in SUBSET (1 .. l)
  BY <1>1, <1>3 DEF FollowUp!Writes
<1> HIDE DEF sets
<1>5. FollowUp!Max(sets) \in sets
  <2>1. PICK x \in sets : \A y \in sets : y <= x
    BY <1>4, Greatest
  <2>2. \A y \in sets : x >= y
    BY <1>4, <2>1
  <2> QED BY <2>2, Zenon DEF FollowUp!Max
<1>6. FollowUp!Max(sets) > 0
  BY <1>4, <1>5
<1>7. ~\E m \in DOMAIN run : m > 0 /\ FollowUp!IsExtend(b[run[m]]) /\ b[run[m]].on = key
  BY <1>2
<1> QED BY <1>3, <1>4, <1>6, <1>7 DEF FollowUp!Expires, sets

LEMMA TtlOfBody ==
  ASSUME NEW b \in Seq(FollowUp!Statements), WalkInv(b), Reached(b)
  PROVE  FollowUp!TtlFindings(b)
<1>1. DOMAIN b = 1 .. Len(b) /\ Len(b) \in Nat /\ \A j \in 1 .. Len(b) : b[j] \in FollowUp!Statements
  OBVIOUS
<1>2. \A run \in Bodies!Runs(b) : IsRun(b, run) /\ \A n \in DOMAIN run : run[n] \in DOMAIN b
  <2>1. \A run \in Bodies!Runs(b) : IsRun(b, run)
    BY RunsAreRuns
  <2>2. \A run \in Bodies!Runs(b) : \A n \in DOMAIN run : run[n] \in 1 .. Len(b)
    BY <2>1 DEF IsRun
  <2> QED BY <1>1, <2>1, <2>2
<1>3. \A i \in DOMAIN b : Plain(b[i]) => \E run \in Bodies!Runs(b) : \E n \in DOMAIN run : run[n] = i
  BY <1>1, PlainIsRun
<1>4. \A j \in DOMAIN b :
        /\ b[j] = [does |-> b[j].does, on |-> b[j].on, fresh |-> TRUE]
        /\ b[j].does \in {"set", "extend"} => b[j].on \in {"k", "l", "t"}
        /\ b[j].does = "remove" => b[j].on = "k"
        /\ b[j].does = "fetch" => b[j].on \in {"k", "t"}
  BY <1>1, FollowUpWords
<1>5. \A s : s \in FollowUp!ToSet(b) <=> \E i \in DOMAIN b : s = b[i]
  BY DEF FollowUp!ToSet
<1>6. /\ FollowUp!TemporaryGets(b) = {i \in DOMAIN b : FollowUp!IsTemporaryGet(b[i])}
      /\ FollowUp!TemporaryWrites(b) = {i \in DOMAIN b : FollowUp!IsTemporaryMutation(b[i])}
  BY DEF FollowUp!TemporaryGets, FollowUp!TemporaryWrites, FollowUp!Places
<1>7. FollowUp!MissingTtlExtension(b) \cap (FollowUp!TemporaryGets(b) \cup FollowUp!TemporaryWrites(b)) = {}
  BY <1>6 DEF FollowUp!MissingTtlExtension, FollowUp!IsTemporaryGet, FollowUp!IsTemporaryMutation
<1>8. ASSUME NEW run \in Bodies!Runs(b),
             FollowUp!Expires(b, run, "t") \/ FollowUp!MayFindExpired(b, run, "t")
      PROVE  FollowUp!TemporaryGets(b) \cup FollowUp!TemporaryWrites(b) # {}
  <2>1. CASE FollowUp!Expires(b, run, "t")
    <3>1. PICK n \in DOMAIN run : FollowUp!IsSet(b[run[n]]) /\ b[run[n]].on = "t"
      BY <1>2, <2>1, ExpiresOnly
    <3>2. run[n] \in FollowUp!TemporaryWrites(b)
      BY <1>2, <1>6, <3>1 DEF FollowUp!IsTemporaryMutation, FollowUp!Persistent
    <3> QED BY <3>2
  <2>2. CASE FollowUp!MayFindExpired(b, run, "t")
    <3>1. PICK n \in DOMAIN run : b[run[n]] = FollowUp!Do("fetch", "t")
      BY <2>2 DEF FollowUp!MayFindExpired
    <3>2. run[n] \in FollowUp!TemporaryGets(b)
      BY <1>2, <1>6, <3>1 DEF FollowUp!IsTemporaryGet, FollowUp!Persistent, FollowUp!Do
    <3> QED BY <3>2
  <2> QED BY <1>8, <2>1, <2>2
<1>9. ASSUME FollowUp!TemporaryGets(b) \cup FollowUp!TemporaryWrites(b) # {},
             FollowUp!Do("extend", "t") \notin FollowUp!ToSet(b)
      PROVE  \E run \in Bodies!Runs(b) :
               FollowUp!Expires(b, run, "t") \/ FollowUp!MayFindExpired(b, run, "t")
  <2>1. PICK i \in DOMAIN b : FollowUp!IsTemporaryGet(b[i]) \/ FollowUp!IsTemporaryMutation(b[i])
    BY <1>6, <1>9
  <2>2. b[i].on = "t" /\ (b[i].does = "fetch" \/ FollowUp!IsSet(b[i]))
    BY <1>4, <2>1 DEF FollowUp!IsTemporaryGet, FollowUp!IsTemporaryMutation, FollowUp!Persistent,
      FollowUp!IsSet
  <2>3. PICK run \in Bodies!Runs(b) : \E n \in DOMAIN run : run[n] = i
    BY <1>3, <2>2 DEF Plain, FollowUp!IsSet
  <2>4. PICK n \in DOMAIN run : run[n] = i
    BY <2>3
  <2>5. CASE b[i].does = "fetch"
    <3>1. b[i] = FollowUp!Do("fetch", "t")
      BY <1>4, <2>2, <2>5 DEF FollowUp!Do
    <3> QED BY <2>4, <3>1 DEF FollowUp!MayFindExpired
  <2>6. CASE FollowUp!IsSet(b[i])
    <3>1. \A j \in 1 .. Len(b) : b[j].on = "t" => b[j].does # "remove" /\ ~FollowUp!IsExtend(b[j])
      <4> SUFFICES ASSUME NEW j \in DOMAIN b, b[j].on = "t"
                   PROVE  b[j].does # "remove" /\ b[j].does # "extend"
        BY <1>1 DEF FollowUp!IsExtend
      <4>1. b[j].does # "remove"
        BY <1>4
      <4>2. b[j].does = "extend" => b[j] = FollowUp!Do("extend", "t")
        BY <1>4 DEF FollowUp!Do
      <4>3. b[j] \in FollowUp!ToSet(b)
        BY <1>5
      <4> QED BY <1>9, <4>1, <4>2, <4>3
    <3> QED BY <1>2, <2>2, <2>4, <2>6, <3>1, ExpiresIf
  <2> QED BY <2>2, <2>5, <2>6
<1>10. ASSUME NEW key \in {"k", "l"}, NEW run \in Bodies!Runs(b), FollowUp!Expires(b, run, key)
       PROVE  \/ {i \in FollowUp!MissingTtlExtension(b) : b[i].on = key} # {}
              \/ \E i \in DOMAIN b : b[i] = FollowUp!Do("extend", key) /\ FollowUp!Skippable(b, i)
              \/ \E i, j \in DOMAIN b :
                   i < j /\ b[i] = FollowUp!Do("extend", key) /\ b[j] = FollowUp!Do("remove", key)
  <2>1. PICK n \in DOMAIN run : FollowUp!IsSet(b[run[n]]) /\ b[run[n]].on = key
    BY <1>2, <1>10, ExpiresOnly
  <2>2. SUFFICES ASSUME key \in FollowUp!ExtendedKeys(b),
                        ~\E i \in DOMAIN b : b[i] = FollowUp!Do("extend", key) /\ FollowUp!Skippable(b, i)
                 PROVE  \E i, j \in DOMAIN b :
                   i < j /\ b[i] = FollowUp!Do("extend", key) /\ b[j] = FollowUp!Do("remove", key)
    <3>1. key \notin FollowUp!ExtendedKeys(b) => run[n] \in FollowUp!MissingTtlExtension(b)
      BY <1>2, <2>1 DEF FollowUp!MissingTtlExtension, FollowUp!Persistent
    <3> QED BY <2>1, <3>1
  <2>3. PICK s \in FollowUp!ToSet(b) : FollowUp!IsExtend(s) /\ s.on = key
    BY <2>2 DEF FollowUp!ExtendedKeys
  <2>4. PICK i \in DOMAIN b : b[i] = s
    BY <1>5, <2>3
  <2>5. b[i] = FollowUp!Do("extend", key)
    BY <1>4, <2>3, <2>4 DEF FollowUp!Do, FollowUp!IsExtend
  <2>6. Plain(b[i]) /\ ~FollowUp!Skippable(b, i)
    BY <2>2, <2>5 DEF Plain, FollowUp!Do
  <2>7. PICK m \in DOMAIN run : run[m] = i
    BY <2>6, NeverSkipped
  <2>8. PICK q \in DOMAIN run : m <= q /\ b[run[q]].does = "remove" /\ b[run[q]].on = key
    BY <1>2, <1>10, <2>3, <2>4, <2>7, ExpiresOnly
  <2>9. b[run[q]] = FollowUp!Do("remove", key) /\ run[q] \in DOMAIN b
    BY <1>2, <1>4, <2>8 DEF FollowUp!Do
  <2>10. m # q
    BY <2>5, <2>7, <2>8 DEF FollowUp!Do
  <2>11. m < q
    <3>1. m \in Nat /\ q \in Nat
      BY <1>2 DEF IsRun
    <3> QED BY <2>8, <2>10, <3>1
  <2>12. i < run[q]
    BY <1>2, <2>7, <2>11 DEF IsRun
  <2> QED BY <2>5, <2>9, <2>12
<1>11. ASSUME NEW key \in {"k", "l"}, {i \in FollowUp!MissingTtlExtension(b) : b[i].on = key} # {},
              FollowUp!Do("remove", key) \notin FollowUp!ToSet(b)
       PROVE  \E run \in Bodies!Runs(b) : FollowUp!Expires(b, run, key)
  <2>1. PICK i \in DOMAIN b : FollowUp!IsSet(b[i]) /\ b[i].on = key /\ key \notin FollowUp!ExtendedKeys(b)
    BY <1>11 DEF FollowUp!MissingTtlExtension
  <2>2. PICK run \in Bodies!Runs(b) : \E n \in DOMAIN run : run[n] = i
    BY <1>3, <2>1 DEF Plain, FollowUp!IsSet
  <2>3. PICK n \in DOMAIN run : run[n] = i
    BY <2>2
  <2>4. ASSUME NEW j \in 1 .. Len(b), b[j].on = key
        PROVE  b[j].does # "remove" /\ ~FollowUp!IsExtend(b[j])
    <3>1. b[j].does = "remove" => b[j] = FollowUp!Do("remove", key)
      BY <1>1, <1>4, <2>4 DEF FollowUp!Do
    <3>2. FollowUp!IsExtend(b[j]) => key \in FollowUp!ExtendedKeys(b)
      BY <1>1, <1>5, <2>4 DEF FollowUp!ExtendedKeys, FollowUp!Persistent
    <3> QED BY <1>1, <1>5, <1>11, <2>1, <3>1, <3>2
  <2> QED BY <1>2, <2>1, <2>3, <2>4, ExpiresIf
<1> QED BY <1>7, <1>8, <1>9, <1>10, <1>11, FollowUpIsBodies DEF FollowUp!TtlFindings

\* missing-ttl-extension and the temporary half of unsafe-storage-patterns, for
\* bodies of any length and depth: a key that an execution leaves to expire is
\* reported by the check its storage belongs to, but for the limits named.
THEOREM ExpiringKeysAreFound == ChecksSpec => []TtlFindings
<1>1. BodyInv => TtlFindings
  <2> SUFFICES ASSUME BodyInv, check = "follow_up" PROVE FollowUp!TtlFindings(statements)
    BY DEF TtlFindings
  <2>1. check \in DOMAIN Vocabulary /\ Vocabulary[check] = FollowUp!Statements
    BY DEF Vocabulary
  <2> QED BY <2>1, TtlOfBody DEF BodyInv
<1> QED BY <1>1, BodiesAreWalked, PTL

-----------------------------------------------------------------------------
(* Privileged methods *)

LEMMA PrivilegedIsBodies ==
  /\ \A b : Privileged!Runs(b) = Bodies!Runs(b)
  /\ \A b, i : Privileged!Depth(b, i) = Bodies!Depth(b, i)
  /\ \A b, i : Privileged!Line(b, i) = Lines(b, i)
  /\ \A T : Privileged!Cardinality(T) = Cardinality(T)
<1>1. \A T : Privileged!Cardinality(T) = Cardinality(T) /\ Bodies!Cardinality(T) = Cardinality(T)
  BY Zenon DEF Privileged!Cardinality, Bodies!Cardinality, Cardinality
<1>2. \A b, i : Privileged!Line(b, i) = Lines(b, i)
  BY <1>1, Zenon DEF Privileged!Line, Privileged!Quantify, Lines, Starts
<1>3. \A b, i : Privileged!Depth(b, i) = Bodies!Depth(b, i)
  BY <1>1, Zenon DEF Privileged!Depth, Bodies!Depth, Privileged!Quantify, Bodies!Quantify
<1>4. \A b : Privileged!Runs(b) = Bodies!Runs(b)
  BY Zenon DEF Privileged!Runs, Bodies!Runs, Privileged!Walk, Bodies!Walk, Privileged!Start, Bodies!Start,
    Privileged!Advance, Bodies!Advance, Privileged!Skips, Bodies!Skips, Privileged!Takes, Bodies!Takes,
    Privileged!Does, Bodies!Does, Privileged!Leaves, Bodies!Leaves, Privileged!Live, Bodies!Live
<1> QED BY <1>1, <1>2, <1>3, <1>4

LEMMA PrivilegedWords ==
  \A s \in Privileged!Statements :
    /\ s.does \in {"auth", "load", "let", "if", "guard", "op", "else", "end", "return"}
    /\ s.does = "load" => s.on \in {"admin", "owner"}
    /\ s.does = "let" => s.on = "admin"
    /\ s.does = "auth" => s.on \in {"env", "user", "admin", "owner", "chain"}
    /\ s.does = "auth" /\ s.fresh => s = Privileged!Do("auth", s.on)
  BY DEF Privileged!Statements, Privileged!Do, Privileged!Also

\* A stored name was loaded above; a loaded name is stored, unless a `let` below
\* a load gives some name to something else.
LEMMA StoredIs ==
  ASSUME NEW b \in Seq(Privileged!Statements), NEW i \in DOMAIN b, NEW name
  PROVE  /\ Privileged!Stored(b, i, name) =>
              \E j \in 1 .. (i - 1) : b[j].does = "load" /\ b[j].on = name
         /\ ~Privileged!Shadowed(b) /\ (\E j \in 1 .. (i - 1) : b[j].does = "load" /\ b[j].on = name) =>
              Privileged!Stored(b, i, name)
<1> DEFINE lets == {j \in 1 .. (i - 1) : b[j].does \in {"load", "let"} /\ b[j].on = name}
<1>1. Privileged!Stored(b, i, name) <=> lets # {} /\ b[Privileged!Max(lets)].does = "load"
  BY DEF Privileged!Stored
<1>2. i - 1 \in Nat /\ lets \in SUBSET (1 .. (i - 1)) /\ \A j \in 1 .. (i - 1) : j \in DOMAIN b
  OBVIOUS
<1>3. \A j \in 1 .. (i - 1) : j \in lets <=> b[j].does \in {"load", "let"} /\ b[j].on = name
  OBVIOUS
<1> HIDE DEF lets
<1>4. lets # {} =>
        /\ Privileged!Max(lets) \in lets
        /\ \A y \in lets : Privileged!Max(lets) >= y
  <2> SUFFICES ASSUME lets # {}
               PROVE  Privileged!Max(lets) \in lets /\ \A y \in lets : Privileged!Max(lets) >= y
    OBVIOUS
  <2>1. PICK x \in lets : \A y \in lets : y <= x
    BY <1>2, Greatest
  <2>2. \A y \in lets : x >= y
    BY <1>2, <2>1
  <2> QED BY <2>2, Zenon DEF Privileged!Max
<1>5. ASSUME Privileged!Stored(b, i, name)
      PROVE  \E j \in 1 .. (i - 1) : b[j].does = "load" /\ b[j].on = name
  BY <1>1, <1>2, <1>3, <1>4, <1>5
<1>6. ASSUME ~Privileged!Shadowed(b),
             \E j \in 1 .. (i - 1) : b[j].does = "load" /\ b[j].on = name
      PROVE  Privileged!Stored(b, i, name)
  <2>1. PICK j \in 1 .. (i - 1) : b[j].does = "load" /\ b[j].on = name
    BY <1>6
  <2> DEFINE last == Privileged!Max(lets)
  <2>2. j \in lets /\ last \in lets /\ last >= j
    BY <1>3, <1>4, <2>1
  <2> HIDE DEF last
  <2>3. last \in 1 .. (i - 1) /\ last \in DOMAIN b /\ j \in DOMAIN b
    BY <1>2, <2>2
  <2>4. b[last].does \in {"load", "let"}
    BY <1>3, <2>2, <2>3
  <2>5. ASSUME b[last].does = "let" PROVE FALSE
    <3>1. j # last
      BY <2>1, <2>5
    <3>2. j < last
      BY <2>2, <2>3, <3>1
    <3> QED BY <1>6, <2>1, <2>3, <2>5, <3>2 DEF Privileged!Shadowed
  <2>6. b[last].does = "load"
    BY <2>4, <2>5
  <2> QED BY <1>1, <2>2, <2>6 DEF last
<1> QED BY <1>5, <1>6

LEMMA AdminOfBody ==
  ASSUME NEW b \in Seq(Privileged!Statements), WalkInv(b), Reached(b)
  PROVE  Privileged!AdminFindings(b)
<1>1. DOMAIN b = 1 .. Len(b) /\ Len(b) \in Nat /\ \A j \in 1 .. Len(b) : b[j] \in Privileged!Statements
  OBVIOUS
<1>2. \A run \in Bodies!Runs(b) : IsRun(b, run) /\ \A n \in DOMAIN run : run[n] \in DOMAIN b
  <2>1. \A run \in Bodies!Runs(b) : IsRun(b, run)
    BY RunsAreRuns
  <2>2. \A run \in Bodies!Runs(b) : \A n \in DOMAIN run : run[n] \in 1 .. Len(b)
    BY <2>1 DEF IsRun
  <2> QED BY <1>1, <2>1, <2>2
<1>3. Privileged!Has(b, Privileged!IsOp) <=> \E i \in DOMAIN b : Privileged!IsOp(b[i])
  BY DEF Privileged!Has, Privileged!Places
\* What was stored has one of the two names, and was loaded above.
<1>4. \A i \in DOMAIN b : Privileged!Stored(b, i, b[i].on) =>
        b[i].on \in {"admin", "owner"} /\ b[i].on \in Privileged!AdminVars(b, i, Privileged!UtilKeywords)
  <2> SUFFICES ASSUME NEW i \in DOMAIN b, Privileged!Stored(b, i, b[i].on)
               PROVE  b[i].on \in {"admin", "owner"}
                      /\ b[i].on \in Privileged!AdminVars(b, i, Privileged!UtilKeywords)
    OBVIOUS
  <2>1. PICK j \in 1 .. (i - 1) : b[j].does = "load" /\ b[j].on = b[i].on
    BY StoredIs
  <2>2. b[i].on \in {"admin", "owner"}
    BY <1>1, <2>1, PrivilegedWords
  <2> QED BY <2>1, <2>2 DEF Privileged!AdminVars, Privileged!UtilKeywords
<1>5. ASSUME Privileged!Has(b, Privileged!IsOp), Privileged!UnprotectedAdmin(b)
      PROVE  Privileged!Never(b)
  <2>1. PICK i \in DOMAIN b : Privileged!IsOp(b[i])
    BY <1>3, <1>5
  <2>2. Plain(b[i])
    BY <2>1 DEF Privileged!IsOp, Plain
  <2>3. PICK run \in Bodies!Runs(b) : \E n \in DOMAIN run : run[n] = i
    BY <1>1, <2>2, PlainIsRun
  <2>4. ASSUME NEW k \in DOMAIN b, Privileged!Authorizes(b, k) PROVE FALSE
    <3>1. b[k].does = "auth" /\ (b[k].on \in {"env", "chain"} \/ b[k].on \in {"admin", "owner"})
      BY <1>4, <2>4 DEF Privileged!Authorizes
    <3> QED BY <1>5, <3>1 DEF Privileged!UnprotectedAdmin, Privileged!IsPrivileged
  <2>5. ASSUME NEW k \in DOMAIN b, Privileged!Compares(b, k) PROVE FALSE
    <3>1. /\ b[k].does \in {"if", "guard"} /\ b[k].on \in {"admin", "owner"}
          /\ b[k].on \in Privileged!AdminVars(b, k, Privileged!UtilKeywords)
      BY <1>4, <2>5 DEF Privileged!Compares
    <3>2. Privileged!IsConditional(b, k)
      BY <3>1 DEF Privileged!IsConditional
    <3> QED BY <1>5, <3>2 DEF Privileged!UnprotectedAdmin
  <2>6. \A n \in DOMAIN run : ~Privileged!Authorizes(b, run[n]) /\ ~Privileged!Compares(b, run[n])
    BY <1>2, <2>4, <2>5
  <2> QED BY <2>1, <2>3, <2>6, PrivilegedIsBodies DEF Privileged!Never
<1>6. ASSUME Privileged!Never(b), ~Privileged!UnprotectedAdmin(b),
             ~\E i \in DOMAIN b : Privileged!IsConditional(b, i),
             ~\E i \in DOMAIN b :
                /\ b[i].does = "auth"
                /\ Privileged!Inside(b, i) \/ \E j \in 1 .. i : b[j].does \in {"guard", "return"},
             ~\E i \in DOMAIN b : /\ b[i].does = "auth" /\ b[i].on \in Privileged!UtilKeywords
                                  /\ ~Privileged!Stored(b, i, b[i].on)
      PROVE  FALSE
  <2>1. PICK i \in DOMAIN b : b[i].does = "auth" /\ Privileged!IsPrivileged(b[i].on)
    BY <1>6 DEF Privileged!UnprotectedAdmin
  <2>2. Privileged!Authorizes(b, i)
    BY <1>6, <2>1 DEF Privileged!Authorizes, Privileged!IsPrivileged, Privileged!UtilKeywords
  <2>3. PICK run \in Bodies!Runs(b) : \A n \in DOMAIN run : ~Privileged!Authorizes(b, run[n])
    BY <1>6, PrivilegedIsBodies DEF Privileged!Never
  <2>4. Bodies!Depth(b, i) = 0
    <3>1. Bodies!Depth(b, i) >= 0 /\ Bodies!Depth(b, i) \in Int
      BY <1>1, DepthIs, OfIsFinite DEF WalkInv, WellNested
    <3>2. ~(Bodies!Depth(b, i) > 0)
      BY <1>6, <2>1, PrivilegedIsBodies DEF Privileged!Inside
    <3> QED BY <3>1, <3>2
  <2>5. ~ExitedBefore(b, i)
    BY <1>6, <2>1 DEF ExitedBefore, Exits
  <2>6. Plain(b[i])
    BY <2>1 DEF Plain
  <2>7. \E n \in DOMAIN run : run[n] = i
    BY <1>1, <1>2, <2>4, <2>5, <2>6 DEF IsRun
  <2> QED BY <2>2, <2>3, <2>7
<1> QED BY <1>5, <1>6 DEF Privileged!AdminFindings

\* unprotected-admin, for bodies of any length and depth: a report means an
\* execution that neither asked nor compared with a privileged identity, and
\* each such execution is reported, but for the limits named.
THEOREM UngatedAdminsAreFound == ChecksSpec => []AdminFindings
<1>1. BodyInv => AdminFindings
  <2> SUFFICES ASSUME BodyInv, check = "privileged" PROVE Privileged!AdminFindings(statements)
    BY DEF AdminFindings
  <2>1. check \in DOMAIN Vocabulary /\ Vocabulary[check] = Privileged!Statements
    BY DEF Vocabulary
  <2> QED BY <2>1, AdminOfBody DEF BodyInv
<1> QED BY <1>1, BodiesAreWalked, PTL

\* The first authorization a check accepts
LEMMA ValidAuthIs ==
  ASSUME NEW b \in Seq(Privileged!Statements), NEW keywords
  PROVE  LET auth == Privileged!FirstValidAuth(b, keywords) IN
         /\ \A i \in DOMAIN b : Privileged!IsValidAuth(b, i, keywords) => auth \in DOMAIN b /\ auth <= i
         /\ auth = 0 \/ (auth \in DOMAIN b /\ Privileged!IsValidAuth(b, auth, keywords))
<1> DEFINE valid == {i \in DOMAIN b : Privileged!IsValidAuth(b, i, keywords)}
           auth  == Privileged!FirstValidAuth(b, keywords)
<1>1. auth = IF valid = {} THEN 0 ELSE Privileged!Min(valid)
  BY DEF Privileged!FirstValidAuth
<1>2. valid \subseteq Nat /\ valid \subseteq DOMAIN b
  OBVIOUS
<1>3. \A i \in DOMAIN b : i \in valid <=> Privileged!IsValidAuth(b, i, keywords)
  OBVIOUS
<1> HIDE DEF valid, auth
<1>4. valid # {} => Privileged!Min(valid) \in valid /\ \A y \in valid : Privileged!Min(valid) <= y
  <2>1. valid # {} => \E x \in valid : \A y \in valid : x <= y
    BY <1>2, Least
  <2> QED BY <2>1, Zenon DEF Privileged!Min
<1>5. valid # {} => auth \in DOMAIN b /\ auth \in valid /\ \A y \in valid : auth <= y
  BY <1>1, <1>2, <1>4
<1>6. \A i \in DOMAIN b : Privileged!IsValidAuth(b, i, keywords) => auth \in DOMAIN b /\ auth <= i
  BY <1>3, <1>5
<1>7. auth = 0 \/ (auth \in DOMAIN b /\ Privileged!IsValidAuth(b, auth, keywords))
  BY <1>1, <1>3, <1>5
<1> QED BY <1>6, <1>7 DEF auth

\* An execution that acts too early is reported for any action that is not
\* below the one it does, unless the authorization it lacks is in a branch.
LEMMA TooEarlyIsReported ==
  ASSUME NEW b \in Seq(Privileged!Statements), WalkInv(b), Privileged!TooEarly(b),
         NEW keywords \in SUBSET {"admin", "owner"}, NEW op \in DOMAIN b,
         \A i \in DOMAIN b : Privileged!IsOp(b[i]) => op <= i,
         ~Privileged!Shadowed(b)
  PROVE  LET auth == Privileged!FirstValidAuth(b, keywords) IN
         Privileged!Unprotected(b, op, auth) \/ (auth # 0 /\ Privileged!Inside(b, auth))
<1> DEFINE auth == Privileged!FirstValidAuth(b, keywords)
<1>1. DOMAIN b = 1 .. Len(b) /\ Len(b) \in Nat
  OBVIOUS
<1>2. auth = 0 \/ (auth \in DOMAIN b /\ Privileged!IsValidAuth(b, auth, keywords))
  BY ValidAuthIs
<1> HIDE DEF auth
<1> SUFFICES ASSUME ~Privileged!Unprotected(b, op, auth), ~(auth # 0 /\ Privileged!Inside(b, auth))
             PROVE  FALSE
  BY DEF auth
<1>3. PICK run \in Bodies!Runs(b) : \E n \in DOMAIN run :
        Privileged!IsOp(b[run[n]]) /\ \A m \in 1 .. (n - 1) : ~Privileged!Authorizes(b, run[m])
  BY PrivilegedIsBodies DEF Privileged!TooEarly
<1>4. PICK n \in DOMAIN run :
        Privileged!IsOp(b[run[n]]) /\ \A m \in 1 .. (n - 1) : ~Privileged!Authorizes(b, run[m])
  BY <1>3
<1>5. IsRun(b, run)
  BY RunsAreRuns
<1>6. run[n] \in DOMAIN b /\ op <= run[n]
  BY <1>1, <1>4, <1>5 DEF IsRun
<1>7. op # 0 /\ op \in Nat
  BY <1>1
<1>8. auth # 0 /\ ~(Lines(b, auth) >= Lines(b, op))
  BY <1>7, PrivilegedIsBodies DEF Privileged!Unprotected
<1>9. auth \in DOMAIN b /\ Privileged!IsValidAuth(b, auth, keywords)
  BY <1>2, <1>8
<1>10. auth < op
  <2>1. auth \in Nat
    BY <1>1, <1>9
  <2>2. Lines(b, auth) \in Nat /\ Lines(b, op) \in Nat
    BY <1>7, <2>1, LinesOrder
  <2> QED BY <1>7, <1>8, <2>1, <2>2, LinesOrder
<1>11. Bodies!Depth(b, auth) = 0
  <2>1. Bodies!Depth(b, auth) >= 0 /\ Bodies!Depth(b, auth) \in Int
    BY <1>1, <1>9, DepthIs, OfIsFinite DEF WalkInv, WellNested
  <2>2. ~(Bodies!Depth(b, auth) > 0)
    BY <1>8, PrivilegedIsBodies DEF Privileged!Inside
  <2> QED BY <2>1, <2>2
<1>12. Bodies!InBlockOf(b, auth, run[n])
  BY <1>1, <1>6, <1>9, <1>11, AtTheTop DEF WalkInv
<1>13. b[auth].does = "auth"
  BY <1>9 DEF Privileged!IsValidAuth
<1>14. \E m \in 1 .. (n - 1) : run[m] = auth
  <2>1. auth \in 1 .. (run[n] - 1)
    BY <1>1, <1>6, <1>7, <1>9, <1>10
  <2> QED BY <1>5, <1>12, <1>13, <2>1 DEF IsRun
<1>15. Privileged!Authorizes(b, auth)
  <2>1. CASE b[auth].on = "env"
    BY <1>13, <2>1 DEF Privileged!Authorizes
  <2>2. CASE b[auth].on \in Privileged!AdminVars(b, auth, keywords)
    <3>1. \E j \in 1 .. (auth - 1) : b[j].does = "load" /\ b[j].on = b[auth].on
      BY <2>2 DEF Privileged!AdminVars
    <3>2. Privileged!Stored(b, auth, b[auth].on)
      BY <1>9, <3>1, StoredIs
    <3> QED BY <1>13, <3>2 DEF Privileged!Authorizes
  <2> QED BY <1>9, <2>1, <2>2 DEF Privileged!IsValidAuth
<1> QED BY <1>4, <1>14, <1>15

\* A report is of an execution that acts too early.
LEMMA ReportedIsTooEarly ==
  ASSUME NEW b \in Seq(Privileged!Statements), WalkInv(b), Reached(b),
         NEW keywords, NEW op \in DOMAIN b, Privileged!IsOp(b[op]),
         Privileged!Unprotected(b, op, Privileged!FirstValidAuth(b, keywords)),
         ~Privileged!Chained(b), ~Privileged!SameLine(b),
         "admin" \in keywords,
         "owner" \in keywords \/ Privileged!Do("auth", "owner") \notin Privileged!ToSet(b)
  PROVE  Privileged!TooEarly(b)
<1> DEFINE auth == Privileged!FirstValidAuth(b, keywords)
<1>1. DOMAIN b = 1 .. Len(b) /\ Len(b) \in Nat /\ \A j \in 1 .. Len(b) : b[j] \in Privileged!Statements
  OBVIOUS
<1>2. \A i \in DOMAIN b : Privileged!IsValidAuth(b, i, keywords) => auth \in DOMAIN b /\ auth <= i
  BY ValidAuthIs
<1>3. auth = 0 \/ Lines(b, auth) >= Lines(b, op)
  BY PrivilegedIsBodies DEF Privileged!Unprotected
<1> HIDE DEF auth
<1>4. \A i \in DOMAIN b : b[i].fresh
  BY DEF Privileged!SameLine
<1>5. Plain(b[op])
  BY DEF Privileged!IsOp, Plain
<1>6. PICK run \in Bodies!Runs(b) : IsRun(b, run) /\ \E n \in DOMAIN run : run[n] = op
  BY <1>1, <1>5, PlainIsRun
<1>7. PICK n \in DOMAIN run : run[n] = op
  BY <1>6
<1>8. ASSUME NEW m \in 1 .. (n - 1), Privileged!Authorizes(b, run[m]) PROVE FALSE
  <2> DEFINE i == run[m]
  <2>1. m \in DOMAIN run /\ m < n
    BY <1>6, <1>7 DEF IsRun
  <2>2. i \in DOMAIN b /\ i < op
    BY <1>1, <1>6, <1>7, <2>1 DEF IsRun
  <2>3. b[i].does = "auth" /\ (b[i].on \in {"env", "chain"} \/ Privileged!Stored(b, i, b[i].on))
    BY <1>8 DEF Privileged!Authorizes
  <2> HIDE DEF i
  <2>4. b[i] \in Privileged!ToSet(b)
    BY <2>2 DEF Privileged!ToSet
  <2>5. b[i].on # "chain"
    BY <2>3, <2>4 DEF Privileged!Chained
  <2>6. Privileged!IsValidAuth(b, i, keywords)
    <3>1. CASE b[i].on = "env"
      BY <2>3, <3>1 DEF Privileged!IsValidAuth
    <3>2. CASE Privileged!Stored(b, i, b[i].on)
      <4>1. PICK j \in 1 .. (i - 1) : b[j].does = "load" /\ b[j].on = b[i].on
        BY <2>2, <3>2, StoredIs
      <4>2. j \in 1 .. Len(b)
        BY <1>1, <2>2
      <4>3. b[i].on \in {"admin", "owner"}
        BY <1>1, <4>1, <4>2, PrivilegedWords
      <4>4. b[i].on = "owner" => b[i] = Privileged!Do("auth", "owner")
        BY <1>1, <1>4, <2>2, <2>3, PrivilegedWords
      <4>5. b[i].on \in keywords
        BY <2>4, <4>3, <4>4
      <4> QED BY <2>3, <4>1, <4>5 DEF Privileged!IsValidAuth, Privileged!AdminVars
    <3> QED BY <2>3, <2>5, <3>1, <3>2
  <2>7. auth \in DOMAIN b /\ auth <= i
    BY <1>2, <2>2, <2>6
  <2>8. auth \in Nat /\ auth < op /\ op \in Nat /\ auth # 0
    BY <1>1, <2>2, <2>7
  <2>9. Lines(b, auth) = Lines(b, op)
    <3>1. Lines(b, auth) \in Nat /\ Lines(b, op) \in Nat /\ Lines(b, auth) <= Lines(b, op)
      BY <2>8, LinesOrder
    <3> QED BY <1>3, <2>8, <3>1
  <2>10. op \in (auth + 1) .. op
    BY <2>8
  <2>11. ~b[op].fresh
    BY <2>8, <2>9, <2>10, LinesOrder
  <2> QED BY <1>4, <2>11
<1> QED BY <1>7, <1>8, PrivilegedIsBodies DEF Privileged!TooEarly

\* Where the three checks look for the action
LEMMA OpsAre ==
  ASSUME NEW b \in Seq(Privileged!Statements)
  PROVE  LET op == Privileged!First(b, Privileged!IsOp)  last == Privileged!LastDeployer(b) IN
         /\ op # 0 <=> \E i \in DOMAIN b : Privileged!IsOp(b[i])
         /\ last # 0 <=> \E i \in DOMAIN b : Privileged!IsOp(b[i])
         /\ op # 0 => /\ op \in DOMAIN b /\ Privileged!IsOp(b[op])
                      /\ \A i \in DOMAIN b : Privileged!IsOp(b[i]) => op <= i
         /\ last # 0 => /\ last \in DOMAIN b /\ Privileged!IsOp(b[last])
                        /\ ~(Privileged!Cardinality(Privileged!Places(b, Privileged!IsOp)) > 1) =>
                             \A i \in DOMAIN b : Privileged!IsOp(b[i]) => last <= i
<1> DEFINE ops  == {i \in DOMAIN b : Privileged!IsOp(b[i])}
           op   == Privileged!First(b, Privileged!IsOp)
           last == Privileged!LastDeployer(b)
<1>1. /\ op = IF ops # {} THEN Privileged!Min(ops) ELSE 0
      /\ last = IF ops # {} THEN Privileged!Max(ops) ELSE 0
      /\ Privileged!Places(b, Privileged!IsOp) = ops
  BY DEF Privileged!First, Privileged!LastDeployer, Privileged!Has, Privileged!Places
<1>2. \A i \in DOMAIN b : i \in ops <=> Privileged!IsOp(b[i])
  OBVIOUS
<1>3. Len(b) \in Nat /\ DOMAIN b = 1 .. Len(b) /\ ops \in SUBSET (1 .. Len(b))
  OBVIOUS
<1> HIDE DEF ops, op, last
<1>4. ops # {} => Privileged!Min(ops) \in ops /\ \A y \in ops : Privileged!Min(ops) <= y
  <2>1. ops \subseteq Nat
    BY <1>3
  <2>2. ops # {} => \E x \in ops : \A y \in ops : x <= y
    BY <2>1, Least
  <2> QED BY <2>2, Zenon DEF Privileged!Min
<1>5. ops # {} => Privileged!Max(ops) \in ops
  <2> SUFFICES ASSUME ops # {} PROVE Privileged!Max(ops) \in ops
    OBVIOUS
  <2>1. PICK x \in ops : \A y \in ops : y <= x
    BY <1>3, Greatest
  <2>2. \A y \in ops : x >= y
    BY <1>3, <2>1
  <2> QED BY <2>2, Zenon DEF Privileged!Max
<1>6. ASSUME ops # {}, ~(Privileged!Cardinality(Privileged!Places(b, Privileged!IsOp)) > 1)
      PROVE  \A i \in ops : i = last
  <2>1. IsFiniteSet(ops) /\ Cardinality(ops) \in Nat
    <3>1. IsFiniteSet(1 .. Len(b))
      BY <1>3, FS_Interval
    <3> QED BY <1>3, <3>1, FS_Subset, FS_CardinalityType
  <2>2. Cardinality(ops) = 1
    <3>1. ~(Cardinality(ops) > 1)
      BY <1>1, <1>6, PrivilegedIsBodies
    <3>2. Cardinality(ops) # 0
      BY <1>6, <2>1, FS_EmptySet
    <3> QED BY <2>1, <3>1, <3>2
  <2>3. PICK x : ops = {x}
    BY <2>1, <2>2, FS_Singleton
  <2> QED BY <1>1, <1>5, <1>6, <2>3
<1>7. \A i \in ops : i # 0 /\ i \in DOMAIN b /\ i <= i
  BY <1>3
<1>8. /\ op # 0 <=> \E i \in DOMAIN b : Privileged!IsOp(b[i])
      /\ last # 0 <=> \E i \in DOMAIN b : Privileged!IsOp(b[i])
  BY <1>1, <1>2, <1>4, <1>5, <1>7
<1>9. op # 0 => /\ op \in DOMAIN b /\ Privileged!IsOp(b[op])
                /\ \A i \in DOMAIN b : Privileged!IsOp(b[i]) => op <= i
  BY <1>1, <1>2, <1>4, <1>7
<1>10. last # 0 => /\ last \in DOMAIN b /\ Privileged!IsOp(b[last])
                   /\ ~(Privileged!Cardinality(Privileged!Places(b, Privileged!IsOp)) > 1) =>
                        \A i \in DOMAIN b : Privileged!IsOp(b[i]) => last <= i
  BY <1>1, <1>2, <1>5, <1>6, <1>7
<1> QED BY <1>8, <1>9, <1>10 DEF op, last

LEMMA OrderedOfBody ==
  ASSUME NEW b \in Seq(Privileged!Statements), WalkInv(b), Reached(b)
  PROVE  Privileged!OrderedFindings(b)
<1> DEFINE op == Privileged!First(b, Privileged!IsOp)  last == Privileged!LastDeployer(b)
           Asked(keywords) == Privileged!FirstValidAuth(b, keywords)
           util == {"admin", "owner"}  mint == {"admin"}
<1>1. /\ op # 0 <=> \E i \in DOMAIN b : Privileged!IsOp(b[i])
      /\ last # 0 <=> \E i \in DOMAIN b : Privileged!IsOp(b[i])
      /\ op # 0 => /\ op \in DOMAIN b /\ Privileged!IsOp(b[op])
                   /\ \A i \in DOMAIN b : Privileged!IsOp(b[i]) => op <= i
      /\ last # 0 => /\ last \in DOMAIN b /\ Privileged!IsOp(b[last])
                     /\ ~(Privileged!Cardinality(Privileged!Places(b, Privileged!IsOp)) > 1) =>
                          \A i \in DOMAIN b : Privileged!IsOp(b[i]) => last <= i
  BY OpsAre
<1>2. /\ Privileged!UnprotectedUpgrade(b) <=> Privileged!Unprotected(b, op, Asked(util))
      /\ Privileged!UnprotectedTokenMint(b) <=> Privileged!Unprotected(b, op, Asked(mint))
      /\ Privileged!UnprotectedContractDeployment(b) <=> Privileged!Unprotected(b, last, Asked(util))
  BY DEF Privileged!UnprotectedUpgrade, Privileged!UnprotectedTokenMint, Privileged!FirstDeploymentAuth,
    Privileged!UnprotectedContractDeployment, Privileged!UtilKeywords, Privileged!MintKeywords
<1>3. Privileged!TooEarly(b) => op # 0 /\ last # 0
  <2> SUFFICES ASSUME Privileged!TooEarly(b) PROVE \E i \in DOMAIN b : Privileged!IsOp(b[i])
    BY <1>1
  <2>1. PICK run \in Bodies!Runs(b) : \E n \in DOMAIN run : Privileged!IsOp(b[run[n]])
    BY PrivilegedIsBodies DEF Privileged!TooEarly
  <2>2. \A n \in DOMAIN run : run[n] \in DOMAIN b
    BY RunsAreRuns DEF IsRun
  <2> QED BY <2>1, <2>2
<1>4. \A p, keywords : Privileged!Unprotected(b, p, Asked(keywords)) => p # 0
  BY DEF Privileged!Unprotected
<1> HIDE DEF op, last
<1>5. ASSUME Privileged!TooEarly(b), ~Privileged!Shadowed(b), NEW keywords \in SUBSET {"admin", "owner"}
      PROVE  /\ \/ Privileged!Unprotected(b, op, Asked(keywords))
                \/ Asked(keywords) # 0 /\ Privileged!Inside(b, Asked(keywords))
             /\ \/ Privileged!Unprotected(b, last, Asked(keywords))
                \/ Asked(keywords) # 0 /\ Privileged!Inside(b, Asked(keywords))
                \/ Privileged!Cardinality(Privileged!Places(b, Privileged!IsOp)) > 1
  BY <1>1, <1>3, <1>5, TooEarlyIsReported
<1>6. ASSUME NEW keywords, "admin" \in keywords,
             "owner" \in keywords \/ Privileged!Do("auth", "owner") \notin Privileged!ToSet(b),
             ~Privileged!Chained(b), ~Privileged!SameLine(b),
             Privileged!Unprotected(b, op, Asked(keywords)) \/ Privileged!Unprotected(b, last, Asked(keywords))
      PROVE  Privileged!TooEarly(b)
  BY <1>1, <1>4, <1>6, ReportedIsTooEarly
<1>7. /\ Asked(Privileged!UtilKeywords) = Asked(util) /\ Asked(Privileged!MintKeywords) = Asked(mint)
      /\ util \in SUBSET {"admin", "owner"} /\ mint \in SUBSET {"admin", "owner"}
      /\ "admin" \in util /\ "owner" \in util /\ "admin" \in mint
  BY DEF Privileged!UtilKeywords, Privileged!MintKeywords
<1> DEFINE ua == Asked(util)  ma == Asked(mint)
           Inner(p) == p # 0 /\ Privileged!Inside(b, p)
           many == Privileged!Cardinality(Privileged!Places(b, Privileged!IsOp)) > 1
           owner == Privileged!Do("auth", "owner") \in Privileged!ToSet(b)
<1>8. ASSUME Privileged!TooEarly(b), ~Privileged!Shadowed(b)
      PROVE  /\ Privileged!UnprotectedUpgrade(b) \/ Inner(ua)
             /\ Privileged!UnprotectedTokenMint(b) \/ Inner(ma)
             /\ Privileged!UnprotectedContractDeployment(b) \/ Inner(ua) \/ many
  <2>1. Privileged!UnprotectedUpgrade(b) \/ Inner(ua)
    BY <1>2, <1>5, <1>7, <1>8
  <2>2. Privileged!UnprotectedTokenMint(b) \/ Inner(ma)
    BY <1>2, <1>5, <1>7, <1>8
  <2>3. Privileged!UnprotectedContractDeployment(b) \/ Inner(ua) \/ many
    BY <1>2, <1>5, <1>7, <1>8
  <2> QED BY <2>1, <2>2, <2>3
<1>9. ASSUME ~Privileged!Chained(b), ~Privileged!SameLine(b)
      PROVE  /\ Privileged!UnprotectedUpgrade(b) => Privileged!TooEarly(b)
             /\ Privileged!UnprotectedTokenMint(b) => Privileged!TooEarly(b) \/ owner
             /\ Privileged!UnprotectedContractDeployment(b) => Privileged!TooEarly(b)
  <2>1. Privileged!UnprotectedUpgrade(b) => Privileged!TooEarly(b)
    BY <1>2, <1>6, <1>7, <1>9
  <2>2. Privileged!UnprotectedTokenMint(b) => Privileged!TooEarly(b) \/ owner
    BY <1>2, <1>6, <1>7, <1>9
  <2>3. Privileged!UnprotectedContractDeployment(b) => Privileged!TooEarly(b)
    BY <1>2, <1>6, <1>7, <1>9
  <2> QED BY <2>1, <2>2, <2>3
<1>10. owner <=> \E s \in Privileged!ToSet(b) : s = Privileged!Do("auth", "owner")
  OBVIOUS
<1>11. Asked(Privileged!UtilKeywords) = ua /\ Asked(Privileged!MintKeywords) = ma
  BY <1>7
<1>12. /\ Inner(ua) <=> ua # 0 /\ Privileged!Inside(b, ua)
       /\ Inner(ma) <=> ma # 0 /\ Privileged!Inside(b, ma)
       /\ many <=> Privileged!Cardinality(Privileged!Places(b, Privileged!IsOp)) > 1
  OBVIOUS
<1>13. Privileged!FirstValidAuth(b, Privileged!UtilKeywords) = ua /\ Privileged!FirstValidAuth(b, Privileged!MintKeywords) = ma
  BY <1>11
<1> HIDE DEF Asked, util, mint, ua, ma, Inner, many, owner
<1> QED BY <1>8, <1>9, <1>10, <1>12, <1>13, Zenon DEF Privileged!OrderedFindings

\* unprotected-upgrade, -token-mint and -contract-deployment, for bodies of any
\* length and depth: an execution that acts before a privileged identity was asked
\* is reported, and a report is of one, but for the limits named.
THEOREM EarlyActionsAreFound == ChecksSpec => []OrderedFindings
<1>1. BodyInv => OrderedFindings
  <2> SUFFICES ASSUME BodyInv, check = "privileged" PROVE Privileged!OrderedFindings(statements)
    BY DEF OrderedFindings
  <2>1. check \in DOMAIN Vocabulary /\ Vocabulary[check] = Privileged!Statements
    BY DEF Vocabulary
  <2> QED BY <2>1, OrderedOfBody DEF BodyInv
<1> QED BY <1>1, BodiesAreWalked, PTL
=============================================================================
