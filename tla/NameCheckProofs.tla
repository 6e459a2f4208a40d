---------------------------- MODULE NameCheckProofs ----------------------------
(***************************************************************************)
(* Proofs about the three checks that keep names: what each reports, for   *)
(* bodies of any size, any nesting and any set of names. Every one rests   *)
(* on the same idea: what the visitor holds of a name agrees with what the *)
(* name stands for here, and with what it will stand for again when the    *)
(* blocks around this point have ended.                                    *)
(***************************************************************************)
EXTENDS MCBodyChecks, TLAPS, SequenceTheorems

-----------------------------------------------------------------------------
(* Stacks of blocks *)

\* Entering a block, leaving one, and what the innermost one is.
LEMMA Stack ==
  ASSUME NEW S, NEW s \in Seq(S)
  PROVE  /\ Len(s) \in Nat /\ DOMAIN s = 1..Len(s)
         /\ \A e \in S : /\ Append(s, e) \in Seq(S)
                         /\ DOMAIN Append(s, e) = 1..(Len(s) + 1)
                         /\ Len(Append(s, e)) = Len(s) + 1
                         /\ \A i \in 1..Len(s) : Append(s, e)[i] = s[i]
                         /\ Append(s, e)[Len(s) + 1] = e
         /\ s # <<>> => /\ Len(s) \in Nat \ {0} /\ Len(s) \in DOMAIN s /\ s[Len(s)] \in S
                        /\ SubSeq(s, 1, Len(s) - 1) \in Seq(S)
                        /\ Len(SubSeq(s, 1, Len(s) - 1)) = Len(s) - 1
                        /\ DOMAIN SubSeq(s, 1, Len(s) - 1) = 1..(Len(s) - 1)
                        /\ \A i \in 1..(Len(s) - 1) : SubSeq(s, 1, Len(s) - 1)[i] = s[i]
<1>1. Len(s) \in Nat /\ DOMAIN s = 1..Len(s)
  OBVIOUS
<1>2. ASSUME NEW e \in S
      PROVE  /\ Append(s, e) \in Seq(S)
             /\ DOMAIN Append(s, e) = 1..(Len(s) + 1)
             /\ Len(Append(s, e)) = Len(s) + 1
             /\ \A i \in 1..Len(s) : Append(s, e)[i] = s[i]
             /\ Append(s, e)[Len(s) + 1] = e
  BY AppendProperties
<1>3. ASSUME s # <<>>
      PROVE  /\ Len(s) \in Nat \ {0} /\ Len(s) \in DOMAIN s /\ s[Len(s)] \in S
             /\ SubSeq(s, 1, Len(s) - 1) \in Seq(S)
             /\ Len(SubSeq(s, 1, Len(s) - 1)) = Len(s) - 1
             /\ DOMAIN SubSeq(s, 1, Len(s) - 1) = 1..(Len(s) - 1)
             /\ \A i \in 1..(Len(s) - 1) : SubSeq(s, 1, Len(s) - 1)[i] = s[i]
  BY <1>1, <1>3
<1> QED BY <1>1, <1>2, <1>3

-----------------------------------------------------------------------------
(* unsafe-cross-contract-input *)

XcMeanings == {"unbound", "clean", "raw"}

\* A raw value is in the set by every name it has here or will have again; a
\* name in the set stands for no clean value, here or later.
XcInv ==
  /\ env \in [Names -> XcMeanings]
  /\ opened \in Seq([Names -> XcMeanings])
  /\ scan \in [xc_bindings : SUBSET Names, findings : SUBSET Nat]
  /\ real \subseteq Nat /\ size \in Nat
  /\ hides = {} =>
       /\ \A n \in Names : env[n] = "raw" => n \in scan.xc_bindings
       /\ \A i \in DOMAIN opened, n \in Names : opened[i][n] = "raw" => n \in scan.xc_bindings
       /\ real \subseteq scan.findings
  /\ invents = {} =>
       /\ \A n \in scan.xc_bindings : env[n] # "clean"
       /\ \A i \in DOMAIN opened, n \in scan.xc_bindings : opened[i][n] # "clean"
       /\ scan.findings \subseteq real

LEMMA XcInit == ASSUME XcInput!Init, Init PROVE XcInv
<1>1. opened = <<>> /\ DOMAIN opened = {} /\ size = 0
  BY DEF XcInput!Init
<1> QED BY <1>1 DEF XcInput!Init, XcInv, XcMeanings

LEMMA XcLet ==
  ASSUME XcInv, NEW names \in SUBSET Names, NEW value \in {"raw", "clean"},
         XcInput!Let(names, value), size' \in Nat
  PROVE  XcInv'
<1> USE DEF XcInv
<1>1. /\ opened' = opened /\ real' = real /\ scan'.findings = scan.findings
      /\ scan' \in [xc_bindings : SUBSET Names, findings : SUBSET Nat]
      /\ scan'.xc_bindings = IF value = "raw" THEN scan.xc_bindings \cup names
                                             ELSE scan.xc_bindings \ names
  BY DEF XcInput!Let, XcInput!Rebind
<1>2. /\ env' \in [Names -> XcMeanings]
      /\ \A n \in Names : env'[n] = IF n \in names THEN value ELSE env[n]
  BY DEF XcInput!Let, XcInput!Bind, XcMeanings
<1>3. hides' = {} =>
        /\ hides = {}
        /\ value = "clean" => \A i \in DOMAIN opened, n \in names : opened[i][n] # "raw"
  BY DEF XcInput!Let, XcInput!Mark, XcInput!Covers
<1>4. invents' = {} =>
        /\ invents = {}
        /\ value = "raw" => \A i \in DOMAIN opened, n \in names : opened[i][n] # "clean"
  BY DEF XcInput!Let, XcInput!Mark, XcInput!Covers
<1> QED BY <1>1, <1>2, <1>3, <1>4

LEMMA XcLetCopy ==
  ASSUME XcInv, NEW copy \in Names, NEW name \in Names, XcInput!LetCopy(copy, name), size' \in Nat
  PROVE  XcInv'
<1> USE DEF XcInv
<1>1. /\ opened' = opened /\ real' = real /\ scan'.findings = scan.findings /\ invents' = invents
      /\ scan' \in [xc_bindings : SUBSET Names, findings : SUBSET Nat]
      /\ scan'.xc_bindings = scan.xc_bindings \ {copy}
  BY DEF XcInput!LetCopy, XcInput!Rebind
<1>2. /\ env' \in [Names -> XcMeanings]
      /\ \A n \in Names : env'[n] = IF n = copy THEN env[name] ELSE env[n]
  BY DEF XcInput!LetCopy, XcInput!Bind
<1>3. hides' = {} =>
        hides = {} /\ env[name] # "raw" /\ \A i \in DOMAIN opened : opened[i][copy] # "raw"
  BY DEF XcInput!LetCopy, XcInput!Mark, XcInput!Covers
<1> QED BY <1>1, <1>2, <1>3

LEMMA XcAssign ==
  ASSUME XcInv, NEW name \in Names, NEW value \in {"raw", "clean"},
         XcInput!Assign(name, value), size' \in Nat
  PROVE  XcInv'
<1> USE DEF XcInv
<1>1. opened' = opened /\ opened = <<>> /\ real' = real /\ scan' = scan /\ env[name] # "unbound"
  BY DEF XcInput!Assign
<1>2. /\ env' \in [Names -> XcMeanings]
      /\ \A n \in Names : env'[n] = IF n = name THEN value ELSE env[n]
  BY DEF XcInput!Assign, XcInput!Bind, XcMeanings
<1>3. hides' = {} => hides = {} /\ value = "clean"
  BY DEF XcInput!Assign, XcInput!Mark
<1>4. invents' = {} => invents = {} /\ (value = "clean" => env[name] = "clean")
  BY <1>1 DEF XcInput!Assign, XcInput!Mark, XcMeanings
<1>5. DOMAIN opened = {}
  BY <1>1
<1> QED BY <1>1, <1>2, <1>3, <1>4, <1>5

\* A block, with or without a name of its own, keeps the env around it.
LEMMA XcEnter ==
  ASSUME XcInv, size' \in Nat,
         XcInput!Open \/ \E name \in Names, value \in {"raw", "clean"} : XcInput!Arm(name, value)
  PROVE  XcInv'
<1> USE DEF XcInv
<1>1. scan' = scan /\ real' = real /\ opened' = Append(opened, env)
  BY DEF XcInput!Open, XcInput!Arm
<1>2. /\ opened' \in Seq([Names -> XcMeanings])
      /\ \A i \in DOMAIN opened' : opened'[i] = env \/ (i \in DOMAIN opened /\ opened'[i] = opened[i])
  BY <1>1, Stack
<1>3. CASE XcInput!Open
  BY <1>1, <1>2, <1>3 DEF XcInput!Open
<1>4. ASSUME NEW name \in Names, NEW value \in {"raw", "clean"}, XcInput!Arm(name, value)
      PROVE  XcInv'
  <2>1. /\ env' \in [Names -> XcMeanings]
        /\ \A n \in Names : env'[n] = IF n = name THEN value ELSE env[n]
    BY <1>4 DEF XcInput!Arm, XcInput!Bind, XcMeanings
  <2>2. hides' = {} => hides = {} /\ value = "clean"
    BY <1>4 DEF XcInput!Arm, XcInput!Mark
  <2>3. invents' = {} => invents = {} /\ value = "raw"
    BY <1>4 DEF XcInput!Arm, XcInput!Mark
  <2> QED BY <1>1, <1>2, <2>1, <2>2, <2>3
<1> QED BY <1>3, <1>4

LEMMA XcClose == ASSUME XcInv, size' \in Nat, XcInput!Close PROVE XcInv'
<1> USE DEF XcInv
<1>1. /\ scan' = scan /\ real' = real /\ hides' = hides /\ invents' = invents
      /\ env' = opened[Len(opened)] /\ Len(opened) \in DOMAIN opened
      /\ env' \in [Names -> XcMeanings]
  BY Stack DEF XcInput!Close, XcInput!Last
<1>2. /\ opened' \in Seq([Names -> XcMeanings])
      /\ \A i \in DOMAIN opened' : i \in DOMAIN opened /\ opened'[i] = opened[i]
  BY Stack DEF XcInput!Close, XcInput!Front
<1> QED BY <1>1, <1>2

LEMMA XcStore ==
  ASSUME XcInv, size' \in Nat,
         XcInput!StoreInline \/ \E name \in Names : XcInput!Store(name)
  PROVE  XcInv'
<1> USE DEF XcInv
<1>1. UNCHANGED <<env, opened, hides, invents>>
  BY DEF XcInput!Store, XcInput!StoreInline
<1>2. /\ scan'.xc_bindings = scan.xc_bindings
      /\ scan' \in [xc_bindings : SUBSET Names, findings : SUBSET Nat]
      /\ real' \subseteq Nat
  BY DEF XcInput!Store, XcInput!StoreInline
<1>3. (hides = {} => real' \subseteq scan'.findings) /\ (invents = {} => scan'.findings \subseteq real')
  <2>1. CASE XcInput!StoreInline
    BY <2>1 DEF XcInput!StoreInline
  <2>2. ASSUME NEW name \in Names, XcInput!Store(name)
        PROVE  (hides = {} => real' \subseteq scan'.findings) /\ (invents = {} => scan'.findings \subseteq real')
    <3>1. /\ scan'.findings = scan.findings \cup {p \in {size} : name \in scan.xc_bindings}
          /\ real' = real \cup {p \in {size} : env[name] = "raw"}
          /\ env[name] # "unbound" /\ env[name] \in XcMeanings
      BY <2>2 DEF XcInput!Store
    <3>2. hides = {} => (env[name] = "raw" => name \in scan.xc_bindings)
      OBVIOUS
    <3>3. invents = {} => (name \in scan.xc_bindings => env[name] = "raw")
      BY <3>1 DEF XcMeanings
    <3> QED BY <3>1, <3>2, <3>3
  <2> QED BY <2>1, <2>2
<1> QED BY <1>1, <1>2, <1>3

\* Every raw value written to storage is a finding in a body without the
\* constructs in `hides`, and every finding is one in a body without those in
\* `invents`, although names never leave the visitor's set with their block.
THEOREM RawWritesAreFound == ChecksSpec => []XcInputFindings
<1> DEFINE Inv == check = "xc_input" => XcInv
<1>1. ChecksInit => Inv
  BY XcInit DEF ChecksInit, Idle, Vocabulary
<1>2. Inv /\ [ChecksNext]_<<vars, check, named, statements>> => Inv'
  <2> SUFFICES ASSUME Inv, [ChecksNext]_<<vars, check, named, statements>>, check' = "xc_input"
               PROVE  XcInv'
    OBVIOUS
  <2>1. check = "xc_input" /\ XcInv
    BY DEF ChecksNext
  <2>2. CASE XcInput!Next
    <3>1. size' \in Nat /\ XcInput!Construct
      BY <2>1, <2>2 DEF XcInput!Next, XcInv
    <3> QED BY <2>1, <3>1, XcLet, XcLetCopy, XcAssign, XcEnter, XcClose, XcStore DEF XcInput!Construct
  <2>3. CASE UNCHANGED <<vars, check, named, statements>>
    BY <2>1, <2>3 DEF vars, named, XcInv
  <2> QED BY <2>1, <2>2, <2>3 DEF ChecksNext, Write, Vocabulary
<1>3. Inv => XcInputFindings
  BY DEF XcInputFindings, XcInput!XcInputFindings, XcInv
<1> QED BY <1>1, <1>2, <1>3, PTL DEF ChecksSpec

-----------------------------------------------------------------------------
(* missing-balance-check *)

BalMeanings == {"unbound", "other", "token"}
BalScans == [scope_stack : Seq(SUBSET Names), balanced : BOOLEAN, findings : SUBSET Nat]
BalBlocks == [kind : {"block", "then", "else"}, env : [Names -> BalMeanings],
              entry : SUBSET BOOLEAN, left : SUBSET BOOLEAN]

\* The first k scopes hold exactly the names that are clients in e.
Agree(stack, k, e) ==
  \A n \in Names : (\E i \in 1..k : n \in stack[i]) <=> e[n] = "token"

\* The whole stack speaks of env, the scopes around a block of env before it.
ScopesAgree(stack, e) ==
  /\ Agree(stack, Len(opened) + 1, e)
  /\ \A k \in DOMAIN opened : Agree(stack, k, opened[k].env)

\* `balanced` means that every execution which gets here has checked, and its
\* absence that one has not; some execution gets here, and to every block.
BalInv ==
  /\ env \in [Names -> BalMeanings]
  /\ opened \in Seq(BalBlocks)
  /\ scan \in BalScans /\ Len(scan.scope_stack) = Len(opened) + 1
  /\ runs \subseteq BOOLEAN
  /\ real \subseteq Nat /\ size \in Nat
  /\ "shadow" \in hides <=> "shadow" \in invents
  /\ "shadow" \notin hides => ScopesAgree(scan.scope_stack, env)
  /\ hides = {} \/ invents = {} =>
       /\ runs # {}
       /\ \A i \in DOMAIN opened : /\ opened[i].entry # {}
                                   /\ opened[i].kind = "else" => opened[i].left # {}
  /\ hides = {} => /\ scan.balanced => FALSE \notin runs
                   /\ real \subseteq scan.findings
  /\ invents = {} => /\ ~scan.balanced => FALSE \in runs
                     /\ scan.findings \subseteq real

\* A `let` keeps the scopes in agreement, unless it shadows a client.
LEMMA BalRecord ==
  ASSUME BalInv, NEW name \in Names, NEW kind \in {"token", "other"}
  PROVE  /\ Balance!Record(scan, name, kind = "token") \in BalScans
         /\ Len(Balance!Record(scan, name, kind = "token").scope_stack) = Len(opened) + 1
         /\ Balance!Record(scan, name, kind = "token").balanced = scan.balanced
         /\ Balance!Record(scan, name, kind = "token").findings = scan.findings
         /\ [env EXCEPT ![name] = kind] \in [Names -> BalMeanings]
         /\ "shadow" \notin hides \cup Balance!Shadowing(name, kind) =>
              ScopesAgree(Balance!Record(scan, name, kind = "token").scope_stack,
                          [env EXCEPT ![name] = kind])
<1> DEFINE stack == scan.scope_stack
           top   == Len(stack)
           s     == Balance!Record(scan, name, kind = "token")
           e     == [env EXCEPT ![name] = kind]
           frame == IF kind = "token" THEN stack[top] \cup {name} ELSE stack[top] \ {name}
<1>1. /\ stack \in Seq(SUBSET Names) /\ top = Len(opened) + 1 /\ Len(opened) \in Nat
      /\ top \in 1..top /\ DOMAIN stack = 1..top /\ DOMAIN opened = 1..Len(opened)
      /\ stack[top] \in SUBSET Names
  BY Stack DEF BalInv, BalScans
<1>2. s = [scan EXCEPT !.scope_stack = [stack EXCEPT ![top] = frame]]
  BY DEF Balance!Record
<1>3. /\ s.scope_stack = [stack EXCEPT ![top] = frame]
      /\ s.balanced = scan.balanced /\ s.findings = scan.findings
  BY <1>2 DEF BalInv, BalScans
<1>4. frame \in SUBSET Names
  BY <1>1
<1>5. /\ s.scope_stack \in Seq(SUBSET Names) /\ Len(s.scope_stack) = top
      /\ s.scope_stack[top] = frame
      /\ \A i \in 1..(top - 1) : s.scope_stack[i] = stack[i]
  BY <1>1, <1>3, <1>4
<1>6. s \in BalScans
  BY <1>2, <1>3, <1>5 DEF BalInv, BalScans
<1>7. e \in [Names -> BalMeanings] /\ \A n \in Names : e[n] = IF n = name THEN kind ELSE env[n]
  BY DEF BalInv, BalMeanings
<1>8. ASSUME "shadow" \notin hides \cup Balance!Shadowing(name, kind)
      PROVE  ScopesAgree(s.scope_stack, e)
  <2>1. ScopesAgree(stack, env)
    BY <1>8 DEF BalInv
  <2>2. kind = "other" /\ opened # <<>> => opened[Len(opened)].env[name] # "token"
    BY <1>8 DEF Balance!Shadowing, Balance!Mark, Balance!Outside, Balance!Last
  <2>3. kind = "other" => \A i \in 1..(top - 1) : name \notin stack[i]
    <3>1. CASE opened = <<>>
      BY <1>1, <3>1
    <3>2. CASE opened # <<>>
      <4>1. Len(opened) \in DOMAIN opened /\ top - 1 = Len(opened)
        BY <1>1, <3>2
      <4>2. Agree(stack, Len(opened), opened[Len(opened)].env)
        BY <2>1, <4>1 DEF ScopesAgree
      <4> QED BY <2>2, <3>2, <4>1, <4>2 DEF Agree
    <3> QED BY <3>1, <3>2
  <2>4. Agree(stack, top, env)
    BY <1>1, <2>1 DEF ScopesAgree
  <2>5. \A i : i \in 1..top <=> i \in 1..(top - 1) \/ i = top
    BY <1>1
  <2>6. Agree(s.scope_stack, top, e)
    <3> SUFFICES ASSUME NEW n \in Names
                 PROVE  (\E i \in 1..top : n \in s.scope_stack[i]) <=> e[n] = "token"
      BY DEF Agree
    <3>1. CASE n = name /\ kind = "token"
      BY <1>1, <1>5, <1>7, <3>1
    <3>2. CASE n = name /\ kind = "other"
      BY <1>5, <1>7, <2>3, <2>5, <3>2
    <3>3. CASE n # name
      <4>1. \A i \in 1..top : n \in s.scope_stack[i] <=> n \in stack[i]
        BY <1>5, <2>5, <3>3
      <4> QED BY <1>7, <2>4, <3>3, <4>1 DEF Agree
    <3> QED BY <3>1, <3>2, <3>3
  <2>7. ASSUME NEW k \in DOMAIN opened PROVE Agree(s.scope_stack, k, opened[k].env)
    <3>1. \A i \in 1..k : s.scope_stack[i] = stack[i]
      BY <1>1, <1>5
    <3> QED BY <2>1, <3>1 DEF ScopesAgree, Agree
  <2> QED BY <1>1, <2>6, <2>7 DEF ScopesAgree
<1> QED BY <1>1, <1>3, <1>5, <1>6, <1>7, <1>8

\* What one visited call does to the visitor.
LEMMA BalSee ==
  ASSUME NEW s \in BalScans, NEW name \in Names, NEW method \in Balance!Methods, size \in Nat
  PROVE  /\ Balance!See(s, name, method) \in BalScans
         /\ Balance!See(s, name, method).scope_stack = s.scope_stack
<1>1. \/ Balance!See(s, name, method) = s
      \/ Balance!See(s, name, method) = [s EXCEPT !.balanced = TRUE]
      \/ Balance!See(s, name, method) =
           [s EXCEPT !.balanced = FALSE,
                     !.findings = IF s.balanced THEN s.findings ELSE s.findings \cup {size}]
  BY DEF Balance!See, Balance!Methods
<1> QED BY <1>1 DEF BalScans

LEMMA BalSeeOther ==
  ASSUME NEW s \in BalScans, NEW name \in Names, NEW method \in Balance!Methods,
         ~Balance!IsToken(s.scope_stack, name)
  PROVE  Balance!See(s, name, method) = s
BY DEF Balance!See

\* With the scopes in agreement the visitor knows the clients.
LEMMA BalKnows ==
  ASSUME BalInv, "shadow" \notin hides, NEW name \in Names
  PROVE  Balance!IsToken(scan.scope_stack, name) <=> env[name] = "token"
<1>1. DOMAIN scan.scope_stack = 1..(Len(opened) + 1)
  BY DEF BalInv, BalScans
<1> QED BY <1>1 DEF BalInv, ScopesAgree, Agree, Balance!IsToken

\* What one call does to the executions that make it.
LEMMA BalDoes ==
  ASSUME NEW rs \in SUBSET BOOLEAN, NEW name \in Names, NEW method \in Balance!Methods
  PROVE  /\ Balance!Does(rs, name, method) \in SUBSET BOOLEAN
         /\ rs # {} => Balance!Does(rs, name, method) # {}
         /\ env[name] # "token" => Balance!Does(rs, name, method) = rs
         /\ env[name] = "token" /\ method = "balance" => FALSE \notin Balance!Does(rs, name, method)
         /\ env[name] = "token" /\ method = "transfer" /\ rs # {} =>
              FALSE \in Balance!Does(rs, name, method)
<1>1. CASE env[name] = "token"
  <2>1. Balance!Does(rs, name, method) = {method = "balance" : r \in rs}
    BY <1>1 DEF Balance!Does
  <2>2. (method = "balance") \in BOOLEAN
    OBVIOUS
  <2>3. method = "balance" => (method = "balance") # FALSE
    OBVIOUS
  <2>4. method = "transfer" => (method = "balance") = FALSE
    OBVIOUS
  <2> QED BY <1>1, <2>1, <2>2, <2>3, <2>4
<1>2. CASE env[name] # "token"
  BY <1>2 DEF Balance!Does
<1> QED BY <1>1, <1>2

LEMMA BalInit == ASSUME Balance!Init PROVE BalInv
<1>1. opened = <<>> /\ DOMAIN opened = {} /\ Len(opened) = 0 /\ scan.scope_stack = <<{}>>
  BY DEF Balance!Init
<1>2. scan.scope_stack \in Seq(SUBSET Names) /\ Len(scan.scope_stack) = 1
  BY <1>1
<1>3. scan \in BalScans /\ ~scan.balanced /\ scan.findings = {}
  BY <1>2 DEF Balance!Init, BalScans
<1>4. ScopesAgree(scan.scope_stack, env)
  <2>1. \A n \in Names : env[n] # "token"
    BY DEF Balance!Init
  <2>2. \A n \in Names, i \in 1..1 : n \notin scan.scope_stack[i]
    BY <1>1
  <2> QED BY <1>1, <2>1, <2>2 DEF ScopesAgree, Agree
<1>5. runs = {FALSE} /\ runs \subseteq BOOLEAN /\ opened \in Seq(BalBlocks)
  BY <1>1 DEF Balance!Init
<1> QED BY <1>1, <1>2, <1>3, <1>4, <1>5 DEF Balance!Init, BalInv, BalMeanings

LEMMA BalLet ==
  ASSUME BalInv, size' \in Nat, NEW name \in Names, NEW kind \in {"token", "other"},
         Balance!Let(name, kind)
  PROVE  BalInv'
<1>1. /\ scan' = Balance!Record(scan, name, kind = "token") /\ env' = [env EXCEPT ![name] = kind]
      /\ opened' = opened /\ runs' = runs /\ real' = real
      /\ hides' = hides \cup Balance!Shadowing(name, kind)
      /\ invents' = invents \cup Balance!Shadowing(name, kind)
  BY DEF Balance!Let
<1>2. /\ scan' \in BalScans /\ Len(scan'.scope_stack) = Len(opened) + 1
      /\ scan'.balanced = scan.balanced /\ scan'.findings = scan.findings
      /\ env' \in [Names -> BalMeanings]
      /\ "shadow" \notin hides' => ScopesAgree(scan'.scope_stack, env')
  BY <1>1, BalRecord
<1>3. "shadow" \notin hides' => ScopesAgree(scan.scope_stack, env)'
  BY <1>1, <1>2 DEF ScopesAgree, Agree
<1> QED BY <1>1, <1>2, <1>3 DEF BalInv

\* The initializer is visited after the name is bound: nothing to see unless
\* the name stood for a client.
LEMMA BalLetOfItself ==
  ASSUME BalInv, size' \in Nat, NEW name \in Names, NEW method \in Balance!Methods,
         Balance!LetOfItself(name, method)
  PROVE  BalInv'
<1> DEFINE s == Balance!Record(scan, name, FALSE)
           marks == Balance!Shadowing(name, "other") \cup Balance!Mark("itself", env[name] = "token")
<1>1. /\ scan' = Balance!See(s, name, method) /\ env' = [env EXCEPT ![name] = "other"]
      /\ opened' = opened
      /\ runs' = Balance!Does(runs, name, method)
      /\ real' = real \cup Balance!Unchecked(runs, name, method)
      /\ hides' = hides \cup marks /\ invents' = invents \cup marks
  BY DEF Balance!LetOfItself
<1>2. /\ s \in BalScans /\ Len(s.scope_stack) = Len(opened) + 1
      /\ s.balanced = scan.balanced /\ s.findings = scan.findings
      /\ env' \in [Names -> BalMeanings] /\ env'[name] = "other"
      /\ "shadow" \notin hides' => ScopesAgree(s.scope_stack, env')
  <2>1. ("other" = "token") = FALSE
    OBVIOUS
  <2>2. "shadow" \notin hides' => "shadow" \notin hides \cup Balance!Shadowing(name, "other")
    BY <1>1
  <2>3. env'[name] = "other"
    BY <1>1 DEF BalInv
  <2> QED BY <1>1, <2>1, <2>2, <2>3, BalRecord
<1> HIDE DEF s
<1>0. size \in Nat /\ runs \in SUBSET BOOLEAN /\ real \subseteq Nat
  BY DEF BalInv
<1>3. scan' \in BalScans /\ scan'.scope_stack = s.scope_stack
  <2>1. /\ Balance!See(s, name, method) \in BalScans
        /\ Balance!See(s, name, method).scope_stack = s.scope_stack
    BY <1>0, <1>2, BalSee
  <2> QED BY <1>1, <2>1
<1>4. "shadow" \notin hides' => ScopesAgree(scan.scope_stack, env)'
  BY <1>1, <1>2, <1>3 DEF ScopesAgree, Agree
<1>5. runs' \in SUBSET BOOLEAN /\ (runs # {} => runs' # {}) /\ real' \subseteq Nat
  BY <1>0, <1>1, BalDoes DEF Balance!Unchecked
<1>6. "shadow" \in hides' <=> "shadow" \in invents'
  BY <1>1 DEF BalInv
<1>7. ASSUME hides' = {} \/ invents' = {}
      PROVE  scan' = s /\ runs' = runs /\ real' = real
  <2>1. marks = {} /\ "shadow" \notin hides'
    BY <1>1, <1>6, <1>7
  <2>2. env[name] # "token"
    BY <2>1 DEF Balance!Mark
  <2>3. ~Balance!IsToken(s.scope_stack, name)
    <3>1. s.scope_stack \in Seq(SUBSET Names)
      BY <1>2 DEF BalScans
    <3>2. DOMAIN s.scope_stack = 1..(Len(opened) + 1)
      BY <1>2, <3>1, Stack
    <3> QED BY <1>2, <2>1, <3>2 DEF ScopesAgree, Agree, Balance!IsToken
  <2>4. scan' = s
    <3>1. Balance!See(s, name, method) = s
      BY <1>2, <2>3, BalSeeOther
    <3> QED BY <1>1, <3>1
  <2>5. runs' = runs
    BY <1>0, <1>1, <2>2, BalDoes
  <2>6. Balance!Unchecked(runs, name, method) = {}
    BY <2>2 DEF Balance!Unchecked
  <2> QED BY <1>1, <2>4, <2>5, <2>6
<1>8. (hides' = {} => hides = {}) /\ (invents' = {} => invents = {})
  BY <1>1
<1> HIDE DEF marks
<1> QED BY <1>1, <1>2, <1>3, <1>4, <1>5, <1>6, <1>7, <1>8 DEF BalInv

LEMMA BalCall ==
  ASSUME BalInv, size' \in Nat, NEW name \in Names, NEW method \in Balance!Methods,
         Balance!Call(name, method)
  PROVE  BalInv'
<1>1. /\ scan' = Balance!See(scan, name, method)
      /\ runs' = Balance!Does(runs, name, method)
      /\ real' = real \cup Balance!Unchecked(runs, name, method)
      /\ env' = env /\ opened' = opened /\ hides' = hides /\ invents' = invents
  BY DEF Balance!Call
<1>0. scan \in BalScans /\ size \in Nat /\ runs \in SUBSET BOOLEAN /\ real \subseteq Nat
  BY DEF BalInv
<1>2. scan' \in BalScans /\ scan'.scope_stack = scan.scope_stack
  <2>1. /\ Balance!See(scan, name, method) \in BalScans
        /\ Balance!See(scan, name, method).scope_stack = scan.scope_stack
    BY <1>0, BalSee
  <2> QED BY <1>1, <2>1
<1>3. "shadow" \notin hides' => ScopesAgree(scan.scope_stack, env)'
  BY <1>1, <1>2 DEF BalInv, ScopesAgree, Agree
<1>4. runs' \in SUBSET BOOLEAN /\ (runs # {} => runs' # {}) /\ real' \subseteq Nat
  BY <1>0, <1>1, BalDoes DEF Balance!Unchecked
<1>5. Balance!Unchecked(runs, name, method) =
        IF env[name] = "token" /\ method = "transfer" /\ FALSE \in runs THEN {size} ELSE {}
  BY DEF Balance!Unchecked
<1>6. ASSUME hides = {} \/ invents = {}
      PROVE  /\ hides = {} => /\ scan'.balanced => FALSE \notin runs'
                              /\ real' \subseteq scan'.findings
             /\ invents = {} => /\ ~scan'.balanced => FALSE \in runs'
                                /\ scan'.findings \subseteq real'
  <2>1. "shadow" \notin hides /\ runs # {}
    BY <1>6 DEF BalInv
  <2>2. Balance!IsToken(scan.scope_stack, name) <=> env[name] = "token"
    BY <2>1, BalKnows
  <2>3. CASE env[name] # "token"
    <3>1. scan' = scan /\ runs' = runs /\ real' = real
      <4>1. Balance!See(scan, name, method) = scan
        BY <1>0, <2>2, <2>3, BalSeeOther
      <4>2. Balance!Does(runs, name, method) = runs
        BY <1>0, <2>3, BalDoes
      <4> QED BY <1>1, <1>5, <2>3, <4>1, <4>2
    <3> QED BY <3>1 DEF BalInv
  <2>4. CASE env[name] = "token" /\ method = "balance"
    <3>1. scan'.balanced /\ scan'.findings = scan.findings /\ FALSE \notin runs' /\ real' = real
      <4>1. /\ Balance!See(scan, name, method).balanced = TRUE
            /\ Balance!See(scan, name, method).findings = scan.findings
        <5>1. Balance!See(scan, name, method) = [scan EXCEPT !.balanced = TRUE]
          BY <2>2, <2>4 DEF Balance!See
        <5> QED BY <1>0, <5>1 DEF BalScans
      <4>2. FALSE \notin Balance!Does(runs, name, method)
        BY <1>0, <2>4, BalDoes
      <4> QED BY <1>1, <1>5, <2>4, <4>1, <4>2
    <3> QED BY <3>1 DEF BalInv
  <2>5. CASE env[name] = "token" /\ method = "transfer"
    <3>1. /\ ~scan'.balanced /\ FALSE \in runs'
          /\ scan'.findings = IF scan.balanced THEN scan.findings ELSE scan.findings \cup {size}
          /\ real' = IF FALSE \in runs THEN real \cup {size} ELSE real
      <4>1. /\ Balance!See(scan, name, method).balanced = FALSE
            /\ Balance!See(scan, name, method).findings =
                 IF scan.balanced THEN scan.findings ELSE scan.findings \cup {size}
        <5>1. Balance!See(scan, name, method) =
                [scan EXCEPT !.balanced = FALSE,
                             !.findings = IF scan.balanced THEN scan.findings
                                                           ELSE scan.findings \cup {size}]
          BY <2>2, <2>5 DEF Balance!See
        <5> QED BY <1>0, <5>1 DEF BalScans
      <4>2. FALSE \in Balance!Does(runs, name, method)
        BY <1>0, <2>1, <2>5, BalDoes
      <4> QED BY <1>1, <1>5, <2>5, <4>1, <4>2
    <3> QED BY <3>1 DEF BalInv
  <2> QED BY <2>3, <2>4, <2>5 DEF Balance!Methods
<1> QED BY <1>1, <1>2, <1>3, <1>4, <1>6 DEF BalInv

LEMMA BalTransferAll ==
  ASSUME BalInv, size' \in Nat, NEW name \in Names, Balance!TransferAll(name)
  PROVE  BalInv'
<1> DEFINE s == Balance!See(scan, name, "transfer")
           rs == Balance!Does(runs, name, "balance")
<1>1. /\ scan' = Balance!See(s, name, "balance") /\ runs' = Balance!Does(rs, name, "transfer")
      /\ env' = env /\ opened' = opened /\ real' = real
      /\ hides' = hides \cup Balance!Mark("argument", env[name] = "token")
      /\ invents' = invents \cup Balance!Mark("argument", env[name] = "token")
  BY DEF Balance!TransferAll
<1>2. scan \in BalScans /\ size \in Nat /\ runs \in SUBSET BOOLEAN
  BY DEF BalInv
<1>3. "transfer" \in Balance!Methods /\ "balance" \in Balance!Methods
  BY DEF Balance!Methods
<1>4. s \in BalScans /\ s.scope_stack = scan.scope_stack
  BY <1>2, <1>3, BalSee
<1>5. rs \in SUBSET BOOLEAN /\ (runs # {} => rs # {})
  BY <1>2, <1>3, BalDoes
<1> HIDE DEF s, rs
<1>6. Balance!See(s, name, "balance") \in BalScans /\ Balance!See(s, name, "balance").scope_stack = s.scope_stack
  BY <1>2, <1>3, <1>4, BalSee
<1>7. /\ Balance!Does(rs, name, "transfer") \in SUBSET BOOLEAN
      /\ rs # {} => Balance!Does(rs, name, "transfer") # {}
  BY <1>3, <1>5, BalDoes
<1>8. "shadow" \notin hides' => ScopesAgree(scan.scope_stack, env)'
  BY <1>1, <1>4, <1>6 DEF BalInv, ScopesAgree, Agree, Balance!Mark
<1>9. /\ "shadow" \in hides' <=> "shadow" \in invents'
      /\ hides' = {} => hides = {} /\ env[name] # "token"
      /\ invents' = {} => invents = {} /\ env[name] # "token"
  BY <1>1 DEF BalInv, Balance!Mark
<1>10. ASSUME hides' = {} \/ invents' = {} PROVE scan' = scan /\ runs' = runs
  <2>1. "shadow" \notin hides /\ env[name] # "token"
    BY <1>9, <1>10 DEF BalInv
  <2>2. ~Balance!IsToken(scan.scope_stack, name)
    BY <2>1, BalKnows
  <2>3. s = scan
    BY <1>2, <1>3, <2>2, BalSeeOther DEF s
  <2>4. Balance!See(s, name, "balance") = scan
    BY <1>2, <1>3, <2>2, <2>3, BalSeeOther
  <2>5. rs = runs
    BY <1>2, <1>3, <2>1, BalDoes DEF rs
  <2>6. Balance!Does(rs, name, "transfer") = runs
    BY <1>2, <1>3, <2>1, <2>5, BalDoes
  <2> QED BY <1>1, <2>4, <2>6
<1> QED BY <1>1, <1>4, <1>5, <1>6, <1>7, <1>8, <1>9, <1>10 DEF BalInv

LEMMA BalReturn == ASSUME BalInv, size' \in Nat, Balance!Return PROVE BalInv'
<1>1. "shadow" \notin hides' => ScopesAgree(scan.scope_stack, env)'
  BY DEF Balance!Return, BalInv, ScopesAgree, Agree
<1> QED BY <1>1 DEF Balance!Return, BalInv

\* Scopes are pushed and popped with the blocks.
LEMMA BalOpen ==
  ASSUME BalInv, size' \in Nat, NEW kind \in {"block", "then"}, Balance!Open(kind)
  PROVE  BalInv'
<1> DEFINE stack == scan.scope_stack
           f == [kind |-> kind, env |-> env, entry |-> runs, left |-> {}]
<1>1. /\ opened' = Append(opened, f) /\ scan' = [scan EXCEPT !.scope_stack = Append(stack, {})]
      /\ UNCHANGED <<env, runs, real, hides, invents>>
  BY DEF Balance!Open, Balance!Push
<1>2. /\ stack \in Seq(SUBSET Names) /\ Len(stack) = Len(opened) + 1 /\ opened \in Seq(BalBlocks)
      /\ Len(opened) \in Nat /\ DOMAIN opened = 1..Len(opened)
  BY Stack DEF BalInv, BalScans
<1>3. f \in BalBlocks
  BY DEF BalBlocks, BalInv
<1>4. /\ scan'.scope_stack = Append(stack, {})
      /\ scan'.balanced = scan.balanced /\ scan'.findings = scan.findings
      /\ Append(stack, {}) \in Seq(SUBSET Names)
  BY <1>1, <1>2, Stack DEF BalInv, BalScans
<1>5. scan' \in BalScans
  BY <1>1, <1>4 DEF BalInv, BalScans
<1>6. /\ Len(scan'.scope_stack) = Len(opened) + 2
      /\ scan'.scope_stack[Len(opened) + 2] = {}
      /\ \A i \in 1..(Len(opened) + 1) : scan'.scope_stack[i] = stack[i]
  BY <1>2, <1>4, Stack
<1> HIDE DEF f
<1>7. /\ opened' \in Seq(BalBlocks) /\ Len(opened') = Len(opened) + 1
      /\ DOMAIN opened' = 1..(Len(opened) + 1)
      /\ opened'[Len(opened) + 1] = f
      /\ \A i \in DOMAIN opened : opened'[i] = opened[i]
      /\ \A i \in DOMAIN opened' : i \in DOMAIN opened \/ i = Len(opened) + 1
  BY <1>1, <1>2, <1>3, Stack
<1>8. ASSUME "shadow" \notin hides PROVE ScopesAgree(scan.scope_stack, env)'
  <2>1. ScopesAgree(stack, env)
    BY <1>8 DEF BalInv
  <2>2. ASSUME NEW k \in 1..(Len(opened) + 1), NEW e, Agree(stack, k, e)
        PROVE  Agree(scan'.scope_stack, k, e)
    <3>1. \A i \in 1..k : scan'.scope_stack[i] = stack[i]
      BY <1>2, <1>6
    <3> QED BY <2>2, <3>1 DEF Agree
  <2>3. Agree(scan'.scope_stack, Len(opened) + 1, env)
    BY <1>2, <2>1, <2>2 DEF ScopesAgree
  <2>4. Agree(scan'.scope_stack, Len(opened) + 2, env)
    <3>1. \A i : i \in 1..(Len(opened) + 2) <=> i \in 1..(Len(opened) + 1) \/ i = Len(opened) + 2
      BY <1>2
    <3> QED BY <1>6, <2>3, <3>1 DEF Agree
  <2>5. ASSUME NEW k \in DOMAIN opened' PROVE Agree(scan'.scope_stack, k, opened'[k].env)
    <3>1. CASE k = Len(opened) + 1
      BY <1>7, <2>3, <3>1 DEF f
    <3>2. CASE k \in DOMAIN opened
      <4>1. Agree(stack, k, opened[k].env) /\ k \in 1..(Len(opened) + 1)
        BY <1>2, <2>1, <3>2 DEF ScopesAgree
      <4> QED BY <1>7, <2>2, <3>2, <4>1
    <3> QED BY <1>7, <3>1, <3>2
  <2>6. Len(opened') + 1 = Len(opened) + 2
    BY <1>2, <1>7
  <2>7. env' = env
    BY <1>1
  <2>8. Agree(scan'.scope_stack, Len(opened') + 1, env')
    BY <2>4, <2>6, <2>7
  <2> QED BY <2>5, <2>8 DEF ScopesAgree, Agree
<1>9. hides = {} \/ invents = {} =>
        \A i \in DOMAIN opened' : /\ opened'[i].entry # {}
                                  /\ opened'[i].kind = "else" => opened'[i].left # {}
  <2> SUFFICES ASSUME hides = {} \/ invents = {}, NEW i \in DOMAIN opened'
               PROVE  opened'[i].entry # {} /\ (opened'[i].kind = "else" => opened'[i].left # {})
    OBVIOUS
  <2>1. /\ runs # {}
        /\ \A k \in DOMAIN opened : opened[k].entry # {} /\ (opened[k].kind = "else" => opened[k].left # {})
    BY DEF BalInv
  <2>2. f.entry = runs /\ f.kind # "else"
    BY DEF f
  <2>3. CASE i \in DOMAIN opened
    <3>1. opened'[i] = opened[i]
      BY <1>7, <2>3
    <3>2. opened[i].entry # {} /\ (opened[i].kind = "else" => opened[i].left # {})
      BY <2>1, <2>3
    <3> QED BY <3>1, <3>2
  <2>4. CASE i = Len(opened) + 1
    <3>1. opened'[i] = f
      BY <1>7, <2>4
    <3> QED BY <2>1, <2>2, <3>1
  <2> QED BY <1>7, <2>3, <2>4
<1>10. Len(scan'.scope_stack) = Len(opened') + 1
  BY <1>2, <1>6, <1>7
<1> QED BY <1>1, <1>4, <1>5, <1>7, <1>8, <1>9, <1>10 DEF BalInv

\* Without its innermost scope, the stack speaks of env before the block.
LEMMA BalUnwind ==
  ASSUME BalInv, opened # <<>>
  PROVE  /\ Balance!Pop(scan) \in BalScans
         /\ Balance!Pop(scan).balanced = scan.balanced
         /\ Balance!Pop(scan).findings = scan.findings
         /\ Len(Balance!Pop(scan).scope_stack) = Len(opened)
         /\ \A i \in 1..Len(opened) : Balance!Pop(scan).scope_stack[i] = scan.scope_stack[i]
         /\ Len(opened) \in Nat \ {0} /\ DOMAIN opened = 1..Len(opened)
         /\ Balance!Top = opened[Len(opened)] /\ Balance!Top \in BalBlocks
         /\ "shadow" \notin hides =>
              /\ Agree(Balance!Pop(scan).scope_stack, Len(opened), Balance!Top.env)
              /\ \A k \in DOMAIN opened : Agree(Balance!Pop(scan).scope_stack, k, opened[k].env)
<1> DEFINE stack == scan.scope_stack
           s == Balance!Pop(scan)
<1>1. /\ stack \in Seq(SUBSET Names) /\ Len(stack) = Len(opened) + 1 /\ opened \in Seq(BalBlocks)
  BY DEF BalInv, BalScans
<1>2. /\ Len(opened) \in Nat \ {0} /\ DOMAIN opened = 1..Len(opened) /\ Len(opened) \in DOMAIN opened
      /\ Balance!Top = opened[Len(opened)] /\ Balance!Top \in BalBlocks
  BY <1>1, Stack DEF Balance!Top, Balance!Last
<1>3. stack # <<>> /\ Len(stack) - 1 = Len(opened)
  BY <1>1, <1>2
<1>4. s = [scan EXCEPT !.scope_stack = Balance!Front(stack)]
  BY DEF Balance!Pop
<1>5. /\ Balance!Front(stack) \in Seq(SUBSET Names) /\ Len(Balance!Front(stack)) = Len(opened)
      /\ \A i \in 1..Len(opened) : Balance!Front(stack)[i] = stack[i]
  <2>1. /\ SubSeq(stack, 1, Len(stack) - 1) \in Seq(SUBSET Names)
        /\ Len(SubSeq(stack, 1, Len(stack) - 1)) = Len(stack) - 1
        /\ \A i \in 1..(Len(stack) - 1) : SubSeq(stack, 1, Len(stack) - 1)[i] = stack[i]
    BY <1>1, <1>3, Stack
  <2> QED BY <1>3, <2>1 DEF Balance!Front
<1>6. /\ s.scope_stack = Balance!Front(stack) /\ s \in BalScans
      /\ s.balanced = scan.balanced /\ s.findings = scan.findings
  BY <1>4, <1>5 DEF BalInv, BalScans
<1>7. ASSUME "shadow" \notin hides, NEW k \in DOMAIN opened
      PROVE  Agree(s.scope_stack, k, opened[k].env)
  <2>1. Agree(stack, k, opened[k].env)
    BY <1>7 DEF BalInv, ScopesAgree
  <2>2. \A i \in 1..k : s.scope_stack[i] = stack[i]
    BY <1>2, <1>5, <1>6
  <2> QED BY <2>1, <2>2 DEF Agree
<1> QED BY <1>2, <1>5, <1>6, <1>7

LEMMA BalElse == ASSUME BalInv, size' \in Nat, Balance!Else PROVE BalInv'
<1> DEFINE m == Len(opened)
           s == Balance!Pop(scan)
           top == opened[m]
<1>1. /\ opened # <<>> /\ Balance!Top.kind = "then"
      /\ opened' = [opened EXCEPT ![m].kind = "else", ![m].left = runs]
      /\ scan' = [s EXCEPT !.scope_stack = Append(s.scope_stack, {})]
      /\ env' = Balance!Top.env /\ runs' = Balance!Top.entry /\ real' = real
      /\ hides' = hides \cup Balance!Mark("branch", Balance!Ahead(runs, Balance!Top.entry))
      /\ invents' = invents \cup Balance!Mark("branch", Balance!Ahead(Balance!Top.entry, runs))
  BY DEF Balance!Else, Balance!In, Balance!Push, Balance!Top
<1>2. /\ s \in BalScans /\ s.balanced = scan.balanced /\ s.findings = scan.findings
      /\ s.scope_stack \in Seq(SUBSET Names) /\ Len(s.scope_stack) = m
      /\ m \in Nat \ {0} /\ DOMAIN opened = 1..m /\ m \in DOMAIN opened
      /\ Balance!Top = top /\ top \in BalBlocks
  BY <1>1, BalUnwind DEF BalScans
<1> HIDE DEF s
<1>3. /\ scan'.scope_stack = Append(s.scope_stack, {})
      /\ scan'.balanced = scan.balanced /\ scan'.findings = scan.findings
      /\ scan' \in BalScans
  BY <1>1, <1>2, Stack DEF BalScans
<1>4. /\ Len(scan'.scope_stack) = m + 1 /\ scan'.scope_stack[m + 1] = {}
      /\ \A i \in 1..m : scan'.scope_stack[i] = s.scope_stack[i]
  BY <1>2, <1>3, Stack
<1>5. opened \in Seq(BalBlocks) /\ runs \in SUBSET BOOLEAN
  BY DEF BalInv
<1>6. /\ opened' \in Seq(BalBlocks) /\ Len(opened') = m /\ DOMAIN opened' = DOMAIN opened
      /\ opened'[m] = [top EXCEPT !.kind = "else", !.left = runs]
      /\ \A k \in DOMAIN opened : k # m => opened'[k] = opened[k]
  <2>1. opened' = [opened EXCEPT ![m] = [top EXCEPT !.kind = "else", !.left = runs]]
    BY <1>1, <1>2, <1>5
  <2>2. [top EXCEPT !.kind = "else", !.left = runs] \in BalBlocks
    BY <1>2, <1>5 DEF BalBlocks
  <2> QED BY <1>2, <1>5, <2>1, <2>2
<1>7. /\ opened'[m].env = top.env /\ opened'[m].entry = top.entry /\ opened'[m].left = runs
  BY <1>2, <1>6 DEF BalBlocks
<1>8. ASSUME "shadow" \notin hides' PROVE ScopesAgree(scan.scope_stack, env)'
  <2>1. /\ Agree(s.scope_stack, m, top.env)
        /\ \A k \in DOMAIN opened : Agree(s.scope_stack, k, opened[k].env)
    BY <1>1, <1>2, <1>8, BalUnwind DEF s
  <2>2. Agree(scan'.scope_stack, m + 1, env')
    <3>1. \A i : i \in 1..(m + 1) <=> i \in 1..m \/ i = m + 1
      BY <1>2
    <3> QED BY <1>1, <1>2, <1>4, <2>1, <3>1 DEF Agree
  <2>3. ASSUME NEW k \in DOMAIN opened PROVE Agree(scan'.scope_stack, k, opened'[k].env)
    <3>1. opened'[k].env = opened[k].env
      BY <1>6, <1>7
    <3>2. \A i \in 1..k : scan'.scope_stack[i] = s.scope_stack[i]
      BY <1>2, <1>4
    <3> QED BY <2>1, <3>1, <3>2 DEF Agree
  <2> QED BY <1>6, <2>2, <2>3 DEF ScopesAgree, Agree
<1>9. /\ "shadow" \in hides' <=> "shadow" \in invents'
      /\ hides' = {} => hides = {} /\ ~(TRUE \in runs /\ FALSE \in top.entry)
      /\ invents' = {} => invents = {} /\ ~(TRUE \in top.entry /\ FALSE \in runs)
  BY <1>1, <1>2 DEF BalInv, Balance!Mark, Balance!Ahead
<1>10. ASSUME hides' = {} \/ invents' = {}
       PROVE  /\ runs # {} /\ top.entry # {}
              /\ \A i \in DOMAIN opened : /\ opened'[i].entry # {}
                                          /\ opened'[i].kind = "else" => opened'[i].left # {}
  <2>0. hides = {} \/ invents = {}
    BY <1>9, <1>10
  <2>1. /\ runs # {}
        /\ \A i \in DOMAIN opened : /\ opened[i].entry # {}
                                    /\ opened[i].kind = "else" => opened[i].left # {}
    BY <2>0 DEF BalInv
  <2>2. ASSUME NEW i \in DOMAIN opened
        PROVE  opened'[i].entry # {} /\ (opened'[i].kind = "else" => opened'[i].left # {})
    <3>1. CASE i = m
      BY <1>2, <1>7, <2>1, <3>1
    <3>2. CASE i # m
      BY <1>6, <2>1, <3>2
    <3> QED BY <3>1, <3>2
  <2> QED BY <1>2, <2>1, <2>2
<1>11. runs \in SUBSET BOOLEAN /\ top.entry \in SUBSET BOOLEAN
  BY <1>2, <1>5 DEF BalBlocks
<1>12. hides' = {} => (scan'.balanced => FALSE \notin top.entry)
  <2>1. hides' = {} => (scan.balanced => FALSE \notin runs)
    BY <1>9 DEF BalInv
  <2> QED BY <1>3, <1>9, <1>10, <1>11, <2>1
<1>13. invents' = {} => (~scan'.balanced => FALSE \in top.entry)
  <2>1. invents' = {} => (~scan.balanced => FALSE \in runs)
    BY <1>9 DEF BalInv
  <2> QED BY <1>3, <1>9, <1>10, <1>11, <2>1
<1>14. env' \in [Names -> BalMeanings] /\ runs' \subseteq BOOLEAN /\ runs' = top.entry
  BY <1>1, <1>2, <1>11 DEF BalBlocks
<1>15. Len(scan'.scope_stack) = Len(opened') + 1
  BY <1>4, <1>6
<1> QED BY <1>1, <1>3, <1>6, <1>8, <1>9, <1>10, <1>12, <1>13, <1>14, <1>15 DEF BalInv

\* The executions that skipped the block, or took its other branch, join in.
LEMMA BalClose == ASSUME BalInv, size' \in Nat, Balance!Close PROVE BalInv'
<1> DEFINE m == Len(opened)
           top == opened[m]
<1>1. /\ opened # <<>> /\ opened' = Balance!Front(opened) /\ scan' = Balance!Pop(scan)
      /\ env' = Balance!Top.env /\ runs' = runs \cup Balance!Beside
      /\ hides' = hides \cup Balance!Mark("branch", Balance!Ahead(runs, Balance!Beside))
      /\ UNCHANGED <<real, invents>>
  BY DEF Balance!Close
<1>2. /\ scan' \in BalScans /\ scan'.balanced = scan.balanced /\ scan'.findings = scan.findings
      /\ Len(scan'.scope_stack) = m /\ m \in Nat \ {0}
      /\ Balance!Top = top /\ top \in BalBlocks /\ m \in DOMAIN opened /\ DOMAIN opened = 1..m
  BY <1>1, BalUnwind
<1>3. /\ opened' \in Seq(BalBlocks) /\ Len(opened') = m - 1 /\ DOMAIN opened' = 1..(m - 1)
      /\ \A k \in DOMAIN opened' : k \in DOMAIN opened /\ opened'[k] = opened[k]
  BY <1>1, <1>2, Stack DEF BalInv, Balance!Front
<1>4. ASSUME "shadow" \notin hides' PROVE ScopesAgree(scan.scope_stack, env)'
  <2>1. /\ Agree(scan'.scope_stack, m, top.env)
        /\ \A k \in DOMAIN opened : Agree(scan'.scope_stack, k, opened[k].env)
    BY <1>1, <1>2, <1>4, BalUnwind
  <2>2. Len(opened') + 1 = m /\ env' = top.env
    BY <1>1, <1>2, <1>3
  <2>3. Agree(scan'.scope_stack, Len(opened') + 1, env')
    BY <2>1, <2>2
  <2>4. \A k \in DOMAIN opened' : Agree(scan'.scope_stack, k, opened'[k].env)
    BY <1>3, <2>1
  <2> QED BY <2>3, <2>4 DEF ScopesAgree, Agree
<1>5. /\ Balance!Beside \in SUBSET BOOLEAN
      /\ top.kind \in {"then", "else"} /\ (hides = {} \/ invents = {}) => Balance!Beside # {}
      /\ top.kind = "block" => Balance!Beside = {}
      /\ top.kind \in {"block", "then", "else"}
  <2>1. top.kind \in {"block", "then", "else"} /\ top.entry \in SUBSET BOOLEAN /\ top.left \in SUBSET BOOLEAN
    BY <1>2 DEF BalBlocks
  <2>2. /\ top.kind = "block" => Balance!Beside = {}
        /\ top.kind = "then"  => Balance!Beside = top.entry
        /\ top.kind = "else"  => Balance!Beside = top.left
    BY <1>2 DEF Balance!Beside
  <2>3. hides = {} \/ invents = {} => top.entry # {} /\ (top.kind = "else" => top.left # {})
    BY <1>2 DEF BalInv
  <2> QED BY <2>1, <2>2, <2>3
<1>6. /\ "shadow" \in hides' <=> "shadow" \in invents'
      /\ hides' = {} => hides = {} /\ ~(TRUE \in runs /\ FALSE \in Balance!Beside)
  BY <1>1 DEF BalInv, Balance!Mark, Balance!Ahead
<1>7. runs \in SUBSET BOOLEAN /\ env' \in [Names -> BalMeanings]
  BY <1>1, <1>2 DEF BalInv, BalBlocks
<1>8. hides' = {} => (scan'.balanced => FALSE \notin runs')
  <2>1. hides' = {} => runs # {} /\ (scan.balanced => FALSE \notin runs)
    BY <1>6 DEF BalInv
  <2> QED BY <1>1, <1>2, <1>6, <1>7, <2>1
<1>9. invents' = {} => (~scan'.balanced => FALSE \in runs')
  BY <1>1, <1>2 DEF BalInv
<1>10. runs' \subseteq BOOLEAN /\ (runs # {} => runs' # {})
  BY <1>1, <1>5, <1>7
<1>11. ASSUME hides' = {} \/ invents' = {}
       PROVE  \A i \in DOMAIN opened' : /\ opened'[i].entry # {}
                                        /\ opened'[i].kind = "else" => opened'[i].left # {}
  BY <1>1, <1>3, <1>11 DEF BalInv
<1>12. Len(scan'.scope_stack) = Len(opened') + 1
  BY <1>2, <1>3
<1> QED BY <1>1, <1>2, <1>3, <1>4, <1>6, <1>7, <1>8, <1>9, <1>10, <1>11, <1>12 DEF BalInv

\* The scope stack says of every name what it stands for unless a client was
\* shadowed, and a transfer is a finding if and only if an execution makes it
\* unchecked, apart from the constructs in `hides` and `invents`.
THEOREM UncheckedTransfersAreFound == ChecksSpec => []BalanceFindings
<1> DEFINE Inv == check = "balance" => BalInv
<1>1. ChecksInit => Inv
  BY BalInit DEF ChecksInit, Idle, Vocabulary
<1>2. Inv /\ [ChecksNext]_<<vars, check, named, statements>> => Inv'
  <2> SUFFICES ASSUME Inv, [ChecksNext]_<<vars, check, named, statements>>, check' = "balance"
               PROVE  BalInv'
    OBVIOUS
  <2>1. check = "balance" /\ BalInv
    BY DEF ChecksNext
  <2>2. CASE Balance!Next
    <3>1. size' \in Nat /\ Balance!Construct
      BY <2>1, <2>2 DEF Balance!Next, BalInv
    <3> QED BY <2>1, <3>1, BalLet, BalLetOfItself, BalCall, BalTransferAll, BalReturn, BalOpen,
               BalElse, BalClose DEF Balance!Construct
  <2>3. CASE UNCHANGED <<vars, check, named, statements>>
    BY <2>1, <2>3 DEF vars, named, BalInv, ScopesAgree, Agree
  <2> QED BY <2>1, <2>2, <2>3 DEF ChecksNext, Write, Vocabulary
<1>3. Inv => BalanceFindings
  <2> SUFFICES ASSUME BalInv PROVE Balance!BalanceFindings
    BY DEF BalanceFindings
  <2>1. "shadow" \notin hides =>
          \A name \in Names : Balance!IsToken(scan.scope_stack, name) <=> env[name] = "token"
    BY BalKnows
  <2> QED BY <2>1 DEF Balance!BalanceFindings, BalInv
<1> QED BY <1>1, <1>2, <1>3, PTL DEF ChecksSpec

-----------------------------------------------------------------------------
(* unbounded-vec-growth *)

VecThings == VecGrowth!Vectors \cup {VecGrowth!Unbound}
VecBlocks == [env : [Names -> VecThings], binds : SUBSET Names]
VecScans == [get_bindings : SUBSET bound, grown : SUBSET bound,
             written_back : SUBSET bound, len_checked : SUBSET bound]

\* A vector a name stands for here is no less known to the sets than it is
\* stored, grown and without a cap.
VecKnown(n) ==
  env[n] # VecGrowth!Unbound =>
    /\ env[n].stored => n \in scan.get_bindings
    /\ env[n].stored /\ env[n].grown => n \in scan.grown
    /\ ~env[n].capped => n \notin scan.len_checked
    /\ n \in real => env[n].written

\* What the sets know of a name they have as stored is true of its vector.
VecEarned(n) ==
  env[n] # VecGrowth!Unbound =>
    /\ env[n].stored
    /\ n \in scan.grown => env[n].grown
    /\ env[n].capped => n \in scan.len_checked
    /\ n \in scan.written_back => env[n].written

\* The name stood for nothing when the blocks that bind it were entered, so
\* that it will stand for nothing again.
VecOnce(n) ==
  \A i \in DOMAIN opened : n \in opened[i].binds => opened[i].env[n] = VecGrowth!Unbound

VecInv ==
  /\ env \in [Names -> VecThings] /\ opened \in Seq(VecBlocks) /\ scan \in VecScans
  /\ bound \subseteq Names /\ real \subseteq bound /\ size \in Nat
  /\ \A n \in Names \ bound :
       /\ env[n] = VecGrowth!Unbound
       /\ \A i \in DOMAIN opened : opened[i].env[n] = VecGrowth!Unbound
  /\ hides = {} =>
       /\ \A n \in Names : VecKnown(n) /\ VecOnce(n)
       /\ real \subseteq VecGrowth!Offenders
  /\ invents = {} =>
       /\ \A n \in scan.get_bindings : VecEarned(n) /\ VecOnce(n)
       /\ VecGrowth!Offenders \subseteq real

\* Vectors are told from the unbound, and marking one changes one field of it.
LEMMA VecFacts ==
  /\ \A v \in VecGrowth!Vectors : v # VecGrowth!Unbound
  /\ \A stored \in BOOLEAN :
       /\ VecGrowth!Fresh(stored) \in VecGrowth!Vectors
       /\ VecGrowth!Fresh(stored).stored = stored
       /\ ~VecGrowth!Fresh(stored).grown /\ ~VecGrowth!Fresh(stored).capped
       /\ ~VecGrowth!Fresh(stored).written
<1>1. \A v \in VecGrowth!Vectors : v # VecGrowth!Unbound
  <2>1. \A v \in VecGrowth!Vectors : "grown" \in DOMAIN v
    BY DEF VecGrowth!Vectors
  <2>2. "grown" \notin DOMAIN VecGrowth!Unbound
    BY DEF VecGrowth!Unbound
  <2> QED BY <2>1, <2>2
<1>2. ASSUME NEW stored \in BOOLEAN
      PROVE  /\ VecGrowth!Fresh(stored) \in VecGrowth!Vectors
             /\ VecGrowth!Fresh(stored).stored = stored
             /\ ~VecGrowth!Fresh(stored).grown /\ ~VecGrowth!Fresh(stored).capped
             /\ ~VecGrowth!Fresh(stored).written
  BY DEF VecGrowth!Fresh, VecGrowth!Vectors
<1> QED BY <1>1, <1>2

LEMMA VecUpdate ==
  ASSUME VecInv, NEW name \in Names, env[name] # VecGrowth!Unbound,
         NEW field \in {"grown", "capped", "written"}, VecGrowth!Update(name, field)
  PROVE  /\ env' \in [Names -> VecThings]
         /\ \A n \in Names : n # name => env'[n] = env[n]
         /\ env'[name] \in VecGrowth!Vectors /\ env'[name] # VecGrowth!Unbound
         /\ env'[name].stored = env[name].stored
         /\ env'[name].grown = IF field = "grown" THEN TRUE ELSE env[name].grown
         /\ env'[name].capped = IF field = "capped" THEN TRUE ELSE env[name].capped
         /\ env'[name].written = IF field = "written" THEN TRUE ELSE env[name].written
<1>1. env[name] \in VecGrowth!Vectors
  BY DEF VecInv, VecThings
<1> DEFINE v == env[name]
           u == [v EXCEPT ![field] = TRUE]
<1>2. env' = [env EXCEPT ![name] = u]
  BY DEF VecGrowth!Update
<1>3. /\ u \in VecGrowth!Vectors
      /\ u.stored = v.stored
      /\ u.grown = IF field = "grown" THEN TRUE ELSE v.grown
      /\ u.capped = IF field = "capped" THEN TRUE ELSE v.capped
      /\ u.written = IF field = "written" THEN TRUE ELSE v.written
  <2>1. CASE field = "grown"
    BY <1>1, <2>1 DEF VecGrowth!Vectors
  <2>2. CASE field = "capped"
    BY <1>1, <2>2 DEF VecGrowth!Vectors
  <2>3. CASE field = "written"
    BY <1>1, <2>3 DEF VecGrowth!Vectors
  <2> QED BY <2>1, <2>2, <2>3
<1> HIDE DEF u
<1>4. env' \in [Names -> VecThings] /\ env'[name] = u /\ \A n \in Names : n # name => env'[n] = env[n]
  BY <1>2, <1>3 DEF VecInv, VecThings
<1> QED BY <1>3, <1>4, VecFacts

LEMMA VecInit == ASSUME VecGrowth!Init PROVE VecInv
<1>1. opened = <<>> /\ DOMAIN opened = {} /\ opened \in Seq(VecBlocks)
  BY DEF VecGrowth!Init
<1>2. /\ bound \subseteq Names /\ real = {} /\ hides = {} /\ invents = {} /\ size = 0
      /\ scan = [get_bindings |-> {}, grown |-> {}, written_back |-> {}, len_checked |-> {}]
      /\ env = [n \in Names |-> IF n \in bound THEN VecGrowth!Fresh(FALSE) ELSE VecGrowth!Unbound]
  BY DEF VecGrowth!Init
<1>3. env \in [Names -> VecThings]
  BY <1>2, VecFacts DEF VecThings
<1>4. scan \in VecScans /\ VecGrowth!Offenders = {} /\ scan.get_bindings = {} /\ scan.len_checked = {}
  BY <1>2 DEF VecScans, VecGrowth!Offenders
<1>5. \A n \in Names : VecKnown(n) /\ VecOnce(n)
  <2>1. ASSUME NEW n \in Names, env[n] # VecGrowth!Unbound PROVE ~env[n].stored
    BY <1>2, <2>1, VecFacts
  <2> QED BY <1>1, <1>2, <1>4, <2>1 DEF VecKnown, VecOnce
<1> QED BY <1>1, <1>2, <1>3, <1>4, <1>5 DEF VecInv

\* A name that is bound for the first time has left no traces in the sets; one
\* that is bound again must not be trusted to be the same vector.
LEMMA VecLet ==
  ASSUME VecInv, size' \in Nat, NEW name \in Names, NEW stored \in BOOLEAN,
         VecGrowth!Let(name, stored)
  PROVE  VecInv'
<1>1. /\ scan' = [scan EXCEPT !.get_bindings = IF stored THEN @ \cup {name} ELSE @ \ {name}]
      /\ env' = [env EXCEPT ![name] = VecGrowth!Fresh(stored)]
      /\ bound' = bound \cup {name} /\ real' = real
      /\ opened' = [i \in DOMAIN opened |->
            IF i = Len(opened) THEN [opened[i] EXCEPT !.binds = @ \cup {name}] ELSE opened[i]]
  BY DEF VecGrowth!Let
<1>2. /\ env \in [Names -> VecThings] /\ opened \in Seq(VecBlocks) /\ scan \in VecScans
      /\ bound \subseteq Names /\ real \subseteq bound
  BY DEF VecInv
<1>3. /\ scan'.get_bindings = IF stored THEN scan.get_bindings \cup {name}
                                        ELSE scan.get_bindings \ {name}
      /\ scan'.grown = scan.grown /\ scan'.written_back = scan.written_back
      /\ scan'.len_checked = scan.len_checked
      /\ scan' \in [get_bindings : SUBSET bound', grown : SUBSET bound',
                    written_back : SUBSET bound', len_checked : SUBSET bound']
  BY <1>1, <1>2 DEF VecScans
<1>4. /\ env' \in [Names -> VecThings] /\ env'[name] = VecGrowth!Fresh(stored)
      /\ \A n \in Names : n # name => env'[n] = env[n]
  BY <1>1, <1>2, VecFacts DEF VecThings
<1>5. /\ opened' \in Seq(VecBlocks) /\ DOMAIN opened' = DOMAIN opened
      /\ \A i \in DOMAIN opened : /\ opened'[i].env = opened[i].env
                                  /\ opened'[i].binds \subseteq opened[i].binds \cup {name}
  <2>1. Len(opened) \in Nat /\ DOMAIN opened = 1..Len(opened) /\ \A i \in DOMAIN opened : opened[i] \in VecBlocks
    BY <1>2
  <2>2. ASSUME NEW i \in DOMAIN opened
        PROVE  /\ opened'[i] \in VecBlocks /\ opened'[i].env = opened[i].env
               /\ opened'[i].binds \subseteq opened[i].binds \cup {name}
    BY <1>1, <2>1 DEF VecBlocks
  <2>3. DOMAIN opened' = 1..Len(opened) /\ opened' \in [1..Len(opened) -> VecBlocks]
    BY <1>1, <2>1, <2>2
  <2> QED BY <2>1, <2>2, <2>3
<1>6. /\ scan.get_bindings \subseteq bound /\ scan.grown \subseteq bound
      /\ scan.written_back \subseteq bound /\ scan.len_checked \subseteq bound
  BY <1>2 DEF VecScans
<1>7. \A n \in Names \ bound' :
        env'[n] = VecGrowth!Unbound /\ \A i \in DOMAIN opened' : opened'[i].env[n] = VecGrowth!Unbound
  BY <1>1, <1>4, <1>5 DEF VecInv
<1>8. name \notin bound => \A i \in DOMAIN opened : opened[i].env[name] = VecGrowth!Unbound
  BY DEF VecInv
<1>9. ASSUME NEW n \in Names, n # name
      PROVE  (VecKnown(n) => VecKnown(n)') /\ (VecEarned(n) => VecEarned(n)') /\ (VecOnce(n) => VecOnce(n)')
  <2>1. (VecKnown(n) => VecKnown(n)') /\ (VecEarned(n) => VecEarned(n)')
    BY <1>1, <1>3, <1>4, <1>9 DEF VecKnown, VecEarned
  <2>2. VecOnce(n) => VecOnce(n)'
    BY <1>5, <1>9 DEF VecOnce
  <2> QED BY <2>1, <2>2
<1>10. name \notin bound => VecOnce(name)'
  BY <1>5, <1>8 DEF VecOnce
<1>11. ASSUME hides' = {}
       PROVE  (\A n \in Names : VecKnown(n)' /\ VecOnce(n)') /\ real' \subseteq VecGrowth!Offenders'
  <2>1. hides = {} /\ name \notin bound
    BY <1>11 DEF VecGrowth!Let, VecGrowth!Mark
  <2>2. VecKnown(name)'
    BY <1>1, <1>2, <1>3, <1>4, <1>6, <2>1, VecFacts DEF VecKnown
  <2>3. \A n \in Names : VecKnown(n)' /\ VecOnce(n)'
    BY <1>9, <1>10, <2>1, <2>2 DEF VecInv
  <2>4. real' \subseteq VecGrowth!Offenders'
    BY <1>1, <1>2, <1>3, <2>1 DEF VecInv, VecGrowth!Offenders
  <2> QED BY <2>3, <2>4
<1>12. ASSUME invents' = {}
       PROVE  (\A n \in scan'.get_bindings : VecEarned(n)' /\ VecOnce(n)') /\ VecGrowth!Offenders' \subseteq real'
  <2>1. invents = {} /\ (stored => name \notin bound)
    BY <1>12 DEF VecGrowth!Let, VecGrowth!Mark
  <2>2. stored => VecEarned(name)'
    BY <1>3, <1>4, <1>6, <2>1, VecFacts DEF VecEarned
  <2>3. ASSUME NEW n \in scan'.get_bindings PROVE VecEarned(n)' /\ VecOnce(n)'
    <3>1. CASE n = name
      BY <1>3, <1>10, <2>1, <2>2, <3>1
    <3>2. CASE n # name
      <4>1. n \in scan.get_bindings /\ n \in Names
        BY <1>2, <1>3, <1>6, <3>2
      <4>2. VecEarned(n) /\ VecOnce(n)
        BY <2>1, <4>1 DEF VecInv
      <4> QED BY <1>9, <3>2, <4>1, <4>2
    <3> QED BY <3>1, <3>2
  <2>4. VecGrowth!Offenders' \subseteq VecGrowth!Offenders
    BY <1>3, <1>6, <2>1 DEF VecGrowth!Offenders
  <2> QED BY <1>1, <2>1, <2>3, <2>4 DEF VecInv
<1>13. bound' \subseteq Names /\ real' \subseteq bound'
  BY <1>1, <1>2
<1> QED BY <1>3, <1>4, <1>5, <1>7, <1>11, <1>12, <1>13 DEF VecInv, VecScans

\* Only names that are bound stand for a vector.
LEMMA VecBound ==
  ASSUME VecInv, NEW name \in Names, env[name] # VecGrowth!Unbound
  PROVE  name \in bound /\ env[name] \in VecGrowth!Vectors
BY DEF VecInv, VecThings

LEMMA VecPush ==
  ASSUME VecInv, size' \in Nat, NEW name \in Names, VecGrowth!Push(name)
  PROVE  VecInv'
<1>1. /\ env[name] # VecGrowth!Unbound /\ VecGrowth!Update(name, "grown")
      /\ scan' = [scan EXCEPT !.grown = @ \cup (scan.get_bindings \cap {name})]
      /\ UNCHANGED <<opened, bound, real, hides>>
      /\ invents' = invents \cup VecGrowth!Mark("late_push", env[name].written)
  BY DEF VecGrowth!Push
<1>2. scan \in VecScans /\ env \in [Names -> VecThings] /\ bound \subseteq Names
  BY DEF VecInv
<1>3. /\ scan' \in VecScans
      /\ scan'.grown = scan.grown \cup (scan.get_bindings \cap {name})
      /\ scan'.get_bindings = scan.get_bindings /\ scan'.written_back = scan.written_back
      /\ scan'.len_checked = scan.len_checked
  BY <1>1, <1>2 DEF VecScans
<1>4. /\ env' \in [Names -> VecThings]
      /\ \A n \in Names : n # name => env'[n] = env[n]
      /\ env'[name] # VecGrowth!Unbound
      /\ env'[name].stored = env[name].stored /\ env'[name].grown = TRUE
      /\ env'[name].capped = env[name].capped /\ env'[name].written = env[name].written
  BY <1>1, VecUpdate
<1>5. /\ name \in bound
      /\ \A n \in Names \ bound :
           env'[n] = VecGrowth!Unbound /\ \A i \in DOMAIN opened : opened[i].env[n] = VecGrowth!Unbound
  BY <1>1, <1>4, VecBound DEF VecInv
<1>6. \A n \in Names : VecKnown(n) => VecKnown(n)'
  BY <1>1, <1>3, <1>4 DEF VecKnown
<1>7. \A n \in scan.get_bindings : VecEarned(n) => VecEarned(n)'
  BY <1>1, <1>2, <1>3, <1>4 DEF VecEarned, VecScans
<1>8. \A n : VecOnce(n)' <=> VecOnce(n)
  BY <1>1 DEF VecOnce
<1>9. hides = {} => (\A n \in Names : VecKnown(n)' /\ VecOnce(n)') /\ real \subseteq VecGrowth!Offenders'
  BY <1>3, <1>6, <1>8 DEF VecInv, VecGrowth!Offenders
<1>10. ASSUME invents' = {}
       PROVE  (\A n \in scan'.get_bindings : VecEarned(n)' /\ VecOnce(n)') /\ VecGrowth!Offenders' \subseteq real
  <2>1. invents = {} /\ ~env[name].written
    BY <1>1, <1>10 DEF VecGrowth!Mark
  <2>2. name \in scan.get_bindings => name \notin scan.written_back
    BY <1>1, <2>1 DEF VecInv, VecEarned
  <2>3. VecGrowth!Offenders' \subseteq VecGrowth!Offenders
    BY <1>3, <2>2 DEF VecGrowth!Offenders
  <2> QED BY <1>3, <1>7, <1>8, <2>1, <2>3 DEF VecInv
<1> QED BY <1>1, <1>3, <1>4, <1>5, <1>9, <1>10 DEF VecInv, VecScans

LEMMA VecCap ==
  ASSUME VecInv, size' \in Nat, NEW name \in Names, NEW always \in BOOLEAN,
         VecGrowth!Cap(name, always)
  PROVE  VecInv'
<1>1. /\ env[name] # VecGrowth!Unbound
      /\ scan' = [scan EXCEPT !.len_checked = @ \cup {name}]
      /\ UNCHANGED <<opened, bound, real, invents>>
      /\ hides' = hides \cup VecGrowth!Mark("late_cap", env[name].written)
                       \cup VecGrowth!Mark("branch", ~always)
      /\ IF always THEN VecGrowth!Update(name, "capped") ELSE UNCHANGED env
  BY DEF VecGrowth!Cap
<1>2. scan \in VecScans /\ env \in [Names -> VecThings] /\ bound \subseteq Names /\ name \in bound
  BY <1>1, VecBound DEF VecInv
<1>3. /\ scan' \in VecScans
      /\ scan'.grown = scan.grown /\ scan'.get_bindings = scan.get_bindings
      /\ scan'.written_back = scan.written_back
      /\ scan'.len_checked = scan.len_checked \cup {name}
  BY <1>1, <1>2 DEF VecScans
<1>4. /\ env' \in [Names -> VecThings]
      /\ \A n \in Names : n # name => env'[n] = env[n]
      /\ env'[name] # VecGrowth!Unbound
      /\ env'[name].stored = env[name].stored /\ env'[name].grown = env[name].grown
      /\ env'[name].written = env[name].written
      /\ always => env'[name].capped = TRUE
  <2>1. CASE always
    BY <1>1, <2>1, VecUpdate
  <2>2. CASE ~always
    BY <1>1, <1>2, <2>2
  <2> QED BY <2>1, <2>2
<1>5. \A n \in Names \ bound :
        env'[n] = VecGrowth!Unbound /\ \A i \in DOMAIN opened : opened[i].env[n] = VecGrowth!Unbound
  BY <1>2, <1>4 DEF VecInv
<1>6. \A n \in scan.get_bindings : VecEarned(n) => VecEarned(n)'
  <2>1. \A n \in Names : n # name => (VecEarned(n) => VecEarned(n)')
    BY <1>3, <1>4 DEF VecEarned
  <2>2. VecEarned(name) => VecEarned(name)'
    BY <1>1, <1>3, <1>4 DEF VecEarned
  <2>3. \A n \in scan.get_bindings : n \in Names
    BY <1>2 DEF VecScans
  <2> QED BY <2>1, <2>2, <2>3
<1>7. \A n : VecOnce(n)' <=> VecOnce(n)
  BY <1>1 DEF VecOnce
<1>8. invents = {} => /\ \A n \in scan'.get_bindings : VecEarned(n)' /\ VecOnce(n)'
                      /\ VecGrowth!Offenders' \subseteq real
  BY <1>3, <1>6, <1>7 DEF VecInv, VecGrowth!Offenders
<1>9. ASSUME hides' = {}
      PROVE  (\A n \in Names : VecKnown(n)' /\ VecOnce(n)') /\ real \subseteq VecGrowth!Offenders'
  <2>1. hides = {} /\ ~env[name].written /\ always
    BY <1>1, <1>9 DEF VecGrowth!Mark
  <2>2. name \notin real
    BY <1>1, <2>1 DEF VecInv, VecKnown
  <2>3. real \subseteq VecGrowth!Offenders'
    BY <1>3, <2>1, <2>2 DEF VecInv, VecGrowth!Offenders
  <2>4. \A n \in Names : VecKnown(n)'
    <3>1. \A n \in Names : VecKnown(n)
      BY <2>1 DEF VecInv
    <3>2. \A n \in Names : n # name => VecKnown(n)'
      BY <1>1, <1>3, <1>4, <3>1 DEF VecKnown
    <3>3. VecKnown(name)'
      BY <1>1, <1>3, <1>4, <2>1, <3>1 DEF VecKnown
    <3> QED BY <3>2, <3>3
  <2> QED BY <1>7, <2>1, <2>3, <2>4 DEF VecInv
<1> QED BY <1>1, <1>3, <1>4, <1>5, <1>8, <1>9 DEF VecInv, VecScans

LEMMA VecWriteBack ==
  ASSUME VecInv, size' \in Nat, NEW name \in Names, VecGrowth!WriteBack(name)
  PROVE  VecInv'
<1>1. /\ env[name] # VecGrowth!Unbound /\ VecGrowth!Update(name, "written")
      /\ scan' = [scan EXCEPT !.written_back = @ \cup (scan.get_bindings \cap {name})]
      /\ real' = real \cup {n \in {name} : env[n].stored /\ env[n].grown /\ ~env[n].capped}
      /\ UNCHANGED <<opened, bound, hides, invents>>
  BY DEF VecGrowth!WriteBack
<1>2. /\ scan \in VecScans /\ env \in [Names -> VecThings] /\ bound \subseteq Names
      /\ name \in bound /\ env[name] \in VecGrowth!Vectors
  BY <1>1, VecBound DEF VecInv
<1>3. /\ scan' \in VecScans
      /\ scan'.grown = scan.grown /\ scan'.get_bindings = scan.get_bindings
      /\ scan'.written_back = scan.written_back \cup (scan.get_bindings \cap {name})
      /\ scan'.len_checked = scan.len_checked
  BY <1>1, <1>2 DEF VecScans
<1>4. /\ env' \in [Names -> VecThings]
      /\ \A n \in Names : n # name => env'[n] = env[n]
      /\ env'[name] # VecGrowth!Unbound
      /\ env'[name].stored = env[name].stored /\ env'[name].grown = env[name].grown
      /\ env'[name].capped = env[name].capped /\ env'[name].written = TRUE
  BY <1>1, VecUpdate
<1>5. \A n \in Names \ bound :
        env'[n] = VecGrowth!Unbound /\ \A i \in DOMAIN opened : opened[i].env[n] = VecGrowth!Unbound
  BY <1>2, <1>4 DEF VecInv
<1>6. \A n \in Names : VecKnown(n) => VecKnown(n)'
  BY <1>1, <1>3, <1>4 DEF VecKnown
<1>7. \A n \in scan.get_bindings : VecEarned(n) => VecEarned(n)'
  BY <1>1, <1>2, <1>3, <1>4 DEF VecEarned, VecScans
<1>8. \A n : VecOnce(n)' <=> VecOnce(n)
  BY <1>1 DEF VecOnce
<1>9. hides = {} => (\A n \in Names : VecKnown(n)' /\ VecOnce(n)') /\ real' \subseteq VecGrowth!Offenders'
  <2>1. ASSUME hides = {}, env[name].stored, env[name].grown, ~env[name].capped
        PROVE  name \in VecGrowth!Offenders'
    BY <1>1, <1>3, <2>1 DEF VecInv, VecKnown, VecGrowth!Offenders
  <2>2. VecGrowth!Offenders \subseteq VecGrowth!Offenders'
    BY <1>3 DEF VecGrowth!Offenders
  <2> QED BY <1>1, <1>6, <1>8, <2>1, <2>2 DEF VecInv
<1>10. ASSUME invents = {}
       PROVE  (\A n \in scan'.get_bindings : VecEarned(n)' /\ VecOnce(n)') /\ VecGrowth!Offenders' \subseteq real'
  <2>1. ASSUME name \in VecGrowth!Offenders' PROVE name \in real'
    <3>1. name \in scan.get_bindings /\ name \in scan.grown /\ name \notin scan.len_checked
      BY <1>3, <2>1 DEF VecGrowth!Offenders
    <3>2. env[name].stored /\ env[name].grown /\ ~env[name].capped
      BY <1>1, <1>10, <3>1 DEF VecInv, VecEarned
    <3> QED BY <1>1, <3>2
  <2>2. \A n \in VecGrowth!Offenders' : n = name \/ n \in VecGrowth!Offenders
    BY <1>3 DEF VecGrowth!Offenders
  <2> QED BY <1>1, <1>3, <1>7, <1>8, <1>10, <2>1, <2>2 DEF VecInv
<1>11. real' \subseteq bound
  BY <1>1, <1>2 DEF VecInv
<1> QED BY <1>1, <1>3, <1>4, <1>5, <1>9, <1>10, <1>11 DEF VecInv, VecScans

LEMMA VecOpen == ASSUME VecInv, size' \in Nat, VecGrowth!Open PROVE VecInv'
<1> DEFINE f == [env |-> env, binds |-> {}]
<1>1. opened' = Append(opened, f) /\ UNCHANGED <<scan, env, bound, real, hides, invents>>
  BY DEF VecGrowth!Open
<1>2. f \in VecBlocks /\ f.env = env /\ f.binds = {} /\ opened \in Seq(VecBlocks)
  BY DEF VecInv, VecBlocks
<1> HIDE DEF f
<1>3. /\ opened' \in Seq(VecBlocks)
      /\ \A i \in DOMAIN opened' : opened'[i] = f \/ (i \in DOMAIN opened /\ opened'[i] = opened[i])
  BY <1>1, <1>2, Stack
<1>4. \A n : VecOnce(n) => VecOnce(n)'
  BY <1>2, <1>3 DEF VecOnce
<1>5. \A n : (VecKnown(n)' <=> VecKnown(n)) /\ (VecEarned(n)' <=> VecEarned(n))
  BY <1>1 DEF VecKnown, VecEarned
<1>6. VecGrowth!Offenders' = VecGrowth!Offenders /\ VecScans' = VecScans
  BY <1>1 DEF VecGrowth!Offenders, VecScans
<1>7. \A n \in Names \ bound : \A i \in DOMAIN opened' : opened'[i].env[n] = VecGrowth!Unbound
  BY <1>2, <1>3 DEF VecInv
<1> QED BY <1>1, <1>3, <1>4, <1>5, <1>6, <1>7 DEF VecInv

\* A vector that goes out of scope leaves what the sets say of its name; the
\* name then stands for nothing.
LEMMA VecClose == ASSUME VecInv, size' \in Nat, VecGrowth!Close PROVE VecInv'
<1> DEFINE top == opened[Len(opened)]
<1>1. /\ opened # <<>> /\ opened' = VecGrowth!Front(opened)
      /\ env' = [n \in Names |-> VecGrowth!Survivor(n)]
      /\ UNCHANGED <<scan, bound, real, hides, invents>>
  BY DEF VecGrowth!Close
<1>2. env \in [Names -> VecThings] /\ opened \in Seq(VecBlocks)
  BY DEF VecInv
<1>3. /\ Len(opened) \in DOMAIN opened /\ top \in VecBlocks
      /\ opened' \in Seq(VecBlocks)
      /\ \A i \in DOMAIN opened' : i \in DOMAIN opened /\ opened'[i] = opened[i]
  BY <1>1, <1>2, Stack DEF VecGrowth!Front
<1>4. \A n \in Names : env'[n] = IF n \in top.binds THEN top.env[n] ELSE env[n]
  BY <1>1 DEF VecGrowth!Survivor, VecGrowth!Last
<1>5. env' \in [Names -> VecThings]
  BY <1>1, <1>2, <1>3, <1>4 DEF VecBlocks
<1>6. \A n \in Names : VecOnce(n) => VecOnce(n)' /\ (env'[n] = env[n] \/ env'[n] = VecGrowth!Unbound)
  BY <1>3, <1>4 DEF VecOnce
<1>7. \A n \in Names : VecOnce(n) => (VecKnown(n) => VecKnown(n)') /\ (VecEarned(n) => VecEarned(n)')
  BY <1>1, <1>6 DEF VecKnown, VecEarned
<1>8. VecGrowth!Offenders' = VecGrowth!Offenders /\ VecScans' = VecScans
  BY <1>1 DEF VecGrowth!Offenders, VecScans
<1>9. \A n \in Names \ bound :
        env'[n] = VecGrowth!Unbound /\ \A i \in DOMAIN opened' : opened'[i].env[n] = VecGrowth!Unbound
  BY <1>3, <1>4 DEF VecInv
<1>10. \A n \in scan.get_bindings : n \in Names
  BY DEF VecInv, VecScans
<1> QED BY <1>1, <1>3, <1>5, <1>6, <1>7, <1>8, <1>9, <1>10 DEF VecInv

\* What is reported at the end of a body is exactly what grew and was written
\* back without a cap, apart from the constructs in `hides` and `invents`: the
\* sets know names, not variables, and have no order.
THEOREM UncappedGrowthIsFound == ChecksSpec => []VecGrowthFindings
<1> DEFINE Inv == check = "vec_growth" => VecInv
<1>1. ChecksInit => Inv
  BY VecInit DEF ChecksInit, Idle, Vocabulary
<1>2. Inv /\ [ChecksNext]_<<vars, check, named, statements>> => Inv'
  <2> SUFFICES ASSUME Inv, [ChecksNext]_<<vars, check, named, statements>>, check' = "vec_growth"
               PROVE  VecInv'
    OBVIOUS
  <2>1. check = "vec_growth" /\ VecInv
    BY DEF ChecksNext
  <2>2. CASE VecGrowth!Next
    <3>1. size' \in Nat /\ VecGrowth!Construct
      BY <2>1, <2>2 DEF VecGrowth!Next, VecInv
    <3> QED BY <2>1, <3>1, VecLet, VecPush, VecCap, VecWriteBack, VecOpen, VecClose
            DEF VecGrowth!Construct
  <2>3. CASE UNCHANGED <<vars, check, named, statements>>
    BY <2>1, <2>3 DEF vars, named, VecInv, VecScans, VecKnown, VecEarned, VecOnce, VecGrowth!Offenders
  <2> QED BY <2>1, <2>2, <2>3 DEF ChecksNext, Write, Vocabulary
<1>3. Inv => VecGrowthFindings
  BY DEF VecGrowthFindings, VecGrowth!VecGrowthFindings, VecInv
<1> QED BY <1>1, <1>2, <1>3, PTL DEF ChecksSpec
================================================================================
