------------------------------ MODULE MCClaims ------------------------------
(***************************************************************************)
(* Sentences of the documentation, and comments in the code, about what a  *)
(* check looks for or what clears its finding, which the check does not    *)
(* bear out. A behaviour goes through the sentences one after the other:   *)
(* it writes a method body or a file until what the check makes of it      *)
(* contradicts the sentence, and only then comes to the next. What the     *)
(* checks do is in the properties of MCBodyChecks and MCFiles.             *)
(***************************************************************************)
EXTENDS Naturals, Sequences, FiniteSets

CONSTANTS
  MaxBody,   \* bound: statements of a body, or constructs of one
  MaxText,   \* bound: tokens of a text
  MaxNames,  \* bound: declarations and uses of a name
  MaxUses    \* bound: uses of keys

VARIABLES
  sentences,  \* those not contradicted so far; the behaviour is about the first
  body,       \* a method body, for the checks that look it over
  scan, env, opened, real, hides, invents, size,  \* of XcInputCheck
  text,                                           \* of TextScans
  names,                                          \* of KeyNames
  uses, visited, filed, emitted                   \* of KeyCollision

Bodies     == INSTANCE Method
Privileged == INSTANCE PrivilegedChecks
Storage    == INSTANCE StorageChecks
Guards     == INSTANCE GuardChecks
Arithmetic == INSTANCE ArithmeticChecks
XcInput    == INSTANCE XcInputCheck WITH Names <- {"value"}, MaxDepth <- 1, MaxSize <- MaxBody
Text       == INSTANCE TextScans
NameUse    == INSTANCE KeyNames
Collision  == INSTANCE KeyCollision

xc_vars        == <<scan, env, opened, real, hides, invents, size>>
collision_vars == <<uses, visited, filed, emitted>>

Done(does) == {i \in DOMAIN body : body[i].does = does}

-----------------------------------------------------------------------------
(* The sentences *)

\* docs/checks.md, limitations of unprotected-upgrade, -token-mint and
\* -contract-deployment: any require_auth anywhere in the body clears the
\* finding. So the three do not all report a method that acts and has one.
AnyAuthClears ==
  Done("auth") # {} /\ Done("op") # {} =>
    \/ ~Privileged!UnprotectedUpgrade(body)
    \/ ~Privileged!UnprotectedTokenMint(body)
    \/ ~Privileged!UnprotectedContractDeployment(body)

\* docs/checks.md on unprotected-admin, and the comment on AdminFunctionCheck:
\* require_auth on any receiver clears the finding.
AnyReceiverClears ==
  Done("auth") # {} /\ Done("op") # {} => ~Privileged!UnprotectedAdmin(body)

\* docs/checks.md on re-initialization-risk: any has() in the body clears the
\* finding, regardless of control flow.
AnyCheckClears ==
  (\E i \in DOMAIN body : Storage!IsCheck(body[i])) => ~Storage!ReInitializationRisk(body)

\* The comment on uses_safe_arithmetic in overflow.rs: with any checked_* or
\* saturating_* call in the body, it should not be flagged.
SafeCallsClear == Done("checked") # {} => Arithmetic!UncheckedArithmetic(body) = {}

\* docs/checks.md on unchecked-arithmetic: flagged are binary operations both
\* sides of which are no literals.
LiteralsAreLeftOut ==
  \A i \in Arithmetic!UncheckedArithmetic(body) \cap Done("plain") :
    "1" \notin {body[i].on.left, body[i].on.right}

\* The comment on block_has_zero_guard in unchecked_divisor.rs: an assertion that
\* the divisor is not zero is a guard.
AssertIsGuard == Guards!AssertIsGuard(body)

\* docs/checks.md on hardcoded-address: what looks like an address is found in
\* comments as well.
CommentsAreSearched ==
  Text!Parses(text) =>
    \A i \in DOMAIN text :
      text[i] = "word" /\ Text!Mode(text, i) \in {"comment", "line comment"} =>
        i \in Text!HardcodedAddress(text)

\* The comment on collect_const_and_static_names in storage.rs: constants are
\* known whether at module level, inside an impl or in a body, so that a key made
\* from one is not reported.
ImplConstantsAreKnown ==
  NameUse!Compiles => \A n \in NameUse!DynamicKeys : names[n].does # "self"

\* docs/checks.md on unsafe-cross-contract-input, and the head of xc_input.rs:
\* nothing is flagged if an `if` or a `match` comes between the binding and the
\* write. (Names are bound outside all blocks here: see XcStep.)
BranchesClear == opened # <<>> /\ XcInput!Last(opened)["value"] = "raw" => size - 1 \notin scan.findings

\* docs/checks.md on symbol-key-collision, and the head of key_collision.rs: keys
\* are compared within one impl block, unrelated blocks are never flagged.
BlocksAreApart ==
  \A i \in Collision!ToSet(emitted) :
    Cardinality(Collision!SourcesOf(Collision!Contract(uses[i]), uses[i].key)) > 1

Holds ==
  LET sentence == Head(sentences) IN
    CASE sentence = "AnyAuthClears"         -> AnyAuthClears
      [] sentence = "AnyReceiverClears"     -> AnyReceiverClears
      [] sentence = "AnyCheckClears"        -> AnyCheckClears
      [] sentence = "SafeCallsClear"        -> SafeCallsClear
      [] sentence = "LiteralsAreLeftOut"    -> LiteralsAreLeftOut
      [] sentence = "AssertIsGuard"         -> AssertIsGuard
      [] sentence = "CommentsAreSearched"   -> CommentsAreSearched
      [] sentence = "ImplConstantsAreKnown" -> ImplConstantsAreKnown
      [] sentence = "BranchesClear"         -> BranchesClear
      [] sentence = "BlocksAreApart"        -> BlocksAreApart

-----------------------------------------------------------------------------

Vocabulary ==
  [AnyAuthClears |-> Privileged!Statements, AnyReceiverClears |-> Privileged!Statements,
   AnyCheckClears |-> Storage!InitStatements, AssertIsGuard |-> Guards!Statements,
   SafeCallsClear |-> Arithmetic!Statements, LiteralsAreLeftOut |-> Arithmetic!Statements]

ClaimsInit ==
  /\ sentences = <<"AnyAuthClears", "AnyReceiverClears", "AnyCheckClears", "SafeCallsClear",
                   "LiteralsAreLeftOut", "AssertIsGuard", "CommentsAreSearched",
                   "ImplConstantsAreKnown", "BranchesClear", "BlocksAreApart">>
  /\ body = <<>>
  /\ XcInput!Init /\ Text!Init /\ NameUse!Init /\ Collision!Init

\* Every statement on a line of its own: two on one line are no sentence's point.
Write ==
  /\ Head(sentences) \in DOMAIN Vocabulary /\ Len(body) < MaxBody
  /\ \E s \in Vocabulary[Head(sentences)] :
       s.fresh /\ Bodies!Fits(body, s, 1) /\ body' = Append(body, s)
  /\ UNCHANGED <<xc_vars, text, names, collision_vars>>

TextStep ==
  /\ Head(sentences) = "CommentsAreSearched" /\ Text!Next
  /\ UNCHANGED <<body, xc_vars, names, collision_vars>>

NamesStep ==
  /\ Head(sentences) = "ImplConstantsAreKnown" /\ NameUse!Next
  /\ UNCHANGED <<body, xc_vars, text, collision_vars>>

\* The value is bound first, then come blocks and writes.
XcStep ==
  /\ Head(sentences) = "BranchesClear" /\ size < MaxBody /\ size' = size + 1
  /\ \/ opened = <<>> /\ XcInput!Let({"value"}, "raw")
     \/ XcInput!Open \/ XcInput!Close \/ XcInput!Store("value")
  /\ UNCHANGED <<body, text, names, collision_vars>>

CollisionStep ==
  /\ Head(sentences) = "BlocksAreApart" /\ Collision!Next
  /\ UNCHANGED <<body, xc_vars, text, names>>

\* The sentence is contradicted by what is written: on to the next.
Contradicted ==
  /\ ~Holds
  /\ sentences' = Tail(sentences)
  /\ body' = <<>> /\ text' = <<>> /\ names' = <<>>
  /\ UNCHANGED <<xc_vars, collision_vars>>

ClaimsNext ==
  /\ sentences # <<>>
  /\ \/ Contradicted
     \/ /\ Holds /\ UNCHANGED sentences
        /\ Write \/ TextStep \/ NamesStep \/ XcStep \/ CollisionStep

ClaimsSpec == ClaimsInit /\ [][ClaimsNext]_<<sentences, body, xc_vars, text, names, collision_vars>>

-----------------------------------------------------------------------------

\* The documents say all of the above, so one sentence at least should be borne
\* out by every body and file there is: only a behaviour that contradicts each
\* of them violates this.
ASentenceStands == sentences # <<>>
=============================================================================
