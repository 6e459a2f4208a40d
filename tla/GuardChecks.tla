----------------------------- MODULE GuardChecks -----------------------------
(***************************************************************************)
(* Five checks that an input was validated: missing-zero-address-check,    *)
(* self-transfer, missing-input-length-bound, unchecked-divisor and        *)
(* unchecked-token-amount. Each looks for a token of validation anywhere   *)
(* in the body, where it stands and what depends on it left aside; they    *)
(* differ in what a token is and in whose token it is.                     *)
(***************************************************************************)
EXTENDS Method

Checks == {"zero address", "self transfer", "length", "divisor", "amount"}

\* x is the input (for the last check the name `amount`), y another of its kind
\* under a longer name that ends like it. "use" is what must not happen to a
\* bad one, "compare" a comparison whose result is bound, "guard" leaves if the
\* input is bad, "if" opens a block for a good one, "checked" is checked_div.
Statements ==
  {Do(d, on) : d \in {"use", "guard"}, on \in {"x", "y"}}
    \cup {Do(d, "x") : d \in {"compare", "assert", "if", "checked"}}
    \cup {Do(d, "-") : d \in {"if", "else", "end", "return"}}

-----------------------------------------------------------------------------
(* What a validation is to each check. *)

\* BodyScan: `==` or `!=` against the contract's own address, in macros too
ZeroAddressTokens == {"compare", "guard", "if", "assert"}

\* GuardScan: only where it can gate, the condition of an `if` or an assertion
SelfTransferTokens == {"guard", "if", "assert"}

\* LengthCheckVisitor: a call of len or is_empty; macros are not looked into
LengthTokens == {"compare", "guard", "if"}

\* ZeroGuardVisitor: a comparison with zero, or checked_div; not in macros
DivisorTokens == {"compare", "guard", "if", "checked"}

\* AmountGuardVisitor: an order, a condition or an assertion
AmountTokens == {"compare", "guard", "if", "assert"}

Tokens(check) ==
  CASE check = "zero address"  -> ZeroAddressTokens
    [] check = "self transfer" -> SelfTransferTokens
    [] check = "length"        -> LengthTokens
    [] check = "divisor"       -> DivisorTokens
    [] check = "amount"        -> AmountTokens

\* Mutant: the receiver of len() only has to end like the parameter.
EndsLike(check, s, name) == TRUE
\* Whose: the very name; or any Address parameter, any pair of a sender and a
\* recipient; or what has "amount" in it, an operand apart.
IsOf(check, s, name) ==
  CASE check \in {"length", "divisor"} -> s.on = name
    [] check = "amount" -> s.on = "x" \/ (s.on = "y" /\ s.does # "compare")
    [] OTHER -> s.on \in {"x", "y"}

Recognised(check, b, name) ==
  {i \in DOMAIN b : b[i].does \in Tokens(check) /\ IsOf(check, b[i], name)}

\* The use at i is reported; the first three checks report the method for it.
Reported(check, b, i) == Recognised(check, b, b[i].on) = {}

-----------------------------------------------------------------------------
(* Properties *)

\* What stands between an input and its use
Validates(s) == s.does \in {"guard", "assert", "if"}

\* Some execution comes to the use at i with an input nothing looked at.
Bad(b, i) ==
  \E r \in Runs(b) : \E n \in DOMAIN r :
    r[n] = i /\ ~\E m \in 1 .. (n - 1) : Validates(b[r[m]]) /\ b[r[m]].on = b[i].on

\* The validation at j is ahead of i and no branch goes around it.
Gates(b, j, i) == j < i /\ Validates(b[j]) /\ InBlockOf(b, j, i)

\* An unvalidated use is reported, unless there is a comparison of that input
\* that does not gate the use, or of another input to the checks that do not
\* tell them apart; and what is reported is such a use, unless there is an
\* assertion about it above, which two of the checks do not see.
GuardFindings(b) ==
  \A check \in Checks : \A i \in Places(b, LAMBDA s : s.does = "use") :
    /\ Bad(b, i) =>
         \/ Reported(check, b, i)
         \/ \E j \in DOMAIN b :
              /\ b[j].does \in {"compare", "checked"} \/ Validates(b[j])
              /\ \/ b[j].on = b[i].on /\ ~Gates(b, j, i)
                 \/ check \notin {"length", "divisor"} /\ b[j].on \notin {b[i].on, "-"}
    /\ Reported(check, b, i) =>
         \/ Bad(b, i)
         \/ /\ check \in {"length", "divisor"}
            /\ \E j \in 1 .. (i - 1) : b[j].does = "assert" /\ b[j].on = b[i].on

\* The comment on block_has_zero_guard: an assertion that the divisor is not
\* zero is a guard, so a division below one is not reported.
AssertIsGuard(b) ==
  b # <<>> /\ Head(b) = Do("assert", "x") =>
    \A i \in DOMAIN b : b[i] = Do("use", "x") => ~Reported("divisor", b, i)
=============================================================================
