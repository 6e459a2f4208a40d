---------------------------- MODULE InvokeChecks ----------------------------
(***************************************************************************)
(* unchecked-invoke-return and delegate-call-risk, the two checks of calls *)
(* to other contracts besides those of XcInputCheck and Reentrancy: what   *)
(* becomes of the result, and where the callee's address may come from.    *)
(***************************************************************************)
EXTENDS Method

\* What is done with the result of an invoke_contract: a bare statement, one
\* whose address is read from storage in the call, a `let` of `_`, of a name
\* with an underscore, of a name, or of a larger pattern, and `?`.
Uses == {"bare", "inline", "_", "_x", "x", "pattern", "?"}

\* "bind" is `let x = 0`, "rebind" `let x = f(x)`, "get" a read of storage.
Statements ==
  {Do("call", on) : on \in Uses} \cup {Do("read", "_x")}
    \cup {Do(d, "x") : d \in {"bind", "rebind", "read"}}
    \cup {Do(d, "-") : d \in {"get", "if", "else", "end"}}

IsCall(s) == s.does = "call"
Binds(s)  == s.on = "x" /\ s.does \in {"call", "bind", "rebind"}
Reads(s)  == s.does \in {"read", "rebind"}

-----------------------------------------------------------------------------
(* unchecked-invoke-return *)

\* is_ident_used_in_stmts: a read in the rest of the block, up to where a `let`
\* of the same block takes the name; that one's initializer is still looked at.
\* Mutant: a shadowing `let` is not noticed.
AnyRead(b, i) == \E j \in (i + 1) .. Len(b) : InBlockOf(b, i, j) /\ Reads(b[j]) /\ b[j].on = b[i].on
UsedBelow(b, i) ==
  \E j \in (i + 1) .. Len(b) :
    /\ InBlockOf(b, i, j) /\ Reads(b[j]) /\ b[j].on = b[i].on
    /\ ~\E k \in (i + 1) .. (j - 1) : Binds(b[k]) /\ Depth(b, k) = Depth(b, i)

UncheckedInvokeReturn(b) ==
  {i \in Places(b, IsCall) : \/ b[i].on \in {"bare", "inline", "_", "_x"}
                             \/ b[i].on = "x" /\ ~UsedBelow(b, i)}

-----------------------------------------------------------------------------
(* delegate-call-risk *)

IsGet(s) == s.does = "get" \/ s = Do("call", "inline")

\* DelegateVisitor stops once it has seen both: of the calls above the first
\* read the last, or else the first call. The arguments come after the call.
DelegateCallRisk(b) ==
  LET above == {i \in Places(b, IsCall) : i <= First(b, IsGet)}
  IN CASE ~Has(b, IsGet) \/ ~Has(b, IsCall) -> 0
       [] above # {} -> Max(above)
       [] OTHER      -> First(b, IsCall)

-----------------------------------------------------------------------------
(* Properties *)

\* The `let` a name belongs to at j, by the scopes of the language
Binder(b, j) ==
  LET lets == {i \in 1 .. (j - 1) : Binds(b[i]) /\ InBlockOf(b, i, j)}
  IN IF lets = {} THEN 0 ELSE Max(lets)

\* An execution reads the result of the call at i.
IsRead(b, i) ==
  \E r \in Runs(b) : \E n \in DOMAIN r :
    /\ Reads(b[r[n]])
    /\ \/ b[i].on = "x" /\ b[r[n]].on = "x" /\ Binder(b, r[n]) = i
       \/ b[i].on = "_x" /\ b[r[n]].on = "_x" /\ \E m \in 1 .. (n - 1) : r[m] = i

\* A result nothing reads is reported, unless a name in an inner block hides it
\* from what reads that name there; a result that is read is reported only for
\* its underscore.
InvokeFindings(b) ==
  \A i \in Places(b, IsCall) :
    /\ ~IsRead(b, i) /\ b[i].on \notin {"?", "pattern"} =>
         \/ i \in UncheckedInvokeReturn(b)
         \/ \E j \in (i + 1) .. Len(b) : Binds(b[j]) /\ Depth(b, j) > Depth(b, i)
    /\ i \in UncheckedInvokeReturn(b) /\ IsRead(b, i) => b[i].on = "_x"

\* If an execution calls a contract after it read storage, the method is
\* reported, and at such a call unless one is above every read or the first
\* read is in a branch.
AfterRead(b) ==
  {i \in Places(b, IsCall) :
     b[i].on = "inline" \/ \E r \in Runs(b) : \E n \in DOMAIN r :
       r[n] = i /\ \E m \in 1 .. (n - 1) : IsGet(b[r[m]])}
DelegateFindings(b) ==
  AfterRead(b) # {} =>
    \/ DelegateCallRisk(b) \in AfterRead(b)
    \/ /\ DelegateCallRisk(b) # 0
       /\ \/ DelegateCallRisk(b) < First(b, IsGet)
          \/ Inside(b, First(b, IsGet))                   \* it may be in another branch
=============================================================================
