----------------------------- MODULE AuthChecks -----------------------------
(***************************************************************************)
(* missing-require-auth and auth-after-storage-write: two checks of the    *)
(* same rule, that a method asks for authorization before it writes. One   *)
(* looks whether it ever asks, the other whether it asks in time, each     *)
(* with its own idea of what asking is.                                    *)
(***************************************************************************)
EXTENDS Method

\* What require_auth is called on: the Env or an Address parameter, a local
\* bound by `let x = ..`, one bound by a larger pattern, a method chain or a
\* field, or the result of a function.
Receivers == {"param", "local", "pattern", "chain", "call"}

Statements ==
  {Do(d, "-") : d \in {"write", "helper", "if", "else", "end", "return"}}
    \cup {Do("auth", on) : on \in Receivers}
    \cup {Also("write", "-"), Also("auth", "param"), Also("auth", "local")}

\* is_storage_mutation_call: set, remove and append of any storage.
IsWrite(s) == s.does = "write"

-----------------------------------------------------------------------------
(* missing-require-auth *)

\* is_env_require_auth, with receiver_is_auth_gate
IsGate(s) == s.does = "auth" /\ s.on \in {"param", "local", "chain"}

\* is_auth_helper_method_call: assert_auth, check_auth, or a require_auth that
\* is not a gate and whose receiver is not a plain name.
IsHelper(s) == s.does = "helper" \/ (s.does = "auth" /\ s.on = "call")

FuncBodyScan(b) ==
  [storage_write |-> Has(b, IsWrite), require_auth |-> Has(b, IsGate), helper |-> Has(b, IsHelper)]
MissingRequireAuth(b) ==
  FuncBodyScan(b) = [storage_write |-> TRUE, require_auth |-> FALSE, helper |-> FALSE]

-----------------------------------------------------------------------------
(* auth-after-storage-write *)

\* Mutant: local bindings are forgotten in one of the two copies of the rule.
NoLocals(s) == s.does = "auth" /\ s.on \in {"param", "chain"}
\* is_require_auth_call
IsRequireAuth(s) == s.does = "auth" /\ s.on \in {"param", "local", "chain"}

FirstStorageWrite(b) == First(b, IsWrite)
FirstRequireAuth(b)  == First(b, IsRequireAuth)

AuthAfterStorageWrite(b) ==
  /\ Has(b, IsWrite) /\ Has(b, IsRequireAuth)
  /\ Line(b, FirstStorageWrite(b)) < Line(b, FirstRequireAuth(b))

-----------------------------------------------------------------------------
(* Property *)

\* Whatever it is called on, an authorization that executes is one.
Asks(s) == s.does \in {"auth", "helper"}

\* What keeps an unauthorized write from being reported: the authorization
\* taken for the first is in a branch or on the line of the write, or it is
\* one that stops the first check and that the second does not know.
Hides(b) ==
  LET auth == FirstRequireAuth(b) write == FirstStorageWrite(b) IN
    {h \in {"branch", "same line", "helper"} :
       CASE h = "branch"    -> auth # 0 /\ Inside(b, auth)
         [] h = "same line" -> auth # 0 /\ Line(b, auth) = Line(b, write)
         [] h = "helper"    -> Has(b, IsHelper)}

\* A method is reported by one of the two checks and never by both, apart from
\* `Hides` exactly when some execution writes before it asked for
\* authorization, unless what it asked before is not known to the checks.
AuthFindings(b) ==
  LET reported == MissingRequireAuth(b) \/ AuthAfterStorageWrite(b)
      real     == Unguarded(b, IsWrite, Asks)
  IN /\ ~(MissingRequireAuth(b) /\ AuthAfterStorageWrite(b))
     /\ real /\ Hides(b) = {} => reported
     /\ reported => real \/ \E s \in ToSet(b) : Asks(s) /\ ~IsRequireAuth(s)
=============================================================================
