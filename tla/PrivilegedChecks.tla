-------------------------- MODULE PrivilegedChecks --------------------------
(***************************************************************************)
(* unprotected-upgrade, unprotected-token-mint, unprotected-contract-      *)
(* deployment and unprotected-admin: a privileged method asks a privileged *)
(* identity, the Env or an address kept in storage, before it acts. "op"   *)
(* stands for what each of the first three looks for: invoke_wasm, a       *)
(* change of storage, deployer. The method is public and its name is one   *)
(* the checks look at.                                                     *)
(***************************************************************************)
EXTENDS Method

\* Names: admin and owner are admin-like, owner not to every check; user is
\* another Address parameter, as are the first two until a `let` binds them.
\* "load" binds a name to what a storage get returns, "let" to something else.
Statements ==
  {Do("auth", on) : on \in {"env", "user", "admin", "owner", "chain"}}
    \cup {Do("load", "admin"), Do("load", "owner"), Do("let", "admin")}
    \cup {Do("if", on) : on \in {"flag", "user", "admin"}} \cup {Do("guard", "admin")}
    \cup {Do(d, "-") : d \in {"op", "else", "end", "return"}}
    \cup {Also("op", "-"), Also("auth", "env")}

IsOp(s) == s.does = "op"

-----------------------------------------------------------------------------
(* Upgrade, mint and deployment: three copies of one rule *)

\* AuthScanner.visit_stmt: a name loaded from storage above, if it is admin-like.
AdminVars(b, i, keywords) == {b[j].on : j \in {k \in 1 .. (i - 1) : b[k].does = "load"}} \cap keywords

\* Mutant: a parameter with an admin-like name will do.
AnyAdminName(b, i, keywords) ==
  b[i].does = "auth" /\ (b[i].on = "env" \/ b[i].on \in keywords)
\* is_valid_auth_call
IsValidAuth(b, i, keywords) ==
  b[i].does = "auth" /\ (b[i].on = "env" \/ b[i].on \in AdminVars(b, i, keywords))

FirstValidAuth(b, keywords) ==
  LET at == {i \in DOMAIN b : IsValidAuth(b, i, keywords)} IN IF at = {} THEN 0 ELSE Min(at)

Unprotected(b, op, auth) == op # 0 /\ (auth = 0 \/ Line(b, auth) >= Line(b, op))

UtilKeywords == {"admin", "owner"}    \* is_admin_var_name
MintKeywords == {"admin"}             \* admin and authority only

UnprotectedUpgrade(b)   == Unprotected(b, First(b, IsOp), FirstValidAuth(b, UtilKeywords))
UnprotectedTokenMint(b) == Unprotected(b, First(b, IsOp), FirstValidAuth(b, MintKeywords))

\* DeployerVisitor overwrites its line at every call.
LastDeployer(b) == IF Has(b, IsOp) THEN Max(Places(b, IsOp)) ELSE 0
\* first_valid_auth_line of that check, with its own copies of the scanner and
\* of is_valid_auth_call
FirstDeploymentAuth(b) == FirstValidAuth(b, UtilKeywords)
UnprotectedContractDeployment(b) == Unprotected(b, LastDeployer(b), FirstDeploymentAuth(b))

-----------------------------------------------------------------------------
(* unprotected-admin *)

\* receiver_is_privileged: by name, whatever the name is bound to.
IsPrivileged(on) == on \in {"env", "chain", "admin", "owner"}

\* visit_expr_if: a variable was tracked above the `if`, and its condition
\* mentions one or an Address parameter. What the block does is not looked at.
IsConditional(b, i) ==
  /\ b[i].does \in {"if", "guard"}
  /\ AdminVars(b, i, UtilKeywords) # {}
  /\ b[i].on # "flag"

\* Mutant: only require_auth calls count.
OnlyCalls(b) == ~\E i \in DOMAIN b : b[i].does = "auth" /\ IsPrivileged(b[i].on)
UnprotectedAdmin(b) ==
  ~\E i \in DOMAIN b : (b[i].does = "auth" /\ IsPrivileged(b[i].on)) \/ IsConditional(b, i)

-----------------------------------------------------------------------------
(* Properties *)

\* What a name stands for at a position: the latest `let` above it.
Stored(b, i, name) ==
  LET lets == {j \in 1 .. (i - 1) : b[j].does \in {"load", "let"} /\ b[j].on = name}
  IN lets # {} /\ b[Max(lets)].does = "load"

\* The statement asks the Env or an address that was read from storage.
Authorizes(b, i) ==
  b[i].does = "auth" /\ (b[i].on \in {"env", "chain"} \/ Stored(b, i, b[i].on))

\* Past it, the caller is the stored admin.
Compares(b, i) == b[i].does \in {"if", "guard"} /\ Stored(b, i, b[i].on)

\* An execution acts before anything authorized it.
TooEarly(b) ==
  \E r \in Runs(b) : \E n \in DOMAIN r :
    IsOp(b[r[n]]) /\ \A m \in 1 .. (n - 1) : ~Authorizes(b, r[m])

\* An execution acts, and nothing it does at all authorized it.
Never(b) ==
  \E r \in Runs(b) :
    /\ \E n \in DOMAIN r : IsOp(b[r[n]])
    /\ \A n \in DOMAIN r : ~Authorizes(b, r[n]) /\ ~Compares(b, r[n])

Shadowed(b) == \E i, j \in DOMAIN b : i < j /\ b[i].does = "load" /\ b[j].does = "let"
Chained(b)  == \E s \in ToSet(b) : s.does = "auth" /\ s.on = "chain"
SameLine(b) == \E i \in DOMAIN b : ~b[i].fresh

\* A method is reported when an execution acts before the Env or a stored
\* admin was asked, unless the first such question is in a branch or of a
\* shadowed name; and for deployments, unless an earlier deployer call is the
\* early one. A report means that much, unless the stored address was asked
\* without being bound to a name, under a name the check does not know, or on
\* the line of the action. (The documentation says that any question clears it,
\* before or after the action and of whomever: see AnyAuthClears.)
OrderedFindings(b) ==
  \A check \in {"upgrade", "mint", "deployment"} :
    LET keywords == IF check = "mint" THEN MintKeywords ELSE UtilKeywords
        auth     == FirstValidAuth(b, keywords)
        reported == CASE check = "upgrade"    -> UnprotectedUpgrade(b)
                      [] check = "mint"       -> UnprotectedTokenMint(b)
                      [] check = "deployment" -> UnprotectedContractDeployment(b)
    IN /\ TooEarly(b) => \/ reported
                         \/ auth # 0 /\ Inside(b, auth)
                         \/ Shadowed(b)
                         \/ check = "deployment" /\ Cardinality(Places(b, IsOp)) > 1
       /\ reported => \/ TooEarly(b)
                      \/ Chained(b) \/ SameLine(b)
                      \/ check = "mint" /\ \E s \in ToSet(b) : s = Do("auth", "owner")

\* For a method that acts, no report of unprotected-admin means that every
\* execution asked a privileged identity or compared with one, unless the
\* question is in a branch or below a way out, is asked of something that only
\* has a privileged name, or is a comparison nothing depends on; and a report
\* means an execution that did neither. (The documentation says that the receiver
\* of the question does not matter: see AnyReceiverClears.)
AdminFindings(b) ==
  Has(b, IsOp) =>
    /\ UnprotectedAdmin(b) => Never(b)
    /\ Never(b) => \/ UnprotectedAdmin(b)
                   \/ \E i \in DOMAIN b :
                        /\ b[i].does = "auth"
                        /\ Inside(b, i) \/ \E j \in 1 .. i : b[j].does \in {"guard", "return"}
                   \/ \E i \in DOMAIN b : /\ b[i].does = "auth" /\ b[i].on \in UtilKeywords
                                          /\ ~Stored(b, i, b[i].on)
                   \/ \E i \in DOMAIN b : IsConditional(b, i)

\* The test flags_storage_admin_write_after_noop_if: an `if` with an empty
\* block gates nothing, so the verdict is that of the body without it.
NoopIfIsNoGate(b) ==
  \A i \in 1 .. (Len(b) - 1) :
    b[i].does = "if" /\ b[i + 1].does = "end" =>
      UnprotectedAdmin(b) = UnprotectedAdmin(RemoveAt(RemoveAt(b, i), i))
=============================================================================
