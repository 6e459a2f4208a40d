---------------------------- MODULE BalanceCheck ----------------------------
(***************************************************************************)
(* The missing-balance-check check: which names are token clients is kept  *)
(* in a stack of scopes, and a transfer needs a balance check since the    *)
(* transfer before it. The body is written while it is visited, next to    *)
(* what its executions do: see Reentrancy.                                 *)
(***************************************************************************)
EXTENDS Naturals, Sequences, SequencesExt

CONSTANTS
  Names,      \* names of local variables
  MaxDepth,   \* bound: nesting of blocks
  MaxSize     \* bound: constructs in the body

VARIABLES
  scan,      \* BodyScan, with the loop over its positions in `run` folded in
  env,       \* what each name stands for here, by Rust's scoping
  opened,    \* the blocks around this point
  runs,      \* executions that get here: whether they checked since they paid
  real,      \* transfers that some execution makes without a check
  hides,     \* constructs met that can hide an unchecked transfer
  invents,   \* constructs met that can make a checked one look unchecked
  size       \* constructs met so far, and the position of the next one

vars == <<scan, env, opened, runs, real, hides, invents, size>>

\* transfer stands for transfer_from too, and balance for authorized.
Methods == {"transfer", "balance"}

Init ==
  /\ scan = [scope_stack |-> <<{}>>, balanced |-> FALSE, findings |-> {}]
  /\ env \in [Names -> {"unbound", "other"}]     \* parameters are no clients
  /\ opened = <<>> /\ runs = {FALSE}
  /\ real = {} /\ hides = {} /\ invents = {} /\ size = 0

-----------------------------------------------------------------------------
(* The visitor *)

IsTokenInnermost(stack, name) == name \in Last(stack)
\* is_token_binding
IsToken(stack, name) == \E i \in DOMAIN stack : name \in stack[i]

\* record_binding: a shadowing `let` takes the name out of its own frame only.
Record(s, name, token) ==
  [s EXCEPT !.scope_stack[Len(s.scope_stack)] = IF token THEN @ \cup {name} ELSE @ \ {name}]

\* visit_expr_method_call. Positions grow along the visit, so whether a
\* transfer is guarded is known when it is met.
See(s, name, method) ==
  CASE ~IsToken(s.scope_stack, name) -> s
    [] IsToken(s.scope_stack, name) /\ method = "balance" -> [s EXCEPT !.balanced = TRUE]
    [] IsToken(s.scope_stack, name) /\ method = "transfer" ->
         [s EXCEPT !.balanced = FALSE,
                   !.findings = IF s.balanced THEN @ ELSE @ \cup {size}]

Push(s) == [s EXCEPT !.scope_stack = Append(@, {})]
Pop(s)  == [s EXCEPT !.scope_stack = Front(@)]

-----------------------------------------------------------------------------
(* The executions *)

Does(rs, name, method) ==
  IF env[name] = "token" THEN {method = "balance" : r \in rs} ELSE rs
Unchecked(rs, name, method) ==
  {p \in {size} : env[name] = "token" /\ method = "transfer" /\ FALSE \in rs}

\* a: an execution has checked where one in b has not.
Ahead(a, b) == TRUE \in a /\ FALSE \in b
Mark(construct, when) == {c \in {construct} : when}

-----------------------------------------------------------------------------
(* Statements *)

\* The name has another meaning once the block is left.
Outside(name) == IF opened = <<>> THEN "unbound" ELSE Last(opened).env[name]
Shadowing(name, kind) == Mark("shadow", kind = "other" /\ Outside(name) = "token")

\* let name = TokenClient::new(..), or of anything else
Let(name, kind) ==
  /\ scan' = Record(scan, name, kind = "token")
  /\ env' = [env EXCEPT ![name] = kind]
  /\ hides' = hides \cup Shadowing(name, kind)
  /\ invents' = invents \cup Shadowing(name, kind)
  /\ UNCHANGED <<opened, runs, real>>

\* let name = name.balance(..): the binding is recorded before its initializer
\* is visited.
LetOfItself(name, method) ==
  /\ env[name] # "unbound"
  /\ scan' = See(Record(scan, name, FALSE), name, method)
  /\ runs' = Does(runs, name, method)
  /\ real' = real \cup Unchecked(runs, name, method)
  /\ env' = [env EXCEPT ![name] = "other"]
  /\ LET marks == Shadowing(name, "other") \cup Mark("itself", env[name] = "token") IN
       /\ hides' = hides \cup marks
       /\ invents' = invents \cup marks
  /\ UNCHANGED opened

Call(name, method) ==
  /\ env[name] # "unbound"
  /\ scan' = See(scan, name, method)
  /\ runs' = Does(runs, name, method)
  /\ real' = real \cup Unchecked(runs, name, method)
  /\ UNCHANGED <<env, opened, hides, invents>>

\* name.transfer(.., &name.balance(..)): checked first, and visited second.
TransferAll(name) ==
  /\ env[name] # "unbound"
  /\ scan' = See(See(scan, name, "transfer"), name, "balance")
  /\ runs' = Does(Does(runs, name, "balance"), name, "transfer")
  /\ hides' = hides \cup Mark("argument", env[name] = "token")
  /\ invents' = invents \cup Mark("argument", env[name] = "token")
  /\ UNCHANGED <<env, opened, real>>

Return ==
  /\ runs' = {}
  /\ hides' = hides \cup {"return"} /\ invents' = invents \cup {"return"}
  /\ UNCHANGED <<scan, env, opened, real>>

-----------------------------------------------------------------------------
(* Blocks *)

\* A bare block, or the first branch of an `if`.
Open(kind) ==
  /\ Len(opened) < MaxDepth
  /\ opened' = Append(opened, [kind |-> kind, env |-> env, entry |-> runs, left |-> {}])
  /\ scan' = Push(scan)
  /\ UNCHANGED <<env, runs, real, hides, invents>>

In(kind) == opened # <<>> /\ Last(opened).kind = kind
Top      == Last(opened)

Else ==
  /\ In("then")
  /\ opened' = [opened EXCEPT ![Len(opened)].kind = "else", ![Len(opened)].left = runs]
  /\ scan' = Push(Pop(scan))
  /\ env' = Top.env /\ runs' = Top.entry
  /\ hides' = hides \cup Mark("branch", Ahead(runs, Top.entry))
  /\ invents' = invents \cup Mark("branch", Ahead(Top.entry, runs))
  /\ UNCHANGED real

\* The executions that took another way, or none of the branches, join in.
Beside == CASE Top.kind = "block" -> {}
            [] Top.kind = "then"  -> Top.entry
            [] Top.kind = "else"  -> Top.left

Close ==
  /\ opened # <<>>
  /\ opened' = Front(opened)
  /\ scan' = Pop(scan)
  /\ env' = Top.env /\ runs' = runs \cup Beside
  /\ hides' = hides \cup Mark("branch", Ahead(runs, Beside))
  /\ UNCHANGED <<real, invents>>

Construct ==
  \/ \E name \in Names :
       \/ \E kind \in {"token", "other"} : Let(name, kind)
       \/ \E method \in Methods : Call(name, method) \/ LetOfItself(name, method)
       \/ TransferAll(name)
  \/ Return
  \/ \E kind \in {"block", "then"} : Open(kind)
  \/ Else \/ Close

Next == size < MaxSize /\ size' = size + 1 /\ Construct

Spec == Init /\ [][Next]_vars

-----------------------------------------------------------------------------
(* Properties *)

\* The scope stack is as deep as the body, and what it says of a name is what
\* the name stands for, unless a shadowing `let` or an initializer that uses
\* the name it binds was met; then a transfer is a finding if and only if an
\* execution makes it without having checked since its latest transfer, apart
\* from the constructs named in `hides` and `invents`.
BalanceFindings ==
  /\ Len(scan.scope_stack) = Len(opened) + 1
  /\ "shadow" \notin hides =>
       \A name \in Names : IsToken(scan.scope_stack, name) <=> env[name] = "token"
  /\ hides = {} => real \subseteq scan.findings
  /\ invents = {} => scan.findings \subseteq real
=============================================================================
