---------------------------- MODULE XcInputCheck ----------------------------
(***************************************************************************)
(* The unsafe-cross-contract-input check: one set of names that hold what  *)
(* another contract returned, changed by `let` statements only and never   *)
(* by the end of a block. The body is written while it is visited, next    *)
(* to what its variables hold: see Reentrancy.                             *)
(***************************************************************************)
EXTENDS Naturals, Sequences, SequencesExt

CONSTANTS
  Names,      \* names of local variables
  MaxDepth,   \* bound: nesting of blocks
  MaxSize     \* bound: constructs in the body

VARIABLES
  scan,      \* XcInputVisitor
  env,       \* what each name holds here: "raw" is what a contract returned
  opened,    \* env as it was before each of the blocks around this point
  real,      \* writes to storage of a raw value
  hides,     \* constructs met that can hide such a write
  invents,   \* constructs met that can make another write look like one
  size       \* constructs met so far, and the position of the next one

vars == <<scan, env, opened, real, hides, invents, size>>

Init ==
  /\ scan = [xc_bindings |-> {}, findings |-> {}]
  /\ env \in [Names -> {"unbound", "clean"}]
  /\ opened = <<>>
  /\ real = {} /\ hides = {} /\ invents = {} /\ size = 0

Mark(construct, when) == {c \in {construct} : when}
\* Such a variable comes back when a block around this point ends.
Covers(names, value) == \E i \in DOMAIN opened : \E n \in names : opened[i][n] = value

Bind(names, value) == [n \in Names |-> IF n \in names THEN value ELSE env[n]]

BindOnlyTaints(s, names, tainted) ==
  [s EXCEPT !.xc_bindings = IF tainted THEN @ \cup names ELSE @]
\* visit_stmt
Rebind(s, names, tainted) ==
  [s EXCEPT !.xc_bindings = IF tainted THEN @ \cup names ELSE @ \ names]

-----------------------------------------------------------------------------
(* let *)

\* let (a, b) = env.invoke_contract(..), or of anything else. In a block it may
\* shadow names that come back when the block ends.
Let(names, value) ==
  /\ scan' = Rebind(scan, names, value = "raw")
  /\ env' = Bind(names, value)
  /\ hides' = hides \cup
       Mark("shadow", value = "clean" /\ Covers(names, "raw"))
  /\ invents' = invents \cup
       Mark("shadow", value = "raw" /\ Covers(names, "clean"))
  /\ UNCHANGED <<opened, real>>

\* let copy = name: not an invocation, so the copy is clean to the visitor.
LetCopy(copy, name) ==
  /\ env[name] # "unbound"
  /\ scan' = Rebind(scan, {copy}, FALSE)
  /\ env' = Bind({copy}, env[name])
  /\ hides' = hides \cup Mark("copy", env[name] = "raw")
                   \cup Mark("shadow", Covers({copy}, "raw"))
  /\ UNCHANGED <<opened, real, invents>>

-----------------------------------------------------------------------------
(* Other ways to bind, which the visitor does not look at *)

\* name = ..: outside all blocks only, where it outlives nothing.
Assign(name, value) ==
  /\ opened = <<>> /\ env[name] # "unbound"
  /\ env' = Bind({name}, value)
  /\ hides' = hides \cup Mark("assign", value = "raw")
  /\ invents' = invents \cup Mark("assign", value = "clean" /\ env[name] = "raw")
  /\ UNCHANGED <<scan, opened, real>>

\* if let Some(name) = .. { }, and match arms: the name lives in a block.
Arm(name, value) ==
  /\ Len(opened) < MaxDepth
  /\ opened' = Append(opened, env)
  /\ env' = Bind({name}, value)
  /\ hides' = hides \cup Mark("arm", value = "raw")
  /\ invents' = invents \cup Mark("arm", value = "clean")
  /\ UNCHANGED <<scan, real>>

-----------------------------------------------------------------------------
(* Blocks and writes *)

\* A block: of an `if`, of a match arm that binds nothing, or on its own.
Open ==
  /\ Len(opened) < MaxDepth
  /\ opened' = Append(opened, env)
  /\ UNCHANGED <<scan, env, real, hides, invents>>

Close ==
  /\ opened # <<>>
  /\ opened' = Front(opened) /\ env' = Last(opened)
  /\ UNCHANGED <<scan, real, hides, invents>>

\* env.storage().instance().set(&key, &name)
Store(name) ==
  /\ env[name] # "unbound"
  /\ scan' = [scan EXCEPT !.findings = @ \cup {p \in {size} : name \in scan.xc_bindings}]
  /\ real' = real \cup {p \in {size} : env[name] = "raw"}
  /\ UNCHANGED <<env, opened, hides, invents>>

\* set(&key, &env.invoke_contract(..))
StoreInline ==
  /\ scan' = [scan EXCEPT !.findings = @ \cup {size}]
  /\ real' = real \cup {size}
  /\ UNCHANGED <<env, opened, hides, invents>>

Construct ==
  \/ \E names \in SUBSET Names \ {{}}, value \in {"raw", "clean"} : Let(names, value)
  \/ \E copy, name \in Names : LetCopy(copy, name)
  \/ \E name \in Names, value \in {"raw", "clean"} : Assign(name, value) \/ Arm(name, value)
  \/ Open \/ Close
  \/ \E name \in Names : Store(name)
  \/ StoreInline

Next == size < MaxSize /\ size' = size + 1 /\ Construct

Spec == Init /\ [][Next]_vars

-----------------------------------------------------------------------------
(* Properties *)

\* A name that never leaves the visitor's set with its block is harmless: in
\* bodies without the constructs in `hides` every raw value written to storage
\* is a finding, and in bodies without those in `invents` every finding is one,
\* although blocks come and go and names are bound again. (The documentation has
\* an `if` or `match` ahead of the write clear it: see BranchesClear.)
XcInputFindings ==
  /\ hides = {} => real \subseteq scan.findings
  /\ invents = {} => scan.findings \subseteq real
=============================================================================
