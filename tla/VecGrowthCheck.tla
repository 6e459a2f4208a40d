--------------------------- MODULE VecGrowthCheck ---------------------------
(***************************************************************************)
(* The unbounded-vec-growth check: four sets of names, filled in any order *)
(* over the whole body and compared at its end; re-binding a name empties  *)
(* one of them. The body is written while it is visited, next to what      *)
(* happens to the vectors: see Reentrancy.                                 *)
(***************************************************************************)
EXTENDS Naturals, Sequences, SequencesExt

CONSTANTS
  Names,      \* names of local variables
  MaxDepth,   \* bound: nesting of blocks
  MaxSize     \* bound: constructs in the body

VARIABLES
  scan,      \* BodyScan
  env,       \* the vector each name stands for here
  opened,    \* the blocks around this point: env before, the names they bind
  bound,     \* names that have been bound so far, in whatever block
  real,      \* names written back after growing without a cap
  hides,     \* constructs met that can hide such a name
  invents,   \* constructs met that can make another name look like one
  size       \* constructs met so far

vars == <<scan, env, opened, bound, real, hides, invents, size>>

\* A vector: read from storage, longer than it was, held to a maximal length
\* in every execution, written to storage.
Vectors  == [stored : BOOLEAN, grown : BOOLEAN, capped : BOOLEAN, written : BOOLEAN]
Fresh(stored) == [stored |-> stored, grown |-> FALSE, capped |-> FALSE, written |-> FALSE]
Unbound  == [stored |-> FALSE]

Init ==
  /\ scan = [get_bindings |-> {}, grown |-> {}, written_back |-> {}, len_checked |-> {}]
  /\ bound \in SUBSET Names                       \* the parameters
  /\ env = [n \in Names |-> IF n \in bound THEN Fresh(FALSE) ELSE Unbound]
  /\ opened = <<>>
  /\ real = {} /\ hides = {} /\ invents = {} /\ size = 0

OffendersWithoutWrite ==
  {n \in scan.get_bindings : n \in scan.grown /\ n \notin scan.len_checked}
\* What `run` reports if the body ends here.
Offenders ==
  {n \in scan.get_bindings :
     n \in scan.grown /\ n \in scan.written_back /\ n \notin scan.len_checked}

Mark(construct, when) == {c \in {construct} : when}

Update(name, field) ==
  env' = [env EXCEPT ![name] = [env[name] EXCEPT ![field] = TRUE]]

-----------------------------------------------------------------------------

\* visit_stmt: let name = ..get(&key).., or anything else. The sets know names
\* and not variables: a second variable of one name takes over what the first
\* has left there, or takes its finding away.
Let(name, stored) ==
  /\ scan' = [scan EXCEPT !.get_bindings = IF stored THEN @ \cup {name} ELSE @ \ {name}]
  /\ env' = [env EXCEPT ![name] = Fresh(stored)]
  /\ bound' = bound \cup {name}
  /\ opened' = [i \in DOMAIN opened |->
       IF i = Len(opened) THEN [opened[i] EXCEPT !.binds = @ \cup {name}] ELSE opened[i]]
  /\ hides' = hides \cup Mark("rebound", name \in bound)
  /\ invents' = invents \cup Mark("rebound", stored /\ name \in bound)
  /\ UNCHANGED real

\* name.push_back(..)
Push(name) ==
  /\ env[name] # Unbound
  /\ scan' = [scan EXCEPT !.grown = @ \cup (scan.get_bindings \cap {name})]
  /\ Update(name, "grown")
  /\ invents' = invents \cup Mark("late_push", env[name].written)
  /\ UNCHANGED <<opened, bound, real, hides>>

\* name.len() where guard_depth > 0: a condition or an assertion that holds
\* the length below a maximum, in every execution or only in some.
Cap(name, always) ==
  /\ env[name] # Unbound
  /\ scan' = [scan EXCEPT !.len_checked = @ \cup {name}]
  /\ IF always THEN Update(name, "capped") ELSE UNCHANGED env
  /\ hides' = hides \cup Mark("late_cap", env[name].written) \cup Mark("branch", ~always)
  /\ UNCHANGED <<opened, bound, real, invents>>

\* env.storage().instance().set(&key, &name)
WriteBack(name) ==
  /\ env[name] # Unbound
  /\ scan' = [scan EXCEPT !.written_back = @ \cup (scan.get_bindings \cap {name})]
  /\ Update(name, "written")
  /\ real' = real \cup {n \in {name} : env[n].stored /\ env[n].grown /\ ~env[n].capped}
  /\ UNCHANGED <<opened, bound, hides, invents>>

Open ==
  /\ Len(opened) < MaxDepth
  /\ opened' = Append(opened, [env |-> env, binds |-> {}])
  /\ UNCHANGED <<scan, env, bound, real, hides, invents>>

\* A variable of the block is gone. One that was there before has kept what
\* the block did to it.
Survivor(name) ==
  IF name \in Last(opened).binds THEN Last(opened).env[name] ELSE env[name]
Close ==
  /\ opened # <<>>
  /\ opened' = Front(opened)
  /\ env' = [n \in Names |-> Survivor(n)]
  /\ UNCHANGED <<scan, bound, real, hides, invents>>

Construct ==
  \/ \E name \in Names :
       \/ \E flag \in BOOLEAN : Let(name, flag) \/ Cap(name, flag)
       \/ Push(name) \/ WriteBack(name)
  \/ Open \/ Close

Next == size < MaxSize /\ size' = size + 1 /\ Construct

Spec == Init /\ [][Next]_vars

-----------------------------------------------------------------------------
(* Properties *)

\* Although the sets have no order, in a body that binds every name once and
\* caps a vector, if at all, before it is written back and in every execution,
\* the check reports each vector that is stored, grown and written back without
\* a cap; and a reported one is such a vector unless a name was bound again or
\* the vector was written back before it grew.
VecGrowthFindings ==
  /\ hides = {} => real \subseteq Offenders
  /\ invents = {} => Offenders \subseteq real
=============================================================================
