---------------------------- MODULE MCBodyChecks ----------------------------
(***************************************************************************)
(* The checks of method bodies, one of which, or one family of which, a    *)
(* behaviour is about: the others keep an idle state. Four have a visitor  *)
(* with a state of its own; they share the counter of constructs, and the  *)
(* three that are about names share the body they look at. The rest look a *)
(* finished body over, a sequence of statements written one by one.        *)
(***************************************************************************)
EXTENDS Reentrancy, Sequences

CONSTANTS
  Names,      \* names of local variables
  NamesSize,  \* bound: constructs in a body with names
  BodySize,   \* bound: statements in a body that is looked over
  InitSize,   \* the same for re-initialization-risk
  Nesting     \* bound: its blocks within blocks

VARIABLES
  check,      \* the check or family the behaviour is about
  scan, env, opened, runs, bound, real, hides, invents,
  statements  \* a body, for the checks that look it over

Balance   == INSTANCE BalanceCheck   WITH MaxSize <- NamesSize
XcInput   == INSTANCE XcInputCheck   WITH MaxSize <- NamesSize
VecGrowth == INSTANCE VecGrowthCheck WITH MaxSize <- NamesSize

Bodies     == INSTANCE Method
Auth       == INSTANCE AuthChecks
Privileged == INSTANCE PrivilegedChecks
FollowUp   == INSTANCE FollowUpChecks
Storage    == INSTANCE StorageChecks
Guards     == INSTANCE GuardChecks
Invoke     == INSTANCE InvokeChecks
Arithmetic == INSTANCE ArithmeticChecks

body == <<visitor, frames, depth, paths, hit, late, blind, wide>>
named == <<scan, env, opened, runs, bound, real, hides, invents>>

\* What the bodies of a family are made of, and how long they are.
Vocabulary ==
  [auth |-> Auth!Statements, privileged |-> Privileged!Statements,
   follow_up |-> FollowUp!Statements, storage |-> Storage!Statements,
   init |-> Storage!InitStatements, guards |-> Guards!Statements,
   invoke |-> Invoke!Statements, arithmetic |-> Arithmetic!Statements]
Size == [family \in DOMAIN Vocabulary |->
           CASE family = "init" -> InitSize [] family = "arithmetic" -> 2 [] OTHER -> BodySize]

Idle ==
  /\ scan = <<>> /\ env = <<>> /\ opened = <<>> /\ runs = {} /\ bound = {}
  /\ real = {} /\ hides = {} /\ invents = {}

ChecksInit ==
  /\ Init /\ statements = <<>>
  /\ \/ check \in {"reentrancy"} \cup DOMAIN Vocabulary /\ Idle
     \/ check = "balance" /\ Balance!Init /\ bound = {}
     \/ check = "xc_input" /\ XcInput!Init /\ runs = {} /\ bound = {}
     \/ check = "vec_growth" /\ VecGrowth!Init /\ runs = {}

Write ==
  /\ check \in DOMAIN Vocabulary /\ Len(statements) < Size[check]
  /\ \E s \in Vocabulary[check] :
       Bodies!Fits(statements, s, Nesting) /\ statements' = Append(statements, s)
  /\ UNCHANGED <<body, named>>

ChecksNext ==
  /\ UNCHANGED check
  /\ \/ check = "reentrancy" /\ Next /\ UNCHANGED <<named, statements>>
     \/ check = "balance" /\ Balance!Next /\ UNCHANGED <<body, bound, statements>>
     \/ check = "xc_input" /\ XcInput!Next /\ UNCHANGED <<body, runs, bound, statements>>
     \/ check = "vec_growth" /\ VecGrowth!Next /\ UNCHANGED <<body, runs, statements>>
     \/ Write /\ UNCHANGED size

ChecksSpec == ChecksInit /\ [][ChecksNext]_<<vars, check, named, statements>>

-----------------------------------------------------------------------------

\* BalanceCheck: names are what the scopes say, and a transfer is a finding if
\* and only if an execution makes it unchecked.
BalanceFindings == check = "balance" => Balance!BalanceFindings

\* XcInputCheck: a write of a raw value is a finding, and only such a write,
\* although names never leave the visitor's set with their block.
XcInputFindings == check = "xc_input" => XcInput!XcInputFindings

\* VecGrowthCheck: what is reported at the end of a body is a vector that grew
\* and was written back without a cap, and every such vector is reported.
VecGrowthFindings == check = "vec_growth" => VecGrowth!VecGrowthFindings

\* AuthChecks: a write before its authorization is reported by one of two
\* checks and never by both.
AuthFindings == check = "auth" => Auth!AuthFindings(statements)

\* PrivilegedChecks: an upgrade, a mint or a deployment that runs ahead of its
\* authorization is reported by its check.
OrderedFindings == check = "privileged" => Privileged!OrderedFindings(statements)

\* PrivilegedChecks: a privileged method nothing gates is reported.
AdminFindings == check = "privileged" => Privileged!AdminFindings(statements)

\* FollowUpChecks: a persistent key left to expire is reported.
TtlFindings == check = "follow_up" => FollowUp!TtlFindings(statements)

\* FollowUpChecks: a change without its event or nonce is reported.
EventFindings == check = "follow_up" => FollowUp!EventFindings(statements)

\* StorageChecks: a read that may find nothing is reported, by one check.
ReadFindings == check = "storage" => Storage!ReadFindings(statements)

\* StorageChecks: an initializer that can run again is reported.
InitFindings == check = "init" => Storage!InitFindings(statements)

\* GuardChecks: the use of an input nothing validated is reported.
GuardFindings == check = "guards" => Guards!GuardFindings(statements)

\* InvokeChecks: a result nothing reads is reported, and a call that may go
\* where storage says.
InvokeFindings ==
  check = "invoke" => Invoke!InvokeFindings(statements) /\ Invoke!DelegateFindings(statements)

\* ArithmeticChecks: an operation is reported whatever is safe on other lines.
ArithmeticFindings == check = "arithmetic" => Arithmetic!ArithmeticFindings(statements)

\* The test flags_storage_admin_write_after_noop_if in admin.rs: an `if` with an
\* empty block is no gate.
NoopIfIsNoGate == check = "privileged" => Privileged!NoopIfIsNoGate(statements)
=============================================================================
