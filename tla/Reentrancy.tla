----------------------------- MODULE Reentrancy -----------------------------
(***************************************************************************)
(* The reentrancy-risk check: a syn visitor walks one method body and      *)
(* remembers a storage write until a storage read; an invoke_contract in   *)
(* between is the finding. An `if` gets a visitor per branch.              *)
(*                                                                         *)
(* The body is written while it is visited: every action is the next       *)
(* construct of some body, what the visitor does at it, and what the       *)
(* executions of that body do at it. The visitor meets constructs in       *)
(* syntax order, and an execution in evaluation order; the check is about  *)
(* executions.                                                             *)
(***************************************************************************)
EXTENDS Naturals

CONSTANTS
  MaxDepth,   \* bound: nesting of `if` and `match`
  MaxSize     \* bound: constructs in the body

ASSUME BoundsAssumption == MaxDepth \in Nat /\ MaxSize \in Nat

\* is_storage_write, is_storage_read, is_invoke_contract
Calls == {"write", "read", "invoke"}

VARIABLES
  visitor,   \* the ReentrancyVisitor at work
  frames,    \* enclosing constructs, the innermost at position depth
  depth,
  paths,     \* the states of the executions that get here
  hit,       \* an execution invoked after a write it had not read back
  late,      \* an execution invoked after a write
  blind,     \* constructs met so far that can hide a call from the visitor
  wide,      \* a construct was met that the visitor walks and executions do not
  size       \* constructs met so far

vars == <<visitor, frames, depth, paths, hit, late, blind, wide, size>>

Blinders == {"argument", "condition", "arms"}

\* Only a visitor that has seen a write counts a read as a re-read.
Visitors == {v \in [wrote : BOOLEAN, reread : BOOLEAN, flagged : BOOLEAN] :
               v.reread => v.wrote}
Fresh    == [wrote |-> FALSE, reread |-> FALSE, flagged |-> FALSE]

\* dirty: it wrote, and has not read since.
Executions == {p \in [wrote : BOOLEAN, dirty : BOOLEAN] : p.dirty => p.wrote}
Start      == [wrote |-> FALSE, dirty |-> FALSE]

Frames ==
  [kind  : {"then", "else", "match"},
   before : Visitors,                \* the visitor the construct was met with
   entry : SUBSET Executions,        \* the executions that entered it
   then  : Visitors,                 \* "else": the then branch's visitor at its end
   out   : SUBSET Executions]        \* executions that left by an earlier branch
NoFrame == [kind |-> "none"]

-----------------------------------------------------------------------------
(* What a call does to the visitor and to an execution *)

SeeAnyRead(v, call) ==
  CASE call = "write"  -> [v EXCEPT !.wrote = TRUE, !.reread = FALSE]
    [] call = "read"   -> [v EXCEPT !.reread = TRUE]
    [] call = "invoke" -> [v EXCEPT !.flagged = @ \/ (v.wrote /\ ~v.reread)]
\* visit_expr_method_call
See(v, call) ==
  CASE call = "write"  -> [v EXCEPT !.wrote = TRUE, !.reread = FALSE]
    [] call = "read"   -> [v EXCEPT !.reread = @ \/ v.wrote]
    [] call = "invoke" -> [v EXCEPT !.flagged = @ \/ (v.wrote /\ ~v.reread)]

After(p, call) ==
  CASE call = "write"  -> [wrote |-> TRUE, dirty |-> TRUE]
    [] call = "read"   -> [p EXCEPT !.dirty = FALSE]
    [] call = "invoke" -> p

Image(ps, call)  == {After(p, call) : p \in ps}
Danger(ps, call) == call = "invoke" /\ \E p \in ps : p.dirty
Behind(ps, call) == call = "invoke" /\ \E p \in ps : p.wrote

Init ==
  /\ visitor = Fresh
  /\ frames = [i \in 1..MaxDepth |-> NoFrame] /\ depth = 0
  /\ paths = {Start}
  /\ hit = FALSE /\ late = FALSE /\ blind = {} /\ wide = FALSE
  /\ size = 0

-----------------------------------------------------------------------------
(* Calls *)

Executed(call) ==
  /\ paths' = Image(paths, call)
  /\ hit' = (hit \/ Danger(paths, call))
  /\ late' = (late \/ Behind(paths, call))

Call(call) ==
  /\ visitor' = See(visitor, call)
  /\ Executed(call)
  /\ UNCHANGED <<frames, depth, blind, wide>>

\* A call in the arguments of another one is visited after it and executed
\* before it: set(&k, &(get(&k) + 1)) is a read and then a write, and the
\* visitor takes it for a write that has been read back.
Hiding == {<<"write", "read">>, <<"read", "invoke">>, <<"invoke", "write">>}

Nested(outer, inner) ==
  /\ visitor' = See(See(visitor, outer), inner)
  /\ paths' = Image(Image(paths, inner), outer)
  /\ hit' = (hit \/ Danger(paths, inner) \/ Danger(Image(paths, inner), outer))
  /\ late' = (late \/ Behind(paths, inner) \/ Behind(Image(paths, inner), outer))
  /\ blind' = blind \cup {b \in {"argument"} : <<outer, inner>> \in Hiding}
  /\ wide' = (wide \/ <<outer, inner>> = <<"write", "invoke">>)
  /\ UNCHANGED <<frames, depth>>

\* visit_expr_if goes into the branches and never into the condition.
Condition(call) ==
  /\ Executed(call)
  /\ blind' = blind \cup {b \in {"condition"} : call # "read"}
  /\ UNCHANGED <<visitor, frames, depth, wide>>

\* `return` and its like: the visitor walks on, the executions do not.
Return ==
  /\ paths' = {}
  /\ wide' = TRUE
  /\ UNCHANGED <<visitor, frames, depth, hit, late, blind>>

-----------------------------------------------------------------------------
(* if: one visitor per branch, both from the state before it *)

Push(frame) ==
  /\ depth < MaxDepth
  /\ depth' = depth + 1
  /\ frames' = [frames EXCEPT ![depth + 1] = frame]

Pop ==
  /\ depth' = depth - 1
  /\ frames' = [frames EXCEPT ![depth] = NoFrame]

Top == frames[depth]
In(kind) == depth > 0 /\ Top.kind = kind

OpenIf ==
  /\ Push([kind |-> "then", before |-> visitor, entry |-> paths,
           then |-> visitor, out |-> {}])
  /\ UNCHANGED <<visitor, paths, hit, late, blind, wide>>

ElseCarriesOn ==
  /\ In("then")
  /\ frames' = [frames EXCEPT ![depth].kind = "else", ![depth].then = visitor,
                              ![depth].out = paths]
  /\ paths' = Top.entry
  /\ UNCHANGED <<visitor, depth, hit, late, blind, wide>>
Else ==
  /\ In("then")
  /\ frames' = [frames EXCEPT ![depth].kind = "else", ![depth].then = visitor,
                              ![depth].out = paths]
  /\ visitor' = Top.before
  /\ paths' = Top.entry
  /\ UNCHANGED <<depth, hit, late, blind, wide>>

MergeEither(a, b) == [wrote   |-> a.wrote \/ b.wrote,
                      reread  |-> a.reread \/ b.reread,
                      flagged |-> a.flagged \/ b.flagged]
\* Written if either branch wrote, read back only if both say so.
Merge(a, b) == [wrote   |-> a.wrote \/ b.wrote,
                reread  |-> a.reread /\ b.reread,
                flagged |-> a.flagged \/ b.flagged]

\* Every `if` passes through Else: a missing else is an empty one.
CloseIf ==
  /\ In("else")
  /\ visitor' = Merge(Top.then, visitor)
  /\ paths' = Top.out \cup paths
  /\ Pop
  /\ UNCHANGED <<hit, late, blind, wide>>

-----------------------------------------------------------------------------
(* match: no handler of its own, so its arms are visited one after the other *)

OpenMatch ==
  /\ Push([kind |-> "match", before |-> visitor, entry |-> paths,
           then |-> visitor, out |-> {}])
  /\ UNCHANGED <<visitor, paths, hit, late, blind, wide>>

NextArm ==
  /\ In("match")
  /\ frames' = [frames EXCEPT ![depth].out = @ \cup paths]
  /\ paths' = Top.entry
  /\ blind' = blind \cup {"arms"} /\ wide' = TRUE
  /\ UNCHANGED <<visitor, depth, hit, late>>

CloseMatch ==
  /\ In("match")
  /\ paths' = Top.out \cup paths
  /\ Pop
  /\ UNCHANGED <<visitor, hit, late, blind, wide>>

Construct ==
  \/ \E call \in Calls : Call(call) \/ Condition(call)
  \/ \E outer, inner \in Calls : Nested(outer, inner)
  \/ Return
  \/ OpenIf \/ Else \/ CloseIf
  \/ OpenMatch \/ NextArm \/ CloseMatch

Next == size < MaxSize /\ size' = size + 1 /\ Construct

Spec == Init /\ [][Next]_vars

-----------------------------------------------------------------------------
(* Properties *)

\* Every visitor, those kept aside included, is one that a walk can produce,
\* and nothing is left of a construct once it is closed.
TypeOK ==
  /\ visitor \in Visitors
  /\ depth \in 0..MaxDepth
  /\ DOMAIN frames = 1..MaxDepth
  /\ \A i \in 1..MaxDepth : IF i <= depth THEN frames[i] \in Frames ELSE frames[i] = NoFrame
  /\ paths \subseteq Executions
  /\ hit \in BOOLEAN /\ late \in BOOLEAN /\ wide \in BOOLEAN
  /\ blind \subseteq Blinders /\ size \in Nat

\* At the end of a body whose calls are met in an order that hides none: if
\* some execution invokes a contract after a write it has not read back, the
\* method is flagged, however the branches nest.
NothingMissed == depth = 0 /\ blind = {} /\ hit => visitor.flagged

\* A write in one branch and an invoke in the other are no finding: a method
\* is flagged only if one execution does both, in that order. (A read on one
\* of the branches alone does not clear it.)
NothingInvented == ~wide /\ visitor.flagged => late
=============================================================================
