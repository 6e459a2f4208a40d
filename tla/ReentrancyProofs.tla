--------------------------- MODULE ReentrancyProofs ---------------------------
(***************************************************************************)
(* Proofs about Reentrancy, for bodies of any size and nesting.            *)
(*                                                                         *)
(* The visitor in charge of a block is an abstraction of the executions    *)
(* that get there: it has written if one of them has, and it says "read    *)
(* back" only if all of them are clean. That has to hold of every visitor  *)
(* kept aside in a frame as well, because a branch starts from the one     *)
(* before the `if` and ends in a merge with the one of the other branch.   *)
(***************************************************************************)
EXTENDS Reentrancy, TLAPS

Covers(v, ps) == \A p \in ps : (p.wrote => v.wrote) /\ (p.dirty => ~v.reread)
Earned(v, ps) == v.wrote => \E p \in ps : p.wrote

SoundFrame(f) ==
  /\ f.kind = "then"  => Covers(f.before, f.entry)
  /\ f.kind = "else"  => Covers(f.then, f.out)
  /\ f.kind = "match" => f.out = {}

Sound ==
  blind = {} =>
    /\ Covers(visitor, paths)
    /\ \A i \in 1..depth : SoundFrame(frames[i])
    /\ hit => \/ visitor.flagged
              \/ \E i \in 1..depth : frames[i].kind = "else" /\ frames[i].then.flagged

TightFrame(f) ==
  /\ f.kind = "then"  => /\ f.entry # {} /\ Earned(f.before, f.entry)
                         /\ f.before.flagged => late
  /\ f.kind = "else"  => Earned(f.then, f.out) /\ (f.then.flagged => late)
  /\ f.kind = "match" => f.out = {}

Tight ==
  ~wide =>
    /\ paths # {} /\ Earned(visitor, paths) /\ (visitor.flagged => late)
    /\ \A i \in 1..depth : TightFrame(frames[i])

IInv == TypeOK /\ Sound /\ Tight

-----------------------------------------------------------------------------
(* One call *)

\* What a call leaves of a visitor and of an execution is well typed.
LEMMA CallTypes ==
  ASSUME NEW call \in Calls
  PROVE  /\ \A v \in Visitors : See(v, call) \in Visitors
         /\ \A p \in Executions : After(p, call) \in Executions
         /\ \A p \in Executions : p.wrote => After(p, call).wrote
<1>1. call = "write" \/ call = "read" \/ call = "invoke"
  BY DEF Calls
<1>2. ASSUME NEW v \in Visitors PROVE See(v, call) \in Visitors
  BY <1>1, <1>2 DEF See, Visitors
<1>3. ASSUME NEW p \in Executions
      PROVE  After(p, call) \in Executions /\ (p.wrote => After(p, call).wrote)
  BY <1>1 DEF After, Executions
<1> QED BY <1>2, <1>3

\* A visitor that covers the executions before a call covers them after it,
\* and flags the call if it endangers one of them.
LEMMA CallCovers ==
  ASSUME NEW call \in Calls, NEW v \in Visitors, NEW ps \in SUBSET Executions,
         Covers(v, ps)
  PROVE  /\ Covers(See(v, call), Image(ps, call))
         /\ Danger(ps, call) => See(v, call).flagged
         /\ v.flagged => See(v, call).flagged
<1>1. call = "write" \/ call = "read" \/ call = "invoke"
  BY DEF Calls
<1>2. ASSUME NEW p \in ps
      PROVE  /\ After(p, call).wrote => See(v, call).wrote
             /\ After(p, call).dirty => ~See(v, call).reread
  BY <1>1 DEF After, See, Visitors, Executions, Covers
<1>3. Covers(See(v, call), Image(ps, call))
  BY <1>2 DEF Covers, Image
<1>4. Danger(ps, call) => See(v, call).flagged
  BY DEF Danger, See, Visitors, Executions, Covers
<1>5. v.flagged => See(v, call).flagged
  BY <1>1 DEF See, Visitors
<1> QED BY <1>3, <1>4, <1>5

\* A visitor has written only if an execution has, and flags an invoke only
\* if one of those makes it.
LEMMA CallEarned ==
  ASSUME NEW call \in Calls, NEW v \in Visitors, NEW ps \in SUBSET Executions,
         ps # {}, Earned(v, ps)
  PROVE  /\ Image(ps, call) # {}
         /\ Earned(See(v, call), Image(ps, call))
         /\ See(v, call).flagged => v.flagged \/ Behind(ps, call)
<1>1. call = "write" \/ call = "read" \/ call = "invoke"
  BY DEF Calls
<1>2. \A p \in ps : After(p, call) \in Image(ps, call)
  BY DEF Image
<1>3. CASE call = "write"
  <2>1. \A p \in ps : After(p, call).wrote
    BY <1>3 DEF After
  <2>2. Earned(See(v, call), Image(ps, call))
    BY <1>2, <2>1 DEF Earned
  <2>3. See(v, call).flagged => v.flagged
    BY <1>3 DEF See, Visitors
  <2> QED BY <1>2, <2>2, <2>3
<1>4. CASE call \in {"read", "invoke"}
  <2>1. See(v, call).wrote => v.wrote
    BY <1>4 DEF See, Visitors
  <2>2. \A p \in ps : p.wrote => After(p, call).wrote
    BY CallTypes
  <2>3. Earned(See(v, call), Image(ps, call))
    BY <1>2, <2>1, <2>2 DEF Earned
  <2>4. See(v, call).flagged => v.flagged \/ Behind(ps, call)
    BY <1>4 DEF See, Visitors, Behind, Earned
  <2> QED BY <1>2, <2>3, <2>4
<1> QED BY <1>1, <1>3, <1>4

\* The images of executions are executions.
LEMMA ImageType ==
  ASSUME NEW call \in Calls, NEW ps \in SUBSET Executions
  PROVE  Image(ps, call) \in SUBSET Executions
BY CallTypes DEF Image

-----------------------------------------------------------------------------
(* The invariant *)

LEMMA InitInv == ASSUME Init PROVE IInv
<1>1. Fresh \in Visitors /\ Start \in Executions
  BY DEF Fresh, Visitors, Start, Executions
<1>2. TypeOK
  <2>1. /\ depth \in 0..MaxDepth /\ DOMAIN frames = 1..MaxDepth
        /\ \A i \in 1..MaxDepth : ~(i <= depth) /\ frames[i] = NoFrame
    BY BoundsAssumption DEF Init
  <2>2. blind \subseteq Blinders /\ size \in Nat /\ ~visitor.reread /\ paths \subseteq Executions
    BY <1>1 DEF Init, Fresh
  <2> QED BY <1>1, <2>1, <2>2 DEF Init, TypeOK
<1>3. Sound /\ Tight
  BY <1>1 DEF Init, Sound, Tight, Covers, Earned, Fresh, Start
<1> QED BY <1>2, <1>3 DEF IInv

LEMMA CallStep ==
  ASSUME IInv, size' \in Nat, NEW call \in Calls, Call(call)
  PROVE  IInv'
<1> USE DEF IInv, Call, Executed
<1>1. visitor \in Visitors /\ paths \in SUBSET Executions
  BY DEF TypeOK
<1>2. TypeOK'
  BY <1>1, CallTypes, ImageType DEF TypeOK, Danger, Behind
<1>3. Sound'
  BY <1>1, CallCovers DEF Sound
<1>4. Tight'
  BY <1>1, CallEarned DEF Tight, TightFrame
<1> QED BY <1>2, <1>3, <1>4

\* Executions meet the inner call first, the visitor the outer one.
LEMMA NestedStep ==
  ASSUME IInv, size' \in Nat, NEW outer \in Calls, NEW inner \in Calls, Nested(outer, inner)
  PROVE  IInv'
<1> USE DEF IInv, Nested
<1> DEFINE v1 == See(visitor, outer)
           v2 == See(v1, inner)
           p1 == Image(paths, inner)
           p2 == Image(p1, outer)
<1>1. visitor \in Visitors /\ paths \in SUBSET Executions
  BY DEF TypeOK
<1>2. v1 \in Visitors /\ v2 \in Visitors
  BY <1>1, CallTypes
<1>3. p1 \in SUBSET Executions /\ p2 \in SUBSET Executions
  BY <1>1, ImageType
<1>4. TypeOK'
  BY <1>1, <1>2, <1>3 DEF TypeOK, Danger, Behind, Blinders
<1>5. Sound'
  <2> SUFFICES ASSUME blind' = {} PROVE Sound'
    BY DEF Sound
  <2>1. blind = {} /\ <<outer, inner>> \notin Hiding /\ Covers(visitor, paths)
    BY DEF Sound
  <2>2. ASSUME NEW p \in paths
        PROVE  /\ After(After(p, inner), outer).wrote => v2.wrote
               /\ After(After(p, inner), outer).dirty => ~v2.reread
    BY <1>1, <2>1 DEF Calls, Hiding, Covers, See, After, Visitors, Executions
  <2>3. Covers(v2, p2)
    BY <2>2 DEF Covers, Image
  <2>4. Danger(paths, inner) \/ Danger(p1, outer) => v2.flagged
    BY <1>1, <2>1 DEF Calls, Hiding, Danger, Image, Covers, See, After, Visitors, Executions
  <2>5. visitor.flagged => v2.flagged
    BY <1>1, <1>2 DEF See, Visitors, Calls
  <2> QED BY <2>1, <2>3, <2>4, <2>5 DEF Sound
<1>6. Tight'
  <2> SUFFICES ASSUME ~wide' PROVE Tight'
    BY DEF Tight
  <2>1. ~wide /\ <<outer, inner>> # <<"write", "invoke">> /\ paths # {} /\ Earned(visitor, paths)
        /\ (visitor.flagged => late)
    BY DEF Tight
  <2>2. \A p \in paths : /\ After(p, inner) \in p1
                         /\ After(After(p, inner), outer) \in p2
                         /\ p.wrote => After(p, inner).wrote
                         /\ p.wrote => After(After(p, inner), outer).wrote
    BY <1>1, CallTypes DEF Image
  <2>3. p1 # {} /\ p2 # {} /\ Earned(v2, p2)
    <3>1. CASE outer = "write" \/ inner = "write"
      BY <1>1, <2>1, <2>2, <3>1 DEF Calls, After, Earned
    <3>2. CASE outer # "write" /\ inner # "write"
      <4>1. v2.wrote => visitor.wrote
        BY <1>1, <3>2 DEF Calls, See, Visitors
      <4> QED BY <2>1, <2>2, <4>1 DEF Earned
    <3> QED BY <3>1, <3>2
  <2>4. v2.flagged => visitor.flagged \/ Behind(paths, inner) \/ Behind(p1, outer)
    <3>1. outer = "invoke" /\ visitor.wrote => Behind(p1, outer)
      BY <2>1, <2>2 DEF Earned, Behind
    <3>2. inner = "invoke" /\ v1.wrote => Behind(paths, inner)
      BY <1>1, <2>1 DEF Earned, Behind, Calls, See, Visitors
    <3>3. v2.flagged => \/ visitor.flagged
                        \/ outer = "invoke" /\ visitor.wrote
                        \/ inner = "invoke" /\ v1.wrote
      BY <1>1, <1>2 DEF Calls, See, Visitors
    <3> QED BY <3>1, <3>2, <3>3
  <2> QED BY <2>1, <2>3, <2>4 DEF Tight, TightFrame
<1> QED BY <1>4, <1>5, <1>6

\* A condition moves executions only: reads make them cleaner.
LEMMA ConditionStep ==
  ASSUME IInv, size' \in Nat, NEW call \in Calls, Condition(call)
  PROVE  IInv'
<1> USE DEF IInv, Condition, Executed
<1>1. paths \in SUBSET Executions
  BY DEF TypeOK
<1>2. TypeOK'
  BY <1>1, ImageType DEF TypeOK, Danger, Behind, Blinders
<1>3. Sound'
  <2> SUFFICES ASSUME blind' = {} PROVE Sound'
    BY DEF Sound
  <2>1. call = "read" /\ blind = {}
    OBVIOUS
  <2>2. Covers(visitor, Image(paths, call)) /\ ~Danger(paths, call)
    BY <1>1, <2>1 DEF Sound, Covers, Image, After, Danger, Executions
  <2> QED BY <2>1, <2>2 DEF Sound
<1>4. Tight'
  <2>1. \A p \in paths : After(p, call) \in Image(paths, call) /\ (p.wrote => After(p, call).wrote)
    BY <1>1, CallTypes DEF Image
  <2> QED BY <2>1 DEF Tight, TightFrame, Earned
<1> QED BY <1>2, <1>3, <1>4

LEMMA ReturnStep == ASSUME IInv, size' \in Nat, Return PROVE IInv'
BY DEF IInv, Return, TypeOK, Sound, Tight, Covers

-----------------------------------------------------------------------------
(* Branches *)

LEMMA OpenStep ==
  ASSUME IInv, size' \in Nat, OpenIf \/ OpenMatch
  PROVE  IInv'
<1> USE DEF IInv
<1>1. PICK f : /\ f \in Frames /\ depth < MaxDepth /\ depth' = depth + 1
               /\ frames' = [frames EXCEPT ![depth + 1] = f]
               /\ f.kind \in {"then", "match"} /\ f.before = visitor /\ f.entry = paths
               /\ f.out = {}
  BY DEF OpenIf, OpenMatch, Push, TypeOK, Frames
<1>2. UNCHANGED <<visitor, paths, hit, late, blind, wide>>
  BY DEF OpenIf, OpenMatch
<1>3. depth \in Nat /\ MaxDepth \in Nat /\ depth + 1 \in 1..MaxDepth
  BY <1>1, BoundsAssumption DEF TypeOK
<1>4. /\ frames'[depth + 1] = f
      /\ \A i \in 1..MaxDepth : i # depth + 1 => frames'[i] = frames[i]
      /\ DOMAIN frames' = 1..MaxDepth
  BY <1>1, <1>3 DEF TypeOK
<1>5. \A i \in 1..depth' : i \in 1..depth \/ i = depth + 1
  BY <1>1, <1>3
<1>6. \A i \in 1..depth : i \in 1..MaxDepth /\ i # depth + 1 /\ i \in 1..depth'
  BY <1>1, <1>3
<1>7. TypeOK'
  BY <1>1, <1>2, <1>3, <1>4 DEF TypeOK
<1>8. Sound'
  BY <1>1, <1>2, <1>4, <1>5, <1>6 DEF Sound, SoundFrame
<1>9. Tight'
  BY <1>1, <1>2, <1>4, <1>5, <1>6 DEF Tight, TightFrame
<1> QED BY <1>7, <1>8, <1>9

\* The top frame is changed in place: what stays true of it, and of the rest.
LEMMA ElseStep == ASSUME IInv, size' \in Nat, Else PROVE IInv'
<1> USE DEF IInv
<1>1. /\ depth \in 1..MaxDepth /\ frames[depth] \in Frames /\ frames[depth].kind = "then"
      /\ UNCHANGED <<depth, hit, late, blind, wide>>
      /\ visitor' = frames[depth].before /\ paths' = frames[depth].entry
  BY BoundsAssumption DEF Else, In, Top, TypeOK
<1>2. /\ frames'[depth] \in Frames
      /\ frames'[depth].kind = "else"
      /\ frames'[depth].then = visitor
      /\ frames'[depth].out = paths
      /\ \A i \in 1..MaxDepth : i # depth => frames'[i] = frames[i]
      /\ DOMAIN frames' = 1..MaxDepth
  BY <1>1 DEF Else, TypeOK, Frames
<1>3. TypeOK'
  <2>1. visitor' \in Visitors /\ paths' \subseteq Executions
    BY <1>1 DEF Frames
  <2> QED BY <1>1, <1>2, <2>1, BoundsAssumption DEF TypeOK
<1>4. Sound'
  BY <1>1, <1>2, BoundsAssumption DEF Sound, SoundFrame, TypeOK
<1>5. Tight'
  BY <1>1, <1>2, BoundsAssumption DEF Tight, TightFrame, TypeOK
<1> QED BY <1>3, <1>4, <1>5

\* What popping the innermost frame leaves.
LEMMA PopFrames ==
  ASSUME TypeOK, depth > 0, Pop
  PROVE  /\ depth \in 1..MaxDepth /\ frames[depth] \in Frames
         /\ depth' \in 0..MaxDepth /\ DOMAIN frames' = 1..MaxDepth
         /\ \A i \in 1..MaxDepth :
              IF i <= depth' THEN frames'[i] = frames[i] ELSE frames'[i] = NoFrame
         /\ \A i \in 1..depth' : i \in 1..depth /\ i # depth /\ frames'[i] = frames[i]
         /\ \A i \in 1..depth : i = depth \/ i \in 1..depth'
<1>1. depth \in Nat /\ depth \in 1..MaxDepth /\ depth' = depth - 1 /\ MaxDepth \in Nat
  BY BoundsAssumption DEF TypeOK, Pop
<1>2. \A i \in 1..MaxDepth : frames'[i] = IF i = depth THEN NoFrame ELSE frames[i]
  BY DEF Pop, TypeOK
<1>3. DOMAIN frames' = 1..MaxDepth
  BY DEF Pop, TypeOK
<1> QED BY <1>1, <1>2, <1>3 DEF TypeOK

LEMMA CloseIfStep == ASSUME IInv, size' \in Nat, CloseIf PROVE IInv'
<1> USE DEF IInv
<1>1. /\ depth > 0 /\ Pop /\ frames[depth].kind = "else"
      /\ UNCHANGED <<hit, late, blind, wide>>
      /\ visitor' = Merge(frames[depth].then, visitor)
      /\ paths' = frames[depth].out \cup paths
  BY DEF CloseIf, In, Top
<1>2. /\ depth \in 1..MaxDepth
      /\ frames[depth].then \in Visitors /\ frames[depth].out \in SUBSET Executions
      /\ visitor \in Visitors /\ paths \in SUBSET Executions
  BY <1>1, PopFrames DEF Frames, TypeOK
<1>3. visitor' \in Visitors /\ paths' \in SUBSET Executions
  BY <1>1, <1>2 DEF Merge, Visitors
<1>4. TypeOK'
  BY <1>1, <1>3, PopFrames DEF TypeOK
<1>5. Sound'
  <2> SUFFICES ASSUME blind = {} PROVE Sound'
    BY <1>1 DEF Sound
  <2>1. Covers(visitor, paths) /\ Covers(frames[depth].then, frames[depth].out)
    BY <1>1, <1>2 DEF Sound, SoundFrame
  <2>2. Covers(visitor', paths')
    BY <1>1, <2>1 DEF Covers, Merge
  <2>3. \A i \in 1..depth' : SoundFrame(frames'[i])
    BY <1>1, PopFrames DEF Sound
  <2>4. visitor.flagged \/ frames[depth].then.flagged => visitor'.flagged
    BY <1>1 DEF Merge
  <2>5. hit => visitor'.flagged \/ \E i \in 1..depth' : frames'[i].kind = "else" /\ frames'[i].then.flagged
    BY <1>1, <2>4, PopFrames DEF Sound
  <2> QED BY <1>1, <2>2, <2>3, <2>5 DEF Sound, SoundFrame
<1>6. Tight'
  <2> SUFFICES ASSUME ~wide PROVE Tight'
    BY <1>1 DEF Tight
  <2>1. /\ paths # {} /\ Earned(visitor, paths) /\ (visitor.flagged => late)
        /\ Earned(frames[depth].then, frames[depth].out)
        /\ frames[depth].then.flagged => late
    BY <1>1, <1>2 DEF Tight, TightFrame
  <2>2. paths' # {} /\ Earned(visitor', paths') /\ (visitor'.flagged => late)
    BY <1>1, <2>1 DEF Earned, Merge
  <2>3. \A i \in 1..depth' : TightFrame(frames'[i])
    BY <1>1, PopFrames DEF Tight, TightFrame
  <2> QED BY <1>1, <2>2, <2>3 DEF Tight, TightFrame
<1> QED BY <1>4, <1>5, <1>6

LEMMA NextArmStep == ASSUME IInv, size' \in Nat, NextArm PROVE IInv'
<1> USE DEF IInv
<1>1. /\ depth \in 1..MaxDepth /\ frames[depth] \in Frames
      /\ UNCHANGED <<visitor, depth, hit, late>>
      /\ blind' = blind \cup {"arms"} /\ wide' = TRUE /\ paths' = frames[depth].entry
  BY BoundsAssumption DEF NextArm, In, Top, TypeOK
<1>2. /\ paths' \subseteq Executions
      /\ frames'[depth] \in Frames /\ DOMAIN frames' = 1..MaxDepth
      /\ \A i \in 1..MaxDepth : i # depth => frames'[i] = frames[i]
  BY <1>1 DEF NextArm, TypeOK, Frames
<1>3. TypeOK'
  BY <1>1, <1>2, BoundsAssumption DEF TypeOK, Blinders
<1> QED BY <1>1, <1>3 DEF Sound, Tight

LEMMA CloseMatchStep == ASSUME IInv, size' \in Nat, CloseMatch PROVE IInv'
<1> USE DEF IInv
<1>1. /\ depth > 0 /\ Pop /\ frames[depth].kind = "match"
      /\ UNCHANGED <<visitor, hit, late, blind, wide>>
      /\ paths' = frames[depth].out \cup paths
  BY DEF CloseMatch, In, Top
<1>2. /\ depth \in 1..MaxDepth /\ frames[depth].out \in SUBSET Executions
  BY <1>1, PopFrames DEF Frames, TypeOK
<1>3. TypeOK'
  BY <1>1, <1>2, PopFrames DEF TypeOK
<1>4. (blind = {} \/ ~wide) => frames[depth].out = {}
  BY <1>1, <1>2 DEF Sound, SoundFrame, Tight, TightFrame
<1>5. Sound'
  <2> SUFFICES ASSUME blind = {} PROVE Sound'
    BY <1>1 DEF Sound
  <2>1. paths' = paths /\ \A i \in 1..depth' : SoundFrame(frames'[i])
    BY <1>1, <1>4, PopFrames DEF Sound
  <2>2. hit => visitor.flagged \/ \E i \in 1..depth' : frames'[i].kind = "else" /\ frames'[i].then.flagged
    BY <1>1, PopFrames DEF Sound
  <2> QED BY <1>1, <2>1, <2>2 DEF Sound, SoundFrame
<1>6. Tight'
  <2> SUFFICES ASSUME ~wide PROVE Tight'
    BY <1>1 DEF Tight
  <2>1. paths' = paths /\ \A i \in 1..depth' : TightFrame(frames'[i])
    BY <1>1, <1>4, PopFrames DEF Tight
  <2> QED BY <1>1, <2>1 DEF Tight, TightFrame
<1> QED BY <1>3, <1>5, <1>6

-----------------------------------------------------------------------------
(* The theorems *)

THEOREM Invariance == Spec => []IInv
<1>1. Init => IInv
  BY InitInv
<1>2. IInv /\ [Next]_vars => IInv'
  <2> SUFFICES ASSUME IInv, [Next]_vars PROVE IInv'
    OBVIOUS
  <2>1. CASE Next
    <3>1. size' \in Nat /\ Construct
      BY <2>1 DEF Next, IInv, TypeOK
    <3> QED BY <3>1, CallStep, NestedStep, ConditionStep, ReturnStep, OpenStep, ElseStep,
               CloseIfStep, NextArmStep, CloseMatchStep DEF Construct
  <2>2. CASE UNCHANGED vars
    BY <2>2 DEF vars, IInv, TypeOK, Sound, SoundFrame, Tight, TightFrame, Covers, Earned
  <2> QED BY <2>1, <2>2
<1> QED BY <1>1, <1>2, PTL DEF Spec

\* Visitors and frames stay in their types, for any nesting.
THEOREM TypeCorrect == Spec => []TypeOK
<1>1. IInv => TypeOK
  BY DEF IInv
<1> QED BY <1>1, Invariance, PTL

\* A body whose calls are met in evaluation order is flagged whenever one of
\* its executions invokes a contract after a write it has not read back.
THEOREM LateInvokesAreFlagged == Spec => []NothingMissed
<1>1. IInv => NothingMissed
  <2> SUFFICES ASSUME IInv, depth = 0, blind = {}, hit PROVE visitor.flagged
    BY DEF NothingMissed
  <2>1. 1..depth = {}
    OBVIOUS
  <2> QED BY <2>1 DEF IInv, Sound
<1> QED BY <1>1, Invariance, PTL

\* A body without early exits, matches and invokes in the arguments of a write
\* is flagged only if one execution writes and then invokes.
THEOREM FlagsAreEarned == Spec => []NothingInvented
<1>1. IInv => NothingInvented
  BY DEF IInv, Tight, NothingInvented
<1> QED BY <1>1, Invariance, PTL
===============================================================================
