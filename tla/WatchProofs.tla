----------------------------- MODULE WatchProofs -----------------------------
(***************************************************************************)
(* The safety properties of watch mode, for any set of files and any       *)
(* bounds. NoLostWakeup is inductive once it is known that what is shown   *)
(* was read and what was read was there; RescansAreEarned needs the        *)
(* relevant events that are still in the channel on the left-hand side:    *)
(* each of them may yet start a scan.                                      *)
(***************************************************************************)
EXTENDS Watch, FiniteSetTheorems, SequenceTheorems, TLAPS

Counts == [Files -> Nat]

Typed ==
  /\ pc \in {"scan", "register", "recv", "debounce", "exited"}
  /\ version \in Counts /\ read \in Counts /\ shown \in Counts /\ announced \in Counts
  /\ unread \subseteq Files
  /\ chan \in Seq({"rs", "other"})
  /\ sent \in Nat /\ rescans \in Nat

\* What is shown has been read, and what has been read or announced is there.
Ordered ==
  \A f \in Files : shown[f] <= read[f] /\ read[f] <= version[f] /\ announced[f] <= version[f]

\* The places of the relevant events in a channel
Relevant(c) == {i \in 1..Len(c) : c[i] = "rs"}

\* One event for each scan that was, is about to be or may yet be started
Budget == rescans + (IF pc = "debounce" THEN 1 ELSE 0) + Cardinality(Relevant(chan)) <= sent

IInv == Typed /\ Ordered /\ NoLostWakeup /\ Budget

-----------------------------------------------------------------------------
(* Lemmas about the channel *)

\* A channel holds a number of relevant events.
LEMMA RelevantIsFinite ==
  ASSUME NEW c \in Seq({"rs", "other"})
  PROVE  IsFiniteSet(Relevant(c)) /\ Cardinality(Relevant(c)) \in Nat
<1>1. Len(c) \in Nat
  OBVIOUS
<1>2. IsFiniteSet(1..Len(c))
  BY <1>1, FS_Interval
<1>3. Relevant(c) \in SUBSET (1..Len(c))
  BY DEF Relevant
<1>4. IsFiniteSet(Relevant(c))
  BY <1>2, <1>3, FS_Subset
<1> QED
  BY <1>4, FS_CardinalityType

\* tx.send of a relevant event adds one of them, of any other event none.
LEMMA SendCounts ==
  ASSUME NEW c \in Seq({"rs", "other"}), NEW e \in {"rs", "other"}
  PROVE  Cardinality(Relevant(Append(c, e))) =
           Cardinality(Relevant(c)) + (IF e = "rs" THEN 1 ELSE 0)
<1> DEFINE d == Append(c, e)
           n == Len(c) + 1
<1>1. Len(c) \in Nat /\ Len(d) = n /\ d[n] = e /\ \A i \in 1..Len(c) : d[i] = c[i]
  BY AppendProperties
<1>2. IsFiniteSet(Relevant(c)) /\ Cardinality(Relevant(c)) \in Nat /\ n \notin Relevant(c)
  BY <1>1, RelevantIsFinite DEF Relevant
<1>3. CASE e = "rs"
  <2>1. Relevant(d) = Relevant(c) \cup {n}
    BY <1>1, <1>3 DEF Relevant
  <2> QED
    BY <1>2, <1>3, <2>1, FS_AddElement
<1>4. CASE e = "other"
  <2>1. Relevant(d) = Relevant(c)
    BY <1>1, <1>4 DEF Relevant
  <2> QED
    BY <1>2, <1>4, <2>1
<1> QED
  BY <1>3, <1>4

\* recv takes one of them off, or none: the places of the rest move down by one.
LEMMA TakeCounts ==
  ASSUME NEW c \in Seq({"rs", "other"}), c # <<>>
  PROVE  Cardinality(Relevant(Tail(c))) =
           Cardinality(Relevant(c)) - (IF Head(c) = "rs" THEN 1 ELSE 0)
<1> DEFINE t == Tail(c)
           Rest == Relevant(c) \ {1}
           down == [i \in Rest |-> i - 1]
<1>1. /\ Len(c) \in Nat /\ Len(c) >= 1
      /\ t \in Seq({"rs", "other"}) /\ Len(t) = Len(c) - 1
      /\ \A i \in 1..Len(t) : t[i] = c[i + 1]
      /\ Head(c) = c[1]
  BY HeadTailProperties
<1>2. IsFiniteSet(Relevant(c)) /\ Cardinality(Relevant(c)) \in Nat
  BY RelevantIsFinite
<1>3. 1 \in Relevant(c) <=> Head(c) = "rs"
  BY <1>1 DEF Relevant
<1>4. /\ IsFiniteSet(Rest)
      /\ Cardinality(Rest) = Cardinality(Relevant(c)) - (IF Head(c) = "rs" THEN 1 ELSE 0)
  BY <1>2, <1>3, FS_RemoveElement
<1>5. down \in Bijection(Rest, Relevant(t))
  <2>1. \A i \in Rest : i - 1 \in Relevant(t)
    BY <1>1 DEF Relevant
  <2>2. \A j \in Relevant(t) : j + 1 \in Rest /\ down[j + 1] = j
    BY <1>1 DEF Relevant
  <2>3. \A i, j \in Rest : down[i] = down[j] => i = j
    BY <1>1 DEF Relevant
  <2>4. down \in [Rest -> Relevant(t)]
    BY <2>1
  <2> HIDE DEF down, Rest, t
  <2>5. down \in Surjection(Rest, Relevant(t))
    BY <2>2, <2>4 DEF Surjection
  <2>6. down \in Injection(Rest, Relevant(t))
    BY <2>3, <2>4 DEF Injection, IsInjective
  <2> QED
    BY <2>5, <2>6 DEF Bijection
<1>6. Cardinality(Relevant(t)) = Cardinality(Rest)
  BY <1>4, <1>5, FS_Bijection DEF ExistsBijection
<1> QED
  BY <1>4, <1>6

\* An event that is pending stays so when another one is sent.
LEMMA PendingStays ==
  ASSUME chan \in Seq({"rs", "other"}), NEW e \in {"rs", "other"}, chan' = Append(chan, e)
  PROVE  /\ chan' \in Seq({"rs", "other"})
         /\ EventPending \/ e = "rs" => EventPending'
<1>1. /\ chan' \in Seq({"rs", "other"}) /\ Len(chan') = Len(chan) + 1 /\ Len(chan) \in Nat
      /\ chan'[Len(chan) + 1] = e /\ \A i \in 1..Len(chan) : chan'[i] = chan[i]
  BY AppendProperties
<1> QED
  BY <1>1 DEF EventPending

\* Taking an event off leaves the relevant ones behind it.
LEMMA PendingAfterTake ==
  ASSUME chan \in Seq({"rs", "other"}), chan # <<>>, chan' = Tail(chan)
  PROVE  /\ chan' \in Seq({"rs", "other"})
         /\ EventPending /\ Head(chan) # "rs" => EventPending'
<1>1. /\ Len(chan) \in Nat /\ Len(chan) >= 1
      /\ chan' \in Seq({"rs", "other"}) /\ Len(chan') = Len(chan) - 1
      /\ \A i \in 1..Len(chan') : chan'[i] = chan[i + 1]
      /\ Head(chan) = chan[1]
  BY HeadTailProperties
<1>2. ASSUME NEW i \in 1..Len(chan), chan[i] = "rs", Head(chan) # "rs"
      PROVE  i - 1 \in 1..Len(chan') /\ chan'[i - 1] = "rs"
  BY <1>1, <1>2
<1> QED
  BY <1>1, <1>2 DEF EventPending

-----------------------------------------------------------------------------

\* Nothing has changed, been read or been sent at the start.
LEMMA Initially == Init => IInv
<1> SUFFICES ASSUME Init PROVE IInv
  OBVIOUS
<1>1. Typed /\ Ordered /\ NoLostWakeup
  BY DEF Init, Typed, Counts, Ordered, NoLostWakeup
<1>2. Relevant(chan) = {}
  BY DEF Init, Relevant
<1>3. Cardinality(Relevant(chan)) = 0
  BY <1>2, FS_EmptySet
<1>4. Budget
  BY <1>3 DEF Init, Budget
<1> QED
  BY <1>1, <1>4 DEF IInv

\* A change of files with the event that goes with it keeps the invariant: the
\* versions grow, and either a relevant event is sent and counted, or neither
\* happens.
LEMMA EnvironmentKeeps ==
  ASSUME IInv, version' \in Counts, \A f \in Files : version[f] <= version'[f],
         NEW e \in {"rs", "other"}, chan' = Append(chan, e),
         IF e = "rs" THEN sent' = sent + 1 /\ announced' = version'
                     ELSE UNCHANGED <<sent, announced>>,
         UNCHANGED <<pc, scan_vars, rescans>>
  PROVE  IInv'
<1> USE DEF Counts
<1>1. Typed'
  BY PendingStays DEF IInv, Typed, scan_vars
<1>2. Ordered'
  <2>1. ASSUME NEW f \in Files
        PROVE  shown[f] <= read[f] /\ read[f] <= version'[f] /\ announced'[f] <= version'[f]
    <3>1. /\ version[f] \in Nat /\ version'[f] \in Nat /\ read[f] \in Nat /\ announced[f] \in Nat
          /\ version[f] <= version'[f] /\ shown[f] <= read[f] /\ read[f] <= version[f]
          /\ announced[f] <= version[f]
      BY DEF IInv, Typed, Ordered
    <3>2. announced'[f] = version'[f] \/ announced'[f] = announced[f]
      OBVIOUS
    <3> QED
      BY <3>1, <3>2
  <2> QED
    BY <2>1 DEF Ordered, scan_vars
<1>3. NoLostWakeup'
  <2>1. CASE e = "rs"
    BY <2>1, PendingStays DEF IInv, Typed, NoLostWakeup
  <2>2. CASE e = "other"
    BY <2>2, PendingStays DEF IInv, Typed, NoLostWakeup, scan_vars
  <2> QED
    BY <2>1, <2>2
<1>4. Budget'
  <2>1. /\ Cardinality(Relevant(chan')) = Cardinality(Relevant(chan)) + (IF e = "rs" THEN 1 ELSE 0)
        /\ Cardinality(Relevant(chan)) \in Nat
    BY SendCounts, RelevantIsFinite DEF IInv, Typed
  <2> QED
    BY <2>1 DEF IInv, Typed, Budget
<1> QED
  BY <1>1, <1>2, <1>3, <1>4 DEF IInv

\* Every action keeps the invariant.
LEMMA Inductive == IInv /\ [Next]_vars => IInv'
<1> SUFFICES ASSUME IInv, [Next]_vars PROVE IInv'
  OBVIOUS
<1> USE DEF Counts
<1>0. Cardinality(Relevant(chan)) \in Nat
  BY RelevantIsFinite DEF IInv, Typed
<1>1. ASSUME NEW f \in Files, ReadFile(f) PROVE IInv'
  <2>1. Typed' /\ Ordered'
    BY <1>1 DEF IInv, Typed, Ordered, ReadFile, env_vars
  <2>2. NoLostWakeup'
    BY <1>1 DEF IInv, Typed, Ordered, NoLostWakeup, EventPending, ReadFile, env_vars
  <2>3. Budget'
    BY <1>1 DEF IInv, Budget, ReadFile, env_vars
  <2> QED
    BY <2>1, <2>2, <2>3 DEF IInv
<1>2. CASE Report
  <2>1. Typed' /\ Ordered'
    BY <1>2 DEF IInv, Typed, Ordered, Report, env_vars
  <2>2. NoLostWakeup'
    <3>1. \A f \in Files : shown'[f] >= shown[f]
      BY <1>2 DEF IInv, Typed, Ordered, Report
    <3> QED
      BY <1>2, <3>1 DEF IInv, Typed, NoLostWakeup, EventPending, Report, env_vars
  <2>3. Budget'
    BY <1>2, <1>0 DEF IInv, Typed, Budget, Report, env_vars
  <2> QED
    BY <2>1, <2>2, <2>3 DEF IInv
<1>3. CASE Register \/ RegisterFails
  BY <1>3, <1>0 DEF IInv, Typed, Ordered, NoLostWakeup, EventPending, Budget, Register, RegisterFails,
                    scan_vars, env_vars
<1>4. CASE Receive
  <2>1. Typed' /\ Ordered'
    BY <1>4, PendingAfterTake DEF IInv, Typed, Ordered, Receive, scan_vars, env_vars
  <2>2. NoLostWakeup'
    BY <1>4, PendingAfterTake DEF IInv, Typed, NoLostWakeup, Receive, scan_vars, env_vars
  <2>3. Budget'
    <3>1. Cardinality(Relevant(chan')) =
            Cardinality(Relevant(chan)) - (IF Head(chan) = "rs" THEN 1 ELSE 0)
      BY <1>4, TakeCounts DEF IInv, Typed, Receive
    <3> QED
      BY <1>4, <1>0, <3>1 DEF IInv, Typed, Budget, Receive, env_vars
  <2> QED
    BY <2>1, <2>2, <2>3 DEF IInv
<1>5. CASE Drain
  <2>1. Typed' /\ Ordered'
    BY <1>5, PendingAfterTake DEF IInv, Typed, Ordered, Drain, scan_vars, env_vars
  <2>2. NoLostWakeup'
    BY <1>5 DEF NoLostWakeup, Drain
  <2>3. Budget'
    <3>1. Cardinality(Relevant(chan')) =
            Cardinality(Relevant(chan)) - (IF Head(chan) = "rs" THEN 1 ELSE 0)
      BY <1>5, TakeCounts DEF IInv, Typed, Drain
    <3> QED
      BY <1>5, <1>0, <3>1 DEF IInv, Typed, Budget, Drain, env_vars
  <2> QED
    BY <2>1, <2>2, <2>3 DEF IInv
<1>6. CASE Rescan
  <2>1. Typed' /\ Ordered' /\ NoLostWakeup'
    BY <1>6 DEF IInv, Typed, Ordered, NoLostWakeup, Rescan, env_vars
  <2>2. Budget'
    BY <1>6, <1>0 DEF IInv, Typed, Budget, Rescan, env_vars
  <2> QED
    BY <2>1, <2>2 DEF IInv
<1>7. ASSUME NEW f \in Files, Save(f) PROVE IInv'
  <2>1. version' \in Counts /\ \A g \in Files : version[g] <= version'[g]
    <3>1. version \in [Files -> Nat] /\ version' = [version EXCEPT ![f] = version[f] + 1]
      BY <1>7 DEF IInv, Typed, Counts, Save
    <3>2. \A g \in Files : version[g] \in Nat /\ version[g] + 1 \in Nat
      BY <3>1
    <3> QED BY <3>1, <3>2 DEF Counts
  <2>2. CASE watching
    BY <1>7, <2>1, <2>2, EnvironmentKeeps DEF Save, IInv, Typed
  <2>3. CASE ~watching
    <3>1. Typed' /\ Ordered'
      BY <1>7, <2>1, <2>3 DEF IInv, Typed, Ordered, Save, scan_vars
    <3>2. NoLostWakeup' /\ Budget'
      BY <1>7, <2>3 DEF IInv, NoLostWakeup, EventPending, Budget, Save, scan_vars
    <3> QED
      BY <3>1, <3>2 DEF IInv
  <2> QED
    BY <2>2, <2>3
<1>8. ASSUME NEW f \in Files, Overflow(f) PROVE IInv'
  <2>1. version' \in Counts /\ (\A g \in Files : version[g] <= version'[g])
    BY <1>8 DEF IInv, Typed, Overflow
  <2> QED
    BY <1>8, <2>1, EnvironmentKeeps DEF Overflow
<1>9. CASE Noise
  <2>1. version' \in Counts /\ (\A g \in Files : version[g] <= version'[g])
    BY <1>9 DEF IInv, Typed, Noise
  <2> QED
    BY <1>9, <2>1, EnvironmentKeeps DEF Noise
<1>10. CASE MoveDirectory
  <2>1. version' \in Counts /\ (\A g \in Files : version[g] <= version'[g])
    BY <1>10 DEF IInv, Typed, MoveDirectory
  <2> QED
    BY <1>10, <2>1, EnvironmentKeeps DEF MoveDirectory
<1>11. CASE UNCHANGED vars
  BY <1>11 DEF vars, scan_vars, env_vars, IInv, Typed, Ordered, NoLostWakeup, EventPending, Budget
<1> QED
  BY <1>1, <1>2, <1>3, <1>4, <1>5, <1>6, <1>7, <1>8, <1>9, <1>10, <1>11 DEF Next, Process, Environment

-----------------------------------------------------------------------------

\* Every reachable state of watch mode satisfies the strengthened invariant.
THEOREM Invariance == Spec => []IInv
BY Initially, Inductive, PTL DEF Spec

\* No lost wakeup, in the loop of run_watch_mode: a relevant event that a scan
\* or a window overtakes is followed by a scan that reads the file.
THEOREM NoWakeupIsLost == Spec => []NoLostWakeup
<1>1. IInv => NoLostWakeup
  BY DEF IInv
<1> QED
  BY <1>1, Invariance, PTL

\* At most one scan per relevant event, however the window groups them.
THEOREM EveryRescanIsEarned == Spec => []RescansAreEarned
<1>1. IInv => RescansAreEarned
  BY RelevantIsFinite DEF IInv, Typed, Budget, RescansAreEarned
<1> QED
  BY <1>1, Invariance, PTL
==============================================================================
