------------------------------ MODULE ScanProofs ------------------------------
(***************************************************************************)
(* For every tree, every pool size and every sequence of edits: the types, *)
(* and the safety of the job bookkeeping of Scan. What a scan answers: it  *)
(* implements ScanPromise, whatever is edited meanwhile, and on a tree     *)
(* nobody edits its answer is a function of the tree.                      *)
(***************************************************************************)
EXTENDS ScanRefinement, TLAPS, FiniteSetTheorems, SequenceTheorems

\* Before "run" the pool is not set up; outside it the pool is empty; inside
\* it every job has one owner, and an error is kept exactly when some job has
\* failed.
PoolIdle == \A w \in Workers : worker[w] = Idle

Early      == phase \in {"start", "globs", "walk"}
EarlyState == saved = {} /\ answer = NoAnswer /\ outcome = <<>>

RunState ==
  /\ answer = NoAnswer
  /\ saved \subseteq FailedJobs
  /\ ShortCircuits /\ FailedJobs # {} => saved # {}

IInv ==
  /\ TypeOK
  /\ phase # "run" => PoolIdle
  /\ Early => EarlyState
  /\ phase = "run" => RunState
  /\ OneOwner
  /\ OkIsComplete
  /\ ErrorsAreReal

LEMMA ListingsAreSequences ==
  Listings \subseteq Seq(Entries)
<1>1. BoundedSeq(Files, MaxList) \subseteq Seq(Entries)
  BY ScanAssumption DEF BoundedSeq, SeqOf, Entries
<1>2. SetToSeqs(Entries) \subseteq Seq(Entries)
  <2>1. IsFiniteSet(Entries)
    BY FS_Union, ScanAssumption DEF Entries
  <2>2. Cardinality(Entries) \in Nat
    BY <2>1, FS_CardinalityType
  <2> QED BY <2>2 DEF SetToSeqs
<1> QED BY <1>1, <1>2 DEF Listings

\* A text is never mistaken for "not run", nor a held job for an idle worker.
LEMMA Distinct ==
  /\ \A text \in Texts : text # NotRun
  /\ \A h : h.job # 0 => h # Idle
  /\ Idle.job = 0
<1>1. \A text \in Texts : text.fate # NotRun.fate
  BY ScanAssumption DEF Fates, NotRun
<1> QED BY <1>1 DEF Idle

\* What the pool holds while it runs: outcomes for all jobs, and workers with
\* jobs among them.
LEMMA PoolTypes ==
  ASSUME TypeOK, phase = "run"
  PROVE  /\ outcome \in [Jobs -> Outcomes] /\ DOMAIN outcome = Jobs
         /\ Jobs \subseteq Nat \ {0}
         /\ waiting \subseteq Jobs /\ saved \subseteq Jobs
         /\ \A w \in Workers : worker[w] # Idle =>
              worker[w] \in Held /\ worker[w].job \in Jobs /\ worker[w].text \in Texts
<1>1. DOMAIN outcome = Jobs /\ Jobs \subseteq Nat \ {0}
  BY DEF TypeOK, Jobs
<1>2. outcome \in [Jobs -> Outcomes]
  BY <1>1 DEF TypeOK
<1> QED BY <1>1, <1>2 DEF TypeOK, Held

\* The answers are well typed.
LEMMA AnswerTypes ==
  /\ NoAnswer \in Answers
  /\ \A where \in SUBSET Places : Err(where) \in Answers
  /\ TypeOK => Ok \in Answers
<1>1. NoAnswer \in Answers
  BY DEF NoAnswer, Answers
<1>2. ASSUME NEW where \in SUBSET Places PROVE Err(where) \in Answers
  BY <1>1 DEF Err, NoAnswer, Answers
<1>3. ASSUME TypeOK PROVE Ok \in Answers
  <2>1. Ok.report \in SUBSET (Files \X Checks) /\ Ok.panics \in SUBSET (Files \X Checks)
    BY DEF Ok
  <2>2. Len(paths) \in Nat /\ skipped \in Nat /\ {} \in SUBSET Places
    BY <1>3 DEF TypeOK
  <2> QED BY <2>1, <2>2 DEF Ok, Answers
<1> QED BY <1>1, <1>2, <1>3

LEMMA InitInv == Init => IInv
<1> SUFFICES ASSUME Init PROVE IInv
  OBVIOUS
<1> USE DEF Init
<1>1. TypeOK
  <2>1. todo \in Seq(Entries) /\ paths \in Seq(Files) /\ outcome \in [{} -> Outcomes]
    OBVIOUS
  <2>2. worker \in [Workers -> {Idle} \cup Held]
    OBVIOUS
  <2> QED BY <2>1, <2>2, AnswerTypes DEF TypeOK
<1>2. PoolIdle /\ EarlyState
  BY DEF PoolIdle, EarlyState
<1> QED BY <1>1, <1>2 DEF IInv, OneOwner, OkIsComplete, ErrorsAreReal, NoAnswer

\* Giving up on a place that is unusable right now.
LEMMA FailStep ==
  ASSUME IInv, Early, NEW place \in Unusable, Fail({place}), todo' \in Seq(Entries)
  PROVE  IInv'
<1> USE DEF IInv
<1>1. /\ phase' = "done" /\ answer' = Err({place})
      /\ UNCHANGED <<api, root, bad_globs, rejected, disk, sealed, edits, paths, skipped, warned,
                     waiting, worker, outcome, saved>>
  BY DEF Fail, disk_vars, run_vars
<1>2. place \in Places
  BY DEF TypeOK, Unusable, Places, Entries
<1>3. answer'.tag = "err" /\ answer'.errors = {place} /\ answer' \in Answers
  BY <1>1, <1>2, AnswerTypes DEF Err, NoAnswer
<1>4. TypeOK'
  BY <1>1, <1>3 DEF TypeOK, Held, Jobs, Outcomes
<1>5. PoolIdle'
  BY <1>1 DEF PoolIdle, Early
<1>6. Unusable' = Unusable
  BY <1>1 DEF Unusable
<1>7. OkIsComplete' /\ ErrorsAreReal'
  BY <1>3, <1>6 DEF OkIsComplete, ErrorsAreReal
<1> QED BY <1>1, <1>4, <1>5, <1>7 DEF Early, OneOwner

\* What the steps before the pool starts have in common when they go on.
LEMMA GoOnStep ==
  ASSUME IInv, Early, Early',
         UNCHANGED <<api, root, bad_globs, rejected, disk, sealed, edits, run_vars, answer>>,
         todo' \in Seq(Entries), paths' \in Seq(Files), skipped' \in Nat, warned' \subseteq Files
  PROVE  IInv'
<1>1. UNCHANGED <<waiting, worker, outcome, saved>>
  BY DEF run_vars
<1>2. EarlyState /\ TypeOK /\ PoolIdle
  BY DEF IInv, Early
<1>3. outcome' \in [{} -> Outcomes]
  BY <1>1, <1>2 DEF EarlyState
<1>4. TypeOK'
  BY <1>1, <1>2, <1>3 DEF TypeOK, Held, Early, Outcomes
<1>5. PoolIdle' /\ EarlyState'
  BY <1>1, <1>2 DEF PoolIdle, EarlyState
<1> QED BY <1>4, <1>5 DEF IInv, Early, EarlyState, OneOwner, OkIsComplete, ErrorsAreReal, NoAnswer

\* Opening the root ends the scan with an error, or hands the walk its
\* entries or its one path.
LEMMA OpenStep == ASSUME IInv, Open PROVE IInv'
<1>1. TypeOK /\ Early
  BY DEF IInv, Open, RootMissing, RootResolved, BadGlob, RootUnopened, OpenTree, OpenFile, Early
<1>2. CASE RootMissing \/ BadGlob \/ RootUnopened
  <2>1. todo' \in Seq(Entries) /\ \E place \in Unusable : Fail({place})
    BY <1>1, <1>2 DEF RootMissing, BadGlob, RootUnopened, Unusable, TypeOK
  <2> QED BY <1>1, <2>1, FailStep
<1>3. CASE RootResolved
  BY <1>1, <1>3, GoOnStep DEF RootResolved, Early, TypeOK, disk_vars, walk_vars
<1>4. CASE OpenTree
  <2>1. todo' \in Seq(Entries)
    BY <1>4, ListingsAreSequences DEF OpenTree
  <2> QED BY <1>1, <1>4, <2>1, GoOnStep DEF OpenTree, Early, TypeOK, disk_vars
<1>5. CASE OpenFile
  <2>1. paths' \in Seq(Files)
    BY <1>5 DEF OpenFile
  <2> QED BY <1>1, <1>5, <2>1, GoOnStep DEF OpenFile, Early, TypeOK, disk_vars
<1> QED BY <1>2, <1>3, <1>4, <1>5 DEF Open

\* The walk leaves the pool alone; only a traversal error ends it with an answer.
LEMMA WalkStep ==
  ASSUME IInv, TraversalError \/ Reject \/ WarnAndSkip \/ GeneratedSkip \/ Select
  PROVE  IInv'
<1>0. phase = "walk" /\ todo # <<>> /\ todo' = Tail(todo)
  BY DEF TraversalError, Reject, WarnAndSkip, GeneratedSkip, Select, Classifiable
<1>1. /\ TypeOK /\ phase = "walk" /\ todo # <<>> /\ todo' = Tail(todo)
      /\ todo' \in Seq(Entries) /\ Head(todo) \in Entries
  <2>1. TypeOK /\ todo \in Seq(Entries)
    BY DEF IInv, TypeOK
  <2> QED BY <1>0, <2>1
<1>2. CASE TraversalError
  <2>1. Head(todo) \in Unusable /\ Fail({Head(todo)})
    BY <1>2 DEF TraversalError, Unusable
  <2> QED BY <1>1, <2>1, FailStep DEF Early
<1>3. CASE Reject \/ WarnAndSkip \/ GeneratedSkip \/ Select
  <2>1. /\ phase' = "walk"
        /\ UNCHANGED <<api, root, bad_globs, rejected, disk, sealed, edits, run_vars, answer>>
    BY <1>1, <1>3 DEF Reject, WarnAndSkip, GeneratedSkip, Select, Classifiable, disk_vars
  <2>2. paths' \in Seq(Files)
    <3>1. paths' = paths \/ (Head(todo) \in Files /\ paths' = Append(paths, Head(todo)))
      BY <1>3 DEF Reject, WarnAndSkip, GeneratedSkip, Select, Classifiable
    <3>2. paths \in Seq(Files)
      BY <1>1 DEF TypeOK
    <3> QED BY <3>1, <3>2, AppendProperties
  <2>3. skipped' \in Nat
    BY <1>1, <1>3 DEF Reject, WarnAndSkip, GeneratedSkip, Select, TypeOK
  <2>4. warned' \subseteq Files
    BY <1>1, <1>3 DEF Reject, WarnAndSkip, GeneratedSkip, Select, Classifiable, TypeOK
  <2> QED BY <1>1, <2>1, <2>2, <2>3, <2>4, GoOnStep DEF Early
<1> QED BY <1>2, <1>3

LEMMA StartStep == ASSUME IInv, StartJobs PROVE IInv'
<1> USE DEF IInv, StartJobs
<1>1. /\ phase = "walk" /\ phase' = "run"
      /\ UNCHANGED <<api, root, bad_globs, rejected, disk, sealed, edits, todo, paths, skipped,
                     warned, worker, saved, answer>>
  BY DEF disk_vars, walk_vars
<1>2. Jobs' = Jobs /\ Jobs \subseteq Nat \ {0}
  BY <1>1 DEF Jobs, TypeOK
<1>3. PoolIdle' /\ PoolIdle /\ saved = {} /\ answer = NoAnswer
  BY <1>1 DEF PoolIdle, Early, EarlyState
<1>4. outcome' \in [Jobs -> Outcomes] /\ DOMAIN outcome' = Jobs /\ waiting' = Jobs
  BY DEF Outcomes
<1>5. worker' \in [Workers -> {Idle} \cup Held']
  BY <1>1, <1>3 DEF TypeOK, PoolIdle
<1>6. TypeOK'
  BY <1>1, <1>2, <1>3, <1>4, <1>5 DEF TypeOK, Outcomes
<1>7. RunState'
  BY <1>1, <1>2, <1>3 DEF RunState, FailedJobs, Ran
<1>8. OneOwner'
  BY <1>1, <1>2, <1>3, Distinct DEF OneOwner, PoolIdle, Ran
<1> QED BY <1>1, <1>3, <1>6, <1>7, <1>8 DEF Early, OkIsComplete, ErrorsAreReal, NoAnswer

LEMMA TakeStep == ASSUME IInv, NEW w \in Workers, Take(w) PROVE IInv'
<1> USE DEF IInv
<1>1. PICK i \in waiting :
        /\ waiting' = waiting \ {i}
        /\ worker' = [worker EXCEPT ![w] = [job |-> i, text |-> disk[paths[i]]]]
  BY DEF Take
<1>2. /\ phase = "run" /\ phase' = "run" /\ worker[w] = Idle
      /\ UNCHANGED <<api, root, bad_globs, rejected, disk, sealed, edits, todo, paths, skipped, warned,
                     outcome, saved, answer>>
  BY DEF Take, disk_vars, walk_vars
<1>0. /\ outcome \in [Jobs -> Outcomes] /\ DOMAIN outcome = Jobs
      /\ Jobs \subseteq Nat \ {0} /\ waiting \subseteq Jobs
  BY <1>2, PoolTypes
<1>3. i \in Jobs /\ i \in Nat \ {0} /\ Jobs' = Jobs
  BY <1>0, <1>2 DEF Jobs
<1>4. disk[paths[i]] \in Texts
  BY <1>3 DEF Jobs, TypeOK
<1> DEFINE h == [job |-> i, text |-> disk[paths[i]]]
<1>5. h \in Held /\ h # Idle /\ h.job = i
  BY <1>0, <1>3, <1>4, Distinct DEF Held
<1>6. /\ worker'[w] = h
      /\ \A v \in Workers : v # w => worker'[v] = worker[v]
      /\ worker' \in [Workers -> {Idle} \cup Held]
  BY <1>1, <1>5 DEF TypeOK
<1> HIDE DEF h
<1>7. TypeOK'
  <2>1. Held' = Held /\ Outcomes' = Outcomes /\ waiting' \subseteq DOMAIN outcome
    BY <1>0, <1>1, <1>2 DEF Held, Outcomes
  <2> QED BY <1>2, <1>3, <1>6, <2>1 DEF TypeOK
<1>8. RunState'
  <2>1. FailedJobs' = FailedJobs
    BY <1>2, <1>3 DEF FailedJobs, Ran
  <2> QED BY <1>2, <2>1 DEF RunState, ShortCircuits
<1>9. OneOwner'
  <2>1. \A j \in Jobs : Ran(j)' <=> Ran(j)
    BY <1>2 DEF Ran
  <2>2. ~Ran(i) /\ \A v \in Workers : worker[v].job # i
    BY <1>2, <1>3 DEF OneOwner
  <2>3. ASSUME NEW j \in Jobs
        PROVE  /\ j \in waiting' => ~Ran(j) /\ \A v \in Workers : worker'[v].job # j
               /\ j \notin waiting' /\ ~Ran(j) => \E v \in Workers : worker'[v].job = j
               /\ Ran(j) => \A v \in Workers : worker'[v].job # j
               /\ \A u, v \in Workers : worker'[u].job = j /\ worker'[v].job = j => u = v
    <3>1. CASE j = i
      BY <3>1, <1>1, <1>5, <1>6, <2>2
    <3>2. CASE j # i
      <4>1. \A v \in Workers : worker'[v].job = j <=> worker[v].job = j
        BY <3>2, <1>2, <1>3, <1>5, <1>6, Distinct DEF Jobs
      <4>2. j \in waiting' <=> j \in waiting
        BY <3>2, <1>1
      <4> QED BY <4>1, <4>2, <1>2 DEF OneOwner
    <3> QED BY <3>1, <3>2
  <2> QED BY <1>2, <1>3, <2>1, <2>3 DEF OneOwner
<1> QED BY <1>2, <1>7, <1>8, <1>9 DEF Early, OkIsComplete, ErrorsAreReal, RunState, NoAnswer

LEMMA FinishStep == ASSUME IInv, NEW w \in Workers, Finish(w) PROVE IInv'
<1> USE DEF IInv
<1>1. /\ phase = "run" /\ phase' = "run" /\ worker[w] # Idle
      /\ UNCHANGED <<api, root, bad_globs, rejected, disk, sealed, edits, todo, paths, skipped, warned,
                     waiting, answer>>
  BY DEF Finish, disk_vars, walk_vars, PoolIdle
<1>0. outcome \in [Jobs -> Outcomes] /\ DOMAIN outcome = Jobs /\ waiting \subseteq Jobs
  BY <1>1, PoolTypes
<1>a. worker[w] \in Held /\ worker[w].job \in Jobs /\ worker[w].text \in Texts
  BY <1>1, PoolTypes
<1>b. PICK i \in Jobs, text \in Texts : worker[w].job = i /\ worker[w].text = text
  BY <1>a
<1>2. i \in Nat \ {0} /\ Jobs' = Jobs
  BY <1>1 DEF Jobs, TypeOK
<1>3. /\ worker' = [worker EXCEPT ![w] = Idle]
      /\ outcome' = [outcome EXCEPT ![i] = text]
      /\ saved' = KeepFirst(saved, i, text)
  BY <1>b DEF Finish
<1>4. /\ worker'[w] = Idle
      /\ \A v \in Workers : v # w => worker'[v] = worker[v]
      /\ worker' \in [Workers -> {Idle} \cup Held]
  BY <1>3 DEF TypeOK
<1>5. /\ outcome' \in [Jobs -> Outcomes]
      /\ outcome'[i] = text
      /\ \A j \in Jobs : j # i => outcome'[j] = outcome[j]
  BY <1>0, <1>3 DEF Outcomes
<1>6. ~Ran(i)
  BY <1>1, <1>b DEF OneOwner
<1>7. Ran(i)' /\ \A j \in Jobs : j # i => (Ran(j)' <=> Ran(j))
  BY <1>2, <1>5, Distinct DEF Ran
<1>8. FailedJobs' = IF Fails(text) THEN FailedJobs \cup {i} ELSE FailedJobs
  BY <1>2, <1>5, <1>6, <1>7 DEF FailedJobs
<1>9. TypeOK'
  <2>1. DOMAIN outcome' = Jobs /\ Held' = Held /\ Outcomes' = Outcomes
    BY <1>0, <1>5 DEF Held, Outcomes
  <2>2. saved' \subseteq Jobs
    BY <1>0, <1>3 DEF TypeOK, KeepFirst
  <2> QED BY <1>0, <1>1, <1>2, <1>4, <1>5, <2>1, <2>2 DEF TypeOK
<1>10. RunState'
  <2>1. saved' \subseteq FailedJobs'
    BY <1>1, <1>3, <1>8 DEF RunState, KeepFirst
  <2>2. ShortCircuits /\ FailedJobs' # {} => saved' # {}
    BY <1>1, <1>3, <1>8 DEF RunState, KeepFirst
  <2> QED BY <1>1, <2>1, <2>2 DEF RunState, ShortCircuits
<1>11. OneOwner'
  <2>1. ASSUME NEW j \in Jobs
        PROVE  /\ j \in waiting => ~Ran(j)' /\ \A v \in Workers : worker'[v].job # j
               /\ j \notin waiting /\ ~Ran(j)' => \E v \in Workers : worker'[v].job = j
               /\ Ran(j)' => \A v \in Workers : worker'[v].job # j
               /\ \A u, v \in Workers : worker'[u].job = j /\ worker'[v].job = j => u = v
    <3>0. j # 0 /\ Idle.job = 0
      BY Distinct DEF Jobs
    <3>1. CASE j = i
      <4>1. j \notin waiting
        BY <3>1, <1>1, <1>b DEF OneOwner
      <4>2. \A v \in Workers : worker'[v].job # j
        <5>1. \A v \in Workers : worker[v].job = i => v = w
          BY <1>1, <1>b DEF OneOwner
        <5> QED BY <3>0, <3>1, <5>1, <1>4
      <4> QED BY <3>1, <4>1, <4>2, <1>7
    <3>2. CASE j # i
      <4>1. \A v \in Workers : worker'[v].job = j <=> worker[v].job = j
        BY <3>0, <3>2, <1>4, <1>b
      <4>2. Ran(j)' <=> Ran(j)
        BY <3>2, <1>7
      <4> QED BY <4>1, <4>2, <1>1 DEF OneOwner
    <3> QED BY <3>1, <3>2
  <2> QED BY <1>1, <1>2, <2>1 DEF OneOwner
<1> QED BY <1>1, <1>9, <1>10, <1>11 DEF Early, OkIsComplete, ErrorsAreReal, RunState, NoAnswer

\* When the pool is drained, or halted with an error kept, the bookkeeping
\* says which jobs ran; that decides which answer is right.
LEMMA GatherAnswer ==
  ASSUME IInv, Gather
  PROVE  \E where \in SUBSET FailedJobs :
           \/ /\ where # {} /\ answer' = Err({paths[j] : j \in where})
              /\ ShortCircuits \/ (where = FailedJobs /\ Drained)
           \/ where = {} /\ FailedJobs = {} /\ Drained /\ answer' = Ok
<1> USE DEF IInv
<1>1. CASE GatherAll
  <2>1. FailedJobs \in SUBSET FailedJobs
    OBVIOUS
  <2> WITNESS FailedJobs \in SUBSET FailedJobs
  <2> QED BY <1>1 DEF GatherAll
<1>2. CASE GatherFirst
  <2>1. phase = "run"
    BY <1>2 DEF GatherFirst
  <2>2. saved \in SUBSET FailedJobs
    BY <2>1 DEF RunState
  <2> WITNESS saved \in SUBSET FailedJobs
  <2> QED BY <1>2, <2>1 DEF GatherFirst, RunState, Halted
<1> QED BY <1>1, <1>2 DEF Gather

LEMMA GatherStep == ASSUME IInv, Gather PROVE IInv'
<1> USE DEF IInv
<1>1. /\ phase = "run" /\ phase' = "done" /\ PoolIdle
      /\ UNCHANGED <<api, root, bad_globs, rejected, disk, sealed, edits, todo, paths, skipped, warned,
                     waiting, worker, outcome, saved>>
  BY DEF Gather, GatherAll, GatherFirst, disk_vars, walk_vars, run_vars, Drained, Halted, PoolIdle
<1>2. /\ Jobs' = Jobs /\ FailedJobs' = FailedJobs
      /\ \A j \in Jobs : Ran(j)' <=> Ran(j)
  BY <1>1 DEF Jobs, FailedJobs, Ran
<1>3. PoolIdle'
  BY <1>1 DEF PoolIdle
<1>4. PICK where \in SUBSET FailedJobs :
        \/ where # {} /\ answer' = Err({paths[j] : j \in where})
        \/ where = {} /\ FailedJobs = {} /\ Drained /\ answer' = Ok
  BY GatherAnswer
<1>5. CASE where # {} /\ answer' = Err({paths[j] : j \in where})
  <2>1. answer'.tag = "err" /\ answer'.errors = {paths[j] : j \in where}
    BY <1>5 DEF Err, NoAnswer
  <2>2. ErrorsAreReal'
    <3>1. answer'.errors \subseteq {paths'[j] : j \in FailedJobs'}
      BY <1>1, <1>2, <1>4, <2>1
    <3>2. answer'.errors # {}
      BY <1>5, <2>1
    <3> QED BY <3>1, <3>2 DEF ErrorsAreReal
  <2>3. TypeOK'
    <3>1. \A j \in Jobs : paths[j] \in Places
      BY DEF TypeOK, Jobs, Places, Entries
    <3>2. {paths[j] : j \in where} \in SUBSET Places
      BY <1>4, <3>1 DEF FailedJobs
    <3> QED BY <1>1, <1>2, <1>5, <3>2, AnswerTypes DEF TypeOK, Held, Outcomes
  <2> QED BY <1>1, <1>3, <2>1, <2>2, <2>3 DEF Early, OneOwner, OkIsComplete
<1>6. CASE where = {} /\ FailedJobs = {} /\ Drained /\ answer' = Ok
  <2>1. answer'.tag = "ok" /\ answer'.scanned = Len(paths)
    BY <1>6 DEF Ok
  <2>2. \A j \in Jobs : Ran(j)
    BY <1>1, <1>6, Distinct DEF OneOwner, Drained, Jobs
  <2>3. OkIsComplete'
    BY <1>1, <1>2, <1>6, <2>1, <2>2 DEF OkIsComplete, FailedJobs
  <2>4. TypeOK'
    BY <1>1, <1>2, <1>6, AnswerTypes DEF TypeOK, Held, Outcomes
  <2> QED BY <1>1, <1>3, <2>1, <2>3, <2>4 DEF Early, OneOwner, ErrorsAreReal
<1> QED BY <1>4, <1>5, <1>6

LEMMA DiskStep == ASSUME IInv, Environment PROVE IInv'
<1> USE DEF IInv
<1>1. /\ UNCHANGED <<api, root, bad_globs, phase, rejected, todo, paths, skipped, warned,
                     waiting, worker, outcome, saved, answer>>
      /\ disk' \in [Files -> Texts] /\ sealed' \subseteq Dirs \cup {"tree"} /\ edits' \in Nat
      /\ phase # "done"
  BY DEF Environment, Edit, Seal, walk_vars, run_vars, TypeOK
<1>2. /\ Jobs' = Jobs /\ FailedJobs' = FailedJobs
      /\ \A j \in Jobs : Ran(j)' <=> Ran(j)
      /\ Held' = Held /\ Outcomes' = Outcomes
  BY <1>1 DEF Jobs, FailedJobs, Ran, Held, Outcomes
<1>3. TypeOK'
  BY <1>1, <1>2 DEF TypeOK
<1>4. /\ PoolIdle' <=> PoolIdle
      /\ Early' <=> Early
      /\ EarlyState' <=> EarlyState
      /\ RunState' <=> RunState
  BY <1>1, <1>2 DEF PoolIdle, Early, EarlyState, RunState, ShortCircuits
<1>5. OneOwner'
  BY <1>1, <1>2 DEF OneOwner
<1>6. answer = NoAnswer
  BY <1>1 DEF Early, EarlyState, RunState, TypeOK
<1> QED BY <1>1, <1>3, <1>4, <1>5, <1>6 DEF OkIsComplete, ErrorsAreReal, NoAnswer

LEMMA StutterStep == ASSUME IInv, UNCHANGED vars PROVE IInv'
BY DEF IInv, vars, disk_vars, walk_vars, run_vars, TypeOK, Held, Outcomes, PoolIdle, Early,
       EarlyState, RunState, OneOwner, OkIsComplete, ErrorsAreReal, Unusable, Jobs, FailedJobs,
       Ran, ShortCircuits

THEOREM Invariance == Spec => []IInv
<1>1. IInv /\ [Next]_vars => IInv'
  <2> SUFFICES ASSUME IInv, [Next]_vars PROVE IInv'
    OBVIOUS
  <2>0. CASE Open
    BY <2>0, OpenStep
  <2>1. CASE TraversalError \/ Reject \/ WarnAndSkip \/ GeneratedSkip \/ Select
    BY <2>1, WalkStep
  <2>2. CASE StartJobs
    BY <2>2, StartStep
  <2>3. CASE \E w \in Workers : Work(w)
    BY <2>3, TakeStep, FinishStep DEF Work
  <2>4. CASE Gather
    BY <2>4, GatherStep
  <2>5. CASE Environment
    BY <2>5, DiskStep
  <2>6. CASE UNCHANGED vars
    BY <2>6, StutterStep
  <2> QED BY <2>0, <2>1, <2>2, <2>3, <2>4, <2>5, <2>6 DEF Next, Walk
<1> QED BY InitInv, <1>1, PTL DEF Spec

\* Every variable of the scan keeps its type, for any tree and any pool: in
\* particular no job number leaves the range of the pool's outcomes.
THEOREM TypeCorrect == Spec => []TypeOK
<1>1. IInv => TypeOK
  BY DEF IInv
<1> QED BY Invariance, <1>1, PTL

\* No job of the pool is lost or run twice, for any number of workers.
THEOREM JobsHaveOneOwner == Spec => []OneOwner
<1>1. IInv => OneOwner
  BY DEF IInv
<1> QED BY Invariance, <1>1, PTL

\* An Ok answer has every selected file analysed, and none of them failed,
\* for any tree, any pool and any sequence of edits while the scan runs.
THEOREM OkMeansComplete == Spec => []OkIsComplete
<1>1. IInv => OkIsComplete
  BY DEF IInv
<1> QED BY Invariance, <1>1, PTL

\* An Err answer names only what did fail: the root, pattern or directory that
\* was unusable when the scan gave up on it, or files whose analysis failed.
THEOREM ErrMeansFailure == Spec => []ErrorsAreReal
<1>1. IInv => ErrorsAreReal
  BY DEF IInv
<1> QED BY Invariance, <1>1, PTL


-----------------------------------------------------------------------------
(* The scan keeps its promise *)

\* Before the pool starts nothing has been seen and nothing returned.
LEMMA NothingYet == ASSUME IInv, Early PROVE Seen = {} /\ Verdict = <<>>
<1>1. outcome = <<>> /\ answer = NoAnswer
  BY DEF IInv, EarlyState
<1>2. DOMAIN outcome = {}
  BY <1>1
<1> QED BY <1>1, <1>2 DEF Seen, Verdict, NoAnswer

LEMMA SeenInit == Init => Promise!Init
<1> SUFFICES ASSUME Init PROVE Promise!Init
  OBVIOUS
<1>1. Seen = {} /\ Verdict = <<>>
  BY InitInv, NothingYet DEF Init, Early
<1>2. Unusable \in SUBSET Promise!Places
  BY InitInv DEF IInv, TypeOK, Unusable, Promise!Places
<1> QED BY <1>1, <1>2 DEF Promise!Init

\* Opening the root and walking change nothing a caller can see, or return
\* the one place that cannot be used.
LEMMA WalkKeepsPromise ==
  ASSUME IInv, Open \/ Walk
  PROVE  [Promise!Next]_<<Unusable, Seen, Verdict>>
<1>1. Early
  BY DEF Open, RootMissing, RootResolved, BadGlob, RootUnopened, OpenTree, OpenFile,
         Walk, TraversalError, Reject, WarnAndSkip, GeneratedSkip, Select, Classifiable,
         StartJobs, Early
<1>2. Unusable' = Unusable
  BY DEF Open, RootMissing, RootResolved, BadGlob, RootUnopened, OpenTree, OpenFile, Fail,
         Walk, TraversalError, Reject, WarnAndSkip, GeneratedSkip, Select, StartJobs,
         disk_vars, Unusable
<1>3. Seen = {} /\ Verdict = <<>>
  BY <1>1, NothingYet
<1>4. Seen' = {}
  <2>1. \A i \in DOMAIN outcome' : ~Ran(i)'
    <3>1. CASE StartJobs
      BY <3>1 DEF StartJobs, Ran
    <3>2. CASE outcome' = outcome
      <4>1. outcome = <<>>
        BY <1>1 DEF IInv, EarlyState
      <4> QED BY <3>2, <4>1
    <3> QED BY <3>1, <3>2
        DEF Open, RootMissing, RootResolved, BadGlob, RootUnopened, OpenTree, OpenFile, Fail,
            Walk, TraversalError, Reject, WarnAndSkip, GeneratedSkip, Select, run_vars
  <2> QED BY <2>1 DEF Seen
<1>5. CASE \E place \in Unusable : Fail({place})
  <2>1. PICK place \in Unusable : Fail({place})
    BY <1>5
  <2>2. Verdict' = Promise!ErrVerdict({place})
    BY <2>1 DEF Fail, Verdict, Err, NoAnswer, Promise!ErrVerdict
  <2>3. Promise!ReturnErr
    BY <1>2, <1>3, <1>4, <2>2 DEF Promise!ReturnErr
  <2> QED BY <2>3 DEF Promise!Next
<1>6. CASE answer' = answer
  BY <1>2, <1>3, <1>4, <1>6 DEF Verdict
<1>7. (\E place \in Unusable : Fail({place})) \/ answer' = answer
  <2>1. CASE Open
    BY <2>1 DEF Open, RootMissing, RootResolved, BadGlob, RootUnopened, OpenTree, OpenFile,
                Unusable
  <2>2. CASE Walk
    BY <2>2 DEF Walk, TraversalError, Reject, WarnAndSkip, GeneratedSkip, Select, StartJobs,
                Unusable
  <2> QED BY <2>1, <2>2
<1> QED BY <1>5, <1>6, <1>7

\* A job that ends adds one pair, a file and the text it held, to what has
\* been seen; taking a job shows nothing.
LEMMA WorkKeepsPromise ==
  ASSUME IInv, NEW w \in Workers, Work(w)
  PROVE  [Promise!Next]_<<Unusable, Seen, Verdict>>
<1>1. /\ phase = "run" /\ answer' = answer /\ paths' = paths /\ Unusable' = Unusable
  BY DEF IInv, Work, Take, Finish, walk_vars, disk_vars, PoolIdle, Unusable
<1>2. answer = NoAnswer /\ outcome \in [Jobs -> Outcomes]
  BY <1>1, PoolTypes DEF IInv, RunState
<1>3. Verdict = <<>> /\ Verdict' = Verdict
  BY <1>1, <1>2 DEF Verdict, NoAnswer
<1>4. CASE Take(w)
  <2>1. outcome' = outcome
    BY <1>4 DEF Take
  <2>2. Seen' = Seen
    BY <1>1, <2>1 DEF Seen, Ran
  <2> QED BY <1>1, <1>3, <2>2
<1>5. CASE Finish(w)
  <2>1. worker[w].job \in Jobs /\ worker[w].text \in Texts
    BY <1>1, <1>5, PoolTypes DEF Finish, IInv
  <2>2. PICK i \in Jobs, text \in Texts : worker[w].job = i /\ worker[w].text = text
    BY <2>1
  <2>3. outcome' = [outcome EXCEPT ![i] = text]
    BY <1>5, <2>2 DEF Finish
  <2>4. ~Ran(i)
    BY <1>1, <2>2 DEF IInv, OneOwner
  <2>5. Ran(i)' /\ \A j \in Jobs : j # i => (Ran(j)' <=> Ran(j)) /\ outcome'[j] = outcome[j]
    BY <1>2, <2>2, <2>3, Distinct DEF Ran
  <2>6. Seen' = Seen \cup {<<paths[i], text>>}
    <3>1. DOMAIN outcome = Jobs /\ DOMAIN outcome' = Jobs
      BY <1>2, <2>3
    <3>2. Seen = {<<paths[j], outcome[j]>> : j \in {k \in Jobs : Ran(k)}}
      BY <3>1 DEF Seen
    <3>3. Seen' = {<<paths[j], outcome'[j]>> : j \in {k \in Jobs : Ran(k)'}}
      BY <1>1, <3>1 DEF Seen
    <3>4. {k \in Jobs : Ran(k)'} = {k \in Jobs : Ran(k)} \cup {i}
      BY <2>5
    <3>5. outcome'[i] = text
      BY <1>2, <2>3
    <3> QED BY <3>2, <3>3, <3>4, <3>5, <2>4, <2>5
  <2>7. paths[i] \in Files
    BY DEF IInv, TypeOK, Jobs
  <2>8. Promise!Analyse
    BY <1>1, <1>3, <2>6, <2>7 DEF Promise!Analyse
  <2> QED BY <2>8 DEF Promise!Next
<1> QED BY <1>4, <1>5 DEF Work

\* Gathering is the abstract return: Err for some of the files that were
\* seen to fail, or Ok with exactly the findings of what was seen.
LEMMA GatherKeepsPromise ==
  ASSUME IInv, Gather
  PROVE  [Promise!Next]_<<Unusable, Seen, Verdict>>
<1>1. /\ phase = "run" /\ phase' = "done" /\ PoolIdle
      /\ UNCHANGED <<paths, skipped, outcome, Unusable>>
  BY DEF Gather, GatherAll, GatherFirst, walk_vars, run_vars, disk_vars, Drained, Halted,
         PoolIdle, Unusable
<1>2. answer = NoAnswer /\ outcome \in [Jobs -> Outcomes] /\ paths \in Seq(Files)
  BY <1>1, PoolTypes DEF IInv, RunState, TypeOK
<1>3. Verdict = <<>> /\ Seen' = Seen
  BY <1>1, <1>2 DEF Verdict, NoAnswer, Seen, Ran
<1>4. Seen = {<<paths[j], outcome[j]>> : j \in {k \in Jobs : Ran(k)}}
  BY <1>2 DEF Seen
<1>5. \A text : Promise!Bad(text) <=> Fails(text)
  BY DEF Promise!Bad, Fails
<1>6. PICK where \in SUBSET FailedJobs :
        \/ where # {} /\ answer' = Err({paths[j] : j \in where})
        \/ where = {} /\ FailedJobs = {} /\ Drained /\ answer' = Ok
  BY GatherAnswer
<1>7. CASE where # {} /\ answer' = Err({paths[j] : j \in where})
  <2> DEFINE named == {paths[j] : j \in where}
  <2>1. Verdict' = Promise!ErrVerdict(named)
    BY <1>7 DEF Verdict, Err, NoAnswer, Promise!ErrVerdict
  <2>2. ASSUME NEW j \in where
        PROVE  paths[j] \in {p[1] : p \in {q \in Seen : Promise!Bad(q[2])}}
    <3>1. j \in Jobs /\ Ran(j) /\ Fails(outcome[j])
      BY <1>6 DEF FailedJobs
    <3>2. <<paths[j], outcome[j]>> \in Seen
      BY <3>1, <1>4
    <3>3. <<paths[j], outcome[j]>> \in {q \in Seen : Promise!Bad(q[2])}
      BY <3>1, <3>2, <1>5
    <3> QED BY <3>3
  <2>3. named # {} /\ named \in SUBSET ({p[1] : p \in {q \in Seen : Promise!Bad(q[2])}})
    BY <1>7, <2>2
  <2> HIDE DEF named
  <2>4. Promise!ReturnErr
    BY <1>1, <1>3, <2>1, <2>3 DEF Promise!ReturnErr
  <2> QED BY <2>4 DEF Promise!Next
<1>8. CASE FailedJobs = {} /\ Drained /\ answer' = Ok
  <2>1. \A j \in Jobs : Ran(j) /\ outcome[j] \in Texts /\ ~Fails(outcome[j])
    BY <1>1, <1>2, <1>8, Distinct
    DEF IInv, OneOwner, Drained, Jobs, FailedJobs, Ran, Outcomes
  <2>2. \A p \in Seen : ~Promise!Bad(p[2])
    BY <1>4, <1>5, <2>1
  <2>3. \A f, t : <<f, t>> \in Seen <=> \E i \in Jobs : paths[i] = f /\ outcome[i] = t
    BY <1>4, <2>1
  <2>4. ASSUME NEW f \in Files, NEW c \in Checks
        PROVE  /\ (\E i \in Jobs : paths[i] = f /\ c \in Findings(outcome[i]))
                    <=> \E t \in Texts : <<f, t>> \in Seen /\ c \in t.hits \ t.crash
               /\ (\E i \in Jobs : paths[i] = f /\ c \in Panics(outcome[i]))
                    <=> \E t \in Texts : <<f, t>> \in Seen /\ c \in t.crash
    <3>1. ASSUME NEW i \in Jobs, paths[i] = f
          PROVE  outcome[i] \in Texts /\ <<f, outcome[i]>> \in Seen
      BY <2>1, <2>3, <3>1
    <3>2. ASSUME NEW t \in Texts, <<f, t>> \in Seen
          PROVE  \E i \in Jobs : paths[i] = f /\ outcome[i] = t
      BY <2>3, <3>2
    <3>3. \A t : Findings(t) = t.hits \ t.crash /\ Panics(t) = t.crash
      BY DEF Findings, Panics
    <3> QED BY <3>1, <3>2, <3>3, Zenon
  <2>5. Ok.report = Promise!OkVerdict.report /\ Ok.panics = Promise!OkVerdict.panics
    <3> DEFINE Reported(p) == \E i \in Jobs : paths[i] = p[1] /\ p[2] \in Findings(outcome[i])
               Panicked(p) == \E i \in Jobs : paths[i] = p[1] /\ p[2] \in Panics(outcome[i])
               SeenHit(p)  == \E t \in Texts : <<p[1], t>> \in Seen /\ p[2] \in t.hits \ t.crash
               SeenCrash(p) == \E t \in Texts : <<p[1], t>> \in Seen /\ p[2] \in t.crash
    <3>1. ASSUME NEW p \in Files \X Checks
          PROVE  (Reported(p) <=> SeenHit(p)) /\ (Panicked(p) <=> SeenCrash(p))
      <4>1. p[1] \in Files /\ p[2] \in Checks
        OBVIOUS
      <4> QED BY <4>1, <2>4, Zenon
    <3>2. Ok.report = {p \in Files \X Checks : Reported(p)}
      BY DEF Ok
    <3>3. Ok.panics = {p \in Files \X Checks : Panicked(p)}
      BY DEF Ok
    <3>4. Promise!OkVerdict.report = {p \in Files \X Checks : SeenHit(p)}
      BY DEF Promise!OkVerdict
    <3>5. Promise!OkVerdict.panics = {p \in Files \X Checks : SeenCrash(p)}
      BY DEF Promise!OkVerdict
    <3> HIDE DEF Reported, Panicked, SeenHit, SeenCrash
    <3> QED BY <3>1, <3>2, <3>3, <3>4, <3>5
  <2>6. Verdict' = Promise!OkVerdict
    BY <1>8, <2>5 DEF Verdict, Ok, Promise!OkVerdict
  <2>7. Promise!ReturnOk
    BY <1>1, <1>3, <2>2, <2>6 DEF Promise!ReturnOk
  <2> QED BY <2>7 DEF Promise!Next
<1> QED BY <1>6, <1>7, <1>8

\* Every behaviour of the scan, for any tree, any pool and any edits, is one
\* ScanPromise allows: the answer is given once, is final, and is built from
\* the texts the workers read.
THEOREM ScanKeepsPromise == Spec => KeepsPromise
<1>1. IInv /\ [Next]_vars => [Promise!Next]_<<Unusable, Seen, Verdict>>
  <2> SUFFICES ASSUME IInv, [Next]_vars
               PROVE  [Promise!Next]_<<Unusable, Seen, Verdict>>
    OBVIOUS
  <2>1. CASE Environment
    <3>1. UNCHANGED <<paths, outcome, answer>> /\ phase # "done"
      BY <2>1 DEF Environment, Edit, Seal, walk_vars, run_vars
    <3>2. answer = NoAnswer
      BY <3>1 DEF IInv, TypeOK, Early, EarlyState, RunState
    <3>3. Verdict = <<>> /\ Verdict' = <<>> /\ Seen' = Seen
      BY <3>1, <3>2 DEF Verdict, NoAnswer, Seen, Ran
    <3>4. Unusable' \in SUBSET Promise!Places
      BY <2>1, DiskStep DEF IInv, TypeOK, Unusable, Promise!Places
    <3> QED BY <3>3, <3>4 DEF Promise!Change, Promise!Next
  <2>2. CASE UNCHANGED vars
    BY <2>2 DEF vars, disk_vars, walk_vars, run_vars, Seen, Ran, Verdict, Unusable
  <2> QED BY <2>1, <2>2, WalkKeepsPromise, WorkKeepsPromise, GatherKeepsPromise DEF Next
<1> QED BY SeenInit, <1>1, Invariance, PTL DEF Spec, KeepsPromise, Promise!Spec

-----------------------------------------------------------------------------
(* The answer of an undisturbed scan *)

\* No edit so far, and a root that is walked or read: not a given list.
Undisturbed == edits = 0 /\ api # "files"

\* Nothing but the root and the patterns can stop the scan so far.
Unblocked == {root, "glob"} \cap Unusable = {}

\* What has been yielded has been put where the disk says it belongs, and a
\* sealed directory is still to come. A root that is a file is yielded already.
WalkSoFar ==
  /\ Unblocked
  /\ root # "tree" => todo = <<>>
  /\ IsInjective(todo) /\ IsInjective(paths)
  /\ ToSet(paths) = Target \ ToSet(todo)
  /\ skipped = Cardinality(Generated \ ToSet(todo))
  /\ LeftOut \ ToSet(todo) \subseteq warned
  /\ root = "tree" => sealed \subseteq ToSet(todo)

\* The selected files are the target, once each, and every text a worker
\* holds or has analysed is the one on disk.
RunSoFar ==
  /\ Obstacles = {}
  /\ IsInjective(paths)
  /\ ToSet(paths) = Target
  /\ skipped = Cardinality(Generated)
  /\ LeftOut \subseteq warned
  /\ \A w \in Workers : worker[w] # Idle => worker[w].text = disk[paths[worker[w].job]]
  /\ \A i \in Jobs : Ran(i) => outcome[i] = disk[paths[i]]

QuietInv ==
  /\ phase \in {"start", "globs"} => todo = <<>> /\ paths = <<>> /\ skipped = 0
  /\ Undisturbed /\ phase = "walk" => WalkSoFar
  /\ Undisturbed /\ phase = "run" => RunSoFar
  /\ QuietVerdict

\* A listing of a directory tree names every entry once.
LEMMA ListingIsEverything ==
  ASSUME NEW s \in SetToSeqs(Entries)
  PROVE  IsInjective(s) /\ ToSet(s) = Entries
<1>1. IsFiniteSet(Entries)
  BY FS_Union, ScanAssumption DEF Entries
<1> DEFINE n == Cardinality(Entries)
<1>2. n \in Nat
  BY <1>1, FS_CardinalityType
<1>3. s \in [1..n -> Entries] /\ \A i, j \in 1..n : i # j => s[i] # s[j]
  BY DEF SetToSeqs
<1>4. Cardinality(1..n) = n
  BY <1>2, FS_Interval
<1>5. s \in Injection(1..n, Entries)
  BY <1>3 DEF Injection, IsInjective
<1>6. s \in Surjection(1..n, Entries)
  BY <1>1, <1>4, <1>5, FS_Injection
<1>7. \A e \in Entries : \E i \in 1..n : s[i] = e
  BY <1>6 DEF Surjection
<1> QED BY <1>3, <1>5, <1>7 DEF Injection, ToSet

\* Taking the head off a sequence without repetitions.
LEMMA PopHead ==
  ASSUME NEW S, NEW s \in Seq(S), s # <<>>, IsInjective(s)
  PROVE  /\ Tail(s) \in Seq(S) /\ IsInjective(Tail(s))
         /\ Head(s) \in ToSet(s)
         /\ ToSet(Tail(s)) = ToSet(s) \ {Head(s)}
<1>1. Len(s) \in Nat \ {0} /\ DOMAIN s = 1..Len(s) /\ Head(s) = s[1]
  OBVIOUS
<1>2. /\ Tail(s) \in Seq(S) /\ Len(Tail(s)) = Len(s) - 1
      /\ DOMAIN Tail(s) = 1..(Len(s) - 1)
      /\ \A i \in 1..(Len(s) - 1) : Tail(s)[i] = s[i + 1]
  BY HeadTailProperties
<1>3. \A i, j \in 1..Len(s) : s[i] = s[j] => i = j
  BY <1>1 DEF IsInjective
<1>4. IsInjective(Tail(s))
  <2> SUFFICES ASSUME NEW i \in 1..(Len(s) - 1), NEW j \in 1..(Len(s) - 1),
                      Tail(s)[i] = Tail(s)[j]
               PROVE  i = j
    BY <1>2 DEF IsInjective
  <2>1. i + 1 \in 1..Len(s) /\ j + 1 \in 1..Len(s) /\ s[i + 1] = s[j + 1]
    BY <1>1, <1>2
  <2>2. i + 1 = j + 1
    BY <1>3, <2>1
  <2> QED BY <2>2
<1>5. ToSet(Tail(s)) = {s[i] : i \in 2..Len(s)}
  <2>1. \A i \in 1..(Len(s) - 1) : i + 1 \in 2..Len(s) /\ Tail(s)[i] = s[i + 1]
    BY <1>1, <1>2
  <2>2. \A i \in 2..Len(s) : i - 1 \in 1..(Len(s) - 1) /\ Tail(s)[i - 1] = s[i]
    BY <1>1, <1>2
  <2>3. ToSet(Tail(s)) = {Tail(s)[i] : i \in 1..(Len(s) - 1)}
    BY <1>2 DEF ToSet
  <2>4. \A x \in ToSet(Tail(s)) : \E i \in 2..Len(s) : x = s[i]
    BY <2>1, <2>3
  <2>5. \A i \in 2..Len(s) : s[i] \in ToSet(Tail(s))
    BY <2>2, <2>3
  <2> QED BY <2>4, <2>5
<1>6. \A i \in 2..Len(s) : s[i] # s[1]
  BY <1>1, <1>3
<1>7. ToSet(s) = {s[1]} \cup {s[i] : i \in 2..Len(s)}
  BY <1>1 DEF ToSet
<1> QED BY <1>1, <1>2, <1>4, <1>5, <1>6, <1>7

\* Appending a value a sequence does not hold yet.
LEMMA PushNew ==
  ASSUME NEW S, NEW s \in Seq(S), NEW e \in S, IsInjective(s), e \notin ToSet(s)
  PROVE  IsInjective(Append(s, e)) /\ ToSet(Append(s, e)) = ToSet(s) \cup {e}
<1> DEFINE t == Append(s, e)
<1>1. Len(s) \in Nat /\ DOMAIN s = 1..Len(s)
  OBVIOUS
<1>2. /\ DOMAIN t = 1..(Len(s) + 1)
      /\ \A i \in 1..Len(s) : t[i] = s[i]
      /\ t[Len(s) + 1] = e
  BY AppendProperties
<1> HIDE DEF t
<1>3. \A i \in 1..Len(s) : s[i] # e
  BY <1>1 DEF ToSet
<1>4. \A i, j \in 1..Len(s) : s[i] = s[j] => i = j
  BY <1>1 DEF IsInjective
<1>5. IsInjective(t)
  <2> SUFFICES ASSUME NEW i \in 1..(Len(s) + 1), NEW j \in 1..(Len(s) + 1), t[i] = t[j]
               PROVE  i = j
    BY <1>2 DEF IsInjective
  <2>1. CASE i = Len(s) + 1 \/ j = Len(s) + 1
    BY <2>1, <1>1, <1>2, <1>3
  <2>2. CASE i \in 1..Len(s) /\ j \in 1..Len(s)
    BY <2>2, <1>2, <1>4
  <2> QED BY <2>1, <2>2, <1>1
<1>6. ToSet(t) = ToSet(s) \cup {e}
  <2>1. \A i \in 1..(Len(s) + 1) : t[i] \in ToSet(s) \cup {e}
    BY <1>1, <1>2 DEF ToSet
  <2>2. \A x \in ToSet(s) : \E i \in 1..(Len(s) + 1) : t[i] = x
    BY <1>1, <1>2 DEF ToSet
  <2>3. Len(s) + 1 \in 1..(Len(s) + 1)
    BY <1>1
  <2> QED BY <1>2, <2>1, <2>2, <2>3 DEF ToSet
<1> QED BY <1>5, <1>6 DEF t

\* A sequence without repetitions is as long as the set of its values.
LEMMA LengthIsCardinality ==
  ASSUME NEW S, NEW s \in Seq(S), IsInjective(s)
  PROVE  Len(s) = Cardinality(ToSet(s))
<1>1. Len(s) \in Nat /\ DOMAIN s = 1..Len(s)
  OBVIOUS
<1> DEFINE n == Len(s)  T == ToSet(s)
<1>2. s \in [1..n -> T] /\ \A t \in T : \E i \in 1..n : s[i] = t
  BY <1>1 DEF ToSet
<1>3. s \in Bijection(1..n, T)
  BY <1>2 DEF Bijection, Injection, Surjection, IsInjective
<1>4. IsFiniteSet(1..n) /\ Cardinality(1..n) = n
  BY <1>1, FS_Interval
<1> HIDE DEF n, T
<1>5. ExistsBijection(1..n, T)
  BY <1>3 DEF ExistsBijection
<1>6. Cardinality(T) = n
  BY <1>4, <1>5, FS_Bijection
<1> QED BY <1>6 DEF n, T

LEMMA TargetsAreFiles ==
  ASSUME IInv
  PROVE  Target \subseteq Files /\ Generated \subseteq Files /\ IsFiniteSet(Generated)
<1>1. Target \subseteq Files /\ Generated \subseteq Files
  BY DEF IInv, TypeOK, Target, Generated
<1> QED BY <1>1, FS_Subset, ScanAssumption

LEMMA QuietInit == Init => QuietInv
BY DEF Init, QuietInv, QuietVerdict

\* An error about one of the obstacles is what the tree determines.
LEMMA BlockedQuiet ==
  ASSUME NEW place \in Obstacles, Fail({place})
  PROVE  QuietInv'
<1>1. phase' = "done" /\ answer'.tag = "err" /\ answer'.errors = {place}
  BY DEF Fail, Err, NoAnswer
<1>2. Obstacles' = Obstacles
  BY DEF Fail, disk_vars, Obstacles, Unusable
<1> QED BY <1>1, <1>2 DEF QuietInv, QuietVerdict

\* The walk starts with everything still to come, or with its one file.
LEMMA OpenQuiet == ASSUME IInv, QuietInv, Open PROVE QuietInv'
<1>1. CASE RootMissing \/ BadGlob \/ RootUnopened
  <2>1. PICK place \in {root, "glob"} \cap Unusable : Fail({place})
    BY <1>1 DEF RootMissing, BadGlob, RootUnopened, Unusable
  <2>2. place \in Obstacles
    BY <2>1 DEF Obstacles
  <2> QED BY <2>1, <2>2, BlockedQuiet
<1>2. CASE RootResolved
  <2>1. phase' = "globs" /\ Unusable' = Unusable
    BY <1>2 DEF RootResolved, disk_vars, Unusable
  <2> QED BY <1>2, <2>1 DEF RootResolved, walk_vars, disk_vars, QuietInv, QuietVerdict
<1>3. ASSUME OpenTree \/ OpenFile
      PROVE  /\ phase' = "walk" /\ todo = <<>> /\ paths = <<>> /\ skipped = 0 /\ skipped' = 0
             /\ Undisturbed' <=> Undisturbed
             /\ UNCHANGED <<Target, Generated, LeftOut, Unusable, sealed, root>>
  <2>1. /\ phase = "globs" /\ phase' = "walk"
        /\ UNCHANGED <<api, root, bad_globs, rejected, disk, sealed, edits, skipped>>
    BY <1>3 DEF OpenTree, OpenFile, disk_vars
  <2>2. todo = <<>> /\ paths = <<>> /\ skipped = 0
    BY <2>1 DEF QuietInv
  <2> QED BY <2>1, <2>2 DEF Undisturbed, Target, Generated, LeftOut, Unusable
<1>4. CASE OpenTree
  <2>1. ASSUME Undisturbed PROVE WalkSoFar'
    <3>1. root = "tree" /\ todo' \in SetToSeqs(Entries) /\ paths' = <<>>
      BY <1>3, <1>4, <2>1 DEF OpenTree, Undisturbed, Listings
    <3>2. IsInjective(todo') /\ ToSet(todo') = Entries
      BY <3>1, ListingIsEverything
    <3>3. Unblocked
      BY <1>4, <2>1, ScanAssumption DEF OpenTree, Unblocked, Unusable, Undisturbed, IInv, TypeOK, Entries
    <3>4. /\ Target \subseteq Entries /\ Generated \subseteq Entries
          /\ LeftOut \subseteq Entries /\ sealed \subseteq Entries
      BY <3>1, <3>3 DEF IInv, TypeOK, Target, Generated, LeftOut, Entries, Unblocked, Unusable
    <3>5. IsInjective(paths') /\ ToSet(paths') = {}
      BY <3>1 DEF IsInjective, ToSet
    <3>6. /\ Generated \ ToSet(todo') = {} /\ Target \ ToSet(todo') = {}
          /\ LeftOut \ ToSet(todo') = {}
      BY <3>2, <3>4
    <3>7. Cardinality(Generated \ ToSet(todo')) = 0
      BY <3>6, FS_EmptySet
    <3> QED BY <1>3, <1>4, <3>1, <3>2, <3>3, <3>4, <3>5, <3>6, <3>7 DEF WalkSoFar, Unblocked
  <2> QED BY <1>3, <1>4, <2>1 DEF QuietInv, QuietVerdict
<1>5. CASE OpenFile
  <2>1. ASSUME Undisturbed PROVE WalkSoFar'
    <3>1. root \in Files /\ root # "tree" /\ paths' = <<root>> /\ todo' = <<>>
      BY <1>3, <1>5, ScanAssumption DEF OpenFile, Entries
    <3>2. IsInjective(paths') /\ ToSet(paths') = {root} /\ IsInjective(todo') /\ ToSet(todo') = {}
      BY <3>1 DEF IsInjective, ToSet
    <3>3. Target = {root} /\ Generated = {} /\ LeftOut = {}
      BY <3>1 DEF Target, Generated, LeftOut
    <3>4. Generated \ ToSet(todo') = {} /\ Cardinality(Generated \ ToSet(todo')) = 0
      <4>1. Generated \ ToSet(todo') = {}
        BY <3>3
      <4> QED BY <4>1, FS_EmptySet
    <3>5. Unblocked
      BY <1>5, ScanAssumption DEF OpenFile, Unblocked, Unusable, IInv, TypeOK, Entries
    <3>6. Target \ ToSet(todo') = {root}
      BY <3>2, <3>3
    <3>7. UNCHANGED <<Target, Generated, LeftOut, root, Unblocked>> /\ skipped' = 0
      BY <1>3, <1>5 DEF Unblocked
    <3> QED BY <3>1, <3>2, <3>3, <3>4, <3>5, <3>6, <3>7 DEF WalkSoFar
  <2> QED BY <1>3, <1>5, <2>1 DEF QuietInv, QuietVerdict
<1> QED BY <1>1, <1>2, <1>4, <1>5 DEF Open

\* Whatever the head of the listing is, it goes where the disk says.
LEMMA WalkQuiet ==
  ASSUME IInv, QuietInv, TraversalError \/ Reject \/ WarnAndSkip \/ GeneratedSkip \/ Select
  PROVE  QuietInv'
<1>1. /\ phase = "walk" /\ todo # <<>> /\ todo' = Tail(todo)
      /\ UNCHANGED <<api, root, bad_globs, rejected, disk, sealed, edits>>
  BY DEF TraversalError, Reject, WarnAndSkip, GeneratedSkip, Select, Classifiable, Fail, disk_vars
<1>2. /\ Target' = Target /\ Generated' = Generated /\ LeftOut' = LeftOut
      /\ Obstacles' = Obstacles /\ (Unblocked' <=> Unblocked) /\ (Undisturbed' <=> Undisturbed)
  BY <1>1 DEF Target, Generated, LeftOut, Undisturbed, Obstacles, Unblocked, Unusable
<1> DEFINE e == Head(todo)  Rest == ToSet(todo')
<1>3. ASSUME Undisturbed
      PROVE  /\ WalkSoFar /\ root = "tree" /\ e \in Entries
             /\ IsInjective(todo') /\ e \in ToSet(todo) /\ Rest = ToSet(todo) \ {e}
  <2>1. WalkSoFar /\ todo \in Seq(Entries)
    BY <1>1, <1>3 DEF QuietInv, IInv, TypeOK
  <2> QED BY <1>1, <2>1, PopHead DEF WalkSoFar
<1>4. CASE TraversalError
  <2>1. phase' = "done" /\ e \in sealed /\ Fail({e})
    BY <1>4 DEF TraversalError, Fail
  <2>2. CASE Undisturbed
    <3>1. e \in Obstacles
      BY <1>3, <2>1, <2>2 DEF WalkSoFar, Unblocked, Obstacles
    <3> QED BY <2>1, <3>1, BlockedQuiet
  <2>3. CASE ~Undisturbed
    BY <1>2, <2>1, <2>3 DEF QuietInv, QuietVerdict, Undisturbed
  <2> QED BY <2>2, <2>3
<1>5. CASE Reject \/ WarnAndSkip \/ GeneratedSkip \/ Select
  <2>1. phase' = "walk" /\ e \notin sealed
    BY <1>1, <1>5, ScanAssumption
    DEF Reject, WarnAndSkip, GeneratedSkip, Select, Classifiable, IInv, TypeOK, Entries
  <2>2. ASSUME Undisturbed PROVE WalkSoFar'
    <3>1. /\ root = "tree" /\ api # "files" /\ Unblocked
          /\ ToSet(paths) = Target \ ToSet(todo)
          /\ skipped = Cardinality(Generated \ ToSet(todo)) /\ LeftOut \ ToSet(todo) \subseteq warned
          /\ IsInjective(paths) /\ sealed \subseteq ToSet(todo)
      BY <1>3, <2>2 DEF WalkSoFar, Undisturbed
    <3>2. e \in ToSet(todo) /\ Rest = ToSet(todo) \ {e} /\ IsInjective(todo')
      BY <1>3, <2>2
    <3>3. CASE Reject
      <4>1. /\ e \notin Target /\ e \notin Generated /\ e \notin LeftOut
            /\ paths' = paths /\ skipped' = skipped /\ warned' = warned
        BY <3>1, <3>3, <2>1, ScanAssumption DEF Reject, Target, Generated, LeftOut, Entries
      <4>2. /\ Target \ Rest = Target \ ToSet(todo) /\ Generated \ Rest = Generated \ ToSet(todo)
            /\ LeftOut \ Rest = LeftOut \ ToSet(todo)
        BY <4>1, <3>2
      <4> QED BY <1>1, <1>2, <2>1, <3>1, <3>2, <4>1, <4>2 DEF WalkSoFar
    <3>4. CASE WarnAndSkip
      <4>1. /\ e \notin Target /\ e \notin Generated
            /\ paths' = paths /\ skipped' = skipped /\ warned' = warned \cup {e}
        BY <3>1, <3>4 DEF WarnAndSkip, Classifiable, HeaderUnreadable, Target, Generated
      <4>2. Target \ Rest = Target \ ToSet(todo) /\ Generated \ Rest = Generated \ ToSet(todo)
        BY <4>1, <3>2
      <4>3. LeftOut \ Rest \subseteq warned'
        BY <4>1, <3>1, <3>2
      <4> QED BY <1>1, <1>2, <2>1, <3>1, <3>2, <4>1, <4>2, <4>3 DEF WalkSoFar
    <3>5. CASE GeneratedSkip
      <4>1. /\ e \notin Target /\ e \in Generated /\ e \notin LeftOut
            /\ paths' = paths /\ skipped' = skipped + 1 /\ warned' = warned
        BY <3>1, <3>5 DEF GeneratedSkip, Classifiable, Target, Generated, LeftOut
      <4>2. Target \ Rest = Target \ ToSet(todo) /\ LeftOut \ Rest = LeftOut \ ToSet(todo)
        BY <4>1, <3>2
      <4>3. Cardinality(Generated \ Rest) = skipped + 1
        <5> DEFINE G == Generated \ ToSet(todo)
        <5>1. Generated \ Rest = G \cup {e} /\ e \notin G
          BY <4>1, <3>2
        <5>2. IsFiniteSet(G)
          BY FS_Subset, TargetsAreFiles
        <5>3. Cardinality(G) = skipped
          BY <3>1
        <5> HIDE DEF G
        <5> QED BY <5>1, <5>2, <5>3, FS_AddElement
      <4> QED BY <1>1, <1>2, <2>1, <3>1, <3>2, <4>1, <4>2, <4>3 DEF WalkSoFar
    <3>6. CASE Select
      <4>1. /\ e \in Files /\ e \in Target /\ e \notin Generated /\ e \notin LeftOut
            /\ paths' = Append(paths, e) /\ skipped' = skipped /\ warned' = warned
        BY <3>1, <3>6 DEF Select, Classifiable, Target, Generated, LeftOut
      <4>2. e \notin ToSet(paths) /\ paths \in Seq(Files)
        BY <3>1, <3>2 DEF IInv, TypeOK
      <4>3. IsInjective(paths') /\ ToSet(paths') = ToSet(paths) \cup {e}
        BY <3>1, <4>1, <4>2, PushNew
      <4>4. Target \ Rest = (Target \ ToSet(todo)) \cup {e}
        BY <4>1, <3>2
      <4>5. Generated \ Rest = Generated \ ToSet(todo) /\ LeftOut \ Rest = LeftOut \ ToSet(todo)
        BY <4>1, <3>2
      <4> QED BY <1>1, <1>2, <2>1, <3>1, <3>2, <4>1, <4>3, <4>4, <4>5 DEF WalkSoFar
    <3> QED BY <1>5, <3>3, <3>4, <3>5, <3>6
  <2> QED BY <1>2, <2>1, <2>2 DEF QuietInv, QuietVerdict
<1> QED BY <1>4, <1>5

LEMMA StartQuiet == ASSUME IInv, QuietInv, StartJobs PROVE QuietInv'
<1>1. /\ phase = "walk" /\ phase' = "run" /\ todo = <<>>
      /\ UNCHANGED <<api, root, bad_globs, rejected, disk, sealed, edits, paths, skipped, warned, worker>>
  BY DEF StartJobs, disk_vars, walk_vars
<1>2. /\ Target' = Target /\ Generated' = Generated /\ LeftOut' = LeftOut
      /\ (Undisturbed' <=> Undisturbed)
      /\ Obstacles' = Obstacles
  BY <1>1 DEF Target, Generated, LeftOut, Undisturbed, Obstacles, Unusable
<1>3. PoolIdle /\ Jobs' = Jobs /\ \A i \in Jobs : ~Ran(i)'
  BY <1>1 DEF IInv, StartJobs, Ran, Jobs
<1>4. ASSUME Undisturbed PROVE RunSoFar'
  <2>1. WalkSoFar /\ ToSet(todo) = {}
    BY <1>1, <1>4 DEF QuietInv, ToSet
  <2>2. Target \ {} = Target /\ Generated \ {} = Generated /\ LeftOut \ {} = LeftOut
    OBVIOUS
  <2>3. /\ Obstacles = {} /\ IsInjective(paths) /\ ToSet(paths) = Target
        /\ skipped = Cardinality(Generated) /\ LeftOut \subseteq warned
    BY <2>1, <2>2 DEF WalkSoFar, Unblocked, Obstacles
  <2> QED BY <1>1, <1>2, <1>3, <2>3 DEF RunSoFar, PoolIdle
<1> QED BY <1>1, <1>2, <1>4 DEF QuietInv, QuietVerdict

LEMMA WorkQuiet == ASSUME IInv, QuietInv, NEW w \in Workers, Work(w) PROVE QuietInv'
<1>1. /\ phase = "run" /\ phase' = "run"
      /\ UNCHANGED <<api, root, bad_globs, rejected, disk, sealed, edits, paths, skipped, warned>>
  BY DEF Work, Take, Finish, disk_vars, walk_vars, IInv, PoolIdle
<1>2. /\ Target' = Target /\ Generated' = Generated /\ LeftOut' = LeftOut /\ Jobs' = Jobs
      /\ Undisturbed' <=> Undisturbed
      /\ Obstacles' = Obstacles
  BY <1>1 DEF Target, Generated, LeftOut, Undisturbed, Obstacles, Unusable, Jobs
<1>3. ASSUME Undisturbed PROVE RunSoFar'
  <2>1. RunSoFar
    BY <1>1, <1>3 DEF QuietInv
  <2>2. CASE Take(w)
    <3>1. PICK i \in waiting : worker' = [worker EXCEPT ![w] = [job |-> i, text |-> disk[paths[i]]]]
      BY <2>2 DEF Take
    <3>2. \A v \in Workers : worker'[v] # Idle => worker'[v].text = disk[paths[worker'[v].job]]
      BY <2>1, <3>1 DEF RunSoFar, IInv, TypeOK
    <3>3. \A k \in Jobs : Ran(k)' => outcome'[k] = disk[paths[k]]
      BY <2>1, <2>2 DEF RunSoFar, Take, Ran
    <3> QED BY <1>1, <1>2, <2>1, <3>2, <3>3 DEF RunSoFar
  <2>3. CASE Finish(w)
    <3>1. worker[w] # Idle /\ worker[w].text = disk[paths[worker[w].job]]
      BY <2>1, <2>3 DEF Finish, RunSoFar
    <3>2. \A v \in Workers : worker'[v] # Idle => worker'[v].text = disk[paths[worker'[v].job]]
      BY <2>1, <2>3 DEF RunSoFar, Finish, IInv, TypeOK
    <3>3. ASSUME NEW i \in Jobs, Ran(i)' PROVE outcome'[i] = disk[paths[i]]
      <4>1. outcome \in [Jobs -> Outcomes]
        BY <1>1, PoolTypes DEF IInv
      <4>2. CASE i = worker[w].job
        BY <2>3, <3>1, <4>1, <4>2 DEF Finish
      <4>3. CASE i # worker[w].job
        BY <2>1, <2>3, <3>3, <4>1, <4>3 DEF Finish, RunSoFar, Ran
      <4> QED BY <4>2, <4>3
    <3> QED BY <1>1, <1>2, <2>1, <3>2, <3>3 DEF RunSoFar
  <2> QED BY <2>2, <2>3 DEF Work
<1> QED BY <1>1, <1>2, <1>3 DEF QuietInv, QuietVerdict

\* Every job's text is the one on disk, so what the pool collected is what
\* the disk says.
LEMMA GatherQuiet == ASSUME IInv, QuietInv, Gather PROVE QuietInv'
<1>1. /\ phase = "run" /\ phase' = "done"
      /\ UNCHANGED <<api, root, bad_globs, rejected, disk, sealed, edits, paths, skipped, warned>>
  BY DEF Gather, GatherAll, GatherFirst, disk_vars, walk_vars
<1>2. /\ Target' = Target /\ Generated' = Generated /\ LeftOut' = LeftOut
      /\ (Undisturbed' <=> Undisturbed)
      /\ Broken' = Broken /\ Obstacles' = Obstacles
  BY <1>1 DEF Target, Generated, LeftOut, Undisturbed, Broken, Obstacles, Unusable
<1> SUFFICES ASSUME Undisturbed PROVE QuietVerdict'
  BY <1>1, <1>2 DEF QuietInv, QuietVerdict, Undisturbed
<1>3. RunSoFar /\ Obstacles = {} /\ LeftOut \subseteq warned
  BY <1>1 DEF QuietInv, RunSoFar
<1>4. /\ paths \in Seq(Files) /\ DOMAIN paths = Jobs /\ IsInjective(paths)
      /\ ToSet(paths) = Target /\ skipped = Cardinality(Generated)
      /\ \A i \in Jobs : Ran(i) => outcome[i] = disk[paths[i]]
  BY <1>3 DEF RunSoFar, IInv, TypeOK, Jobs
<1>5. (\A i \in Jobs : paths[i] \in Target) /\ \A f \in Target : \E i \in Jobs : paths[i] = f
  BY <1>4 DEF ToSet
<1>6. \A i \in FailedJobs : paths[i] \in Broken
  BY <1>4, <1>5 DEF FailedJobs, Broken
<1>7. ASSUME Drained
      PROVE  /\ \A i \in Jobs : Ran(i)
             /\ \A f \in Broken : \E i \in FailedJobs : paths[i] = f
  <2>1. \A i \in Jobs : Ran(i)
    BY <1>1, <1>7, Distinct DEF IInv, OneOwner, Drained, Jobs
  <2> QED BY <2>1, <1>4, <1>5 DEF FailedJobs, Broken
<1>8. PICK where \in SUBSET FailedJobs :
        \/ /\ where # {} /\ answer' = Err({paths[j] : j \in where})
           /\ ShortCircuits \/ (where = FailedJobs /\ Drained)
        \/ where = {} /\ FailedJobs = {} /\ Drained /\ answer' = Ok
  BY GatherAnswer
<1>9. CASE where # {}
  <2>1. answer'.tag = "err" /\ answer'.errors = {paths[j] : j \in where}
    BY <1>8, <1>9 DEF Err, NoAnswer
  <2>2. answer'.errors # {} /\ answer'.errors \subseteq Broken
    BY <1>6, <1>9, <2>1
  <2>3. ASSUME api = "directory" PROVE answer'.errors = Broken
    <3>1. where = FailedJobs /\ Drained
      BY <1>8, <1>9, <2>3 DEF ShortCircuits
    <3>2. \A f \in Broken : f \in answer'.errors
      BY <1>7, <2>1, <3>1
    <3> QED BY <2>2, <3>2
  <2>4. Broken # {}
    BY <2>2
  <2> QED BY <1>1, <1>2, <1>3, <2>1, <2>2, <2>3, <2>4 DEF QuietVerdict
<1>10. CASE where = {}
  <2>1. FailedJobs = {} /\ Drained /\ answer' = Ok
    BY <1>8, <1>10
  <2>2. Broken = {} /\ \A i \in Jobs : outcome[i] = disk[paths[i]]
    BY <1>4, <1>7, <2>1
  <2>3. Ok.scanned = Cardinality(Target) /\ Ok.skipped = Cardinality(Generated)
    BY <1>4, LengthIsCardinality DEF Ok
  <2>4. Ok.report = {p \in Target \X Checks : p[2] \in disk[p[1]].hits \ disk[p[1]].crash}
    <3> DEFINE Reported(f, c) == \E i \in Jobs : paths[i] = f /\ c \in Findings(outcome[i])
    <3>1. \A f, c : Reported(f, c) <=> f \in Target /\ c \in disk[f].hits \ disk[f].crash
      BY <1>5, <2>2 DEF Findings
    <3>2. Ok.report = {p \in Files \X Checks : Reported(p[1], p[2])}
      BY DEF Ok
    <3> HIDE DEF Reported
    <3>3. Target \subseteq Files
      BY TargetsAreFiles
    <3> QED BY <3>1, <3>2, <3>3
  <2>5. Ok.panics = {p \in Target \X Checks : p[2] \in disk[p[1]].crash}
    <3> DEFINE Panicked(f, c) == \E i \in Jobs : paths[i] = f /\ c \in Panics(outcome[i])
    <3>1. \A f, c : Panicked(f, c) <=> f \in Target /\ c \in disk[f].crash
      BY <1>5, <2>2 DEF Panics
    <3>2. Ok.panics = {p \in Files \X Checks : Panicked(p[1], p[2])}
      BY DEF Ok
    <3> HIDE DEF Panicked
    <3>3. Target \subseteq Files
      BY TargetsAreFiles
    <3> QED BY <3>1, <3>2, <3>3
  <2>6. /\ answer'.tag = "ok" /\ answer'.report = Ok.report /\ answer'.panics = Ok.panics
        /\ answer'.scanned = Ok.scanned /\ answer'.skipped = Ok.skipped
    BY <2>1 DEF Ok
  <2> QED BY <1>1, <1>2, <1>3, <2>2, <2>3, <2>4, <2>5, <2>6 DEF QuietVerdict
<1> QED BY <1>9, <1>10

\* A change of the disk ends the quiet.
LEMMA DiskQuiet == ASSUME IInv, QuietInv, Environment PROVE QuietInv'
<1>1. edits' # 0 /\ UNCHANGED <<phase, todo, paths, skipped>>
  BY DEF Environment, Edit, Seal, walk_vars, IInv, TypeOK
<1> QED BY <1>1 DEF QuietInv, QuietVerdict, Undisturbed

\* On a tree nobody edits, the answer is what the tree determines: neither
\* the listing order, nor the number of workers, nor how they interleave
\* shows in it.
THEOREM AnswerIsDetermined == Spec => []QuietVerdict
<1>1. IInv /\ QuietInv /\ [Next]_vars => QuietInv'
  <2> SUFFICES ASSUME IInv, QuietInv, [Next]_vars PROVE QuietInv'
    OBVIOUS
  <2>0. CASE Open
    BY <2>0, OpenQuiet
  <2>1. CASE TraversalError \/ Reject \/ WarnAndSkip \/ GeneratedSkip \/ Select
    BY <2>1, WalkQuiet
  <2>2. CASE StartJobs
    BY <2>2, StartQuiet
  <2>3. CASE \E w \in Workers : Work(w)
    BY <2>3, WorkQuiet
  <2>4. CASE Gather
    BY <2>4, GatherQuiet
  <2>5. CASE Environment
    BY <2>5, DiskQuiet
  <2>6. CASE UNCHANGED vars
    <3>1. UNCHANGED <<api, root, bad_globs, phase, rejected, disk, sealed, edits, todo, paths,
                      skipped, warned, worker, outcome, answer>>
      BY <2>6 DEF vars, disk_vars, walk_vars, run_vars
    <3>2. UNCHANGED <<Target, Generated, LeftOut, Broken, Obstacles, Unusable, Jobs>>
      BY <3>1 DEF Target, Generated, LeftOut, Broken, Obstacles, Unusable, Jobs
    <3>3. /\ WalkSoFar' <=> WalkSoFar
          /\ RunSoFar' <=> RunSoFar
          /\ QuietVerdict' <=> QuietVerdict
          /\ Undisturbed' <=> Undisturbed
      BY <3>1, <3>2 DEF WalkSoFar, RunSoFar, QuietVerdict, Undisturbed, Unblocked, Ran
    <3> QED BY <3>1, <3>3 DEF QuietInv
  <2> QED BY <2>0, <2>1, <2>2, <2>3, <2>4, <2>5, <2>6 DEF Next, Walk
<1>2. QuietInv => QuietVerdict
  BY DEF QuietInv
<1> QED BY QuietInit, <1>1, <1>2, Invariance, PTL DEF Spec
=================================================================================
