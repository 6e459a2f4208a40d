------------------------- MODULE ScanCommandProofs -------------------------
(***************************************************************************)
(* The safety properties of a run of `scan`, for every set of formats,     *)
(* severities, configurations and trees. What makes them inductive is that *)
(* until a run exits it has touched nothing, and that a run at its scan    *)
(* has come through every step of its setup, with the threshold the user   *)
(* asked for.                                                              *)
(***************************************************************************)
EXTENDS ScanCommand, TLAPS

Steps == {"path", "config", "fail_on", "disabled", "scan", "exited"}

\* What does not change, and the threshold
Typed ==
  /\ step \in Steps
  /\ argv \in Argvs /\ conf \in Confs /\ tree \in Trees /\ medium \in Media
  /\ threshold \in Ranks

\* A run that has not exited left the artifact as it was and printed nothing.
Untouched == step # "exited" => artifact \in Leftover /\ stdout = "nothing"

\* What each step of the setup has established
PathKnown  == argv.path \/ (cwd_conf \in Settings /\ cwd_conf.path)
Passed ==
  /\ step \in {"config", "fail_on", "disabled", "scan"} => PathKnown
  /\ step \in {"fail_on", "disabled", "scan"} => ~LoadFails(conf)
  /\ step \in {"disabled", "scan"} =>
       threshold = EffectiveFailOn(argv.fail_on, conf) /\ threshold # Unknown
  /\ step = "scan" => ~argv.unknown_check /\ (conf \in Settings => ~conf.unknown_check)

\* The properties, of a run that has exited
Verdict == ZeroIsEarned /\ BlockIsExplained /\ ErrorIsNotAReport /\ JsonScanErrorIsDelivered

IInv == Typed /\ Untouched /\ Passed /\ Verdict

-----------------------------------------------------------------------------
(* Lemmas about the threshold *)

\* effective_fail_on gives a severity, or a word it does not know: the words of
\* the flag and of the file are not looked at before.
LEMMA EffectiveIsASetting ==
  ASSUME argv \in Argvs, conf \in Confs, ~LoadFails(conf),
         EffectiveFailOn(argv.fail_on, conf) # Unknown
  PROVE  EffectiveFailOn(argv.fail_on, conf) \in Ranks
<1>1. argv.fail_on \in FailOns
  BY DEF Argvs
<1>2. conf \in Settings => conf.min \in FailOns
  BY DEF Settings
<1>3. FailOns \subseteq Ranks \cup {Unset, Unknown}
  BY CommandAssumption DEF CommandAssumption
<1>4. 0 \in Ranks
  BY DEF Ranks
<1>5. CASE argv.fail_on # Unset
  BY <1>1, <1>3, <1>5 DEF EffectiveFailOn
<1>6. CASE argv.fail_on = Unset /\ conf \in Settings /\ conf.min # Unset
  <2>1. EffectiveFailOn(argv.fail_on, conf) = conf.min
    BY <1>6 DEF EffectiveFailOn
  <2>2. conf.min \in Ranks \cup {Unset, Unknown}
    BY <1>2, <1>3, <1>6
  <2> QED
    BY <1>6, <2>1, <2>2
<1>7. CASE argv.fail_on = Unset /\ ~(conf \in Settings /\ conf.min # Unset)
  BY <1>4, <1>7 DEF EffectiveFailOn
<1> QED
  BY <1>5, <1>6, <1>7

\* What the code takes for the threshold is what the user demanded.
LEMMA EffectiveIsDemanded ==
  ASSUME EffectiveFailOn(argv.fail_on, conf) \in Ranks
  PROVE  Demands(EffectiveFailOn(argv.fail_on, conf))
BY DEF EffectiveFailOn, Demands

-----------------------------------------------------------------------------

\* A run starts with nothing printed and with whatever earlier runs left.
LEMMA Initially == Init => IInv
BY DEF Init, IInv, Typed, Untouched, Passed, Verdict, Steps, Ranks, Exited,
       ZeroIsEarned, BlockIsExplained, ErrorIsNotAReport, JsonScanErrorIsDelivered

\* A run that exits 2 with the artifact as it was, for a reason of its setup,
\* has no verdict to justify.
LEMMA SetupExits ==
  ASSUME IInv, step # "exited", ~SetupIsFine,
         NEW out \in {"nothing", "error"}, Exit(2, out, artifact)
  PROVE  IInv'
<1>1. artifact \in Leftover
  BY DEF IInv, Untouched
<1>2. ~artifact.fresh
  BY <1>1 DEF Leftover
<1>3. /\ step' = "exited" /\ exit' = 2 /\ stdout' = out /\ artifact' = artifact
      /\ UNCHANGED <<inputs, threshold>>
  BY DEF Exit
<1>4. ~SetupIsFine'
  BY <1>3 DEF SetupIsFine, inputs, LoadFails, Settings
<1>5. Verdict'
  BY <1>2, <1>3, <1>4
     DEF Verdict, ZeroIsEarned, BlockIsExplained, ErrorIsNotAReport, JsonScanErrorIsDelivered, Exited
<1>6. Typed' /\ Untouched' /\ Passed'
  BY <1>3 DEF IInv, Typed, Untouched, Passed, Steps, inputs
<1> QED
  BY <1>5, <1>6 DEF IInv

\* A step of the setup that goes on has exited with no verdict.
LEMMA NotYetExited ==
  ASSUME step' # "exited"
  PROVE  Verdict'
BY DEF Verdict, ZeroIsEarned, BlockIsExplained, ErrorIsNotAReport, JsonScanErrorIsDelivered, Exited

\* At the scan, the threshold is a severity the user demanded, and every part
\* of the setup went well.
LEMMA AtTheScan ==
  ASSUME IInv, step = "scan"
  PROVE  /\ SetupIsFine /\ Demands(threshold) /\ threshold \in Ranks
         /\ artifact \in Leftover /\ tree.worst \in 0 .. 3
<1>1. threshold = EffectiveFailOn(argv.fail_on, conf) /\ threshold # Unknown /\ threshold \in Ranks
  BY DEF IInv, Passed, Typed
<1>2. Demands(threshold)
  BY <1>1, EffectiveIsDemanded
<1>3. SetupIsFine
  BY <1>1 DEF IInv, Passed, SetupIsFine, PathKnown
<1>4. tree.worst \in 0 .. 3
  BY CommandAssumption DEF CommandAssumption, IInv, Typed, TreeType
<1> QED
  BY <1>1, <1>2, <1>3, <1>4 DEF IInv, Untouched

LEMMA Inductive == IInv /\ [Next]_vars => IInv'
<1> SUFFICES ASSUME IInv, [Next]_vars PROVE IInv'
  OBVIOUS
<1>1. CASE ResolvePath
  <2>1. CASE PathKnown
    <3>1. Continue("config")
      BY <1>1, <2>1 DEF ResolvePath, PathKnown
    <3>2. Typed' /\ Untouched' /\ Passed' /\ step' # "exited"
      BY <1>1, <2>1, <3>1
         DEF ResolvePath, Continue, IInv, Typed, Untouched, Passed, Steps, PathKnown, inputs
    <3> QED
      BY <3>2, NotYetExited DEF IInv
  <2>2. CASE ~PathKnown
    BY <1>1, <2>2, SetupExits DEF ResolvePath, PathKnown, SetupIsFine
  <2> QED
    BY <2>1, <2>2
<1>2. CASE LoadConfig
  <2>1. CASE LoadFails(conf)
    <3>1. ~SetupIsFine
      BY <2>1 DEF SetupIsFine
    <3> QED
      BY <1>2, <2>1, <3>1, SetupExits DEF LoadConfig, SetupError
  <2>2. CASE ~LoadFails(conf)
    <3>1. Continue("fail_on")
      BY <1>2, <2>2 DEF LoadConfig
    <3>2. Typed' /\ Untouched' /\ Passed' /\ step' # "exited"
      BY <1>2, <2>2, <3>1
         DEF LoadConfig, Continue, IInv, Typed, Untouched, Passed, Steps, PathKnown, inputs, LoadFails
    <3> QED
      BY <3>2, NotYetExited DEF IInv
  <2> QED
    BY <2>1, <2>2
<1>3. CASE ParseFailOn
  <2> DEFINE value == EffectiveFailOn(argv.fail_on, conf)
  <2>1. CASE value = Unknown
    <3>1. ~SetupIsFine
      BY <2>1 DEF SetupIsFine
    <3> QED
      BY <1>3, <2>1, <3>1, SetupExits DEF ParseFailOn, SetupError
  <2>2. CASE value # Unknown
    <3>1. threshold' = value /\ step' = "disabled" /\ UNCHANGED <<inputs, artifact, stdout, exit>>
      BY <1>3, <2>2 DEF ParseFailOn
    <3>2. value \in Ranks
      BY <1>3, <2>2, EffectiveIsASetting DEF ParseFailOn, IInv, Typed, Passed
    <3>3. value' = value
      BY <3>1 DEF EffectiveFailOn, inputs, Settings
    <3>4. Typed' /\ Untouched' /\ step' # "exited"
      BY <1>3, <3>1, <3>2 DEF ParseFailOn, IInv, Typed, Untouched, Steps, inputs
    <3>5. Passed'
      BY <1>3, <2>2, <3>1, <3>3 DEF ParseFailOn, IInv, Passed, PathKnown, inputs, LoadFails
    <3> QED
      BY <3>4, <3>5, NotYetExited DEF IInv
  <2> QED
    BY <2>1, <2>2
<1>4. CASE ValidateDisabled
  <2> DEFINE unknown == argv.unknown_check \/ (conf \in Settings /\ conf.unknown_check)
  <2>1. CASE unknown
    <3>1. ~SetupIsFine
      BY <2>1 DEF SetupIsFine
    <3> QED
      BY <1>4, <2>1, <3>1, SetupExits DEF ValidateDisabled, SetupError
  <2>2. CASE ~unknown
    <3>1. Continue("scan")
      BY <1>4, <2>2 DEF ValidateDisabled
    <3>2. Typed' /\ Untouched' /\ step' # "exited"
      BY <1>4, <3>1 DEF ValidateDisabled, Continue, IInv, Typed, Untouched, Steps, inputs
    <3>3. Passed'
      BY <1>4, <2>2, <3>1
         DEF ValidateDisabled, Continue, IInv, Passed, PathKnown, inputs, LoadFails, EffectiveFailOn
    <3> QED
      BY <3>2, <3>3, NotYetExited DEF IInv
  <2> QED
    BY <2>1, <2>2
<1>5. CASE SerializationFails \/ WriteFails
  <2>1. PICK file \in {artifact, Partial} :
          /\ Exit(2, "nothing", file) /\ step = "scan" /\ ~tree.fails
          /\ file = artifact \/ (file = Partial /\ argv.output /\ medium = "full")
    BY <1>5 DEF SerializationFails, WriteFails, Scanned, Written, Media, IInv, Typed
  <2>2. ~artifact.fresh
    BY <2>1, AtTheScan DEF Leftover
  <2>3. Verdict'
    BY <2>1, <2>2 DEF Exit, inputs, Verdict, ZeroIsEarned, BlockIsExplained, ErrorIsNotAReport,
                      JsonScanErrorIsDelivered, Exited, Partial
  <2>4. Typed' /\ Untouched' /\ Passed'
    BY <2>1 DEF Exit, inputs, IInv, Typed, Untouched, Passed, Steps
  <2> QED
    BY <2>3, <2>4 DEF IInv
<1>6. CASE WriteReport
  <2>1. Exit(IF ShouldFail THEN 1 ELSE 0, "nothing", Report) /\ step = "scan" /\ ~tree.fails
    BY <1>6 DEF WriteReport, Scanned, Written
  <2>2. artifact' = Report' /\ Demands(threshold)' /\ threshold' \in Ranks /\ ~tree'.fails
    BY <2>1, AtTheScan DEF Exit, inputs, Report, Demands, Settings
  <2>3. exit' = 0 => tree'.worst > threshold'
    BY <2>1, AtTheScan DEF Exit, inputs, ShouldFail, Ranks
  <2>4. exit' # 0 => exit' = 1 /\ tree'.worst <= threshold'
    BY <2>1 DEF Exit, inputs, ShouldFail
  <2>5. Verdict'
    BY <2>2, <2>3, <2>4
       DEF Verdict, ZeroIsEarned, BlockIsExplained, ErrorIsNotAReport, JsonScanErrorIsDelivered
  <2>6. Typed' /\ Untouched' /\ Passed'
    BY <2>1 DEF Exit, inputs, IInv, Typed, Untouched, Passed, Steps
  <2> QED
    BY <2>5, <2>6 DEF IInv
<1>7. CASE PrintReport
  <2>1. /\ Exit(IF ShouldFail THEN 1 ELSE 0,
                IF ShouldPrint(argv.quiet, ShouldFail) THEN "report" ELSE "nothing", artifact)
        /\ step = "scan" /\ ~tree.fails /\ ~argv.output
    BY <1>7 DEF PrintReport, Scanned
  <2>2. Demands(threshold)' /\ threshold' \in Ranks /\ ~tree'.fails /\ ~argv'.output
    BY <2>1, AtTheScan DEF Exit, inputs, Demands, Settings
  <2>3. exit' = 0 => tree'.worst > threshold'
    BY <2>1, AtTheScan DEF Exit, inputs, ShouldFail, Ranks
  <2>4. exit' # 0 => exit' = 1 /\ tree'.worst <= threshold' /\ stdout' = "report"
    BY <2>1 DEF Exit, inputs, ShouldFail, ShouldPrint
  <2>5. Verdict'
    BY <2>2, <2>3, <2>4
       DEF Verdict, ZeroIsEarned, BlockIsExplained, ErrorIsNotAReport, JsonScanErrorIsDelivered
  <2>6. Typed' /\ Untouched' /\ Passed'
    BY <2>1 DEF Exit, inputs, IInv, Typed, Untouched, Passed, Steps
  <2> QED
    BY <2>5, <2>6 DEF IInv
<1>8. CASE ScanError
  <2>1. PICK out \in {"nothing", "error"}, file \in {artifact, ErrorDoc, Partial} :
          /\ Exit(2, out, file) /\ step = "scan"
          /\ \/ file \in {artifact, ErrorDoc}
             \/ file = Partial /\ argv.output /\ medium = "full"
          /\ argv.format = "json" /\ serializes =>
               IF argv.output THEN medium = "sound" => file = ErrorDoc ELSE out = "error"
    BY <1>8 DEF ScanError, Written, Media, IInv, Typed
  <2>2. file.fresh => file = ErrorDoc \/ (file = Partial /\ argv.output /\ medium = "full")
    BY <2>1, AtTheScan DEF Leftover
  <2>3. Verdict'
    BY <2>1, <2>2 DEF Exit, inputs, Verdict, ZeroIsEarned, BlockIsExplained, ErrorIsNotAReport,
                      JsonScanErrorIsDelivered, Exited, ErrorDoc, Partial
  <2>4. Typed' /\ Untouched' /\ Passed'
    BY <2>1 DEF Exit, inputs, IInv, Typed, Untouched, Passed, Steps
  <2> QED
    BY <2>3, <2>4 DEF IInv
<1>9. CASE UNCHANGED vars
  BY <1>9 DEF vars, inputs, IInv, Typed, Untouched, Passed, PathKnown, Verdict, ZeroIsEarned,
              BlockIsExplained, ErrorIsNotAReport, JsonScanErrorIsDelivered, Exited, Demands, Report,
              SetupIsFine, LoadFails, EffectiveFailOn, ErrorDoc, Partial
<1> QED
  BY <1>1, <1>2, <1>3, <1>4, <1>5, <1>6, <1>7, <1>8, <1>9 DEF Next

-----------------------------------------------------------------------------

\* Every reachable state of a run satisfies the strengthened invariant.
THEOREM Invariance == Spec => []IInv
BY Initially, Inductive, PTL DEF Spec

\* Exit 0 says the gate was passed, whatever the options, configurations, trees
\* and severities: no error, nothing reported at or above the severity that the
\* precedence of flag, file and default demands, and the artifact complete. It
\* does not say that every file was scanned and every check ran.
THEOREM ZeroIsAlwaysEarned == Spec => []ZeroIsEarned
<1>1. IInv => ZeroIsEarned
  BY DEF IInv, Verdict
<1> QED
  BY <1>1, Invariance, PTL

\* Exit 1 has a finding at or above the demanded severity behind it and a
\* report that shows it, --quiet or not.
THEOREM BlocksAreExplained == Spec => []BlockIsExplained
<1>1. IInv => BlockIsExplained
  BY DEF IInv, Verdict
<1> QED
  BY <1>1, Invariance, PTL

\* Exit 2 leaves no complete report of this run, and a torn file only where
\* the medium gave out after --output was opened.
THEOREM ErrorsAreNotReports == Spec => []ErrorIsNotAReport
<1>1. IInv => ErrorIsNotAReport
  BY DEF IInv, Verdict
<1> QED
  BY <1>1, Invariance, PTL

\* With --json, the envelope of a failed scan is where the user asked for output.
THEOREM JsonErrorsAreDelivered == Spec => []JsonScanErrorIsDelivered
<1>1. IInv => JsonScanErrorIsDelivered
  BY DEF IInv, Verdict
<1> QED
  BY <1>1, Invariance, PTL
=============================================================================
