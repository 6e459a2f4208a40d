----------------------------- MODULE ScanCommand -----------------------------
(***************************************************************************)
(* The `scan` subcommand as a CI job sees it: a run goes through the setup *)
(* (path, soroban-guard.toml, --fail-on, disabled checks), calls the       *)
(* analyzer once, emits a report or an error and exits. It starts in a     *)
(* workspace that earlier runs may have left an --output file in, and the  *)
(* job uploads whatever that file holds when the run is over.              *)
(*                                                                         *)
(* Severities are ranks: 0 High, 1 Medium, 2 Low; NoFinding is 3.          *)
(***************************************************************************)
EXTENDS Naturals

CONSTANTS
  Formats,     \* the output formats a run may ask for
  FailOns,     \* --fail-on / min_severity values: ranks, Unset or Unknown
  Confs,       \* what looking for soroban-guard.toml may give
  Trees,       \* what may be on disk
  Unset, Unknown,
  Absent, Malformed, Unreadable

Ranks     == 0..2
NoFinding == 3

\* A well-formed configuration file, as far as a scan depends on it.
Settings == [path : BOOLEAN, min : FailOns, unknown_check : BOOLEAN]

\* The tree: whether the analyzer gives up on it, and the most severe finding.
\* (Files left out with a warning and checks that panicked are no part of it:
\* the command looks at neither.)
TreeType == [fails : BOOLEAN, worst : 0..3]

\* clap: --output needs one of --json, --sarif, --markdown; no flag is "pretty".
Argvs == {a \in [path : BOOLEAN, format : Formats, output : BOOLEAN, quiet : BOOLEAN,
                 fail_on : FailOns, unknown_check : BOOLEAN] :
            a.output => a.format # "pretty"}

ASSUME CommandAssumption ==
  /\ Formats \subseteq {"pretty", "json", "sarif", "markdown"}
  /\ FailOns \subseteq Ranks \cup {Unset, Unknown} /\ Unset \in FailOns
  /\ Confs \subseteq Settings \cup {Absent, Malformed, Unreadable}
  /\ Trees \subseteq TreeType
  /\ Unset \notin Ranks \cup {Unknown} /\ Unknown \notin Ranks
  /\ Absent \notin {Malformed, Unreadable}
  /\ {Absent, Malformed, Unreadable} \cap Settings = {}

VARIABLES
  step,       \* where the process is
  argv,       \* its command line
  cwd_conf,   \* what config::load(".") finds
  conf,       \* what config::load(scan_path) finds
  tree,       \* what is on disk to be scanned
  medium,     \* how writing the --output file goes
  serializes, \* whether serde_json turns the document into text
  threshold,  \* fail_threshold
  artifact,   \* the file --output names
  stdout,     \* what this run printed there
  exit        \* exit code

inputs == <<argv, cwd_conf, conf, tree, medium, serializes>>
vars   == <<step, inputs, threshold, artifact, stdout, exit>>

\* "sound": the file is written. "closed": it cannot be opened for writing.
\* "full": it is opened, which truncates it, and the writing then breaks off.
Media == {"sound", "closed", "full"}

\* What the artifact may hold. Only a file this run opened is fresh; what an
\* earlier run found is compared with nothing.
Files    == [kind : {"absent", "report", "error", "partial"}, fresh : BOOLEAN, worst : 0..3]
Leftover == {f \in Files : ~f.fresh /\ f.worst = NoFinding}
Report   == [kind |-> "report", fresh |-> TRUE, worst |-> tree.worst]
ErrorDoc == [kind |-> "error", fresh |-> TRUE, worst |-> NoFinding]
Partial  == [kind |-> "partial", fresh |-> TRUE, worst |-> NoFinding]

Init ==
  /\ step = "path"
  /\ argv \in Argvs /\ cwd_conf \in Confs /\ conf \in Confs
  /\ tree \in Trees /\ medium \in Media /\ serializes \in BOOLEAN
  /\ threshold = 0
  /\ artifact \in Leftover
  /\ stdout = "nothing"
  /\ exit = 0

Exit(code, out, file) ==
  /\ step' = "exited"
  /\ exit' = code /\ stdout' = out /\ artifact' = file
  /\ UNCHANGED <<inputs, threshold>>

Continue(next) ==
  /\ step' = next
  /\ UNCHANGED <<inputs, threshold, artifact, stdout, exit>>

\* emit_setup_error: with --json the envelope goes to stdout, --output or not.
SetupError == Exit(2, IF argv.format = "json" THEN "error" ELSE "nothing", artifact)

\* config::load: no file is no settings, a file that cannot be read or parsed is
\* an error.
LoadFails(c) == c \in {Malformed, Unreadable}

\* No path argument: the one in ./soroban-guard.toml, or a plain message.
ResolvePath ==
  /\ step = "path"
  /\ IF argv.path \/ (cwd_conf \in Settings /\ cwd_conf.path)
     THEN Continue("config")
     ELSE Exit(2, "nothing", artifact)

LoadConfig ==
  /\ step = "config"
  /\ IF LoadFails(conf) THEN SetupError ELSE Continue("fail_on")

ConfigOverFlag(flag, c) ==
  IF c \in Settings /\ c.min # Unset THEN c.min ELSE IF flag # Unset THEN flag ELSE 0
\* --fail-on wins over min_severity, which wins over "high".
EffectiveFailOn(flag, c) ==
  IF flag # Unset THEN flag ELSE IF c \in Settings /\ c.min # Unset THEN c.min ELSE 0

ParseFailOn ==
  /\ step = "fail_on"
  /\ LET value == EffectiveFailOn(argv.fail_on, conf) IN
       IF value = Unknown
       THEN SetupError
       ELSE /\ threshold' = value
            /\ step' = "disabled"
            /\ UNCHANGED <<inputs, artifact, stdout, exit>>

ValidateDisabled ==
  /\ step = "disabled"
  /\ IF argv.unknown_check \/ (conf \in Settings /\ conf.unknown_check)
     THEN SetupError ELSE Continue("scan")

ShouldFail == tree.worst <= threshold
QuietOnly(quiet, failing) == ~quiet
ShouldPrint(quiet, failing) == ~quiet \/ failing

\* write_output is fs::write: open and truncate, then write.
Written(document) ==
  CASE medium = "sound"  -> document
    [] medium = "closed" -> artifact
    [] medium = "full"   -> Partial

Scanned == step = "scan" /\ ~tree.fails
Encoded == argv.format \in {"json", "sarif"} => serializes

\* The code answers for a document that does not serialize, unlikely as it is.
SerializationFails == Scanned /\ ~Encoded /\ Exit(2, "nothing", artifact)

WriteFallsBack ==
  /\ Scanned /\ Encoded /\ argv.output /\ medium # "sound"
  /\ Exit(2, "report", Written(Report))
\* A structured report that cannot be written is an error, not a verdict.
WriteFails ==
  /\ Scanned /\ Encoded /\ argv.output /\ medium # "sound"
  /\ Exit(2, "nothing", Written(Report))

\* --output is written whatever --quiet says; stdout stays empty.
WriteReport ==
  /\ Scanned /\ Encoded /\ argv.output /\ medium = "sound"
  /\ Exit(IF ShouldFail THEN 1 ELSE 0, "nothing", Written(Report))

PrintReport ==
  /\ Scanned /\ Encoded /\ ~argv.output
  /\ Exit(IF ShouldFail THEN 1 ELSE 0,
          IF ShouldPrint(argv.quiet, ShouldFail) THEN "report" ELSE "nothing", artifact)

ErrorToStdoutOnly ==
  /\ step = "scan" /\ tree.fails
  /\ Exit(2, IF argv.format = "json" THEN "error" ELSE "nothing", artifact)
\* The analyzer returned Err: an envelope with --json, in the --output file if
\* one was asked for; otherwise messages on stderr.
ScanError ==
  /\ step = "scan" /\ tree.fails
  /\ IF argv.format # "json" \/ ~serializes THEN Exit(2, "nothing", artifact)
     ELSE IF ~argv.output THEN Exit(2, "error", artifact)
     ELSE Exit(2, "nothing", Written(ErrorDoc))

Next ==
  \/ ResolvePath \/ LoadConfig \/ ParseFailOn \/ ValidateDisabled
  \/ SerializationFails \/ WriteFails \/ WriteReport \/ PrintReport \/ ScanError

Spec == Init /\ [][Next]_vars

-----------------------------------------------------------------------------
(* Properties *)

Exited == step = "exited"

\* r is the severity a user who passed these options expects to be blocked at: the
\* flag if given, else the file's, else High.
Demands(r) ==
  \/ argv.fail_on = r
  \/ argv.fail_on = Unset /\ conf \in Settings /\ conf.min = r
  \/ argv.fail_on = Unset /\ (conf \notin Settings \/ conf.min = Unset) /\ r = 0

\* Exit 0 is earned as far as the gate goes: the analyzer did not give up,
\* nothing it reported is at or above the severity demanded by flag, file or
\* default, and if an artifact was asked for it is this run's own, complete
\* report (run_scan, #625, #667). That every file was looked at is not said:
\* files left out with a warning and checks that panicked do not count.
ZeroIsEarned ==
  Exited /\ exit = 0 =>
    /\ ~tree.fails /\ \E r \in Ranks : Demands(r) /\ tree.worst > r
    /\ argv.output => artifact = Report

\* Exit 1 is justified and never silent: some finding is at or above the
\* demanded severity, and --quiet or not the report is on stdout or in this
\* run's artifact.
BlockIsExplained ==
  Exited /\ exit = 1 =>
    /\ ~tree.fails /\ \E r \in Ranks : Demands(r) /\ tree.worst <= r
    /\ stdout = "report" \/ artifact = Report

\* A run that ends in an error leaves no complete report of its own behind,
\* and a torn file only where the --output file was opened and the writing
\* then broke off; any other artifact is the error envelope of this run or
\* what an earlier run left. (A torn Markdown file still reads like a report,
\* a shorter one; torn JSON does not parse.)
ErrorIsNotAReport ==
  Exited /\ exit = 2 =>
    /\ stdout # "report"
    /\ artifact.fresh => \/ artifact = ErrorDoc
                         \/ artifact = Partial /\ argv.output /\ medium = "full"

SetupIsFine ==
  /\ argv.path \/ (cwd_conf \in Settings /\ cwd_conf.path)
  /\ ~LoadFails(conf)
  /\ EffectiveFailOn(argv.fail_on, conf) # Unknown
  /\ ~argv.unknown_check /\ (conf \in Settings => ~conf.unknown_check)

\* With --json, a scan the analyzer gave up on exits 2 and leaves the error
\* envelope where the user asked for output, if that place can be written.
JsonScanErrorIsDelivered ==
  Exited /\ argv.format = "json" /\ tree.fails /\ SetupIsFine =>
    /\ exit = 2
    /\ serializes => IF argv.output THEN medium = "sound" => artifact = ErrorDoc
                                   ELSE stdout = "error"

\* The comment in run_scan (#669): --output is written even when the scan
\* errors, so that a job which uploads it gets an error document.
OutputIsAlwaysFresh ==
  Exited /\ SetupIsFine /\ argv.output /\ medium = "sound" /\ serializes => artifact.fresh
==============================================================================
