------------------------------- MODULE MCFiles -------------------------------
(***************************************************************************)
(* What surrounds the checks of method bodies: the report of one file, the *)
(* checks that read a file as text or as items, the baseline filter and    *)
(* the search for a configuration. A behaviour is about one of them, its   *)
(* subject; the others keep an idle state.                                 *)
(***************************************************************************)
EXTENDS MCFileReport

CONSTANTS
  Dirs, MaxPath, None,            \* of ConfigSearch
  Keys, MaxFound, MaxScans,       \* of Baseline
  MaxText, MaxItems, MaxNames, MaxUses,  \* of TextScans, ItemTree, KeyNames, KeyCollision
  Paths, MaxRaw, MaxAsked         \* of ScanReport

MCPaths == 1 .. 2
MCDirs  == {<<>>, <<"p">>, <<"p", "a">>, <<"p", "b">>}

VARIABLES
  subject,
  cwd, tomls, gits, path, to_file, dir, pc, result,
  text, items, names,
  answer_raw, fates, asked,
  uses, visited, filed, emitted,
  baseline, recorded, against, scan, new, hidden

config_vars    == <<cwd, tomls, gits, path, to_file, dir, pc, result>>
collision_vars == <<uses, visited, filed, emitted>>
baseline_vars  == <<baseline, recorded, against, scan, new, hidden>>

Config    == INSTANCE ConfigSearch
Text      == INSTANCE TextScans
Tree      == INSTANCE ItemTree
NameUse   == INSTANCE KeyNames
Answer    == INSTANCE ScanReport WITH raw <- answer_raw
Collision == INSTANCE KeyCollision
Known     == INSTANCE Baseline

ASSUME ConfigAssumption == Config!TreeAssumption

IdleReport ==
  /\ lines = <<>> /\ methods = <<>> /\ at = 1 /\ on_line = {} /\ on_method = {}
  /\ next = 1 /\ raw = {} /\ findings = {} /\ panicked = {} /\ report = <<>>
IdleConfig ==
  /\ cwd = <<>> /\ tomls = {} /\ gits = {} /\ path = [absolute |-> TRUE, parts |-> <<>>]
  /\ to_file = FALSE /\ dir = path /\ pc = "look" /\ result = None

FilesInit ==
  /\ Text!Init /\ Tree!Init /\ NameUse!Init /\ Answer!Init /\ Collision!Init /\ Known!Init
  /\ \/ subject = "report" /\ Init /\ IdleConfig
     \/ subject = "config" /\ Config!Init /\ IdleReport
     \/ subject \in {"text", "items", "names", "answer", "collision", "baseline"} /\ IdleReport /\ IdleConfig

file_vars   == <<text, items, names>>
answer_vars == <<answer_raw, fates, asked>>

ReportStep    == subject = "report" /\ Next
                   /\ UNCHANGED <<config_vars, file_vars, answer_vars, collision_vars, baseline_vars>>
ConfigStep    == subject = "config" /\ Config!Next
                   /\ UNCHANGED <<vars, file_vars, answer_vars, collision_vars, baseline_vars>>
TextStep      == subject = "text" /\ Text!Next /\ UNCHANGED <<items, names>>
TreeStep      == subject = "items" /\ Tree!Next /\ UNCHANGED <<text, names>>
NamesStep     == subject = "names" /\ NameUse!Next /\ UNCHANGED <<text, items>>
FileStep      == (TextStep \/ TreeStep \/ NamesStep)
                   /\ UNCHANGED <<vars, config_vars, answer_vars, collision_vars, baseline_vars>>
AnswerStep    == subject = "answer" /\ Answer!Next
                   /\ UNCHANGED <<vars, config_vars, file_vars, collision_vars, baseline_vars>>
CollisionStep == subject = "collision" /\ Collision!Next
                   /\ UNCHANGED <<vars, config_vars, file_vars, answer_vars, baseline_vars>>
BaselineStep  == subject = "baseline" /\ Known!Next
                   /\ UNCHANGED <<vars, config_vars, file_vars, answer_vars, collision_vars>>

FilesNext ==
  /\ UNCHANGED subject
  /\ ReportStep \/ ConfigStep \/ FileStep \/ AnswerStep \/ CollisionStep \/ BaselineStep

files_vars == <<subject, vars, config_vars, file_vars, answer_vars, collision_vars, baseline_vars>>
FilesSpec  == FilesInit /\ [][FilesNext]_files_vars /\ WF_files_vars(ConfigStep /\ UNCHANGED subject)

-----------------------------------------------------------------------------

\* ConfigSearch: for a path without "..", the file used is the nearest one above
\* the scan path, and none from beyond a directory with a .git; one that is
\* missed lies above the working directory, and the path was relative.
NearestIsFound ==
  subject = "config" => Config!AbsoluteIsNearest /\ Config!RelativeIsNearestOrMissed

\* ConfigSearch: the search comes to an end, every step shortens the path.
Ends == subject = "config" => Config!Ends

\* TextScans: the two lexers of the text agree with the compiler's about what
\* is code, a comment and a string, but for named constructs.
TextFindings == subject = "text" => Text!TextFindings

\* ItemTree: what is shipped is looked at and what is for tests is not.
ItemFindings == subject = "items" => Tree!ItemFindings

\* KeyNames: a storage key made from a parameter is told from a constant one by
\* name.
KeyNameFindings == subject = "names" => NameUse!KeyNameFindings

\* ScanReport: the two entry points of the library agree, and so do the formats.
ReportFindings == subject = "answer" => Answer!ReportFindings

\* KeyCollision: the report of colliding keys does not depend on the order of a
\* hash map, and has one finding for every source of a key but the first.
CollisionFindings == subject = "collision" => Collision!CollisionFindings

\* Baseline: what was recorded hides as many findings as one scan had, not more.
BaselineFindings == subject = "baseline" => Known!BaselineFindings
=============================================================================
