-------------------------------- MODULE Scan --------------------------------
(***************************************************************************)
(* The scan of the analyzer crate: canonical root, compiled globs, then a  *)
(* directory walk (or an explicit list of paths), one rayon job per        *)
(* selected file, and the collection of the per-file results into one      *)
(* answer.                                                                 *)
(*                                                                         *)
(* Three entry points share the code and differ in how they collect:       *)
(*   "directory"    scan_directory              every error is collected   *)
(*   "files"        scan_files                  every error is collected   *)
(*   "with_checks"  scan_directory_with_checks  the first error wins; this *)
(*                                              is the one the CLI calls   *)
(*                                                                         *)
(* Files are read twice, once for the generated-file header while the      *)
(* paths are collected and once by the worker that runs the checks, and    *)
(* the rest of the machine may change them at any moment in between.       *)
(***************************************************************************)
EXTENDS Naturals, FiniteSets, Sequences, SequencesExt

CONSTANTS
  Files,      \* the .rs files below the root
  Dirs,       \* the sub-directories the walk has to open
  Checks,     \* the registered checks
  Texts,      \* what a file may hold
  Workers,    \* threads of the rayon pool
  Apis,       \* entry points a behaviour may start with
  MaxList,    \* bound: length of the list given to scan_files
  MaxEdits    \* bound: changes made to the disk while the scan runs

Entries == Files \cup Dirs

\* What an error can be about: an entry, the root directory, a glob pattern.
Places == Entries \cup {"tree", "glob"}

\* How reading a file ends. "gone": no such file. "locked": no permission.
\* "garbled_head" / "garbled_tail": bytes that are not UTF-8, inside or after
\* the five lines the header test reads. "broken": syn cannot parse it.
Fates == {"gone", "locked", "garbled_head", "garbled_tail",
          "generated", "broken", "ok"}

ASSUME ScanAssumption ==
  /\ Files # {} /\ Workers # {}
  /\ IsFiniteSet(Files) /\ IsFiniteSet(Dirs)
  /\ Files \cap Dirs = {} /\ {"tree", "glob"} \cap Entries = {}
  /\ Apis \subseteq {"directory", "files", "with_checks"}
  /\ Texts \subseteq [fate : Fates, hits : SUBSET Checks, crash : SUBSET Checks]
  /\ MaxList \in Nat /\ MaxEdits \in Nat

VARIABLES
  api,       \* the entry point called
  root,      \* "tree", or the one file the scan path names
  bad_globs, \* an include or exclude pattern does not compile
  phase,     \* "start", "globs", "walk", "run" or "done"
  rejected,  \* files the path alone rules out (target/, .git/, globs)
  disk,      \* content of every file, as of now
  sealed,    \* directories (the root may be one) nobody can open, as of now
  edits,     \* changes made so far
  todo,      \* entries the walk (or the list) has still to yield
  paths,     \* selected files, in the order they were yielded
  skipped,   \* files_skipped: files with a generated-file header
  warned,    \* files reported on stderr and left out
  waiting,   \* jobs (positions in paths) no worker has taken
  worker,    \* what each worker holds
  outcome,   \* per job, the text that was analysed
  saved,     \* the error rayon keeps when it collects into a Result
  answer     \* what the entry point returned

disk_vars == <<rejected, disk, sealed, edits>>
walk_vars == <<todo, paths, skipped, warned>>
run_vars  == <<waiting, worker, outcome, saved>>
vars      == <<api, root, bad_globs, phase, disk_vars, walk_vars, run_vars, answer>>

-----------------------------------------------------------------------------
(* What one file yields *)

\* The header test opens the file and reads up to five lines as UTF-8.
HeaderUnreadable(text) == text.fate \in {"gone", "locked", "garbled_head"}

\* run_checks_for_file fails on read_to_string or on syn::parse_file.
FailsMissingParse(text) ==
  text.fate \in {"gone", "locked", "garbled_head", "garbled_tail"}
Fails(text) ==
  text.fate \in {"gone", "locked", "garbled_head", "garbled_tail", "broken"}

\* catch_unwind around every check: a check that panics loses its own
\* findings and nobody else's.
FindingsAllOrNothing(text) == IF text.crash = {} THEN text.hits ELSE {}
Findings(text) == text.hits \ text.crash
Panics(text)   == text.crash

NotRun == [fate |-> "not_run", hits |-> {}, crash |-> {}]
Idle   == [job |-> 0]

Jobs          == 1..Len(paths)
Ran(i)        == outcome[i] # NotRun
FailedJobs    == {i \in Jobs : Ran(i) /\ Fails(outcome[i])}
ShortCircuits == api = "with_checks"

NoAnswer == [tag |-> "none", errors |-> {}, report |-> {}, panics |-> {},
             scanned |-> 0, skipped |-> 0]

\* Errors are named by the path they are about. Both collectors sort what
\* they return by path and drop duplicates, hence sets.
Err(where) == [NoAnswer EXCEPT !.tag = "err", !.errors = where]

Ok == [tag     |-> "ok", errors |-> {},
       report  |-> {p \in Files \X Checks :
                      \E i \in Jobs : paths[i] = p[1] /\ p[2] \in Findings(outcome[i])},
       panics  |-> {p \in Files \X Checks :
                      \E i \in Jobs : paths[i] = p[1] /\ p[2] \in Panics(outcome[i])},
       scanned |-> Len(paths),
       skipped |-> skipped]

-----------------------------------------------------------------------------
(* Opening the root *)

Init ==
  /\ api \in Apis
  /\ root \in {"tree"} \cup IF api = "files" THEN {} ELSE Files
  /\ bad_globs \in BOOLEAN
  /\ phase = "start"
  /\ rejected \in SUBSET Files
  /\ disk \in [Files -> Texts]
  /\ sealed \in SUBSET (Dirs \cup {"tree"})
  /\ edits = 0
  /\ todo = <<>> /\ paths = <<>> /\ skipped = 0 /\ warned = {}
  /\ waiting = {} /\ worker = [w \in Workers |-> Idle] /\ outcome = <<>> /\ saved = {}
  /\ answer = NoAnswer

\* What cannot be used as things are: a pattern, a directory, the root file.
Unusable == (IF bad_globs THEN {"glob"} ELSE {}) \cup sealed
              \cup {f \in Files : f = root /\ disk[f].fate = "gone"}

Fail(where) ==
  /\ phase' = "done"
  /\ answer' = Err(where)
  /\ UNCHANGED <<api, root, bad_globs, disk_vars, paths, skipped, warned, run_vars>>

\* canonicalize fails on what does not exist. A sealed root may be missing
\* or only unreadable, and what is only unreadable has a canonical name.
RootMissing ==
  /\ phase = "start" /\ root \in Unusable
  /\ Fail({root})
  /\ UNCHANGED todo

RootResolved ==
  /\ phase = "start"
  /\ root = "tree" \/ root \notin Unusable
  /\ phase' = "globs"
  /\ UNCHANGED <<api, root, bad_globs, disk_vars, walk_vars, run_vars, answer>>

BadGlob ==
  /\ phase = "globs" /\ bad_globs
  /\ Fail({"glob"})
  /\ UNCHANGED todo

\* WalkDir's first entry is the root: it may have gone since it was resolved.
RootUnopened ==
  /\ phase = "globs" /\ ~bad_globs /\ root \in Unusable /\ api # "files"
  /\ Fail({root})
  /\ UNCHANGED todo

\* WalkDir yields every entry once, in the order the file system lists them;
\* scan_files gets whatever list its caller has, repetitions included.
Listings == IF api = "files" THEN BoundedSeq(Files, MaxList)
                             ELSE SetToSeqs(Entries)

OpenTree ==
  /\ phase = "globs" /\ ~bad_globs /\ root = "tree"
  /\ root \notin Unusable \/ api = "files"
  /\ phase' = "walk"
  /\ todo' \in Listings
  /\ UNCHANGED <<api, root, bad_globs, disk_vars, paths, skipped, warned, run_vars, answer>>

\* A root that is itself a file is scanned as it is: no filter, no header.
OpenFile ==
  /\ phase = "globs" /\ ~bad_globs /\ root \in Files \ Unusable
  /\ phase' = "walk"
  /\ paths' = <<root>>
  /\ UNCHANGED <<api, root, bad_globs, disk_vars, todo, skipped, warned, run_vars, answer>>

-----------------------------------------------------------------------------
(* Collecting the paths *)

TraversalErrorAtRoot ==
  /\ phase = "walk" /\ todo # <<>> /\ Head(todo) \in sealed
  /\ todo' = Tail(todo)
  /\ Fail({root})

\* A directory WalkDir cannot open aborts the walk and the scan.
TraversalError ==
  /\ phase = "walk" /\ todo # <<>> /\ Head(todo) \in sealed
  /\ todo' = Tail(todo)
  /\ Fail({Head(todo)})

\* Not a file, ruled out by its path, or already gone when the directory was
\* listed: dropped without a word.
Reject ==
  /\ phase = "walk" /\ todo # <<>>
  /\ LET e == Head(todo) IN
       \/ e \in Dirs \ sealed
       \/ e \in rejected
       \/ e \in Files /\ disk[e].fate = "gone" /\ api # "files"
  /\ todo' = Tail(todo)
  /\ UNCHANGED <<api, root, bad_globs, phase, disk_vars, paths, skipped, warned, run_vars, answer>>

Classifiable == phase = "walk" /\ todo # <<>> /\ Head(todo) \in Files \ rejected

WarnAndSkip ==
  /\ Classifiable /\ HeaderUnreadable(disk[Head(todo)])
  /\ warned' = warned \cup {Head(todo)}
  /\ todo' = Tail(todo)
  /\ UNCHANGED <<api, root, bad_globs, phase, disk_vars, paths, skipped, run_vars, answer>>

GeneratedSkip ==
  /\ Classifiable /\ disk[Head(todo)].fate = "generated"
  /\ skipped' = skipped + 1
  /\ todo' = Tail(todo)
  /\ UNCHANGED <<api, root, bad_globs, phase, disk_vars, paths, warned, run_vars, answer>>

Select ==
  /\ Classifiable
  /\ disk[Head(todo)].fate \in {"ok", "broken", "garbled_tail"}
  /\ paths' = Append(paths, Head(todo))
  /\ todo' = Tail(todo)
  /\ UNCHANGED <<api, root, bad_globs, phase, disk_vars, skipped, warned, run_vars, answer>>

\* All paths are known: the parallel iterator is set up over them.
StartJobs ==
  /\ phase = "walk" /\ todo = <<>>
  /\ phase' = "run"
  /\ waiting' = Jobs
  /\ outcome' = [i \in Jobs |-> NotRun]
  /\ UNCHANGED <<api, root, bad_globs, disk_vars, walk_vars, worker, saved, answer>>

-----------------------------------------------------------------------------
(* Running the jobs *)

TakeAgain(w) ==
  /\ phase = "run" /\ worker[w] = Idle
  /\ ShortCircuits => saved = {}
  /\ \E i \in waiting :
       /\ waiting' = waiting \ {i + 1}
       /\ worker' = [worker EXCEPT ![w] = [job |-> i, text |-> disk[paths[i]]]]
  /\ UNCHANGED <<api, root, bad_globs, phase, disk_vars, walk_vars, outcome, saved, answer>>

TakeZeroBased(w) ==
  /\ phase = "run" /\ worker[w] = Idle
  /\ ShortCircuits => saved = {}
  /\ \E i \in waiting :
       /\ waiting' = waiting \ {i}
       /\ worker' = [worker EXCEPT ![w] = [job |-> i - 1, text |-> disk[paths[i]]]]
  /\ UNCHANGED <<api, root, bad_globs, phase, disk_vars, walk_vars, outcome, saved, answer>>

\* A worker steals a job and reads the file in one go. Collecting into a
\* Result makes rayon stop handing out jobs once an error is kept.
Take(w) ==
  /\ phase = "run" /\ worker[w] = Idle
  /\ ShortCircuits => saved = {}
  /\ \E i \in waiting :
       /\ waiting' = waiting \ {i}
       /\ worker' = [worker EXCEPT ![w] = [job |-> i, text |-> disk[paths[i]]]]
  /\ UNCHANGED <<api, root, bad_globs, phase, disk_vars, walk_vars, outcome, saved, answer>>

KeepFirst(old, i, text) ==
  IF ShortCircuits /\ old = {} /\ Fails(text) THEN {i} ELSE old
\* The job ends: its text has been parsed, suppressions applied and every
\* check run, or it turned into an error.
Finish(w) ==
  /\ worker[w] # Idle
  /\ outcome' = [outcome EXCEPT ![worker[w].job] = worker[w].text]
  /\ saved' = KeepFirst(saved, worker[w].job, worker[w].text)
  /\ worker' = [worker EXCEPT ![w] = Idle]
  /\ UNCHANGED <<api, root, bad_globs, phase, disk_vars, walk_vars, waiting, answer>>

Drained == waiting = {} /\ \A w \in Workers : worker[w] = Idle
Halted  == saved # {} /\ \A w \in Workers : worker[w] = Idle

\* collect_scan_results: all errors, or all values.
GatherAll ==
  /\ phase = "run" /\ ~ShortCircuits /\ Drained
  /\ answer' = IF FailedJobs # {} THEN Err({paths[i] : i \in FailedJobs}) ELSE Ok
  /\ phase' = "done"
  /\ UNCHANGED <<api, root, bad_globs, disk_vars, walk_vars, run_vars>>

GatherFirstTooEarly ==
  /\ phase = "run" /\ ShortCircuits /\ (waiting = {} \/ Halted)
  /\ answer' = IF saved # {} THEN Err({paths[i] : i \in saved}) ELSE Ok
  /\ phase' = "done"
  /\ UNCHANGED <<api, root, bad_globs, disk_vars, walk_vars, run_vars>>

\* collect::<Result<Vec<_>, _>>(): the error that was kept, or all values.
GatherFirst ==
  /\ phase = "run" /\ ShortCircuits /\ (Drained \/ Halted)
  /\ answer' = IF saved # {} THEN Err({paths[i] : i \in saved}) ELSE Ok
  /\ phase' = "done"
  /\ UNCHANGED <<api, root, bad_globs, disk_vars, walk_vars, run_vars>>

-----------------------------------------------------------------------------
(* The rest of the machine: a build, an editor, a checkout *)

Edit(f) ==
  /\ phase # "done" /\ edits < MaxEdits
  /\ \E text \in Texts \ {disk[f]} : disk' = [disk EXCEPT ![f] = text]
  /\ edits' = edits + 1
  /\ UNCHANGED <<api, root, bad_globs, phase, rejected, sealed, walk_vars, run_vars, answer>>

Seal(d) ==
  /\ phase # "done" /\ edits < MaxEdits
  /\ sealed' = (sealed \ {d}) \cup ({d} \ sealed)
  /\ edits' = edits + 1
  /\ UNCHANGED <<api, root, bad_globs, phase, rejected, disk, walk_vars, run_vars, answer>>

Open == RootMissing \/ RootResolved \/ BadGlob \/ RootUnopened \/ OpenTree \/ OpenFile
Walk == TraversalError \/ Reject \/ WarnAndSkip \/ GeneratedSkip \/ Select \/ StartJobs
Work(w) == Take(w) \/ Finish(w)
Gather == GatherAll \/ GatherFirst
Environment == (\E f \in Files : Edit(f)) \/ (\E d \in Dirs \cup {"tree"} : Seal(d))

Next == Open \/ Walk \/ (\E w \in Workers : Work(w)) \/ Gather \/ Environment

\* The calling thread opens the root, walks and gathers, and every thread of
\* the pool runs until its queue is empty. Nothing is assumed of the
\* environment.
Fairness ==
  /\ WF_vars(Open)
  /\ WF_vars(Walk)
  /\ WF_vars(Gather)
  /\ \A w \in Workers : WF_vars(Work(w))

Spec == Init /\ [][Next]_vars /\ Fairness
-----------------------------------------------------------------------------
(* Properties *)

Outcomes == Texts \cup {NotRun}
Held     == [job : DOMAIN outcome, text : Texts]
Answers  == [tag : {"none", "ok", "err"}, errors : SUBSET Places,
             report : SUBSET (Files \X Checks), panics : SUBSET (Files \X Checks),
             scanned : Nat, skipped : Nat]

\* Every variable stays in its type. `outcome` has no place before the pool
\* starts and one per selected path from then on, and no job number, be it
\* unclaimed, held by a worker or kept as the error, points outside it.
TypeOK ==
  /\ api \in Apis
  /\ root \in Files \cup {"tree"}
  /\ bad_globs \in BOOLEAN
  /\ phase \in {"start", "globs", "walk", "run", "done"}
  /\ rejected \subseteq Files
  /\ disk \in [Files -> Texts]
  /\ sealed \subseteq Dirs \cup {"tree"}
  /\ edits \in Nat
  /\ todo \in Seq(Entries)
  /\ paths \in Seq(Files)
  /\ skipped \in Nat
  /\ warned \subseteq Files
  /\ outcome \in [{} -> Outcomes] \cup [Jobs -> Outcomes]
  /\ phase = "run" => DOMAIN outcome = Jobs
  /\ waiting \subseteq DOMAIN outcome
  /\ saved \subseteq DOMAIN outcome
  /\ worker \in [Workers -> {Idle} \cup Held]
  /\ answer \in Answers

\* No file is analysed twice or forgotten: while the pool runs, a job is
\* unclaimed, or held by exactly one worker, or has its outcome
\* (scan_directory_with_checks and its par_iter).
OneOwner ==
  phase = "run" =>
    \A i \in Jobs :
      /\ i \in waiting => ~Ran(i) /\ \A w \in Workers : worker[w].job # i
      /\ i \notin waiting /\ ~Ran(i) => \E w \in Workers : worker[w].job = i
      /\ Ran(i) => \A w \in Workers : worker[w].job # i
      /\ \A v, w \in Workers : worker[v].job = i /\ worker[w].job = i => v = w

\* A scan that answers Ok has run every selected file to its end and none of
\* them failed, whatever changed on disk meanwhile: an Ok answer never hides
\* a job that was dropped when the pool stopped early.
OkIsComplete ==
  answer.tag = "ok" =>
    /\ \A i \in Jobs : Ran(i) /\ ~Fails(outcome[i])
    /\ answer.scanned = Len(paths)

\* A scan that answers Err names what did go wrong when it gave up: the root,
\* the pattern or the directory that could not be used at that moment, and
\* nothing else beside it, or selected files whose texts, as the workers
\* read them, failed. (The disk is not followed once the answer is out, so
\* Unusable is what it was then.)
ErrorsAreReal ==
  answer.tag = "err" =>
    \/ \E place \in Unusable : answer.errors = {place}
    \/ answer.errors # {} /\ answer.errors \subseteq {paths[i] : i \in FailedJobs}

\* The files a walk must scan, read off a disk that does not change.
Target == IF root = "tree"
          THEN {f \in Files \ rejected : disk[f].fate \in {"ok", "broken", "garbled_tail"}}
          ELSE {root}
Broken == {f \in Target : Fails(disk[f])}
\* What stops the scan before a file is read: the root or a pattern, or else
\* some directory below the root.
Obstacles == IF {root, "glob"} \cap Unusable # {} THEN {root, "glob"} \cap Unusable
             ELSE IF root = "tree" THEN sealed ELSE {}
Generated == IF root = "tree"
             THEN {f \in Files \ rejected : disk[f].fate = "generated"} ELSE {}
LeftOut   == IF root = "tree"
             THEN {f \in Files \ rejected : disk[f].fate \in {"locked", "garbled_head"}} ELSE {}

\* On a disk nobody touched, what a scan returns is a function of the tree:
\* the order in which the file system lists entries, the number of workers
\* and their interleaving do not show. (Which of several errors the CLI's
\* entry point returns is the one thing they decide.) Files that cannot be read
\* do not make it an error and are counted nowhere, but the warnings on stderr
\* name every one of them.
QuietVerdict ==
  edits = 0 /\ phase = "done" /\ api # "files" =>
    CASE Obstacles # {} ->
           answer.tag = "err" /\ \E place \in Obstacles : answer.errors = {place}
      [] Obstacles = {} /\ Broken # {} ->
           /\ answer.tag = "err"
           /\ answer.errors # {} /\ answer.errors \subseteq Broken
           /\ api = "directory" => answer.errors = Broken
      [] OTHER ->
           /\ answer.tag = "ok"
           /\ answer.report = {p \in Target \X Checks :
                                 p[2] \in disk[p[1]].hits \ disk[p[1]].crash}
           /\ answer.panics = {p \in Target \X Checks : p[2] \in disk[p[1]].crash}
           /\ answer.scanned = Cardinality(Target)
           /\ answer.skipped = Cardinality(Generated)
           /\ LeftOut \subseteq warned

\* Every scan comes to an answer: no worker waits for another, and a pool
\* that stops early still lets the caller go on.
Terminates == <>(phase = "done")

\* The comment on run_scan's error branch: a directory with several broken
\* files surfaces every one of them.
EveryErrorSurfaces ==
  phase = "done" /\ root = "tree" /\ Obstacles = {} /\ Broken # {} =>
    answer.errors = Broken
=============================================================================
