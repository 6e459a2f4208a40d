----------------------------- MODULE ScanReport -----------------------------
(***************************************************************************)
(* From the findings of the files to the report: what the two library      *)
(* entry points return, one for the files of a directory and one for a     *)
(* list of paths, and what the formats of the command make of the answer.  *)
(* Findings that print alike are one record here. Severities are ranks: 0  *)
(* is high, 2 is low. FileReport has what happens to a finding before.     *)
(***************************************************************************)
EXTENDS Naturals, Sequences, FiniteSetsExt, SequencesExt

CONSTANTS
  Paths,     \* the files, 1 .. n in the order of their labels
  MaxRaw,    \* bound: findings, panics and failures of all files
  MaxAsked   \* bound: paths given to scan_files

VARIABLES
  raw,    \* the findings in a file, in the order the checks emit them
  fates,  \* what else happened to a file: a check panicked, it could not be read
  asked   \* the paths given to scan_files, in any order, perhaps twice

Ranks    == 0 .. 2
MaxLine  == 2
Findings == [path : Paths, line : 1 .. MaxLine, check : {"c", "d"}, rank : Ranks]

-----------------------------------------------------------------------------

\* A stable sort by a key that is a number
SortBy(s, Key(_), last) ==
  FlattenSeq([k \in 1 .. last |-> SelectSeq(s, LAMBDA f : Key(f) = k)])
ByLine(s) == SortBy(s, LAMBDA f : f.line, MaxLine)
ByPath(s) == SortBy(s, LAMBDA f : f.path, Cardinality(Paths))

\* Mutant: duplicates are looked for next to each other, as Vec::dedup does.
DedupAdjacent(s) ==
  FoldLeft(LAMBDA kept, f : IF kept # <<>> /\ Last(kept) = f THEN kept ELSE Append(kept, f), <<>>, s)
\* dedup_findings
Dedup(s) == FoldLeft(LAMBDA kept, f : IF Contains(kept, f) THEN kept ELSE Append(kept, f), <<>>, s)

\* run_checks_for_file, after suppressions
FileFindings(p) == Dedup(ByLine(raw[p]))

\* scan_directory_with_checks, whose results run_scan flattens
DirectoryAnswer == FlattenSeq([p \in Paths |-> FileFindings(p)])

\* scan_files, if no file failed
FilesAnswer ==
  Dedup(ByPath(ByLine(FlattenSeq([n \in DOMAIN asked |-> FileFindings(asked[n])]))))

-----------------------------------------------------------------------------
(* Formats *)

\* severity_counts
Count(s, rank) == Quantify(DOMAIN s, LAMBDA i : s[i].rank = rank)

\* run_scan: the exit gate
ShouldFail(s, threshold) == \E f \in ToSet(s) : f.rank <= threshold

\* truncate, for the pretty format: 0 is no limit.
Display(s, max)   == IF max = 0 \/ Len(s) <= max THEN s ELSE SubSeq(s, 1, max)
Truncated(s, max) == IF max = 0 \/ Len(s) <= max THEN 0 ELSE Len(s) - max
\* print_pretty: the number it announces
Announced(s, max) == Len(Display(s, max)) + Truncated(s, max)

\* build_sarif: a rule for every check, with the worst severity it was seen with
SarifRules(s) ==
  FoldLeft(LAMBDA rules, f :
             IF ~\E r \in rules : r.id = f.check THEN rules \cup {[id |-> f.check, rank |-> f.rank]}
             ELSE {IF r.id = f.check /\ f.rank < r.rank THEN [r EXCEPT !.rank = f.rank] ELSE r : r \in rules},
           {}, s)

\* group_by_file and group_by_severity, in the order of their maps
GroupByFile(s)     == [p \in Paths |-> SelectSeq(s, LAMBDA f : f.path = p)]
GroupBySeverity(s) == [n \in 1 .. 3 |-> SelectSeq(s, LAMBDA f : f.rank = n - 1)]

-----------------------------------------------------------------------------
(* Errors *)

Panic(p)   == [is |-> "panic", path |-> p]
IoError(p) == [is |-> "io", path |-> p]
Multiple(errors) == [is |-> "multiple", inner |-> errors]

\* run_checks_for_file: the panics of a file that was read
FilePanics(p) == IF "panic" \in fates[p] THEN <<Panic(p)>> ELSE <<>>

\* collect_scan_results: every error, by path; or the panics of all files
Failed(paths) == SelectSeq(paths, LAMBDA p : "unreadable" \in fates[p])
CollectScanResults(paths) ==
  IF Failed(paths) # <<>>
  THEN [ok |-> FALSE, errors |-> <<Multiple([n \in DOMAIN Failed(paths) |-> IoError(Failed(paths)[n])])>>]
  ELSE [ok |-> TRUE, errors |-> FlattenSeq([n \in DOMAIN paths |-> FilePanics(paths[n])])]

\* CheckPanicReport::from_errors: a group of errors is searched, one that is no
\* panic is handed back, the first of them.
Flat(errors) ==
  FlattenSeq([n \in DOMAIN errors |-> IF errors[n].is = "multiple" THEN errors[n].inner ELSE <<errors[n]>>])
FromErrors(errors) ==
  LET others == SelectSeq(Flat(errors), LAMBDA e : e.is # "panic")
  IN IF others # <<>> THEN [is |-> "error", error |-> Head(others)]
     ELSE [is |-> "report", panics |-> Flat(errors)]

-----------------------------------------------------------------------------

Init == raw = [p \in Paths |-> <<>>] /\ fates = [p \in Paths |-> {}] /\ asked = <<>>

More == MapThenSumSet(LAMBDA p : Len(raw[p]) + Cardinality(fates[p]), Paths) < MaxRaw
Emit(f) ==
  /\ More /\ raw' = [raw EXCEPT ![f.path] = Append(@, f)]
  /\ UNCHANGED <<fates, asked>>
Happen(p, fate) ==
  /\ More /\ fate \notin fates[p] /\ fates' = [fates EXCEPT ![p] = @ \cup {fate}]
  /\ UNCHANGED <<raw, asked>>
Ask(p) == Len(asked) < MaxAsked /\ asked' = Append(asked, p) /\ UNCHANGED <<raw, fates>>

Next ==
  \/ \E f \in Findings : Emit(f)
  \/ \E p \in Paths : Ask(p) \/ \E fate \in {"panic", "unreadable"} : Happen(p, fate)

-----------------------------------------------------------------------------
(* Property *)

\* The two entry points agree on every file both looked at, whatever the order
\* of the list and however often a file is in it: each has every finding once.
\* Of an answer, the exit code agrees with the counts of the summary for every
\* threshold, the pretty format accounts for what it leaves out, a SARIF rule
\* is as severe as its worst result and no more, and the groups of a file put
\* together are the answer again. A report of panics can be made of what a list
\* of files gave exactly if every file could be read, and says that a check is
\* missing exactly if one is.
ReportFindings ==
  /\ LET result == CollectScanResults(asked) report == FromErrors(result.errors) IN
       /\ report.is = "report" <=> result.ok
       /\ report.is = "report" =>
            (report.panics # <<>> <=> \E p \in ToSet(asked) : "panic" \in fates[p])
       /\ report.is = "error" =>
            report.error.path \in ToSet(asked) /\ "unreadable" \in fates[report.error.path]
  /\ FilesAnswer = SelectSeq(DirectoryAnswer, LAMBDA f : f.path \in ToSet(asked))
  /\ ToSet(DirectoryAnswer) = UNION {ToSet(raw[p]) : p \in Paths}
  /\ Cardinality(ToSet(DirectoryAnswer)) = Len(DirectoryAnswer)
  /\ \A s \in {DirectoryAnswer, FilesAnswer} :
       /\ \A r \in Ranks : ShouldFail(s, r) <=> \E q \in 0 .. r : Count(s, q) > 0
       /\ \A max \in 0 .. MaxRaw : Announced(s, max) = Count(s, 0) + Count(s, 1) + Count(s, 2)
       /\ \A f \in ToSet(s) :
            \E rule \in SarifRules(s) :
              /\ rule.id = f.check /\ rule.rank <= f.rank
              /\ \E g \in ToSet(s) : g.check = f.check /\ g.rank = rule.rank
              /\ \A other \in SarifRules(s) : other.id = f.check => other = rule
       /\ FlattenSeq(GroupByFile(s)) = s
       /\ \A r \in Ranks : Len(GroupBySeverity(s)[r + 1]) = Count(s, r)
=============================================================================
