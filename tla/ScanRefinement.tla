---------------------------- MODULE ScanRefinement ----------------------------
(***************************************************************************)
(* The scan implements ScanPromise: a job that ends is the abstract        *)
(* Analyse step, gathering (or giving up before it) is the abstract        *)
(* return, an edit of the disk the abstract change.                        *)
(***************************************************************************)
EXTENDS Scan

Seen == {<<paths[i], outcome[i]>> : i \in {j \in DOMAIN outcome : Ran(j)}}

Verdict ==
  CASE answer.tag = "ok"  -> [tag |-> "ok", report |-> answer.report, panics |-> answer.panics]
    [] answer.tag = "err" -> [tag |-> "err", errors |-> answer.errors]
    [] OTHER              -> <<>>

Promise == INSTANCE ScanPromise WITH unusable <- Unusable, seen <- Seen, verdict <- Verdict

\* Every behaviour of the scan, edits of the disk included, is one the
\* abstract specification allows: the answer is given once, is final, and
\* reports precisely what was analysed.
KeepsPromise == Promise!Spec
===============================================================================
