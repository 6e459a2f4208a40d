----------------------------- MODULE ScanPromise -----------------------------
(***************************************************************************)
(* What a caller of the analyzer may rely on, without walk, workers or     *)
(* locks: some files are analysed, each from one text it held, and then    *)
(* one answer is given, built from exactly those texts. The answer is Ok   *)
(* only when none of them failed; an error names files that did fail, or   *)
(* the one place that was unusable at that moment. The answer is final.    *)
(***************************************************************************)
CONSTANTS Files, Dirs, Checks, Texts

VARIABLES unusable, \* places that cannot be opened, and bad patterns, as of now
          seen,     \* <<file, text>> pairs analysed so far
          verdict   \* what was returned: <<>> while the scan runs

Places == Files \cup Dirs \cup {"tree", "glob"}

Bad(text) == text.fate \in {"gone", "locked", "garbled_head", "garbled_tail", "broken"}

OkVerdict ==
  [tag |-> "ok",
   report |-> {p \in Files \X Checks :
                \E t \in Texts : <<p[1], t>> \in seen /\ p[2] \in t.hits \ t.crash},
   panics |-> {p \in Files \X Checks :
                \E t \in Texts : <<p[1], t>> \in seen /\ p[2] \in t.crash}]

ErrVerdict(where) == [tag |-> "err", errors |-> where]

Init == verdict = <<>> /\ seen = {} /\ unusable \in SUBSET Places

\* The world changes under the scan, which does not notice by itself.
Change ==
  /\ verdict = <<>>
  /\ unusable' \in SUBSET Places
  /\ UNCHANGED <<seen, verdict>>

Analyse ==
  /\ verdict = <<>>
  /\ \E f \in Files, t \in Texts : seen' = seen \cup {<<f, t>>}
  /\ UNCHANGED <<unusable, verdict>>

\* Ok: nothing analysed was bad. No file may be bad and left out silently.
ReturnOk ==
  /\ verdict = <<>>
  /\ \A p \in seen : ~Bad(p[2])
  /\ verdict' = OkVerdict
  /\ UNCHANGED <<unusable, seen>>

ReturnErr ==
  /\ verdict = <<>>
  /\ \/ \E place \in unusable : verdict' = ErrVerdict({place})
     \/ \E where \in SUBSET {p[1] : p \in {q \in seen : Bad(q[2])}} :
          where # {} /\ verdict' = ErrVerdict(where)
  /\ UNCHANGED <<unusable, seen>>

Next == Change \/ Analyse \/ ReturnOk \/ ReturnErr

Spec == Init /\ [][Next]_<<unusable, seen, verdict>>
==============================================================================
