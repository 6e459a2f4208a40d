------------------------------- MODULE Baseline -------------------------------
(***************************************************************************)
(* The baseline filter: findings of earlier scans are recorded by their    *)
(* fingerprints, and what a later scan finds is compared with the record.  *)
(* A fingerprint is the check, file and function of a finding, one key     *)
(* here, and its occurrence number among the findings with that key.       *)
(***************************************************************************)
EXTENDS BagsExt, Naturals, Sequences, FiniteSetsExt, SequencesExt

CONSTANTS
  Keys,      \* check, file and function together
  MaxFound,  \* bound: findings of one scan
  MaxScans   \* bound: scans recorded

VARIABLES
  baseline,   \* counts: a bag of fingerprints
  recorded,   \* the scans the baseline was made from, in order
  against,    \* how many of them when a scan was filtered last
  scan,       \* the findings of that one
  new,        \* new_findings: positions in scan
  hidden      \* hidden_count

Scans == BoundedSeq(Keys, MaxFound)

Count(s, key) == Quantify(DOMAIN s, LAMBDA i : s[i] = key)

-----------------------------------------------------------------------------

\* Mutant: every finding of a key has the fingerprint of the first.
SameFingerprints(s) == [i \in DOMAIN s |-> [key |-> s[i], occurrence |-> 0]]
FingerprintFindings(s) ==
  [i \in DOMAIN s |-> [key |-> s[i], occurrence |-> Count(SubSeq(s, 1, i - 1), s[i])]]

Init ==
  /\ baseline = EmptyBag /\ recorded = <<>>
  /\ against = 0 /\ scan = <<>> /\ new = {} /\ hidden = 0

\* Baseline::insert for every fingerprint of a scan
Record(s) ==
  LET after[i \in 0 .. Len(s)] ==
        IF i = 0 THEN baseline ELSE BagAdd(after[i - 1], FingerprintFindings(s)[i])
  IN /\ Len(recorded) < MaxScans
     /\ baseline' = after[Len(s)]
     /\ recorded' = Append(recorded, s)
     /\ UNCHANGED <<against, scan, new, hidden>>

\* filter_findings: remaining is a copy of the counts; one finding takes one.
FilterStep(s, state, i) ==
  LET f == FingerprintFindings(s)[i] IN
    IF f \in DOMAIN state.remaining
    THEN [state EXCEPT !.remaining = BagRemove(@, f), !.hidden = @ + 1]
    ELSE [state EXCEPT !.new = @ \cup {i}]
Filter(s) ==
  LET after[i \in 0 .. Len(s)] ==
        IF i = 0 THEN [remaining |-> baseline, new |-> {}, hidden |-> 0]
                 ELSE FilterStep(s, after[i - 1], i)
      last == after[Len(s)]
  IN /\ scan' = s /\ new' = last.new /\ hidden' = last.hidden
     /\ against' = Len(recorded)
     /\ UNCHANGED <<baseline, recorded>>

Next == \E s \in Scans : Record(s) \/ Filter(s)

-----------------------------------------------------------------------------
(* Property *)

\* The most findings of a key any one of the scans recorded then had
Most(key) == Max({0} \cup {Count(r, key) : r \in ToSet(SubSeq(recorded, 1, against))})

Hidden(key) == {i \in DOMAIN scan : scan[i] = key} \ new

\* A finding is hidden for every one of its key that a scan recorded, the first
\* ones, and no more: recording a scan again, or several scans into one
\* baseline, hides no more than the one that had most of them. No finding is
\* lost between the two.
BaselineFindings ==
  /\ Cardinality(new) + hidden = Len(scan)
  /\ \A key \in Keys :
       /\ Cardinality(Hidden(key)) = Min({Count(scan, key), Most(key)})
       /\ \A i \in Hidden(key), j \in new : scan[j] = key => i < j
=============================================================================
