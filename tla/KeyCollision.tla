---------------------------- MODULE KeyCollision ----------------------------
(***************************************************************************)
(* symbol-key-collision: one storage key of a contract reached through two *)
(* sources. The visitor files every use of a key under its impl block, or  *)
(* under the module level; what it filed is then reported key by key, in   *)
(* the order of a hash map, and sorted by line.                            *)
(***************************************************************************)
EXTENDS Naturals, Sequences, FiniteSetsExt, SequencesExt

CONSTANT MaxUses   \* bound: uses of keys in a file

VARIABLES
  uses,     \* the uses, in source order
  visited,  \* the visitors are through
  filed,    \* symbol_keys: the groups and keys there are to report
  emitted   \* findings: positions in uses

vars == <<uses, visited, filed, emitted>>

\* The functions of a file in source order: two of one contract, one of another,
\* and one each of two contracts in inline modules, of the same name.
Functions == <<[contract |-> "A", name |-> "f"], [contract |-> "A", name |-> "g"],
               [contract |-> "B", name |-> "f"],
               [contract |-> "m::C", name |-> "h"], [contract |-> "n::D", name |-> "h"]>>

\* A key is written out, or is the constant K, whose value is "k".
Uses == [fn : DOMAIN Functions, key : {"k", "l"}, const : BOOLEAN, fresh : BOOLEAN]

Contract(u) == Functions[u.fn].contract

-----------------------------------------------------------------------------

\* run: top-level impl blocks are visited apart, everything else together.
\* Mutant: one key map for the whole file.
OneMap(u) == "module"
Group(u)  == IF Contract(u) \in {"A", "B"} THEN Contract(u) ELSE "module"

\* inline_source, and the name of a constant
Source(u) == IF u.const THEN "const K" ELSE Functions[u.fn].name

Slot(u) == <<Group(u), u.key>>
LineOf(i) == Quantify(1 .. i, LAMBDA j : uses[j].fresh)

\* The visitors walk the file from top to bottom.
Visit(u) ==
  /\ ~visited /\ Len(uses) < MaxUses
  /\ u.const => u.key = "k"
  /\ uses # <<>> => u.fn >= Last(uses).fn
  /\ ~u.fresh => uses # <<>> /\ u.fn = Last(uses).fn
  /\ uses' = Append(uses, u)
  /\ filed' = filed \cup {Slot(u)}
  /\ UNCHANGED <<visited, emitted>>

Visited ==
  /\ ~visited /\ visited' = TRUE
  /\ UNCHANGED <<uses, filed, emitted>>

\* emit_findings for one key: the first use from each source but the first.
Occurrences(slot) == {i \in DOMAIN uses : Slot(uses[i]) = slot}
Distinct(slot) ==
  {i \in Occurrences(slot) :
     ~\E j \in Occurrences(slot) : j < i /\ Source(uses[j]) = Source(uses[i])}
InOrder(set) ==
  CHOOSE s \in [1 .. Cardinality(set) -> set] : \A i, j \in DOMAIN s : i < j => s[i] < s[j]

Emit(slot) ==
  /\ visited /\ slot \in filed
  /\ filed' = filed \ {slot}
  /\ emitted' = emitted \o InOrder(Distinct(slot) \ {Min(Distinct(slot))})
  /\ UNCHANGED <<uses, visited>>

Init == uses = <<>> /\ visited = FALSE /\ filed = {} /\ emitted = <<>>
Next == Visited \/ (\E u \in Uses : Visit(u)) \/ (\E slot \in filed : Emit(slot))

-----------------------------------------------------------------------------
(* Property *)

\* sort_by_key(line) of run_checks_for_file, which keeps the order on a line
Before(a, b) ==
  \/ LineOf(emitted[a]) < LineOf(emitted[b])
  \/ LineOf(emitted[a]) = LineOf(emitted[b]) /\ a < b
Report ==
  LET places == DOMAIN emitted
      order  == CHOOSE p \in [places -> places] : \A a, b \in places : a < b => Before(p[a], p[b])
  IN [n \in places |-> emitted[order[n]]]

\* What the documentation means: the uses of one key in one contract, by source.
SourcesOf(c, key) == {Source(u) : u \in {v \in ToSet(uses) : Contract(v) = c /\ v.key = key}}
Inline(c) == c \notin {"A", "B"}
Found(c, key) == {i \in ToSet(emitted) : Contract(uses[i]) = c /\ uses[i].key = key}

\* Whatever the order of the hash map, the report is the same list in source
\* order, unless different keys collide on one line; it has one finding for
\* every source of a key of a contract but the first; and contracts in inline
\* modules may be taken for one another, which the documentation rules out (see
\* BlocksAreApart), but hide nothing from each other.
CollisionFindings ==
  visited /\ filed = {} =>
    /\ (\A i, j \in ToSet(emitted) : LineOf(i) = LineOf(j) => uses[i].key = uses[j].key) =>
         Report = InOrder(ToSet(emitted))
    /\ \A c \in {"A", "B"}, key \in {"k", "l"} :
         Cardinality(Found(c, key)) = Max({0, Cardinality(SourcesOf(c, key)) - 1})
    /\ \A i \in ToSet(emitted) :
         LET c == Contract(uses[i]) IN
           \/ Cardinality(SourcesOf(c, uses[i].key)) > 1
           \/ Inline(c) /\ \E j \in 1 .. (i - 1) :
                /\ Inline(Contract(uses[j])) /\ Contract(uses[j]) # c
                /\ uses[j].key = uses[i].key
    /\ \A key \in {"k", "l"} : \A c \in {"m::C", "n::D"} :
         Cardinality(Found("m::C", key) \cup Found("n::D", key)) >= Cardinality(SourcesOf(c, key)) - 1
=============================================================================
