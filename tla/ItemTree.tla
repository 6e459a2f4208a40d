------------------------------ MODULE ItemTree ------------------------------
(***************************************************************************)
(* Which items of a file the checks look at. Code for tests is left out,   *)
(* by three walks of the tree of items: the collector of #[contractimpl]   *)
(* methods nearly every check starts from, mutable-global-state, and       *)
(* hardcoded-address; a fourth, missing-contract-annotation, leaves nothing *)
(* out. Items are a sequence; "mod" and "end" bracket the items of an      *)
(* inline module.                                                          *)
(***************************************************************************)
EXTENDS Naturals, Sequences, FiniteSetsExt

CONSTANT MaxItems   \* bound: items in a file, the ends of modules included

VARIABLE items

\* The predicate of a #[cfg(..)], all or any of some terms; all of none if
\* there is no such attribute.
Cfgs == {[op |-> "all", terms |-> ts] :
           ts \in {{}, {"test"}, {"feature"}, {"not test"}, {"test", "feature"}, {"not test", "feature"}}}
          \cup {[op |-> "any", terms |-> {"test", "feature"}]}
Plain == [op |-> "all", terms |-> {}]
Test  == [op |-> "all", terms |-> {"test"}]

\* A module with a predicate or named tests, a #[contractimpl] block, a struct,
\* a static mut. An address may be in any of the three. The blocks are all of
\* one type, which a #[contract] declares.
Items == [does : {"mod"}, cfg : Cfgs, tests : {FALSE}]
           \cup {[does |-> "mod", cfg |-> Plain, tests |-> TRUE], [does |-> "end", cfg |-> Plain, tests |-> FALSE]}
           \cup [does : {"impl", "contract", "struct", "static"}, cfg : {Plain, Test}, tests : {FALSE}]

Depth(s, i) == Quantify(1 .. i, LAMBDA j : s[j].does = "mod") - Quantify(1 .. i, LAMBDA j : s[j].does = "end")
Around(s, i) == {j \in 1 .. (i - 1) : s[j].does = "mod" /\ \A k \in j .. i : Depth(s, k) >= Depth(s, j)}

-----------------------------------------------------------------------------

\* Mutant: `not(test)` is taken for a mention of test.
MentionsInNot(cfg) == "test" \in cfg.terms \/ "not test" \in cfg.terms
\* is_cfg_test, meta_mentions_test: the bare word among the terms.
IsCfgTest(cfg) == "test" \in cfg.terms

IsTestMod(m) == IsCfgTest(m.cfg) \/ m.tests
InTestMod(s, i) == \E j \in Around(s, i) : IsTestMod(s[j])

\* contractimpl_functions_excluding_test: attributes of the block are not read.
Collected(s) == {i \in DOMAIN s : s[i].does = "impl" /\ ~InTestMod(s, i)}

\* mutable-global-state
MutableGlobals(s) == {i \in DOMAIN s : s[i].does = "static" /\ ~InTestMod(s, i)}

\* collect_test_ranges of hardcoded-address: attributes of items count as well.
InTestRange(s, i) == InTestMod(s, i) \/ IsCfgTest(s[i].cfg)

\* missing-contract-annotation: a declaration anywhere in the file will do.
Orphans(s) ==
  {i \in DOMAIN s : s[i].does = "impl" /\ ~\E j \in DOMAIN s : s[j].does = "contract"}

-----------------------------------------------------------------------------

Init == items = <<>>
Next ==
  /\ Len(items) < MaxItems
  /\ \E item \in Items :
       /\ item.does = "end" => Depth(items, Len(items)) > 0
       /\ items' = Append(items, item)

-----------------------------------------------------------------------------
(* Property *)

\* The builds an item is in, by the tests and by the feature
Holds(term, test, feature) ==
  CASE term = "test" -> test [] term = "not test" -> ~test [] term = "feature" -> feature
Enabled(cfg, test, feature) ==
  IF cfg.op = "all" THEN \A t \in cfg.terms : Holds(t, test, feature)
                    ELSE \E t \in cfg.terms : Holds(t, test, feature)
Built(s, i, test, feature) ==
  Enabled(s[i].cfg, test, feature) /\ \A j \in Around(s, i) : Enabled(s[j].cfg, test, feature)
Shipped(s, i) == \E feature \in BOOLEAN : Built(s, i, FALSE, feature)

Item(s, i)     == s[i].does \in {"impl", "contract", "struct", "static"}
NamedTests(s, i) == \E j \in Around(s, i) : s[j].tests
AnyOf(s, i)      == \E j \in Around(s, i) : s[j].cfg.op = "any"

\* Code that is shipped is looked at by every check, unless a module around it
\* is named tests or is there for the tests or a feature; and code that is
\* only for the tests is not, unless only its own attribute says so, which
\* hardcoded-address alone reads. A block that is shipped where its contract is
\* not declared is reported, unless a build without it has the declaration.
ItemFindings ==
  /\ \A i \in DOMAIN items : Item(items, i) /\ Shipped(items, i) =>
       \/ NamedTests(items, i) \/ AnyOf(items, i)
       \/ /\ items[i].does = "impl" => i \in Collected(items)
          /\ items[i].does = "static" => i \in MutableGlobals(items)
          /\ ~InTestRange(items, i)
  /\ \A i \in DOMAIN items : Item(items, i) /\ ~Shipped(items, i) =>
       /\ InTestRange(items, i)
       /\ i \in Collected(items) \cup MutableGlobals(items) => items[i].cfg = Test
  /\ \A i \in DOMAIN items, test, feature \in BOOLEAN :
       LET declared == {j \in DOMAIN items : items[j].does = "contract"} IN
         items[i].does = "impl" /\ Built(items, i, test, feature) =>
           /\ (\E j \in declared : Built(items, j, test, feature)) => i \notin Orphans(items)
           /\ (\A j \in declared : ~Built(items, j, test, feature)) => i \in Orphans(items) \/ declared # {}
=============================================================================
