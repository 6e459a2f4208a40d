-------------------------------- MODULE MCScan --------------------------------
(* Small instances of Scan: every way a file can be read, one check that     *)
(* finds something, one that panics.                                         *)
EXTENDS ScanRefinement

CONSTANTS c1, c2

Text(fate) == [fate |-> fate, hits |-> {}, crash |-> {}]

MCTexts == {Text(f) : f \in Fates \ {"ok"}}
             \cup {[fate |-> "ok", hits |-> {c1}, crash |-> {c2}],
                   [fate |-> "ok", hits |-> {}, crash |-> {}]}
===============================================================================
