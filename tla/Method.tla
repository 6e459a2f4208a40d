------------------------------- MODULE Method -------------------------------
(***************************************************************************)
(* A method body as the checks see it, a sequence of statements in source  *)
(* order, and what its executions do. A statement is what it does, what it *)
(* does it to, and whether it starts a line. Blocks are bracketed: "if"    *)
(* .. "else" .. "end"; "guard" is an `if` whose block leaves the method,   *)
(* "assert" panics when its condition fails. Brackets still open at the    *)
(* end are closed there, so that every prefix of a body is a body.         *)
(***************************************************************************)
EXTENDS Naturals, Sequences, FiniteSetsExt, SequencesExt

Do(does, on)   == [does |-> does, on |-> on, fresh |-> TRUE]
Also(does, on) == [does |-> does, on |-> on, fresh |-> FALSE]  \* on the same line

\* The position of the first statement of a kind in the order of the visitors,
\* 0 if there is none, and its line.
Places(b, Is(_)) == {i \in DOMAIN b : Is(b[i])}
Has(b, Is(_))    == Places(b, Is) # {}
First(b, Is(_))  == IF Has(b, Is) THEN Min(Places(b, Is)) ELSE 0
Line(b, i)       == Quantify(1 .. i, LAMBDA j : b[j].fresh)

-----------------------------------------------------------------------------
(* Executions: what each has done so far, by position, the number of blocks *)
(* open, the number of the block it skips (0: none), whether it has ended.  *)

Start == [did |-> <<>>, depth |-> 0, skip |-> 0, over |-> FALSE]
Live(r) == r.skip = 0 /\ ~r.over

Skips(r, i) == [r EXCEPT !.depth = @ + 1, !.skip = IF Live(r) THEN r.depth + 1 ELSE @]
Takes(r, i) == [r EXCEPT !.depth = @ + 1, !.did = IF Live(r) THEN Append(@, i) ELSE @]
Does(r, i)  == [r EXCEPT !.did = IF Live(r) THEN Append(@, i) ELSE @]
Leaves(r)   == [r EXCEPT !.over = @ \/ Live(r)]

\* A condition goes either way, unless it is known to hold, "true", or not to,
\* "false". A guard leaves when its condition holds. An assertion that fails
\* undoes the whole execution, which then does not count.
Advance(r, s, i) ==
  CASE s.does = "if"     -> {x \in {Skips(r, i)} : s.on # "true"} \cup {x \in {Takes(r, i)} : s.on # "false"}
    [] s.does = "else"   -> {[r EXCEPT !.skip = IF @ = r.depth THEN 0
                                                ELSE IF Live(r) THEN r.depth ELSE @]}
    [] s.does = "end"    -> {[r EXCEPT !.depth = @ - 1, !.skip = IF @ = r.depth THEN 0 ELSE @]}
    [] s.does = "return" -> {Leaves(r)}
    [] s.does = "guard"  -> {x \in {Leaves(r)} : s.on # "false"} \cup {x \in {Does(r, i)} : s.on # "true"}
    [] s.does = "assert" -> {x \in {Does(r, i)} : ~Live(r) \/ s.on # "false"}
    [] OTHER             -> {Does(r, i)}

Walk(b) ==
  LET After[i \in 0 .. Len(b)] ==
        IF i = 0 THEN {Start} ELSE UNION {Advance(r, b[i], i) : r \in After[i - 1]}
  IN After[Len(b)]
Runs(b) == {r.did : r \in Walk(b)}

Depth(b, i) == Quantify(1 .. i, LAMBDA j : b[j].does = "if")
               - Quantify(1 .. i, LAMBDA j : b[j].does = "end")
Inside(b, i) == Depth(b, i) > 0

\* The block that i stands in, or opens, is still open at j.
InBlockOf(b, i, j) ==
  \A k \in i .. j :
    /\ Depth(b, k) >= Depth(b, i)
    /\ b[k].does = "else" => Depth(b, k) > Depth(b, i)

\* Some execution does a statement of a kind with none of another before it.
Unguarded(b, Is(_), Before(_)) ==
  \E r \in Runs(b) : \E n \in DOMAIN r :
    Is(b[r[n]]) /\ \A m \in 1 .. (n - 1) : ~Before(b[r[m]])

-----------------------------------------------------------------------------
(* Bodies are written statement by statement. *)

\* What may come next: no dead code, an `else` for an `if` that has none.
Fits(b, s, nesting) ==
  /\ s.does \in {"load", "let"} => ~Inside(b, Len(b))      \* bound for the whole rest
  /\ s.does = "if" => Depth(b, Len(b)) < nesting
  /\ s.does = "end" => Inside(b, Len(b))
  /\ s.does = "else" =>
       /\ Inside(b, Len(b))
       /\ \E i \in DOMAIN b :
            /\ b[i].does = "if" /\ Depth(b, i) = Depth(b, Len(b))
            /\ \A j \in (i + 1) .. Len(b) :
                 /\ Depth(b, j) >= Depth(b, i)
                 /\ b[j].does = "else" => Depth(b, j) > Depth(b, i)
  /\ s.does \notin {"else", "end"} => \E r \in Walk(b) : Live(r)
  /\ ~s.fresh => b # <<>>
=============================================================================
