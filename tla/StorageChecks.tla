---------------------------- MODULE StorageChecks ----------------------------
(***************************************************************************)
(* uninitialized-storage-read and panic-in-contract, which share the       *)
(* unwraps of a body between them, and re-initialization-risk. All three   *)
(* are about whether a key is in storage.                                  *)
(***************************************************************************)
EXTENDS Method

\* "has" asks without acting on the answer, "guard" leaves if the key is not
\* there, "if" opens a block for when it is. "unwrap" is get(key).unwrap() or
\* expect, "default" is get(key).unwrap_or(..).checked_mul(..).unwrap(), "option"
\* unwraps something else.
Statements ==
  {Do(d, "k") : d \in {"has", "guard", "assert", "if", "unwrap", "default", "set", "remove"}}
    \cup {Do(d, "l") : d \in {"has", "guard", "unwrap"}}
    \cup {Do(d, "-") : d \in {"option", "if", "else", "end", "return"}} \cup {Also("unwrap", "k")}

\* is_storage_get walks the whole chain, past what supplies a default.
IsRead(s) == s.does \in {"unwrap", "default"}

\* Mutant: a guard for another key will do.
AnyHas(b, i) ==
  \E j \in DOMAIN b : b[j].does \in {"has", "guard", "if"} /\ b[j].on # "-" /\ Line(b, j) < Line(b, i)
\* block_has_storage_has_guard: the same text as key, on an earlier line. The
\* visitor does not look into macros.
HasAbove(b, i) ==
  \E j \in DOMAIN b : b[j].does \in {"has", "guard", "if"} /\ b[j].on = b[i].on /\ Line(b, j) < Line(b, i)

UninitializedStorageRead(b) == {i \in DOMAIN b : IsRead(b[i]) /\ ~HasAbove(b, i)}

\* panic-in-contract leaves the unwraps directly on a get to the other check.
PanicInContract(b) == {i \in DOMAIN b : b[i].does \in {"default", "option"}}

-----------------------------------------------------------------------------
(* re-initialization-risk: an `init` that has run before, when every key is *)
(* there. Conditions are "has", "absent" (its negation), "flag", or "both": *)
(* one of the first two next to a flag, in a binary expression whose value  *)
(* the key does not decide, such as has(k) && flag.                         *)

InitStatements ==
  {Do(d, on) : d \in {"guard", "if", "assert"}, on \in {"has", "absent", "both", "flag"}}
    \cup {Do(d, "-") : d \in {"set", "else", "end", "return"}}

\* is_storage_guard_check_with_locals: negation is looked through, and of a
\* binary expression one side is enough.
IsCheck(s) == s.on \in {"has", "absent", "both"}

\* block_diverges: a statement of the block itself leaves or asserts.
Diverges(b, i) ==
  \E j \in (i + 1) .. Len(b) :
    b[j].does \in {"return", "assert"} /\ Depth(b, j) = Depth(b, i) /\ InBlockOf(b, i, j)

\* Mutant: a check that gates nothing will do.
AnyCheck(b, i) == IsCheck(b[i])
IsGuard(b, i) ==
  /\ IsCheck(b[i])
  /\ \/ b[i].does \in {"guard", "assert"}
     \/ b[i].does = "if" /\ Diverges(b, i)

IsWrite(s) == s.does = "set"
ReInitializationRisk(b) == Has(b, IsWrite) /\ ~\E i \in DOMAIN b : IsGuard(b, i)

-----------------------------------------------------------------------------
(* Properties *)

\* An execution knows, before the n-th thing it does, that the key is there: it
\* looked, wrote or read it successfully, and has not removed it since.
Knows(b, r, n) ==
  \E m \in 1 .. (n - 1) :
    /\ b[r[m]].on = b[r[n]].on
    /\ b[r[m]].does \in {"guard", "assert", "if", "set", "unwrap"}
    /\ \A p \in m .. (n - 1) : ~(b[r[p]].does = "remove" /\ b[r[p]].on = b[r[n]].on)
MayPanic(b, i) ==
  b[i].does = "unwrap" /\ \E r \in Runs(b) : \E n \in DOMAIN r : r[n] = i /\ ~Knows(b, r, n)

\* The `has` at j is a gate to i: a guard, or a block around i, that no branch
\* goes around, and the key is not removed in between.
Gates(b, j, i) ==
  /\ b[j].on = b[i].on
  /\ \/ b[j].does = "guard" /\ InBlockOf(b, j, i)
     \/ b[j].does = "if" /\ InBlockOf(b, j, i)
  /\ ~\E k \in j .. i : b[k] = Do("remove", b[i].on)

\* A read that may find nothing is reported, unless a `has` of that key is
\* above it and does not gate it; a report means such a read, unless the key
\* is known otherwise than by a `has` on an earlier line, or a default takes
\* its place. No unwrap is left out by both checks but those with a `has`
\* above, and only one behind a default is for both.
ReadFindings(b) ==
  /\ \A i \in DOMAIN b : IsRead(b[i]) =>
       /\ MayPanic(b, i) =>
            \/ i \in UninitializedStorageRead(b)
            \/ \E j \in 1 .. (i - 1) : /\ b[j].does \in {"has", "guard", "if"}
                                       /\ b[j].on = b[i].on /\ ~Gates(b, j, i)
       /\ i \in UninitializedStorageRead(b) =>
            \/ MayPanic(b, i)
            \/ \E j \in 1 .. (i - 1) :
                 /\ b[j].on = b[i].on
                 /\ b[j].does \in {"assert", "set", "unwrap"} \/ Line(b, j) = Line(b, i)
            \/ b[i].does = "default"
  /\ \A i \in DOMAIN b : IsRead(b[i]) \/ b[i].does = "option" =>
       i \in UninitializedStorageRead(b) \cup PanicInContract(b) \/ HasAbove(b, i)
  /\ \A i \in UninitializedStorageRead(b) \cap PanicInContract(b) : b[i].does = "default"

\* The body on a contract that is already initialized.
Again(b) == [i \in DOMAIN b |->
  [b[i] EXCEPT !.on = CASE @ = "has" -> "true" [] @ = "absent" -> "false" [] OTHER -> @]]
WritesAgain(b) == \E r \in Runs(Again(b)) : \E n \in DOMAIN r : IsWrite(b[r[n]])

\* An initializer that can write a second time is reported, unless a check of
\* storage guards it that is the wrong way round, is not all the condition asks
\* for, is in a branch, leaves by an assertion that may hold, or comes after a
\* write; a report means a second write, unless the write is in a block for the
\* first time only. (So a check that guards nothing clears no finding; the
\* documentation says that any check does, see AnyCheckClears.)
InitFindings(b) ==
  /\ WritesAgain(b) =>
       \/ ReInitializationRisk(b)
       \/ \E i \in DOMAIN b :
            /\ IsGuard(b, i)
            /\ \/ b[i].on \in {"both", IF b[i].does = "assert" THEN "has" ELSE "absent"}
               \/ Depth(b, i) > (IF b[i].does = "if" THEN 1 ELSE 0)
               \/ b[i].does = "if" /\ \E j \in DOMAIN b : b[j].does = "assert" /\ InBlockOf(b, i, j)
               \/ \E j \in DOMAIN b :
                    IsWrite(b[j]) /\ (j < i \/ (b[i].does = "if" /\ InBlockOf(b, i, j)))
  /\ ReInitializationRisk(b) => WritesAgain(b) \/ \E i \in DOMAIN b : b[i].does = "if" /\ IsCheck(b[i])
=============================================================================
