--------------------------- MODULE FollowUpChecks ---------------------------
(***************************************************************************)
(* What has to come with a write: missing-ttl-extension, missing-event-    *)
(* emission, missing-event-for-admin-change, missing-nonce, and for writes *)
(* to temporary storage unsafe-storage-patterns. The method is public,     *)
(* takes an Address and has one of the names of the admin-change check.    *)
(***************************************************************************)
EXTENDS Method

\* Keys of persistent storage are compared by their text; "t" is a key of
\* temporary storage. "fetch" is get_unchecked, "push" is push or push_back on
\* what a get returned, a copy of what is stored.
Statements ==
  {Do(d, k) : d \in {"set", "extend"}, k \in {"k", "l", "t"}} 
    \cup {Do("remove", "k"), Do("fetch", "k"), Do("fetch", "t"), Do("push", "k")}
    \cup {Do(d, "-") : d \in {"publish", "nonce", "if", "else", "end", "return"}}

IsSet(s)     == s.does \in {"set", "remove"}           \* set, remove, append
IsExtend(s)  == s.does = "extend"                      \* extend_ttl, bump
IsPublish(s) == s.does = "publish"
IsNonce(s)   == s.does = "nonce"
Persistent(s) == s.on \in {"k", "l"}

-----------------------------------------------------------------------------
(* missing-ttl-extension *)

\* Mutant: one extension does for every key (issue #362).
AnyKeyExtended(b) == IF \E s \in ToSet(b) : IsExtend(s) /\ Persistent(s) THEN {"k", "l"} ELSE {}
ExtendedKeys(b) == {s.on : s \in {t \in ToSet(b) : IsExtend(t) /\ Persistent(t)}}
MissingTtlExtension(b) ==
  {i \in DOMAIN b : IsSet(b[i]) /\ Persistent(b[i]) /\ b[i].on \notin ExtendedKeys(b)}

\* unsafe-storage-patterns: writes to temporary storage and reads that panic on
\* an entry that expired, one finding each
IsTemporaryGet(s)      == s.does = "fetch" /\ ~Persistent(s)
IsTemporaryMutation(s) == IsSet(s) /\ ~Persistent(s)
TemporaryGets(b)   == Places(b, IsTemporaryGet)
TemporaryWrites(b) == Places(b, IsTemporaryMutation)

-----------------------------------------------------------------------------
(* Events and nonces: once in the body is enough. *)

\* An extension is a write to the first of the two, not to the second.
IsChange(s) == IsSet(s) \/ IsExtend(s)
MissingEventEmission(b) == Has(b, IsChange) /\ ~Has(b, IsPublish)
\* Mutant: the two checks disagree about removals.
SetsOnly(b) == \E s \in ToSet(b) : s.does = "set"
AdminWrites(b) == Has(b, IsSet)
MissingEventForAdminChange(b) == AdminWrites(b) /\ ~Has(b, IsPublish)
\* contains_storage_write of missing-nonce, with a list of its own
IsSetOrPush(s) == IsSet(s) \/ s.does = "push"
MissingNonce(b) == Has(b, IsSetOrPush) /\ ~Has(b, IsNonce)

-----------------------------------------------------------------------------
(* Properties *)

\* What an execution leaves of a key: its latest write, and whether the entry
\* was extended since it was last created.
Writes(b, r, key)  == {n \in DOMAIN r : IsSet(b[r[n]]) /\ b[r[n]].on = key}
Removes(b, r, key) == {n \in Writes(b, r, key) : b[r[n]].does = "remove"}
Expires(b, r, key) ==
  LET sets == Writes(b, r, key) \ Removes(b, r, key)
      gone == IF Removes(b, r, key) = {} THEN 0 ELSE Max(Removes(b, r, key))
  IN /\ sets # {} /\ Max(sets) > gone
     /\ ~\E n \in DOMAIN r : n > gone /\ IsExtend(b[r[n]]) /\ b[r[n]].on = key

\* An execution may skip the statement: it is in a branch, or below a way out.
Skippable(b, i) == Inside(b, i) \/ \E j \in 1 .. i : b[j].does = "return"

\* A key some execution leaves to expire has its writes reported, unless an
\* extension of that very key may be skipped or comes before a removal; a
\* report is of such a key, or of one that is removed, or whose write is undone
\* or put off by a branch. A key of temporary storage that an execution leaves
\* to expire, or may find expired, has a finding of the other check instead;
\* such a finding is of such a key, or of one that is extended.
MayFindExpired(b, r, key) == \E n \in DOMAIN r : b[r[n]] = Do("fetch", key)
TtlFindings(b) ==
  /\ LET reported == TemporaryGets(b) \cup TemporaryWrites(b) # {}
         real     == \E r \in Runs(b) : Expires(b, r, "t") \/ MayFindExpired(b, r, "t")
     IN /\ real => reported
        /\ reported => real \/ Do("extend", "t") \in ToSet(b)
  /\ MissingTtlExtension(b) \cap (TemporaryGets(b) \cup TemporaryWrites(b)) = {}
  /\ \A key \in {"k", "l"} :
    LET reported == {i \in MissingTtlExtension(b) : b[i].on = key} # {}
        real     == \E r \in Runs(b) : Expires(b, r, key)
    IN /\ real => \/ reported
                  \/ \E i \in DOMAIN b : b[i] = Do("extend", key) /\ Skippable(b, i)
                  \/ \E i, j \in DOMAIN b :
                       i < j /\ b[i] = Do("extend", key) /\ b[j] = Do("remove", key)
       /\ reported => real \/ Do("remove", key) \in ToSet(b)

\* A change that some execution makes without the statement that belongs to
\* it is reported, unless that statement is there and may be skipped; a report
\* means such a change, an extension that is taken for one by the first check,
\* or a push by the third; a method whose admin change has no event is reported
\* under both names.
Lacks(b, Is(_)) ==
  \E r \in Runs(b) : /\ \E n \in DOMAIN r : IsSet(b[r[n]])
                     /\ ~\E n \in DOMAIN r : Is(b[r[n]])
CanSkip(b, Is(_)) == \E i \in DOMAIN b : Is(b[i]) /\ Skippable(b, i)

EventFindings(b) ==
  /\ MissingEventForAdminChange(b) => MissingEventEmission(b)
  /\ Lacks(b, IsPublish) => MissingEventForAdminChange(b) \/ CanSkip(b, IsPublish)
  /\ MissingEventForAdminChange(b) => Lacks(b, IsPublish)
  /\ MissingEventEmission(b) => Lacks(b, IsPublish) \/ ~Has(b, IsSet)
  /\ Lacks(b, IsNonce) => MissingNonce(b) \/ CanSkip(b, IsNonce)
  /\ MissingNonce(b) => Lacks(b, IsNonce) \/ ~Has(b, IsSet)
=============================================================================
