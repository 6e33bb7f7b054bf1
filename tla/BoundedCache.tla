---------------------------- MODULE BoundedCache ----------------------------
(***************************************************************************)
(* What a bounded cache promises to its callers: at most one value per     *)
(* key, at most max entries, a value read is the value last put, and the   *)
(* entry just put is present.  Which entry makes room is not promised.     *)
(* LruCache is shown to implement this module, and AnswerService composes  *)
(* its operators Hits and Puts for both caches of the orchestrator.        *)
(***************************************************************************)
EXTENDS Naturals, FiniteSets

CONSTANTS
  Keys,        \* CacheKey: namespace, payload hash and versions together
  Values,      \* what callers store; None is never stored
  MaxEntries   \* settings.cache_capacity, at least 1

VARIABLE entries   \* the set of records [key, value] held now

Entry == [key : Keys, value : Values]

\* The entries a lookup of k can return: none on a miss, one on a hit.
Hits(cache, k) == {e \in cache : e.key = k}

\* Every cache that storing v under k may leave behind.
Puts(cache, k, v, max) ==
  LET kept == cache \ Hits(cache, k)
      survivors == IF Cardinality(kept) < max
                     THEN {kept}
                     ELSE {kept \ {victim} : victim \in kept}
  IN  {s \cup {[key |-> k, value |-> v]} : s \in survivors}

Init == entries = {}

Put(k, v) == entries' \in Puts(entries, k, v, MaxEntries)

Clear == entries' = {}

Next == \/ \E k \in Keys, v \in Values : Put(k, v)
        \/ Clear

Spec == Init /\ [][Next]_entries
=============================================================================
