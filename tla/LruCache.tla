------------------------------ MODULE LruCache ------------------------------
(***************************************************************************)
(* BoundedVersionedCache of app/core/cache.py: an OrderedDict kept in      *)
(* recency order, oldest entry first.  It serves one event loop, so every  *)
(* method is one step.  touched and put are history variables: they record *)
(* the calls and take no part in the guards, except that MaxCalls bounds   *)
(* the length of a run.                                                    *)
(***************************************************************************)
EXTENDS Naturals, Sequences, FiniteSets

CONSTANTS Keys, Values, MaxEntries,
          Missing,   \* what get returns for None
          MaxCalls   \* bound on the calls of a run

ASSUME LruAssumption == /\ MaxEntries \in Nat \ {0}
                        /\ MaxCalls \in Nat
                        /\ Missing \notin Values

VARIABLES items,     \* _items: sequence of entries, least recently used first
          touched,   \* keys in the order in which they were hit or put
          put,       \* the last value put under each key since the last clear
          returned   \* what the last get returned, with its key

vars == <<items, touched, put, returned>>

Entry == [key : Keys, value : Values]

NoCall == [key |-> Missing, value |-> Missing]

Positions(s, k) == {i \in DOMAIN s : s[i].key = k}

Without_Forgotten(s, k) == s

\* s without its entry for k: deleting from an OrderedDict keeps the order.
Without(s, k) ==
  IF Positions(s, k) = {} THEN s
  ELSE LET i == CHOOSE j \in Positions(s, k) : TRUE
       IN  SubSeq(s, 1, i - 1) \o SubSeq(s, i + 1, Len(s))

\* move_to_end of an entry that is stored under its key.
MoveToEnd(s, e) == Append(Without(s, e.key), e)

Evict_TooEarly(s) == IF Len(s) >= MaxEntries
                       THEN SubSeq(s, Len(s) - MaxEntries + 2, Len(s))
                       ELSE s

\* popitem(last=False) repeated while there are more than MaxEntries entries.
Evict(s) == IF Len(s) > MaxEntries
              THEN SubSeq(s, Len(s) - MaxEntries + 1, Len(s))
              ELSE s

Init == /\ items = <<>>
        /\ touched = <<>>
        /\ put = [k \in Keys |-> Missing]
        /\ returned = NoCall

GetHit_NoRefresh(k) ==
  /\ Positions(items, k) # {}
  /\ returned' = items[CHOOSE i \in Positions(items, k) : TRUE]
  /\ touched' = Append(touched, k)
  /\ UNCHANGED <<items, put>>

\* get of a key that is present refreshes its recency.
GetHit(k) ==
  /\ Positions(items, k) # {}
  /\ LET e == items[CHOOSE i \in Positions(items, k) : TRUE] IN
       /\ items' = MoveToEnd(items, e)
       /\ returned' = e
  /\ touched' = Append(touched, k)
  /\ UNCHANGED put

\* get of an absent key returns None and changes nothing.
GetMiss(k) ==
  /\ Positions(items, k) = {}
  /\ returned' = [key |-> k, value |-> Missing]
  /\ UNCHANGED <<items, touched, put>>

Put_KeepsFirst(k, v) ==
  /\ items' = IF Positions(items, k) = {}
                THEN Evict(Append(items, [key |-> k, value |-> v]))
                ELSE MoveToEnd(items, items[CHOOSE i \in Positions(items, k) : TRUE])
  /\ touched' = Append(touched, k)
  /\ put' = [put EXCEPT ![k] = v]
  /\ UNCHANGED returned

\* put stores, moves the key to the end, then evicts.  Assigning to an
\* existing key of an OrderedDict keeps its place until move_to_end.
Put(k, v) ==
  /\ items' = Evict(MoveToEnd(items, [key |-> k, value |-> v]))
  /\ touched' = Append(touched, k)
  /\ put' = [put EXCEPT ![k] = v]
  /\ UNCHANGED returned

Clear ==
  /\ items' = <<>>
  /\ touched' = <<>>
  /\ put' = [k \in Keys |-> Missing]
  /\ UNCHANGED returned

Next == /\ Len(touched) < MaxCalls
        /\ \/ \E k \in Keys : GetHit(k) \/ GetMiss(k)
           \/ \E k \in Keys, v \in Values : Put(k, v)
           \/ Clear

Spec == Init /\ [][Next]_vars

-----------------------------------------------------------------------------
TypeOK ==
  /\ items \in Seq(Entry)
  /\ touched \in Seq(Keys)
  /\ put \in [Keys -> Values \cup {Missing}]
  /\ returned \in {NoCall} \cup [key : Keys, value : Values \cup {Missing}]

\* The cache never holds two entries for one key, nor more than its capacity:
\* what BoundedVersionedCache.put keeps through move_to_end and the loop.
BoundedAndUnambiguous ==
  /\ Len(items) <= MaxEntries
  /\ \A i, j \in DOMAIN items : items[i].key = items[j].key => i = j

\* The time of the last call that touched k; 0 if there was none.
LastTouch(k) ==
  LET times == {i \in DOMAIN touched : touched[i] = k}
  IN  IF times = {} THEN 0 ELSE CHOOSE t \in times : \A u \in times : u <= t

\* Eviction is by recency: a key that was touched is in the cache exactly when
\* fewer than MaxEntries other keys were touched since, whatever interleaving
\* of get and put made the history.
EvictsLeastRecentlyUsed ==
  \A k \in Keys :
    Positions(items, k) # {} <=>
      /\ LastTouch(k) > 0
      /\ Cardinality({j \in Keys : LastTouch(j) > LastTouch(k)}) < MaxEntries

\* A hit returns the value of the last put under that key, never an older one.
NeverReturnsOverwritten ==
  \A i \in DOMAIN items : items[i].value = put[items[i].key]

\* The entries as a set: what BoundedCache talks about.
Held == {items[i] : i \in DOMAIN items}

Abstract == INSTANCE BoundedCache WITH entries <- Held

\* The recency list implements the cache that promises no eviction order.
ImplementsBoundedCache == Abstract!Spec
=============================================================================
