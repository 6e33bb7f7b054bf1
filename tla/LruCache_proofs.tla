--------------------------- MODULE LruCache_proofs ---------------------------
(***************************************************************************)
(* Proofs about LruCache, for any keys, values and capacity.               *)
(***************************************************************************)
EXTENDS LruCache, SequenceTheorems, FiniteSetTheorems, TLAPS

Unique(s) == \A i, j \in 1..Len(s) : s[i].key = s[j].key => i = j

\* What items is at any time, for the values last put.
Sound(s, last) ==
  /\ s \in Seq(Entry)
  /\ Unique(s)
  /\ \A i \in 1..Len(s) : s[i].value = last[s[i].key]

\* Leaving out the entry at i moves those behind it up by one.
LEMMA LeaveOut ==
  ASSUME NEW s \in Seq(Entry), NEW i \in 1..Len(s)
  PROVE  LET t == SubSeq(s, 1, i - 1) \o SubSeq(s, i + 1, Len(s))
         IN  /\ t \in Seq(Entry) /\ Len(t) = Len(s) - 1
             /\ \A x \in 1..(Len(s) - 1) : t[x] = s[IF x < i THEN x ELSE x + 1]
<1>1. PICK n \in Nat : n = Len(s)
  BY LenProperties
<1>2. PICK a \in Seq(Entry) : /\ a = SubSeq(s, 1, i - 1) /\ Len(a) = i - 1
                              /\ \A x \in 1..(i - 1) : a[x] = s[x]
  <2>1. /\ SubSeq(s, 1, i - 1) \in Seq(Entry) /\ Len(SubSeq(s, 1, i - 1)) = i - 1
        /\ \A x \in 1..(i - 1) : SubSeq(s, 1, i - 1)[x] = s[x]
    OBVIOUS
  <2> QED
    BY <2>1, Zenon
<1>3. PICK b \in Seq(Entry) : /\ b = SubSeq(s, i + 1, n) /\ Len(b) = n - i
                              /\ \A x \in 1..(n - i) : b[x] = s[i + x]
  <2>1. /\ SubSeq(s, i + 1, n) \in Seq(Entry) /\ Len(SubSeq(s, i + 1, n)) = n - i
        /\ \A x \in 1..(n - i) : SubSeq(s, i + 1, n)[x] = s[i + x]
    BY <1>1
  <2> QED
    BY <2>1, Zenon
<1>4. i \in 1..n
  BY <1>1
<1>5. /\ a \o b \in Seq(Entry) /\ Len(a \o b) = n - 1
      /\ \A x \in 1..(n - 1) : (a \o b)[x] = IF x <= i - 1 THEN a[x] ELSE b[x - (i - 1)]
  <2>1. Len(a) + Len(b) = n - 1
    BY <1>2, <1>3, <1>4
  <2>2. /\ a \o b \in Seq(Entry) /\ Len(a \o b) = Len(a) + Len(b)
        /\ \A x \in 1..(Len(a) + Len(b)) :
             (a \o b)[x] = IF x <= Len(a) THEN a[x] ELSE b[x - Len(a)]
    BY ConcatProperties
  <2> QED
    BY <1>2, <2>1, <2>2
<1>6. ASSUME NEW x \in 1..(n - 1)
      PROVE  (a \o b)[x] = s[IF x < i THEN x ELSE x + 1]
  <2>1. (a \o b)[x] = IF x <= i - 1 THEN a[x] ELSE b[x - (i - 1)]
    BY <1>5
  <2>2. CASE x < i
    BY <1>2, <1>4, <2>1, <2>2
  <2>3. CASE ~(x < i)
    <3>1. x - (i - 1) \in 1..(n - i) /\ i + (x - (i - 1)) = x + 1
      BY <1>4, <2>3
    <3>2. b[x - (i - 1)] = s[i + (x - (i - 1))]
      BY <1>3, <3>1
    <3> QED
      BY <1>4, <2>1, <2>3, <3>1, <3>2
  <2> QED
    BY <2>2, <2>3
<1> QED
  BY <1>1, <1>2, <1>3, <1>5, <1>6, Zenon

\* Without leaves no entry of k and disturbs no other.
LEMMA WithoutIs ==
  ASSUME NEW s, NEW last, Sound(s, last), NEW k \in Keys
  PROVE  /\ Sound(Without(s, k), last)
         /\ Len(Without(s, k)) <= Len(s)
         /\ \A x \in 1..Len(Without(s, k)) : Without(s, k)[x].key # k
<1>1. CASE Positions(s, k) = {}
  BY <1>1 DEF Without, Positions, Sound
<1>2. CASE Positions(s, k) # {}
  <2>1. PICK i \in Positions(s, k) :
          Without(s, k) = SubSeq(s, 1, i - 1) \o SubSeq(s, i + 1, Len(s))
    BY <1>2 DEF Without
  <2>2. i \in 1..Len(s) /\ s[i].key = k /\ s \in Seq(Entry) /\ Unique(s)
    BY <2>1 DEF Positions, Sound
  <2> DEFINE t == Without(s, k)
             from(x) == IF x < i THEN x ELSE x + 1
  <2>3. /\ t \in Seq(Entry) /\ Len(t) = Len(s) - 1
        /\ \A x \in 1..Len(t) : t[x] = s[from(x)]
    <3>1. t \in Seq(Entry) /\ Len(t) = Len(s) - 1
      BY <2>1, <2>2, LeaveOut
    <3>2. \A x \in 1..(Len(s) - 1) : t[x] = s[IF x < i THEN x ELSE x + 1]
      BY <2>1, <2>2, LeaveOut, Zenon
    <3> QED
      BY <3>1, <3>2, Zenon
  <2> HIDE DEF t
  <2>4. ASSUME NEW x \in 1..Len(t)
        PROVE  from(x) \in 1..Len(s) /\ from(x) # i
    BY <2>2, <2>3
  <2>5. ASSUME NEW x \in 1..Len(t), NEW y \in 1..Len(t), from(x) = from(y)
        PROVE  x = y
    BY <2>2, <2>3, <2>5
  <2> HIDE DEF from
  <2>6. \A x \in 1..Len(t) : t[x].key # k
    BY <2>2, <2>3, <2>4 DEF Unique
  <2>7. Unique(t)
    BY <2>2, <2>3, <2>4, <2>5 DEF Unique
  <2>8. \A x \in 1..Len(t) : t[x].value = last[t[x].key]
    BY <2>3, <2>4 DEF Sound
  <2>9. Len(t) <= Len(s)
    BY <2>2, <2>3
  <2> QED
    BY <2>3, <2>6, <2>7, <2>8, <2>9 DEF Sound, t
<1> QED
  BY <1>1, <1>2

\* Moving to the end, under the values put with the entry among them.
LEMMA MoveToEndIs ==
  ASSUME NEW s, NEW last, Sound(s, last), NEW e \in Entry, NEW next,
         next[e.key] = e.value,
         \A k \in Keys \ {e.key} : next[k] = last[k]
  PROVE  Sound(MoveToEnd(s, e), next) /\ Len(MoveToEnd(s, e)) <= Len(s) + 1
<1> DEFINE t == Without(s, e.key)
<1>1. e.key \in Keys
  BY DEF Entry
<1>2. /\ Sound(t, last) /\ Len(t) <= Len(s)
      /\ \A x \in 1..Len(t) : t[x].key # e.key
  BY <1>1, WithoutIs
<1>3. MoveToEnd(s, e) = Append(t, e)
  BY DEF MoveToEnd
<1> HIDE DEF t
<1> DEFINE u == Append(t, e)
<1>4. t \in Seq(Entry) /\ s \in Seq(Entry)
  BY <1>2 DEF Sound
<1>5. /\ u \in Seq(Entry) /\ Len(u) = Len(t) + 1 /\ u[Len(u)] = e
      /\ \A x \in 1..Len(t) : u[x] = t[x]
  BY <1>4
<1> HIDE DEF u
<1>6. Unique(u)
  BY <1>2, <1>4, <1>5 DEF Unique, Sound
<1>7. \A x \in 1..Len(t) : t[x].key \in Keys \ {e.key} /\ t[x].value = last[t[x].key]
  <2>1. \A x \in 1..Len(t) : t[x] \in Entry
    BY <1>4, ElementOfSeq
  <2> QED
    BY <1>2, <2>1 DEF Sound, Entry
<1>8. ASSUME NEW x \in 1..Len(u)
      PROVE  u[x].value = next[u[x].key]
  <2>1. CASE x = Len(u)
    BY <1>5, <2>1
  <2>2. CASE x # Len(u)
    <3>1. x \in 1..Len(t)
      BY <1>4, <1>5, <2>2
    <3> QED
      BY <1>5, <1>7, <3>1
  <2> QED
    BY <2>1, <2>2
<1>9. Len(u) <= Len(s) + 1
  BY <1>2, <1>4, <1>5
<1> QED
  BY <1>3, <1>5, <1>6, <1>8, <1>9 DEF Sound, u

\* Eviction keeps the entries at the end.
LEMMA EvictIs ==
  ASSUME NEW s, NEW last, Sound(s, last)
  PROVE  Sound(Evict(s), last) /\ Len(Evict(s)) <= MaxEntries
<1>1. s \in Seq(Entry) /\ MaxEntries \in Nat \ {0}
  BY LruAssumption DEF Sound
<1>2. CASE Len(s) <= MaxEntries
  <2>1. Evict(s) = s
    BY <1>1, <1>2 DEF Evict
  <2> QED
    BY <1>2, <2>1
<1>3. CASE Len(s) > MaxEntries
  <2> DEFINE t == Evict(s)
             d == Len(s) - MaxEntries
  <2>1. t = SubSeq(s, d + 1, Len(s))
    BY <1>3 DEF Evict
  <2> HIDE DEF t
  <2>2. /\ t \in Seq(Entry) /\ Len(t) = MaxEntries
        /\ \A x \in 1..Len(t) : d + x \in 1..Len(s) /\ t[x] = s[d + x]
    <3>1. d \in Nat /\ Len(s) \in Nat /\ \A x \in (d + 1)..Len(s) : s[x] \in Entry
      BY <1>1, <1>3, LenProperties, ElementOfSeq
    <3>2. /\ t \in Seq(Entry)
          /\ Len(t) = IF d + 1 <= Len(s) THEN Len(s) - (d + 1) + 1 ELSE 0
          /\ \A x \in 1..(Len(s) - (d + 1) + 1) : t[x] = s[(d + 1) + x - 1]
      <4>1. d + 1 \in Int /\ Len(s) \in Int
        BY <3>1
      <4> HIDE DEF d
      <4> QED
        BY <2>1, <3>1, <4>1, SubSeqProperties
    <3> QED
      BY <1>1, <1>3, <3>1, <3>2
  <2>3. d \in Nat
    BY <1>1, <1>3, LenProperties
  <2> HIDE DEF d
  <2>4. Unique(t)
    <3> SUFFICES ASSUME NEW x \in 1..Len(t), NEW y \in 1..Len(t), t[x].key = t[y].key
                 PROVE  x = y
      BY DEF Unique
    <3>1. d + x = d + y
      BY <2>2 DEF Sound, Unique
    <3> QED
      BY <2>3, <3>1
  <2>5. \A x \in 1..Len(t) : t[x].value = last[t[x].key]
    BY <2>2 DEF Sound
  <2> QED
    BY <1>1, <2>2, <2>4, <2>5 DEF Sound, t
<1> QED
  BY <1>1, <1>2, <1>3

CacheInv == TypeOK /\ Sound(items, put) /\ Len(items) <= MaxEntries

LEMMA InitInv == Init => CacheInv
  BY LruAssumption DEF Init, CacheInv, TypeOK, Sound, Unique, NoCall

\* A hit is an entry of the cache.
LEMMA HitIs ==
  ASSUME CacheInv, NEW k \in Keys, Positions(items, k) # {}, NEW e,
         e = items[CHOOSE i \in Positions(items, k) : TRUE]
  PROVE  e \in Entry /\ e.key = k /\ e.value = put[k]
<1>1. PICK i \in Positions(items, k) : e = items[i]
  OBVIOUS
<1>2. i \in 1..Len(items) /\ items \in Seq(Entry) /\ items[i].key = k
  BY <1>1 DEF Positions, CacheInv, TypeOK
<1> QED
  BY <1>1, <1>2 DEF CacheInv, Sound

LEMMA GetHitInv == ASSUME CacheInv, NEW k \in Keys, GetHit(k) PROVE CacheInv'
<1> DEFINE e == items[CHOOSE i \in Positions(items, k) : TRUE]
<1>1. e \in Entry /\ e.key = k /\ e.value = put[k]
  BY HitIs DEF GetHit
<1>2. /\ items' = MoveToEnd(items, e) /\ returned' = e
      /\ touched' = Append(touched, k) /\ put' = put
  BY DEF GetHit
<1>3. PICK i \in 1..Len(items) : items[i].key = k
  BY DEF GetHit, Positions, CacheInv, TypeOK
<1> HIDE DEF e
<1>4. Sound(items', put')
  BY <1>1, <1>2, MoveToEndIs DEF CacheInv
\* The entry is taken out before it is put back, so the length stays.
<1>5. Len(items') <= Len(items)
  <2>1. Positions(items, k) # {}
    BY DEF GetHit
  <2>2. PICK p \in Positions(items, k) :
          Without(items, k) = SubSeq(items, 1, p - 1) \o SubSeq(items, p + 1, Len(items))
    BY <2>1 DEF Without
  <2>3. p \in 1..Len(items) /\ items \in Seq(Entry)
    BY <2>2 DEF Positions, CacheInv, TypeOK
  <2>4. Without(items, k) \in Seq(Entry) /\ Len(Without(items, k)) = Len(items) - 1
    BY <2>2, <2>3, LeaveOut
  <2> QED
    BY <1>1, <1>2, <2>3, <2>4 DEF MoveToEnd
<1>6. items \in Seq(Entry) /\ items' \in Seq(Entry) /\ Len(items) <= MaxEntries
  BY <1>4 DEF CacheInv, Sound
<1>7. Len(items') <= MaxEntries
  BY <1>5, <1>6, LruAssumption
<1>8. TypeOK'
  BY <1>1, <1>2, <1>6 DEF TypeOK, Entry, CacheInv
<1> QED
  BY <1>4, <1>7, <1>8 DEF CacheInv

LEMMA PutInv ==
  ASSUME CacheInv, NEW k \in Keys, NEW v \in Values, Put(k, v)
  PROVE  CacheInv'
<1> DEFINE e == [key |-> k, value |-> v]
<1>1. e \in Entry /\ e.key = k /\ e.value = v
  BY DEF Entry
<1>2. /\ items' = Evict(MoveToEnd(items, e))
      /\ put' = [put EXCEPT ![k] = v]
      /\ touched' = Append(touched, k) /\ returned' = returned
  BY DEF Put
<1> HIDE DEF e
<1>3. put'[k] = v /\ \A j \in Keys \ {k} : put'[j] = put[j]
  BY <1>2 DEF CacheInv, TypeOK
<1>4. Sound(MoveToEnd(items, e), put')
  BY <1>1, <1>3, MoveToEndIs DEF CacheInv
<1>5. Sound(items', put') /\ Len(items') <= MaxEntries
  BY <1>2, <1>4, EvictIs
<1>6. TypeOK'
  BY <1>2, <1>5 DEF TypeOK, Sound, CacheInv
<1> QED
  BY <1>5, <1>6 DEF CacheInv

LEMMA StepInv == CacheInv /\ [Next]_vars => CacheInv'
<1> SUFFICES ASSUME CacheInv, [Next]_vars PROVE CacheInv'
  OBVIOUS
<1>1. ASSUME NEW k \in Keys, GetMiss(k) PROVE CacheInv'
  BY <1>1 DEF GetMiss, CacheInv, TypeOK, Sound
<1>2. CASE Clear
  BY <1>2, LruAssumption DEF Clear, CacheInv, TypeOK, Sound, Unique
<1>3. CASE UNCHANGED vars
  BY <1>3 DEF vars, CacheInv, TypeOK, Sound
<1> QED
  BY <1>1, <1>2, <1>3, GetHitInv, PutInv DEF Next

LEMMA AlwaysCacheInv == Spec => []CacheInv
  BY InitInv, StepInv, PTL DEF Spec

\* Entries keep their type, and get returns an entry or nothing.
THEOREM TypeCorrect == Spec => []TypeOK
<1>1. CacheInv => TypeOK
  BY DEF CacheInv
<1> QED
  BY <1>1, AlwaysCacheInv, PTL

\* Whatever calls BoundedVersionedCache has served, it has at most max_entries
\* entries and no two of one key.
THEOREM StaysBounded == Spec => []BoundedAndUnambiguous
<1>1. CacheInv => BoundedAndUnambiguous
  BY DEF CacheInv, TypeOK, Sound, Unique, BoundedAndUnambiguous
<1> QED
  BY <1>1, AlwaysCacheInv, PTL

\* An entry is the last value put under its key, for any order of get, put and clear.
THEOREM HitsAreCurrent == Spec => []NeverReturnsOverwritten
<1>1. CacheInv => NeverReturnsOverwritten
  BY DEF CacheInv, TypeOK, Sound, NeverReturnsOverwritten
<1> QED
  BY <1>1, AlwaysCacheInv, PTL

-----------------------------------------------------------------------------
(***************************************************************************)
(* Recency.  The cache is in the order in which its keys were last         *)
(* touched, and a key that was touched and is not in it is older than all  *)
(* that are.                                                               *)
(***************************************************************************)

KeysOf(s) == {s[i].key : i \in 1..Len(s)}

Sorted(s, r) == \A i, j \in 1..Len(s) : i < j => r[s[i].key] < r[s[j].key]

\* Keys that have been touched, and are not in s, came before all that are.
Older(s, r) ==
  \A k \in Keys \ KeysOf(s) :
    r[k] > 0 => Len(s) >= MaxEntries /\ \A i \in 1..Len(s) : r[k] < r[s[i].key]

\* t is s without the entry of k: f gives the places in s.
Keeps(f, t, s, k) ==
  /\ f \in [1..Len(t) -> 1..Len(s)]
  /\ \A x \in 1..Len(t) : t[x] = s[f[x]] /\ s[f[x]].key # k
  /\ \A x, y \in 1..Len(t) : x < y => f[x] < f[y]
  /\ \A y \in 1..Len(s) : s[y].key # k => \E x \in 1..Len(t) : f[x] = y

\* Without is what is left of s, in the order of s.
LEMMA WithoutKeeps ==
  ASSUME NEW s \in Seq(Entry), Unique(s), NEW k \in Keys
  PROVE  /\ Without(s, k) \in Seq(Entry)
         /\ Len(Without(s, k)) = IF k \in KeysOf(s) THEN Len(s) - 1 ELSE Len(s)
         /\ \E f : Keeps(f, Without(s, k), s, k)
<1> DEFINE t == Without(s, k)
<1>1. Len(s) \in Nat /\ DOMAIN s = 1..Len(s)
  BY LenProperties
<1>2. CASE Positions(s, k) = {}
  <2>1. t = s
    BY <1>2 DEF Without
  <2>2. \A y \in 1..Len(s) : s[y].key # k
    BY <1>1, <1>2 DEF Positions
  <2>3. k \notin KeysOf(s)
    BY <2>2 DEF KeysOf
  <2> DEFINE f == [x \in 1..Len(s) |-> x]
  <2>4. f \in [1..Len(s) -> 1..Len(s)]
    OBVIOUS
  <2>5. /\ \A x \in 1..Len(s) : f[x] = x
        /\ \A y \in 1..Len(s) : \E x \in 1..Len(s) : f[x] = y
    OBVIOUS
  <2> HIDE DEF f
  <2>6. Keeps(f, s, s, k)
    BY <2>2, <2>4, <2>5 DEF Keeps
  <2> QED
    BY <2>1, <2>3, <2>6
<1>3. CASE Positions(s, k) # {}
  <2>1. PICK i \in Positions(s, k) :
          t = SubSeq(s, 1, i - 1) \o SubSeq(s, i + 1, Len(s))
    BY <1>3 DEF Without
  <2>2. i \in 1..Len(s) /\ s[i].key = k
    BY <2>1 DEF Positions
  <2>3. t \in Seq(Entry) /\ Len(t) = Len(s) - 1
    BY <2>1, <2>2, LeaveOut
  <2>4. \A x \in 1..(Len(s) - 1) : t[x] = s[IF x < i THEN x ELSE x + 1]
    BY <2>1, <2>2, LeaveOut, Zenon
  <2> HIDE DEF t
  <2> DEFINE f == [x \in 1..Len(t) |-> IF x < i THEN x ELSE x + 1]
  <2>5. f \in [1..Len(t) -> 1..Len(s)]
    BY <1>1, <2>2, <2>3
  <2>6. \A x \in 1..Len(t) : t[x] = s[f[x]] /\ f[x] # i
    BY <1>1, <2>2, <2>3, <2>4
  <2>7. \A x, y \in 1..Len(t) : x < y => f[x] < f[y]
    BY <1>1, <2>2, <2>3
  <2>8. ASSUME NEW y \in 1..Len(s), y # i
        PROVE  \E x \in 1..Len(t) : f[x] = y
    <3>1. CASE y < i
      <4>1. y \in 1..Len(t) /\ f[y] = y
        BY <1>1, <2>2, <2>3, <3>1
      <4> QED
        BY <4>1
    <3>2. CASE y > i
      <4>1. y - 1 \in 1..Len(t) /\ f[y - 1] = y
        BY <1>1, <2>2, <2>3, <3>2
      <4> QED
        BY <4>1
    <3> QED
      BY <1>1, <2>2, <2>8, <3>1, <3>2
  <2> HIDE DEF f
  <2>9. \A x \in 1..Len(t) : s[f[x]].key # k
    BY <2>2, <2>5, <2>6 DEF Unique
  <2>10. k \in KeysOf(s)
    BY <2>2 DEF KeysOf
  <2>11. Keeps(f, t, s, k)
    BY <2>2, <2>5, <2>6, <2>7, <2>8, <2>9 DEF Keeps
  <2> QED
    BY <2>3, <2>10, <2>11 DEF t
<1> QED
  BY <1>2, <1>3

\* The same with the entry put back at the end, for a rank that puts its key last.
LEMMA MoveToEndSorts ==
  ASSUME NEW s \in Seq(Entry), Unique(s), NEW e \in Entry, NEW r, NEW q,
         Sorted(s, r), Older(s, r), r \in [Keys -> Nat], q \in [Keys -> Nat],
         \A k \in Keys \ {e.key} : q[k] = r[k] /\ r[k] < q[e.key]
  PROVE  LET u == MoveToEnd(s, e)
         IN  /\ u \in Seq(Entry) /\ Sorted(u, q)
             /\ KeysOf(u) = KeysOf(s) \cup {e.key}
             /\ Len(u) = IF e.key \in KeysOf(s) THEN Len(s) ELSE Len(s) + 1
             /\ Older(u, q)
<1> DEFINE t == Without(s, e.key)
           u == Append(t, e)
<1>1. e.key \in Keys /\ Len(s) \in Nat
  BY LenProperties DEF Entry
<1>2. /\ t \in Seq(Entry)
      /\ Len(t) = IF e.key \in KeysOf(s) THEN Len(s) - 1 ELSE Len(s)
  BY <1>1, WithoutKeeps
<1>3. PICK f \in [1..Len(t) -> 1..Len(s)] :
        /\ \A x \in 1..Len(t) : t[x] = s[f[x]] /\ s[f[x]].key # e.key
        /\ \A x, y \in 1..Len(t) : x < y => f[x] < f[y]
        /\ \A y \in 1..Len(s) : s[y].key # e.key => \E x \in 1..Len(t) : f[x] = y
  <2>1. \E f : Keeps(f, t, s, e.key)
    BY <1>1, WithoutKeeps
  <2> HIDE DEF t
  <2> QED
    BY <2>1, Zenon DEF Keeps
<1> HIDE DEF t
<1>4. /\ u \in Seq(Entry) /\ Len(u) = Len(t) + 1 /\ u[Len(t) + 1] = e /\ Len(t) \in Nat
      /\ \A x \in 1..Len(t) : u[x] = t[x]
  <2>1. t \in Seq(Entry)
    BY <1>2
  <2> QED
    BY <2>1
<1>5. \A y \in 1..Len(s) : s[y].key \in Keys
  <2>1. \A y \in 1..Len(s) : s[y] \in Entry
    BY ElementOfSeq
  <2> QED
    BY <2>1 DEF Entry
<1> HIDE DEF u
<1>6. ASSUME NEW x \in 1..Len(t)
      PROVE  u[x].key \in Keys \ {e.key} /\ u[x].key = s[f[x]].key
  <2>1. f[x] \in 1..Len(s)
    BY <1>3
  <2>2. u[x] = s[f[x]] /\ s[f[x]].key # e.key
    BY <1>3, <1>4
  <2> QED
    BY <1>5, <2>1, <2>2
<1>7. Sorted(u, q)
  <2> SUFFICES ASSUME NEW x \in 1..Len(t) + 1, NEW y \in 1..Len(t) + 1, x < y
               PROVE  q[u[x].key] < q[u[y].key]
    BY <1>4 DEF Sorted
  <2>1. x \in 1..Len(t)
    BY <1>4
  <2>2. CASE y = Len(t) + 1
    <3>1. u[x].key \in Keys \ {e.key} /\ u[y] = e
      BY <1>4, <1>6, <2>1, <2>2
    <3> QED
      BY <3>1
  <2>3. CASE y \in 1..Len(t)
    <3>1. f[x] < f[y] /\ r[s[f[x]].key] < r[s[f[y]].key]
      BY <1>3, <2>1, <2>3 DEF Sorted
    <3> QED
      BY <1>6, <2>1, <2>3, <3>1
  <2>4. y = Len(t) + 1 \/ y \in 1..Len(t)
    BY <1>4
  <2> QED
    BY <2>2, <2>3, <2>4
<1>8. KeysOf(u) = KeysOf(s) \cup {e.key}
  <2>1. ASSUME NEW y \in 1..Len(s), s[y].key # e.key PROVE s[y].key \in KeysOf(u)
    <3>1. PICK x \in 1..Len(t) : f[x] = y
      BY <1>3, <2>1
    <3>2. x \in 1..Len(u) /\ u[x].key = s[y].key
      BY <1>4, <1>6, <3>1
    <3> QED
      BY <3>2 DEF KeysOf
  <2>2. e.key \in KeysOf(u)
    <3>1. Len(t) + 1 \in 1..Len(u)
      BY <1>4
    <3> QED
      BY <1>4, <3>1 DEF KeysOf
  <2>3. ASSUME NEW x \in 1..Len(u), x # Len(t) + 1 PROVE u[x].key \in KeysOf(s)
    <3>1. x \in 1..Len(t)
      BY <1>4, <2>3
    <3> QED
      BY <1>3, <1>6, <3>1 DEF KeysOf
  <2> QED
    BY <1>4, <2>1, <2>2, <2>3 DEF KeysOf
<1>9. Len(u) = IF e.key \in KeysOf(s) THEN Len(s) ELSE Len(s) + 1
  BY <1>1, <1>2, <1>4
<1>10. Older(u, q)
  <2> SUFFICES ASSUME NEW k \in Keys \ KeysOf(u), q[k] > 0
               PROVE  Len(u) >= MaxEntries /\ \A x \in 1..Len(u) : q[k] < q[u[x].key]
    BY DEF Older
  <2>1. k \notin KeysOf(s) /\ k # e.key /\ q[k] = r[k]
    BY <1>8
  <2>2. Len(s) >= MaxEntries /\ \A y \in 1..Len(s) : r[k] < r[s[y].key]
    BY <2>1 DEF Older
  <2>3. Len(u) >= MaxEntries
    BY <1>1, <1>9, <2>2, LruAssumption
  <2>4. ASSUME NEW x \in 1..Len(u) PROVE q[k] < q[u[x].key]
    <3>1. CASE x = Len(t) + 1
      BY <1>4, <2>1, <3>1
    <3>2. CASE x \in 1..Len(t)
      <4>1. f[x] \in 1..Len(s) /\ q[u[x].key] = r[s[f[x]].key]
        BY <1>3, <1>6, <3>2
      <4> QED
        BY <2>1, <2>2, <4>1
    <3>3. x = Len(t) + 1 \/ x \in 1..Len(t)
      BY <1>4
    <3> QED
      BY <3>1, <3>2, <3>3
  <2> QED
    BY <2>3, <2>4
<1> QED
  BY <1>4, <1>7, <1>8, <1>9, <1>10 DEF MoveToEnd, u, t

\* One entry too many: the first one goes, the rest moves up by one.
LEMMA EvictDropsFirst ==
  ASSUME NEW s \in Seq(Entry), Len(s) = MaxEntries + 1
  PROVE  LET v == Evict(s)
         IN  /\ v \in Seq(Entry) /\ Len(v) = MaxEntries
             /\ \A x \in 1..MaxEntries : v[x] = s[x + 1]
<1>1. MaxEntries \in Nat \ {0}
  BY LruAssumption
<1>2. Evict(s) = SubSeq(s, 2, MaxEntries + 1)
  BY <1>1 DEF Evict
<1>3. \A x \in 2..(MaxEntries + 1) : s[x] \in Entry
  BY <1>1, ElementOfSeq
<1> DEFINE m == MaxEntries + 1
<1>4. /\ SubSeq(s, 2, m) \in Seq(Entry)
      /\ Len(SubSeq(s, 2, m)) = IF 2 <= m THEN m - 2 + 1 ELSE 0
      /\ \A x \in 1..(m - 2 + 1) : SubSeq(s, 2, m)[x] = s[2 + x - 1]
  <2>1. 2 \in Int /\ m \in Int /\ \A x \in 2..m : s[x] \in Entry
    BY <1>1, <1>3
  <2> HIDE DEF m
  <2> QED
    BY <2>1, SubSeqProperties
<1> QED
  BY <1>1, <1>2, <1>4

\* Eviction keeps the order, and what it drops is older than what stays.
LEMMA EvictKeepsOrder ==
  ASSUME NEW s \in Seq(Entry), NEW q \in [Keys -> Nat],
         Sorted(s, q), Older(s, q), Len(s) <= MaxEntries + 1
  PROVE  LET v == Evict(s)
         IN  Sorted(v, q) /\ Older(v, q) /\ KeysOf(v) \subseteq KeysOf(s)
<1>1. MaxEntries \in Nat \ {0} /\ Len(s) \in Nat
  BY LruAssumption, LenProperties
<1>2. CASE Len(s) <= MaxEntries
  BY <1>1, <1>2 DEF Evict
<1>3. CASE Len(s) = MaxEntries + 1
  <2> DEFINE v == Evict(s)
  <2>1. /\ v \in Seq(Entry) /\ Len(v) = MaxEntries
        /\ \A x \in 1..MaxEntries : v[x] = s[x + 1]
    BY <1>3, EvictDropsFirst
  <2> HIDE DEF v
  <2>2. \A x \in 1..Len(v) : x + 1 \in 1..Len(s) /\ v[x] = s[x + 1]
    BY <1>1, <1>3, <2>1
  <2>3. Sorted(v, q)
    <3> SUFFICES ASSUME NEW x \in 1..Len(v), NEW y \in 1..Len(v), x < y
                 PROVE  q[v[x].key] < q[v[y].key]
      BY DEF Sorted
    <3>1. x + 1 < y + 1
      BY <1>1, <2>1
    <3> QED
      BY <2>2, <3>1 DEF Sorted
  <2>4. KeysOf(v) \subseteq KeysOf(s)
    BY <2>2 DEF KeysOf
  <2>5. Older(v, q)
    <3> SUFFICES ASSUME NEW k \in Keys \ KeysOf(v), q[k] > 0
                 PROVE  Len(v) >= MaxEntries /\ \A x \in 1..Len(v) : q[k] < q[v[x].key]
      BY DEF Older
    <3>1. CASE k \notin KeysOf(s)
      <4>1. \A y \in 1..Len(s) : q[k] < q[s[y].key]
        BY <3>1 DEF Older
      <4> QED
        BY <1>1, <2>1, <2>2, <4>1
    <3>2. CASE k \in KeysOf(s)
      <4>1. PICK y \in 1..Len(s) : k = s[y].key
        BY <3>2 DEF KeysOf
      <4>2. y = 1
        <5> SUFFICES ASSUME y # 1 PROVE FALSE
          OBVIOUS
        <5>1. y - 1 \in 1..Len(v) /\ (y - 1) + 1 = y
          BY <1>1, <1>3, <2>1
        <5>2. v[y - 1] = s[y]
          BY <2>2, <5>1
        <5> QED
          BY <4>1, <5>1, <5>2 DEF KeysOf
      <4>3. \A x \in 1..Len(v) : q[s[1].key] < q[s[x + 1].key]
        <5>1. \A x \in 1..Len(v) : 1 < x + 1 /\ 1 \in 1..Len(s)
          BY <1>1, <1>3, <2>1
        <5> QED
          BY <2>2, <5>1 DEF Sorted
      <4> QED
        BY <1>1, <2>1, <2>2, <4>1, <4>2, <4>3
    <3> QED
      BY <3>1, <3>2
  <2> QED
    BY <2>3, <2>4, <2>5 DEF v
<1> QED
  BY <1>1, <1>2, <1>3

\* A touched key has a last position in touched: what LastTouch chooses.
HasLast ==
  \A k \in Keys :
    (\E i \in 1..Len(touched) : touched[i] = k) =>
      \E i \in 1..Len(touched) :
        touched[i] = k /\ \A j \in 1..Len(touched) : touched[j] = k => j <= i

Ranks == [k \in Keys |-> LastTouch(k)]

\* What eviction by recency rests on: a key in the cache has been touched, and
\* the list is in the order of the last touches, with the keys it lost below.
RecencyInv ==
  /\ HasLast
  /\ \A k \in KeysOf(items) : LastTouch(k) > 0
  /\ Sorted(items, Ranks)
  /\ Older(items, Ranks)

\* LastTouch is the last position of the key, or zero.
LEMMA LastTouchIs ==
  ASSUME TypeOK, HasLast, NEW k \in Keys
  PROVE  /\ LastTouch(k) \in 0..Len(touched)
         /\ LastTouch(k) > 0 => touched[LastTouch(k)] = k
         /\ \A j \in 1..Len(touched) : touched[j] = k => j <= LastTouch(k)
<1> DEFINE times == {i \in DOMAIN touched : touched[i] = k}
<1>1. DOMAIN touched = 1..Len(touched) /\ Len(touched) \in Nat
  BY LenProperties DEF TypeOK
<1>2. CASE times = {}
  BY <1>1, <1>2 DEF LastTouch
<1>3. CASE times # {}
  <2>1. \E i \in times : \A j \in times : j <= i
    BY <1>1, <1>3 DEF HasLast
  <2>2. LastTouch(k) = CHOOSE t \in times : \A u \in times : u <= t
    BY <1>3 DEF LastTouch
  <2>3. LastTouch(k) \in times /\ \A u \in times : u <= LastTouch(k)
    BY <2>1, <2>2
  <2> QED
    BY <1>1, <2>3
<1> QED
  BY <1>2, <1>3

\* Two touched keys are not touched at one time.
LEMMA LastTouchDiffers ==
  ASSUME TypeOK, HasLast, NEW j \in Keys, NEW k \in Keys,
         LastTouch(j) = LastTouch(k), LastTouch(k) > 0
  PROVE  j = k
  BY LastTouchIs

\* A touch is the key's last one, and leaves those of the others alone.
LEMMA TouchIs ==
  ASSUME TypeOK, HasLast, NEW k \in Keys, touched' = Append(touched, k)
  PROVE  /\ HasLast' /\ LastTouch(k)' = Len(touched) + 1
         /\ \A j \in Keys \ {k} : LastTouch(j)' = LastTouch(j)
<1>1. touched \in Seq(Keys) /\ Len(touched) \in Nat /\ DOMAIN touched = 1..Len(touched)
  BY LenProperties DEF TypeOK
<1>2. /\ touched' \in Seq(Keys) /\ Len(touched') = Len(touched) + 1
      /\ touched'[Len(touched) + 1] = k
      /\ \A i \in 1..Len(touched) : touched'[i] = touched[i]
      /\ DOMAIN touched' = 1..(Len(touched) + 1)
  BY <1>1
<1>3. HasLast'
  <2> SUFFICES ASSUME NEW j \in Keys, NEW i \in 1..Len(touched'), touched'[i] = j
               PROVE  \E l \in 1..Len(touched') :
                        /\ touched'[l] = j
                        /\ \A m \in 1..Len(touched') : touched'[m] = j => m <= l
    BY DEF HasLast
  <2>1. CASE j = k
    <3>1. /\ Len(touched) + 1 \in 1..Len(touched')
          /\ \A m \in 1..Len(touched') : m <= Len(touched) + 1
      BY <1>1, <1>2
    <3> QED
      BY <1>2, <2>1, <3>1
  <2>2. CASE j # k
    <3>1. i \in 1..Len(touched) /\ touched[i] = j
      BY <1>1, <1>2, <2>2
    <3>2. PICK l \in 1..Len(touched) :
            touched[l] = j /\ \A m \in 1..Len(touched) : touched[m] = j => m <= l
      BY <3>1 DEF HasLast
    <3> QED
      BY <1>1, <1>2, <2>2, <3>2
  <2> QED
    BY <2>1, <2>2
<1>4. ASSUME NEW j \in Keys
      PROVE  {i \in DOMAIN touched' : touched'[i] = j} =
               IF j = k THEN {i \in DOMAIN touched : touched[i] = k} \cup {Len(touched) + 1}
                        ELSE {i \in DOMAIN touched : touched[i] = j}
  BY <1>1, <1>2
<1>5. ASSUME NEW j \in Keys \ {k} PROVE LastTouch(j)' = LastTouch(j)
  <2> DEFINE last(times) ==
               IF times = {} THEN 0 ELSE CHOOSE t \in times : \A u \in times : u <= t
  <2>1. {i \in DOMAIN touched' : touched'[i] = j} = {i \in DOMAIN touched : touched[i] = j}
    BY <1>4
  <2>2. /\ LastTouch(j) = last({i \in DOMAIN touched : touched[i] = j})
        /\ LastTouch(j)' = last({i \in DOMAIN touched' : touched'[i] = j})
    BY DEF LastTouch
  <2> HIDE DEF last
  <2> QED
    BY <2>1, <2>2, Zenon
<1>6. LastTouch(k)' = Len(touched) + 1
  <2> DEFINE times == {i \in DOMAIN touched' : touched'[i] = k}
  <2>1. Len(touched) + 1 \in times /\ \A u \in times : u \in Nat /\ u <= Len(touched) + 1
    BY <1>1, <1>2
  <2>2. LastTouch(k)' = CHOOSE t \in times : \A u \in times : u <= t
    BY <2>1 DEF LastTouch
  <2> HIDE DEF times
  <2>3. LastTouch(k)' \in times /\ \A u \in times : u <= LastTouch(k)'
    BY <2>1, <2>2
  <2> QED
    BY <1>1, <2>1, <2>3
<1> QED
  BY <1>3, <1>5, <1>6

LEMMA RanksType == TypeOK /\ HasLast => Ranks \in [Keys -> Nat]
<1> SUFFICES ASSUME TypeOK, HasLast, NEW k \in Keys PROVE LastTouch(k) \in Nat
  BY DEF Ranks
<1>1. Len(touched) \in Nat
  BY LenProperties DEF TypeOK
<1> QED
  BY <1>1, LastTouchIs

\* A call that touches k and moves its entry to the end keeps the order.
LEMMA TouchKeepsOrder ==
  ASSUME CacheInv, CacheInv', RecencyInv, NEW e \in Entry, NEW k \in Keys, e.key = k,
         touched' = Append(touched, k)
  PROVE  LET u == MoveToEnd(items, e)
         IN  /\ HasLast' /\ Ranks' \in [Keys -> Nat]
             /\ u \in Seq(Entry) /\ Len(u) <= MaxEntries + 1
             /\ Sorted(u, Ranks') /\ Older(u, Ranks')
             /\ \A j \in KeysOf(u) : LastTouch(j)' > 0
<1>1. TypeOK /\ TypeOK' /\ HasLast /\ Unique(items) /\ items \in Seq(Entry)
  BY DEF CacheInv, RecencyInv, TypeOK, Sound
<1>2. /\ HasLast' /\ LastTouch(k)' = Len(touched) + 1
      /\ \A j \in Keys \ {k} : LastTouch(j)' = LastTouch(j)
  BY <1>1, TouchIs
<1>3. Ranks \in [Keys -> Nat] /\ (Ranks \in [Keys -> Nat])'
  BY <1>1, <1>2, RanksType, PTL
<1>4. Len(touched) \in Nat /\ Len(items) \in Nat /\ MaxEntries \in Nat
  BY <1>1, LenProperties, LruAssumption DEF TypeOK
<1>5. \A j \in Keys : Ranks[j] = LastTouch(j) /\ Ranks'[j] = LastTouch(j)'
  BY DEF Ranks
<1>6. ASSUME NEW j \in Keys \ {k} PROVE Ranks'[j] = Ranks[j] /\ Ranks[j] < Ranks'[k]
  <2>1. LastTouch(j) \in 0..Len(touched)
    BY <1>1, LastTouchIs
  <2> QED
    BY <1>2, <1>4, <1>5, <2>1
<1> DEFINE u == MoveToEnd(items, e)
<1> HIDE DEF Ranks
<1>7. /\ u \in Seq(Entry) /\ Sorted(u, Ranks') /\ Older(u, Ranks')
      /\ KeysOf(u) = KeysOf(items) \cup {k}
      /\ Len(u) = IF k \in KeysOf(items) THEN Len(items) ELSE Len(items) + 1
  <2>1. Sorted(items, Ranks) /\ Older(items, Ranks)
    BY DEF RecencyInv
  <2> QED
    BY <1>1, <1>3, <1>6, <2>1, MoveToEndSorts
<1> HIDE DEF u
<1>8. Len(u) <= MaxEntries + 1
  BY <1>4, <1>7 DEF CacheInv
<1>9. ASSUME NEW j \in KeysOf(u) PROVE LastTouch(j)' > 0
  <2>1. CASE j = k
    BY <1>2, <1>4, <2>1
  <2>2. CASE j # k
    <3>1. j \in KeysOf(items)
      BY <1>7, <2>2
    <3>2. j \in Keys
      <4>1. \A x \in 1..Len(items) : items[x] \in Entry
        BY <1>1, ElementOfSeq
      <4> QED
        BY <3>1, <4>1 DEF KeysOf, Entry
    <3> QED
      BY <1>2, <2>2, <3>1, <3>2 DEF RecencyInv
  <2> QED
    BY <2>1, <2>2
<1> QED
  BY <1>2, <1>3, <1>7, <1>8, <1>9 DEF u

\* With no call made since Init or clear, no key is touched and none is held.
Fresh == items = <<>> /\ touched = <<>>

LEMMA FreshRecency == Fresh => RecencyInv
<1> SUFFICES ASSUME items = <<>>, touched = <<>> PROVE RecencyInv
  BY DEF Fresh
<1>1. Len(items) = 0 /\ Len(touched) = 0 /\ DOMAIN touched = {}
  OBVIOUS
<1>2. \A k \in Keys : LastTouch(k) = 0
  BY <1>1 DEF LastTouch
<1> QED
  BY <1>1, <1>2 DEF RecencyInv, HasLast, KeysOf, Sorted, Older, Ranks

LEMMA StepRecency == CacheInv /\ CacheInv' /\ RecencyInv /\ [Next]_vars => RecencyInv'
<1> SUFFICES ASSUME CacheInv, CacheInv', RecencyInv, [Next]_vars PROVE RecencyInv'
  OBVIOUS
<1>1. ASSUME NEW k \in Keys, GetHit(k) PROVE RecencyInv'
  <2> DEFINE e == items[CHOOSE i \in Positions(items, k) : TRUE]
  <2>1. e \in Entry /\ e.key = k
    BY <1>1, HitIs DEF GetHit
  <2>2. items' = MoveToEnd(items, e) /\ touched' = Append(touched, k)
    BY <1>1 DEF GetHit
  <2> HIDE DEF e
  <2> QED
    BY <2>1, <2>2, TouchKeepsOrder DEF RecencyInv
<1>2. ASSUME NEW k \in Keys, NEW v \in Values, Put(k, v) PROVE RecencyInv'
  <2> DEFINE e == [key |-> k, value |-> v]
             u == MoveToEnd(items, e)
  <2>1. e \in Entry /\ e.key = k
    BY DEF Entry
  <2>2. items' = Evict(u) /\ touched' = Append(touched, k)
    BY <1>2 DEF Put
  <2> HIDE DEF e
  <2>3. /\ HasLast' /\ Ranks' \in [Keys -> Nat]
        /\ u \in Seq(Entry) /\ Len(u) <= MaxEntries + 1
        /\ Sorted(u, Ranks') /\ Older(u, Ranks')
        /\ \A j \in KeysOf(u) : LastTouch(j)' > 0
    BY <2>1, <2>2, TouchKeepsOrder
  <2> HIDE DEF u
  <2>4. Sorted(items', Ranks') /\ Older(items', Ranks') /\ KeysOf(items') \subseteq KeysOf(u)
    BY <2>2, <2>3, EvictKeepsOrder
  <2> QED
    BY <2>3, <2>4 DEF RecencyInv
<1>3. CASE Clear
  <2>1. Fresh'
    BY <1>3 DEF Clear, Fresh
  <2> QED
    BY <2>1, FreshRecency, PTL
<1>4. ASSUME items' = items, touched' = touched PROVE RecencyInv'
  <2>1. \A k \in Keys : LastTouch(k)' = LastTouch(k)
    BY <1>4 DEF LastTouch
  <2>2. Ranks' = Ranks
    BY <2>1 DEF Ranks
  <2>3. HasLast'
    BY <1>4 DEF HasLast, RecencyInv
  <2>4. KeysOf(items') = KeysOf(items) /\ KeysOf(items) \subseteq Keys
    <3>1. \A x \in 1..Len(items) : items[x] \in Entry
      BY ElementOfSeq DEF CacheInv, TypeOK
    <3> QED
      BY <1>4, <3>1 DEF KeysOf, Entry
  <2> QED
    BY <1>4, <2>1, <2>2, <2>3, <2>4 DEF RecencyInv
<1>5. ASSUME NEW k \in Keys, GetMiss(k) PROVE RecencyInv'
  BY <1>4, <1>5 DEF GetMiss
<1>6. CASE UNCHANGED vars
  BY <1>4, <1>6 DEF vars
<1> QED
  BY <1>1, <1>2, <1>3, <1>5, <1>6 DEF Next

LEMMA AlwaysRecency == Spec => []RecencyInv
<1>1. Init => RecencyInv
  BY FreshRecency DEF Init, Fresh
<1> QED
  BY <1>1, AlwaysCacheInv, StepRecency, PTL DEF Spec

\* Distinct things in a row are as many as the row is long.
LEMMA RowCounts ==
  ASSUME NEW n \in Nat, NEW S, NEW b \in [1..n -> S],
         \A i, j \in 1..n : b[i] = b[j] => i = j,
         \A y \in S : \E i \in 1..n : b[i] = y
  PROVE  IsFiniteSet(S) /\ Cardinality(S) = n
<1>1. b \in Bijection(1..n, S)
  BY DEF Bijection, Injection, IsInjective, Surjection
<1>2. ExistsBijection(1..n, S)
  BY <1>1 DEF ExistsBijection
<1>3. IsFiniteSet(S)
  BY <1>2, FS_NatBijection
<1>4. Cardinality(S) = n
  BY <1>2, FS_CountingElements
<1> QED
  BY <1>3, <1>4

\* The cache has one key for each entry.
LEMMA KeysCount ==
  ASSUME NEW s \in Seq(Entry), Unique(s)
  PROVE  IsFiniteSet(KeysOf(s)) /\ Cardinality(KeysOf(s)) = Len(s)
<1> DEFINE b == [i \in 1..Len(s) |-> s[i].key]
<1>1. Len(s) \in Nat
  BY LenProperties
<1>2. \A i, j \in 1..Len(s) : b[i] = b[j] => i = j
  BY DEF Unique
<1>3. b \in [1..Len(s) -> KeysOf(s)] /\ \A y \in KeysOf(s) : \E i \in 1..Len(s) : b[i] = y
  BY DEF KeysOf
<1> HIDE DEF b
<1> QED
  BY <1>1, <1>2, <1>3, RowCounts

\* Keys touched at a time that is positive and known are finitely many.
LEMMA TouchedAreFinite ==
  ASSUME TypeOK, HasLast, NEW S \in SUBSET Keys, \A j \in S : LastTouch(j) > 0
  PROVE  IsFiniteSet(S)
<1> DEFINE f == [j \in S |-> LastTouch(j)]
<1>1. Len(touched) \in Nat
  BY LenProperties DEF TypeOK
<1>2. \A j \in S : LastTouch(j) \in 1..Len(touched)
  BY <1>1, LastTouchIs
<1>3. \A i, j \in S : LastTouch(i) = LastTouch(j) => i = j
  BY LastTouchDiffers
<1>4. f \in [S -> 1..Len(touched)] /\ \A i, j \in S : f[i] = f[j] => i = j
  BY <1>2, <1>3
<1> HIDE DEF f
<1>5. f \in Injection(S, 1..Len(touched))
  BY <1>4 DEF Injection, IsInjective
<1>6. IsFiniteSet(1..Len(touched))
  BY <1>1, FS_Interval
<1> QED
  BY <1>5, <1>6, FS_Injection

\* A key that was touched is in the cache exactly when fewer keys than the
\* cache has room for were touched since: _items evicts by recency of use.
THEOREM EvictionIsByRecency == Spec => []EvictsLeastRecentlyUsed
<1>1. CacheInv /\ RecencyInv => EvictsLeastRecentlyUsed
  <2> SUFFICES ASSUME CacheInv, RecencyInv, NEW k \in Keys
               PROVE  Positions(items, k) # {} <=>
                        /\ LastTouch(k) > 0
                        /\ Cardinality({j \in Keys : LastTouch(j) > LastTouch(k)}) < MaxEntries
    BY DEF EvictsLeastRecentlyUsed
  <2> DEFINE since == {j \in Keys : LastTouch(j) > LastTouch(k)}
             held == KeysOf(items)
  <2>1. /\ TypeOK /\ HasLast /\ items \in Seq(Entry) /\ Unique(items)
        /\ MaxEntries \in Nat /\ Len(items) \in Nat /\ Len(items) <= MaxEntries
        /\ DOMAIN items = 1..Len(items)
    BY LenProperties, LruAssumption DEF CacheInv, RecencyInv, TypeOK, Sound
  <2>2. IsFiniteSet(held) /\ Cardinality(held) = Len(items)
    BY <2>1, KeysCount
  <2>3. \A j \in Keys : LastTouch(j) \in Nat /\ Ranks[j] = LastTouch(j)
    BY <2>1, RanksType DEF Ranks
  <2>4. k \in held <=> Positions(items, k) # {}
    BY <2>1 DEF KeysOf, Positions
  <2>5. held \subseteq Keys
    <3>1. \A x \in 1..Len(items) : items[x] \in Entry
      BY <2>1, ElementOfSeq
    <3> QED
      BY <3>1 DEF KeysOf, Entry
  <2>6. \A j \in Keys \ held : LastTouch(j) > 0 =>
          Len(items) >= MaxEntries /\ \A i \in held : LastTouch(j) < LastTouch(i)
    <3>1. \A j \in Keys \ held : Ranks[j] > 0 =>
            Len(items) >= MaxEntries /\ \A i \in held : Ranks[j] < Ranks[i]
      BY DEF RecencyInv, Older, KeysOf
    <3> QED
      BY <2>3, <2>5, <3>1
  <2>7. CASE k \in held
    <3>1. LastTouch(k) > 0
      BY <2>7 DEF RecencyInv
    <3>2. since \subseteq held \ {k}
      BY <2>3, <2>6, <2>7
    <3>3. IsFiniteSet(held \ {k}) /\ Cardinality(held \ {k}) = Len(items) - 1
      BY <2>2, <2>7, FS_RemoveElement
    <3> HIDE DEF since
    <3>4. Cardinality(since) \in Nat /\ Cardinality(since) <= Len(items) - 1
      BY <3>2, <3>3, FS_Subset, FS_CardinalityType
    <3> QED
      BY <2>1, <2>4, <2>7, <3>1, <3>4 DEF since
  <2>8. CASE k \notin held /\ LastTouch(k) > 0
    <3>1. held \subseteq since /\ Len(items) >= MaxEntries
      BY <2>3, <2>5, <2>6, <2>8
    <3>2. IsFiniteSet(since)
      <4>1. \A j \in since : LastTouch(j) > 0
        BY <2>3, <2>8
      <4> QED
        BY <2>1, <4>1, TouchedAreFinite
    <3> HIDE DEF since
    <3>3. Cardinality(since) \in Nat /\ Cardinality(held) <= Cardinality(since)
      BY <3>1, <3>2, FS_Subset, FS_CardinalityType
    <3> QED
      BY <2>1, <2>2, <2>4, <2>8, <3>1, <3>3 DEF since
  <2>9. CASE k \notin held /\ ~(LastTouch(k) > 0)
    BY <2>4, <2>9
  <2> QED
    BY <2>7, <2>8, <2>9
<1> QED
  BY <1>1, AlwaysCacheInv, AlwaysRecency, PTL

-----------------------------------------------------------------------------
(***************************************************************************)
(* The refinement of BoundedCache: the entries of the list as a set.       *)
(***************************************************************************)

EntriesOf(s) == {s[i] : i \in 1..Len(s)}

LEMMA EntriesCount ==
  ASSUME NEW s \in Seq(Entry), Unique(s)
  PROVE  IsFiniteSet(EntriesOf(s)) /\ Cardinality(EntriesOf(s)) = Len(s)
<1>1. Len(s) \in Nat /\ s \in [1..Len(s) -> Entry]
  BY LenProperties
<1>2. \A i, j \in 1..Len(s) : s[i] = s[j] => i = j
  BY DEF Unique
<1>3. s \in [1..Len(s) -> EntriesOf(s)] /\ \A y \in EntriesOf(s) : \E i \in 1..Len(s) : s[i] = y
  BY <1>1 DEF EntriesOf
<1> QED
  BY <1>1, <1>2, <1>3, RowCounts

LEMMA WithoutEntries ==
  ASSUME NEW s \in Seq(Entry), Unique(s), NEW k \in Keys
  PROVE  EntriesOf(Without(s, k)) = {e \in EntriesOf(s) : e.key # k}
<1> DEFINE t == Without(s, k)
<1>1. PICK f \in [1..Len(t) -> 1..Len(s)] :
        /\ \A x \in 1..Len(t) : t[x] = s[f[x]] /\ s[f[x]].key # k
        /\ \A y \in 1..Len(s) : s[y].key # k => \E x \in 1..Len(t) : f[x] = y
  <2>1. \E f : Keeps(f, t, s, k)
    BY WithoutKeeps
  <2> HIDE DEF t
  <2> QED
    BY <2>1, Zenon DEF Keeps
<1> HIDE DEF t
<1>2. ASSUME NEW x \in 1..Len(t) PROVE t[x] \in EntriesOf(s) /\ t[x].key # k
  BY <1>1 DEF EntriesOf
<1>3. ASSUME NEW y \in 1..Len(s), s[y].key # k PROVE s[y] \in EntriesOf(t)
  <2>1. PICK x \in 1..Len(t) : f[x] = y
    BY <1>1, <1>3
  <2>2. t[x] = s[y]
    BY <1>1, <2>1
  <2> QED
    BY <2>2 DEF EntriesOf
<1> QED
  BY <1>2, <1>3 DEF EntriesOf, t

LEMMA AppendEntries ==
  ASSUME NEW s \in Seq(Entry), NEW e \in Entry
  PROVE  EntriesOf(Append(s, e)) = EntriesOf(s) \cup {e}
<1> DEFINE u == Append(s, e)
<1>1. Len(u) = Len(s) + 1 /\ u[Len(s) + 1] = e /\ Len(s) \in Nat
      /\ \A x \in 1..Len(s) : u[x] = s[x]
  OBVIOUS
<1> HIDE DEF u
<1>2. 1..Len(u) = 1..Len(s) \cup {Len(s) + 1}
  BY <1>1
<1> QED
  BY <1>1, <1>2 DEF EntriesOf, u

HeldIsEntries == Held = EntriesOf(items)

LEMMA HeldIs == CacheInv => HeldIsEntries
<1> SUFFICES ASSUME CacheInv PROVE HeldIsEntries
  OBVIOUS
<1>1. DOMAIN items = 1..Len(items)
  BY LenProperties DEF CacheInv, TypeOK
<1> QED
  BY <1>1 DEF Held, HeldIsEntries, EntriesOf

\* A hit puts back the entry it takes out.
LEMMA GetHitKeeps ==
  ASSUME CacheInv, NEW k \in Keys, GetHit(k)
  PROVE  EntriesOf(items') = EntriesOf(items)
<1> DEFINE e == items[CHOOSE i \in Positions(items, k) : TRUE]
           t == Without(items, k)
<1>1. /\ items \in Seq(Entry) /\ Unique(items) /\ Sound(items, put)
      /\ DOMAIN items = 1..Len(items)
  BY LenProperties DEF CacheInv, Sound
<1>2. e \in Entry /\ e.key = k
  BY HitIs DEF GetHit
<1>3. e \in EntriesOf(items)
  BY <1>1 DEF GetHit, Positions, EntriesOf
<1>4. items' = MoveToEnd(items, e)
  BY DEF GetHit
<1> HIDE DEF e
<1>5. items' = Append(t, e)
  BY <1>2, <1>4 DEF MoveToEnd
<1>6. t \in Seq(Entry) /\ EntriesOf(t) = {d \in EntriesOf(items) : d.key # k}
  BY <1>1, WithoutIs, WithoutEntries DEF Sound
<1> HIDE DEF t
<1>7. EntriesOf(items') = EntriesOf(t) \cup {e}
  BY <1>2, <1>5, <1>6, AppendEntries
<1>8. \A d \in EntriesOf(items) : d.key = k => d = e
  BY <1>1, <1>2, <1>3 DEF EntriesOf, Unique
<1> QED
  BY <1>3, <1>6, <1>7, <1>8

\* BoundedCache counts as this module does.
LEMMA AbstractCardinality == \A S : Abstract!Cardinality(S) = Cardinality(S)
  BY Zenon DEF Abstract!Cardinality, Cardinality

\* put stores the entry and, in a full cache, gives up the oldest other one.
LEMMA PutPuts ==
  ASSUME CacheInv, NEW k \in Keys, NEW v \in Values, Put(k, v)
  PROVE  EntriesOf(items') \in Abstract!Puts(EntriesOf(items), k, v, MaxEntries)
<1> DEFINE e == [key |-> k, value |-> v]
           t == Without(items, k)
           u == Append(t, e)
           held == EntriesOf(items)
           kept == held \ Abstract!Hits(held, k)
<1>1. /\ items \in Seq(Entry) /\ Unique(items) /\ Sound(items, put)
      /\ Len(items) <= MaxEntries /\ Len(items) \in Nat /\ MaxEntries \in Nat \ {0}
  BY LenProperties, LruAssumption DEF CacheInv, Sound
<1>2. e \in Entry /\ e.key = k
  BY DEF Entry
<1>3. items' = Evict(u)
  BY DEF Put, MoveToEnd
<1>4. /\ t \in Seq(Entry) /\ Unique(t) /\ Len(t) <= Len(items) /\ Len(t) \in Nat
  BY <1>1, WithoutIs, LenProperties DEF Sound
<1>5. EntriesOf(t) = kept
  BY <1>1, WithoutEntries DEF Abstract!Hits
<1> HIDE DEF e, t
<1>6. IsFiniteSet(kept) /\ Cardinality(kept) = Len(t)
  BY <1>4, <1>5, EntriesCount
<1>7. EntriesOf(u) = kept \cup {e}
  BY <1>2, <1>4, <1>5, AppendEntries
<1>8. /\ u \in Seq(Entry) /\ Len(u) = Len(t) + 1 /\ u[Len(t) + 1] = e
      /\ \A x \in 1..Len(t) : u[x] = t[x]
  BY <1>2, <1>4
<1>9. /\ Cardinality(kept) < MaxEntries =>
           kept \cup {e} \in Abstract!Puts(held, k, v, MaxEntries)
      /\ ~(Cardinality(kept) < MaxEntries) => \A victim \in kept :
           (kept \ {victim}) \cup {e} \in Abstract!Puts(held, k, v, MaxEntries)
  BY AbstractCardinality DEF Abstract!Puts, e
<1> HIDE DEF u, kept, held
<1>10. CASE Len(t) < MaxEntries
  <2>1. items' = u
    BY <1>1, <1>3, <1>4, <1>8, <1>10 DEF Evict
  <2> QED
    BY <1>6, <1>7, <1>9, <1>10, <2>1 DEF held
<1>11. CASE Len(t) = MaxEntries
  <2> DEFINE w == Evict(u)
  <2>1. /\ Len(w) = MaxEntries
        /\ \A x \in 1..MaxEntries : w[x] = u[x + 1]
    BY <1>8, <1>11, EvictDropsFirst
  <2> HIDE DEF w
  <2>2. w[MaxEntries] = e
    BY <1>1, <1>8, <1>11, <2>1
  <2>3. \A x \in 1..(MaxEntries - 1) : x + 1 \in 1..Len(t) /\ w[x] = t[x + 1]
    BY <1>1, <1>8, <1>11, <2>1
  <2>4. EntriesOf(w) = (EntriesOf(t) \ {t[1]}) \cup {e}
    <3>1. ASSUME NEW x \in 1..Len(w), x # MaxEntries
          PROVE  w[x] \in EntriesOf(t) /\ w[x] # t[1]
      <4>1. x \in 1..(MaxEntries - 1) /\ x + 1 # 1 /\ 1 \in 1..Len(t)
        BY <1>1, <1>11, <2>1, <3>1
      <4>2. x + 1 \in 1..Len(t) /\ w[x] = t[x + 1]
        BY <2>3, <4>1
      <4> QED
        BY <1>4, <4>1, <4>2 DEF EntriesOf, Unique
    <3>2. ASSUME NEW y \in 1..Len(t), y # 1 PROVE t[y] \in EntriesOf(w)
      <4>1. y - 1 \in 1..(MaxEntries - 1) /\ y - 1 \in 1..Len(w) /\ (y - 1) + 1 = y
        BY <1>1, <1>11, <2>1, <3>2
      <4>2. w[y - 1] = t[y]
        BY <2>3, <4>1
      <4> QED
        BY <4>1, <4>2 DEF EntriesOf
    <3>3. e \in EntriesOf(w)
      <4>1. MaxEntries \in 1..Len(w)
        BY <1>1, <2>1
      <4> QED
        BY <2>2, <4>1 DEF EntriesOf
    <3> QED
      BY <2>2, <3>1, <3>2, <3>3 DEF EntriesOf
  <2>5. t[1] \in kept
    BY <1>1, <1>5, <1>11 DEF EntriesOf
  <2>6. EntriesOf(items') = (kept \ {t[1]}) \cup {e}
    BY <1>3, <1>5, <2>4 DEF w
  <2> QED
    BY <1>1, <1>6, <1>9, <1>11, <2>5, <2>6 DEF held
<1> QED
  BY <1>1, <1>4, <1>10, <1>11

\* Every step of the list is a step, or a stutter, of the cache that promises
\* no eviction order: what AnswerService takes from BoundedCache holds of the
\* class the orchestrator uses.
THEOREM ImplementsCache == Spec => ImplementsBoundedCache
<1>1. Init => Abstract!Init
  BY DEF Init, Abstract!Init, Held
<1>2. CacheInv /\ CacheInv' /\ [Next]_vars => [Abstract!Next]_Held
  <2> SUFFICES ASSUME CacheInv, CacheInv', [Next]_vars PROVE [Abstract!Next]_Held
    OBVIOUS
  <2>1. Held = EntriesOf(items) /\ Held' = EntriesOf(items')
    <3>1. HeldIsEntries /\ HeldIsEntries'
      BY HeldIs, PTL
    <3> QED
      BY <3>1 DEF HeldIsEntries, EntriesOf
  <2>2. ASSUME NEW k \in Keys, GetHit(k) PROVE Held' = Held
    BY <2>1, <2>2, GetHitKeeps
  <2>3. ASSUME NEW k \in Keys, GetMiss(k) PROVE Held' = Held
    BY <2>1, <2>3 DEF GetMiss
  <2>4. ASSUME NEW k \in Keys, NEW v \in Values, Put(k, v) PROVE Abstract!Next
    <3>1. Abstract!Put(k, v)
      BY <2>1, <2>4, PutPuts DEF Abstract!Put
    <3> QED
      BY <3>1 DEF Abstract!Next
  <2>5. CASE Clear
    <3>1. Abstract!Clear
      BY <2>5 DEF Clear, Abstract!Clear, Held
    <3> QED
      BY <3>1 DEF Abstract!Next
  <2>6. CASE UNCHANGED vars
    BY <2>1, <2>6 DEF vars
  <2> QED
    BY <2>2, <2>3, <2>4, <2>5, <2>6 DEF Next
<1> QED
  BY <1>1, <1>2, AlwaysCacheInv, PTL DEF Spec, ImplementsBoundedCache, Abstract!Spec
=============================================================================
