--------------------------- MODULE Ranking_proofs ---------------------------
(***************************************************************************)
(* Proofs about Ranking: for sheets of any number of rows, plans of any    *)
(* families and sorts, and any holdings.                                   *)
(***************************************************************************)
EXTENDS Ranking, FiniteSetTheorems, SequenceTheorems, TLAPS

-----------------------------------------------------------------------------
(***************************************************************************)
(* Orders.  An order is given as a set of pairs, since a lemma cannot be   *)
(* about an operator.                                                      *)
(***************************************************************************)

\* R is a strict total order of S.
StrictOrder(R, S) ==
  /\ \A x \in S : <<x, x>> \notin R
  /\ \A x, y, z \in S : <<x, y>> \in R /\ <<y, z>> \in R => <<x, z>> \in R
  /\ \A x, y \in S : x # y => <<x, y>> \in R \/ <<y, x>> \in R

\* s lists every element of S once, in the order R.
Lists(s, S, R) ==
  /\ s \in [1 .. Cardinality(S) -> S]
  /\ \A x \in S : \E i \in 1 .. Cardinality(S) : s[i] = x
  /\ \A i, j \in 1 .. Cardinality(S) : i < j => <<s[i], s[j]>> \in R
  /\ \A i, j \in 1 .. Cardinality(S) : s[i] = s[j] => i = j

\* Ranking by how many come before puts a finite set in order.
LEMMA RanksList ==
  ASSUME NEW S, IsFiniteSet(S), NEW R, StrictOrder(R, S), NEW rank,
         \A x \in S : rank[x] = Cardinality({y \in S : <<y, x>> \in R})
  PROVE  Lists(ByRank(S, rank), S, R)
<1> DEFINE n == Cardinality(S)
           Below(x) == {y \in S : <<y, x>> \in R}
           f == [x \in S |-> rank[x] + 1]
           s == ByRank(S, rank)
<1>1. n \in Nat
  BY FS_CardinalityType
<1>2. ASSUME NEW x \in S
      PROVE  IsFiniteSet(Below(x)) /\ rank[x] = Cardinality(Below(x)) /\ rank[x] \in 0 .. n - 1
  <2>1. Below(x) \subseteq S \ {x}
    BY DEF StrictOrder
  <2>2. IsFiniteSet(S \ {x}) /\ Cardinality(S \ {x}) = n - 1
    BY FS_RemoveElement
  <2> HIDE DEF Below, n
  <2>3. IsFiniteSet(Below(x)) /\ Cardinality(Below(x)) \in Nat /\ Cardinality(Below(x)) <= n - 1
    BY <2>1, <2>2, FS_Subset, FS_CardinalityType
  <2>4. rank[x] = Cardinality(Below(x))
    BY DEF Below
  <2> QED
    BY <1>1, <2>3, <2>4
<1>11. ASSUME NEW x \in S PROVE rank[x] \in 0 .. n - 1
  BY <1>2
<1> HIDE DEF n
<1>3. ASSUME NEW x \in S, NEW y \in S, <<x, y>> \in R PROVE rank[x] < rank[y]
  <2>1. Below(x) \subseteq Below(y)
    BY <1>3 DEF StrictOrder
  <2>2. Below(x) # Below(y)
    BY <1>3 DEF StrictOrder
  <2>3. rank[x] \in Int /\ rank[y] \in Int
    BY <1>1, <1>11
  <2> HIDE DEF Below
  <2>4. IsFiniteSet(Below(y)) /\ rank[x] = Cardinality(Below(x)) /\ rank[y] = Cardinality(Below(y))
    BY <1>2
  <2>5. Cardinality(Below(x)) <= Cardinality(Below(y)) /\ Cardinality(Below(x)) # Cardinality(Below(y))
    BY <2>1, <2>2, <2>4, FS_Subset
  <2> QED
    BY <2>3, <2>4, <2>5
<1>4. ASSUME NEW x \in S, NEW y \in S, rank[x] = rank[y] PROVE x = y
  <2>1. ~(rank[x] < rank[y]) /\ ~(rank[y] < rank[x])
    BY <1>1, <1>4, <1>11
  <2> QED
    BY <1>3, <2>1 DEF StrictOrder
<1>5. \A i \in 1 .. n : \E x \in S : rank[x] = i - 1
  <2>1. f \in [S -> 1 .. n]
    BY <1>1, <1>11
  <2>2. ASSUME NEW x \in S, NEW y \in S, f[x] = f[y] PROVE x = y
    <3>1. rank[x] = rank[y]
      BY <1>1, <1>11, <2>2
    <3> QED
      BY <1>4, <3>1
  <2>3. IsInjective(f)
    BY <2>1, <2>2 DEF IsInjective
  <2>4. f \in Injection(S, 1 .. n)
    BY <2>1, <2>3 DEF Injection
  <2>5. IsFiniteSet(1 .. n) /\ Cardinality(1 .. n) = n
    BY <1>1, FS_Interval
  <2>6. f \in Surjection(S, 1 .. n)
    <3>1. Cardinality(S) = Cardinality(1 .. n)
      BY <2>5 DEF n
    <3> HIDE DEF f
    <3> QED
      BY <2>4, <2>5, <3>1, FS_Injection
  <2>7. \A i \in 1 .. n : \E x \in S : f[x] = i
    <3> HIDE DEF f
    <3> QED
      BY <2>6 DEF Surjection
  <2>8. \A x \in S : f[x] = rank[x] + 1
    OBVIOUS
  <2> HIDE DEF f
  <2> SUFFICES ASSUME NEW i \in 1 .. n PROVE \E x \in S : rank[x] = i - 1
    OBVIOUS
  <2>9. PICK x \in S : f[x] = i
    BY <2>7
  <2> QED
    BY <1>1, <1>11, <2>8, <2>9
<1>6. \A i \in 1 .. n : s[i] \in S /\ rank[s[i]] = i - 1
  BY <1>5 DEF ByRank, n
<1>7. s \in [1 .. n -> S]
  BY <1>6 DEF ByRank, n
<1> HIDE DEF s
<1>8. ASSUME NEW x \in S PROVE \E i \in 1 .. n : s[i] = x
  <2>1. rank[x] + 1 \in 1 .. n
    BY <1>1, <1>11
  <2>2. rank[s[rank[x] + 1]] = rank[x] /\ s[rank[x] + 1] \in S
    BY <1>1, <1>11, <1>6, <2>1
  <2> QED
    BY <1>4, <2>1, <2>2
<1>9. ASSUME NEW i \in 1 .. n, NEW j \in 1 .. n, i < j PROVE <<s[i], s[j]>> \in R
  <2>1. rank[s[i]] < rank[s[j]] /\ ~(rank[s[j]] < rank[s[i]]) /\ s[i] \in S /\ s[j] \in S
    BY <1>1, <1>6, <1>9
  <2>2. ~(<<s[j], s[i]>> \in R)
    BY <1>3, <2>1
  <2>3. s[i] # s[j]
    BY <1>1, <1>6, <1>9
  <2> QED
    BY <2>1, <2>2, <2>3 DEF StrictOrder
<1>10. ASSUME NEW i \in 1 .. n, NEW j \in 1 .. n, s[i] = s[j] PROVE i = j
  BY <1>1, <1>6, <1>10
<1> QED
  BY <1>7, <1>8, <1>9, <1>10 DEF Lists, s, n

-----------------------------------------------------------------------------
\* The order of numbers, and of pairs of them.
LEMMA NumbersOrdered ==
  ASSUME NEW S \in SUBSET Int, IsFiniteSet(S)
  PROVE  Lists(Ordered(S, <), S, {e \in S \X S : e[1] < e[2]})
<1> DEFINE R == {e \in S \X S : e[1] < e[2]}
           rank == [x \in S |-> Cardinality({y \in S : y < x})]
<1>1. StrictOrder(R, S)
  BY DEF StrictOrder
<1>2. ASSUME NEW x \in S PROVE rank[x] = Cardinality({y \in S : <<y, x>> \in R})
  <2>1. {y \in S : <<y, x>> \in R} = {y \in S : y < x}
    OBVIOUS
  <2> QED
    BY <2>1
<1>3. Ordered(S, <) = ByRank(S, rank)
  BY DEF Ordered
<1> HIDE DEF rank, R
<1>4. Lists(ByRank(S, rank), S, R)
  BY <1>1, <1>2, RanksList
<1> QED
  BY <1>3, <1>4 DEF R

\* Lists of numbers are compared pair by pair, by the first of a pair first.
LEMMA PairsOrdered ==
  ASSUME NEW S \in SUBSET (Int \X Int), IsFiniteSet(S)
  PROVE  Lists(Ordered(S, Less), S, {e \in S \X S : Less(e[1], e[2])})
<1> DEFINE R == {e \in S \X S : Less(e[1], e[2])}
           rank == [x \in S |-> Cardinality({y \in S : Less(y, x)})]
<1>1. StrictOrder(R, S)
  <2>1. \A x, y \in S : <<x, y>> \in R <=> Less(x, y)
    OBVIOUS
  <2>2. \A x \in S : x[1] \in Int /\ x[2] \in Int /\ x = <<x[1], x[2]>>
    OBVIOUS
  <2> HIDE DEF R
  <2> QED
    BY <2>1, <2>2 DEF StrictOrder, Less
<1>2. ASSUME NEW x \in S PROVE rank[x] = Cardinality({y \in S : <<y, x>> \in R})
  <2>1. {y \in S : <<y, x>> \in R} = {y \in S : Less(y, x)}
    OBVIOUS
  <2> QED
    BY <2>1
<1>3. Ordered(S, Less) = ByRank(S, rank)
  BY DEF Ordered
<1> HIDE DEF rank, R
<1>4. Lists(ByRank(S, rank), S, R)
  BY <1>1, <1>2, RanksList
<1> QED
  BY <1>3, <1>4 DEF R

\* What a cut keeps.
LEMMA TakeIs ==
  ASSUME NEW A, NEW s \in Seq(A), NEW n \in Nat
  PROVE  /\ Take(s, n) \in Seq(A)
         /\ Len(Take(s, n)) = IF Len(s) < n THEN Len(s) ELSE n
         /\ \A i \in 1 .. Len(Take(s, n)) : Take(s, n)[i] = s[i]
<1> DEFINE m == IF Len(s) < n THEN Len(s) ELSE n
<1>1. m \in Nat /\ m <= Len(s) /\ Len(s) \in Nat
  OBVIOUS
<1> HIDE DEF m
<1>2. \A i \in 1 .. m : s[i] \in A
  BY <1>1
<1>3. SubSeq(s, 1, m) \in Seq(A) /\ Len(SubSeq(s, 1, m)) = m /\ \A i \in 1 .. m : SubSeq(s, 1, m)[i] = s[i]
  BY <1>1, <1>2, SubSeqProperties
<1> QED
  BY <1>3 DEF Take, m

\* A sublist of an ordered list is one.
LEMMA OnlyLists ==
  ASSUME NEW S, IsFiniteSet(S), NEW R, NEW s, Lists(s, S, R), NEW T
  PROVE  Lists(Only(s, T), S \cap T, R)
<1> DEFINE n == Cardinality(S)
           K == {i \in DOMAIN s : s[i] \in T}
           E == {e \in K \X K : e[1] < e[2]}
           places == Ordered(K, <)
           o == Only(s, T)
<1>1. /\ s \in [1 .. n -> S] /\ DOMAIN s = 1 .. n /\ n \in Nat
      /\ \A x \in S : \E i \in 1 .. n : s[i] = x
      /\ \A i, j \in 1 .. n : i < j => <<s[i], s[j]>> \in R
      /\ \A i, j \in 1 .. n : s[i] = s[j] => i = j
  BY FS_CardinalityType DEF Lists
<1>2. K \in SUBSET Int /\ IsFiniteSet(K)
  <2>1. K \subseteq 1 .. n /\ IsFiniteSet(1 .. n)
    BY <1>1, FS_Interval
  <2>2. K \in SUBSET Int
    BY <1>1
  <2> HIDE DEF K
  <2> QED
    BY <2>1, <2>2, FS_Subset
<1>3. Lists(places, K, E)
  <2> HIDE DEF K
  <2> QED
    BY <1>2, NumbersOrdered
<1> DEFINE k == Cardinality(K)
<1>4. /\ places \in [1 .. k -> K] /\ DOMAIN places = 1 .. k /\ k \in Nat
      /\ \A x \in K : \E i \in 1 .. k : places[i] = x
      /\ \A i, j \in 1 .. k : i < j => <<places[i], places[j]>> \in E
      /\ \A i, j \in 1 .. k : places[i] = places[j] => i = j
  <2> HIDE DEF K, E
  <2> QED
    BY <1>2, <1>3, FS_CardinalityType DEF Lists
<1>5. \A i \in 1 .. k : places[i] \in 1 .. n /\ s[places[i]] \in S \cap T
  BY <1>1, <1>4
<1>6. \A i, j \in 1 .. k : i < j => places[i] < places[j]
  BY <1>4
<1>7. o = [i \in 1 .. k |-> s[places[i]]]
  <2>1. DOMAIN places = 1 .. k
    BY <1>4
  <2> QED
    BY <2>1 DEF Only
<1>8. \A x \in S \cap T : \E i \in 1 .. k : o[i] = x
  <2> SUFFICES ASSUME NEW x \in S \cap T PROVE \E i \in 1 .. k : o[i] = x
    OBVIOUS
  <2>1. PICK a \in 1 .. n : s[a] = x
    BY <1>1
  <2>2. a \in K
    BY <1>1, <2>1
  <2>3. PICK i \in 1 .. k : places[i] = a
    BY <1>4, <2>2
  <2> HIDE DEF places, k, K
  <2> QED
    BY <1>7, <2>1, <2>3
<1> HIDE DEF places, k, K, n, E, o
<1>9. o \in [1 .. k -> S \cap T]
  BY <1>5, <1>7
<1>10. \A i, j \in 1 .. k : i < j => <<o[i], o[j]>> \in R
  BY <1>1, <1>5, <1>6, <1>7
<1>11. \A i, j \in 1 .. k : o[i] = o[j] => i = j
  BY <1>1, <1>4, <1>5, <1>7
<1>12. k = Cardinality(S \cap T)
  <2>1. \A i \in 1 .. k : o[i] \in S \cap T
    BY <1>9
  <2>2. o \in Bijection(1 .. k, S \cap T)
    BY <1>8, <1>9, <1>11 DEF Bijection, Injection, IsInjective, Surjection
  <2> QED
    BY <1>4, <2>2, FS_CountingElements DEF ExistsBijection
<1> QED
  BY <1>8, <1>9, <1>10, <1>11, <1>12 DEF Lists, o


-----------------------------------------------------------------------------
(***************************************************************************)
(* Several lists read off as one.                                          *)
(***************************************************************************)

\* Finitely many lists have finitely many places.
LEMMA PlacesFinite ==
  ASSUME NEW A, NEW lists \in Seq(Seq(A))
  PROVE  /\ IsFiniteSet(Places(lists)) /\ Places(lists) \subseteq Int \X Int
         /\ \A e \in Places(lists) : e[1] \in DOMAIN lists /\ e[2] \in DOMAIN lists[e[1]]
         /\ \A l \in DOMAIN lists : \A i \in DOMAIN lists[l] : <<l, i>> \in Places(lists)
<1> DEFINE n == Len(lists)
           f == [l \in 1 .. n |-> {<<l, i>> : i \in DOMAIN lists[l]}]
           Fs == {f[l] : l \in 1 .. n}
<1>1. n \in Nat /\ DOMAIN lists = 1 .. n
  OBVIOUS
<1>2. \A l \in 1 .. n : lists[l] \in Seq(A) /\ DOMAIN lists[l] = 1 .. Len(lists[l]) /\ Len(lists[l]) \in Nat
  OBVIOUS
<1>3. Places(lists) = UNION Fs
  BY <1>1 DEF Places
<1>4. ASSUME NEW l \in 1 .. n PROVE IsFiniteSet(f[l])
  <2> DEFINE D == 1 .. Len(lists[l])
             g == [i \in D |-> <<l, i>>]
  <2>1. IsFiniteSet(D)
    BY <1>2, FS_Interval
  <2>2. g \in Surjection(D, f[l])
    BY <1>2 DEF Surjection
  <2> HIDE DEF g, f, D
  <2> QED
    BY <2>1, <2>2, FS_Surjection
<1>5. IsFiniteSet(Fs)
  <2>1. f \in Surjection(1 .. n, Fs) /\ IsFiniteSet(1 .. n)
    <3>1. f \in [1 .. n -> Fs]
      OBVIOUS
    <3>2. IsFiniteSet(1 .. n)
      BY <1>1, FS_Interval
    <3> HIDE DEF f
    <3> QED
      BY <3>1, <3>2 DEF Surjection
  <2> HIDE DEF f, Fs, n
  <2> QED
    BY <2>1, FS_Surjection
<1>6. \A T \in Fs : IsFiniteSet(T)
  <2> HIDE DEF f, n
  <2> QED
    BY <1>4
<1>7. IsFiniteSet(UNION Fs)
  <2> HIDE DEF Fs
  <2> QED
    BY <1>5, <1>6, FS_UNION
<1>8. /\ \A e \in Places(lists) : /\ e[1] \in DOMAIN lists /\ e[2] \in DOMAIN lists[e[1]]
                                  /\ e = <<e[1], e[2]>>
      /\ \A l \in DOMAIN lists : \A i \in DOMAIN lists[l] : <<l, i>> \in Places(lists)
  BY DEF Places
<1>9. \A e \in Places(lists) : e[1] \in Int /\ e[2] \in Int
  BY <1>1, <1>2, <1>8
<1> QED
  BY <1>3, <1>7, <1>8, <1>9

\* Whatever the order of the places, what is read off them is what is in the lists.
LEMMA ReadOffIs ==
  ASSUME NEW A, NEW lists \in Seq(Seq(A)), NEW R, NEW places, Lists(places, Places(lists), R)
  PROVE  LET o == ReadOff(lists, places)
         IN  /\ o \in Seq(A) /\ Len(o) = Cardinality(Places(lists))
             /\ DOMAIN o = 1 .. Cardinality(Places(lists))
             /\ \A i \in DOMAIN o : \E l \in DOMAIN lists : o[i] \in ToSet(lists[l])
             /\ \A l \in DOMAIN lists : ToSet(lists[l]) \subseteq ToSet(o)
<1> DEFINE n == Cardinality(Places(lists))
           o == ReadOff(lists, places)
<1>1. n \in Nat
  BY PlacesFinite, FS_CardinalityType
<1>2. places \in [1 .. n -> Places(lists)] /\ \A e \in Places(lists) : \E i \in 1 .. n : places[i] = e
  BY DEF Lists
<1>3. DOMAIN places = 1 .. n
  BY <1>2
<1> HIDE DEF n
<1>4. \A i \in 1 .. n : places[i][1] \in DOMAIN lists /\ places[i][2] \in DOMAIN lists[places[i][1]]
  BY <1>2, PlacesFinite
<1>5. o = [i \in 1 .. n |-> lists[places[i][1]][places[i][2]]]
  BY <1>3 DEF ReadOff
<1>6. \A l \in DOMAIN lists : \A i \in DOMAIN lists[l] : lists[l][i] \in A
  OBVIOUS
<1>7. o \in [1 .. n -> A]
  BY <1>4, <1>5, <1>6
<1>8. \A i \in 1 .. n : \E l \in DOMAIN lists : o[i] \in ToSet(lists[l])
  <2> SUFFICES ASSUME NEW i \in 1 .. n PROVE \E l \in DOMAIN lists : o[i] \in ToSet(lists[l])
    OBVIOUS
  <2> DEFINE l == places[i][1]
             k == places[i][2]
  <2>1. l \in DOMAIN lists /\ k \in DOMAIN lists[l] /\ o[i] = lists[l][k]
    BY <1>4, <1>5
  <2> HIDE DEF l, k
  <2> QED
    BY <2>1 DEF ToSet
<1>9. ASSUME NEW l \in DOMAIN lists, NEW x \in ToSet(lists[l]) PROVE x \in ToSet(o)
  <2>1. PICK i \in DOMAIN lists[l] : x = lists[l][i]
    BY DEF ToSet
  <2>2. PICK k \in 1 .. n : places[k] = <<l, i>>
    BY <1>2, <2>1, PlacesFinite
  <2>3. o[k] = x /\ k \in DOMAIN o
    BY <1>5, <2>1, <2>2
  <2> QED
    BY <2>3 DEF ToSet
<1> HIDE DEF o
<1>10. o \in Seq(A) /\ Len(o) = n /\ DOMAIN o = 1 .. n
  BY <1>1, <1>7, SeqDef
<1> QED
  BY <1>8, <1>9, <1>10 DEF o, n

\* Concat has the elements of all lists.
LEMMA ConcatIs ==
  ASSUME NEW A, NEW lists \in Seq(Seq(A))
  PROVE  /\ Concat(lists) \in Seq(A)
         /\ \A i \in DOMAIN Concat(lists) : \E l \in DOMAIN lists : Concat(lists)[i] \in ToSet(lists[l])
         /\ \A l \in DOMAIN lists : ToSet(lists[l]) \subseteq ToSet(Concat(lists))
<1> DEFINE S == Places(lists)
           R == {e \in S \X S : Less(e[1], e[2])}
<1>1. Lists(Ordered(S, Less), S, R)
  <2>1. S \in SUBSET (Int \X Int) /\ IsFiniteSet(S)
    BY PlacesFinite
  <2> HIDE DEF S
  <2> QED
    BY <2>1, PairsOrdered
<1> HIDE DEF R
<1> QED
  BY <1>1, ReadOffIs DEF Concat

\* The order in which families take turns: the places of the lists, the first of
\* each before the second of each.
TurnsOrder(lists) ==
  {e \in Places(lists) \X Places(lists) :
     Less(<<e[1][2], e[1][1]>>, <<e[2][2], e[2][1]>>)}

\* RoundRobin has every place of every batch once, those of a round before the next.
LEMMA RoundRobinIs ==
  ASSUME NEW A, NEW lists \in Seq(Seq(A))
  PROVE  \E places : /\ Lists(places, Places(lists), TurnsOrder(lists))
                     /\ RoundRobin(lists) = ReadOff(lists, places)
<1> DEFINE S == Places(lists)
           R == TurnsOrder(lists)
           rank == [x \in S |-> Cardinality({y \in S : Less(<<y[2], y[1]>>, <<x[2], x[1]>>)})]
<1>1. IsFiniteSet(S) /\ S \subseteq Int \X Int
  BY PlacesFinite
<1>2. StrictOrder(R, S)
  <2>1. \A x, y \in S : <<x, y>> \in R <=> x[2] < y[2] \/ (x[2] = y[2] /\ x[1] < y[1])
    BY DEF TurnsOrder, Less
  <2>2. \A x \in S : x[1] \in Int /\ x[2] \in Int
    BY <1>1
  <2>3. \A x, y \in S : x[1] = y[1] /\ x[2] = y[2] => x = y
    BY <1>1
  <2> HIDE DEF R, S
  <2>4. \A x \in S : <<x, x>> \notin R
    BY <2>1, <2>2
  <2>5. ASSUME NEW x \in S, NEW y \in S, NEW z \in S, <<x, y>> \in R, <<y, z>> \in R
        PROVE  <<x, z>> \in R
    <3>1. /\ x[2] < y[2] \/ (x[2] = y[2] /\ x[1] < y[1])
          /\ y[2] < z[2] \/ (y[2] = z[2] /\ y[1] < z[1])
      BY <2>1, <2>5
    <3>2. x[2] < z[2] \/ (x[2] = z[2] /\ x[1] < z[1])
      BY <2>2, <3>1
    <3> QED
      BY <2>1, <3>2
  <2>6. ASSUME NEW x \in S, NEW y \in S, x # y PROVE <<x, y>> \in R \/ <<y, x>> \in R
    BY <2>1, <2>2, <2>3, <2>6
  <2> QED
    BY <2>4, <2>5, <2>6 DEF StrictOrder
<1>3. ASSUME NEW x \in S PROVE rank[x] = Cardinality({y \in S : <<y, x>> \in R})
  <2>1. {y \in S : <<y, x>> \in R} = {y \in S : Less(<<y[2], y[1]>>, <<x[2], x[1]>>)}
    BY DEF TurnsOrder
  <2> QED
    BY <2>1
<1>4. RoundRobin(lists) = ReadOff(lists, ByRank(S, rank))
  BY DEF RoundRobin, Ordered
<1>5. Lists(ByRank(S, rank), S, R)
  <2> HIDE DEF rank, R, S
  <2> QED
    BY <1>1, <1>2, <1>3, RanksList
<1> QED
  BY <1>4, <1>5


-----------------------------------------------------------------------------
(***************************************************************************)
(* What the mappers make of a row, family by family.                       *)
(***************************************************************************)

\* The families, and the metrics of each.
LEMMA FourFamilies ==
  /\ Families = {"BOND_KR", "ETF_KR", "ETF_GLOBAL", "FUND_PUBLIC"}
  /\ MetricFields("BOND_KR") = {"remaining_days", "applied_yield", "dur", "eval_price", "buyable_quantity"}
  /\ MetricFields("ETF_KR") = {"du_er_1d", "du_last_aum", "cu_charge_rt", "cu_base_index", "pd_lste_dt"}
  /\ MetricFields("ETF_GLOBAL") = {"du_clpr", "du_last_nav", "du_last_aum", "du_er_1d", "du_diff_rt"}
  /\ MetricFields("FUND_PUBLIC") = {"fd_wk1_ern_r", "fd_mm1_ern_r", "fd_yr1_ern_r", "fd_nast_suma"}
<1>1. Families = {"BOND_KR", "ETF_KR", "ETF_GLOBAL", "FUND_PUBLIC"}
  BY DEF Families, Metrics
<1>2. /\ DOMAIN Metrics["BOND_KR"] = 1 .. 5 /\ DOMAIN Metrics["ETF_KR"] = 1 .. 5
      /\ DOMAIN Metrics["ETF_GLOBAL"] = 1 .. 5 /\ DOMAIN Metrics["FUND_PUBLIC"] = 1 .. 4
  BY DEF Metrics
<1>3. MetricFields("BOND_KR") = {"remaining_days", "applied_yield", "dur", "eval_price", "buyable_quantity"}
  BY DEF Metrics, MetricFields
<1>4. MetricFields("ETF_KR") = {"du_er_1d", "du_last_aum", "cu_charge_rt", "cu_base_index", "pd_lste_dt"}
  BY DEF Metrics, MetricFields
<1>5. MetricFields("ETF_GLOBAL") = {"du_clpr", "du_last_nav", "du_last_aum", "du_er_1d", "du_diff_rt"}
  BY DEF Metrics, MetricFields
<1>6. MetricFields("FUND_PUBLIC") = {"fd_wk1_ern_r", "fd_mm1_ern_r", "fd_yr1_ern_r", "fd_nast_suma"}
  BY DEF Metrics, MetricFields
<1> QED
  BY <1>1, <1>3, <1>4, <1>5, <1>6

\* The metric that a column is filled from is the one it is named after.
LEMMA PlaceIsRight ==
  ASSUME NEW family \in Families, NEW column \in DOMAIN PlaceOf[family]
  PROVE  Metrics[family][PlaceOf[family][column]] = column
<1>1. CASE family = "BOND_KR"
  BY <1>1 DEF PlaceOf, Metrics
<1>2. CASE family = "ETF_KR"
  BY <1>2 DEF PlaceOf, Metrics
<1>3. CASE family = "ETF_GLOBAL"
  BY <1>3 DEF PlaceOf, Metrics
<1>4. CASE family = "FUND_PUBLIC"
  BY <1>4 DEF PlaceOf, Metrics
<1> QED
  BY <1>1, <1>2, <1>3, <1>4, FourFamilies

\* The columns of numbers, and the one of a date, if there is one.
LEMMA ColumnsAre ==
  ASSUME NEW family \in Families, NEW f \in DOMAIN ColumnOf[family]
  PROVE  /\ f # DateField => /\ ColumnOf[family][f] \in DOMAIN PlaceOf[family] \cup Unassessed[family]
                             /\ ColumnOf[family][f] \notin TextColumns[family] \cup {"fd_price_bas_dt"}
         /\ f = DateField => ColumnOf[family][f] \notin DOMAIN PlaceOf[family] \cup Unassessed[family]
         /\ f = DateField =>
              \/ /\ family = "BOND_KR" /\ ColumnOf[family][f] = "info_base_dt"
                 /\ TextColumns[family] = {"info_base_dt"}
              \/ /\ family = "FUND_PUBLIC" /\ ColumnOf[family][f] = "fd_price_bas_dt"
                 /\ TextColumns[family] = {}
<1>1. CASE family = "BOND_KR"
  BY <1>1 DEF PlaceOf, ColumnOf, Unassessed, TextColumns, DateField
<1>2. CASE family = "ETF_KR"
  BY <1>2 DEF PlaceOf, ColumnOf, Unassessed, TextColumns, DateField
<1>3. CASE family = "ETF_GLOBAL"
  BY <1>3 DEF PlaceOf, ColumnOf, Unassessed, TextColumns, DateField
<1>4. CASE family = "FUND_PUBLIC"
  BY <1>4 DEF PlaceOf, ColumnOf, Unassessed, TextColumns, DateField
<1> QED
  BY <1>1, <1>2, <1>3, <1>4, FourFamilies

\* The cells that are numbers, and what _to_numeric makes of a cell.
LEMMA NumbersAre ==
  /\ DOMAIN Number = {"0", "0.00", "1", "2", "500", "20250711", "20250801", "99990000", "99991231"}
  /\ "empty" \notin DOMAIN Number
  /\ \A c : ToNumeric(c) \in Int \cup {Null}
  /\ \A c : ToNumeric(c) = Null <=> c \notin DOMAIN Number
<1>1. /\ DOMAIN Number = {"0", "0.00", "1", "2", "500", "20250711", "20250801", "99990000", "99991231"}
      /\ \A c \in DOMAIN Number : Number[c] \in Int
  BY DEF Number
<1>2. "empty" \notin DOMAIN Number
  BY <1>1
<1> QED
  BY <1>1, <1>2, RankingAssumption DEF ToNumeric

\* A column is read as what its cell says, but for a date, which no number is read
\* in; and when it has a value.
LEMMA ColumnIs ==
  ASSUME NEW family \in Families, NEW f \in DOMAIN ColumnOf[family], NEW row
  PROVE  LET column == ColumnOf[family][f]
         IN  /\ Column(family, row, column) =
                  IF column = "fd_price_bas_dt" THEN Null ELSE ToNumeric(row[column])
             /\ f # DateField => (Filled(family, row, column) <=> ToNumeric(row[column]) # Null)
             /\ f = DateField =>
                  (Filled(family, row, column) <=>
                     \/ family = "BOND_KR" /\ row["info_base_dt"] # "empty"
                     \/ family = "FUND_PUBLIC" /\ row["fd_price_bas_dt"] \in Dates)
<1> DEFINE column == ColumnOf[family][f]
<1>1. CASE f # DateField
  <2>1. /\ column \in DOMAIN PlaceOf[family] \cup Unassessed[family]
        /\ column \notin TextColumns[family] /\ column # "fd_price_bas_dt"
    BY <1>1, ColumnsAre
  <2> HIDE DEF column
  <2>2. column \in DOMAIN PlaceOf[family] => Metrics[family][PlaceOf[family][column]] = column
    BY PlaceIsRight
  <2>3. Column(family, row, column) = ToNumeric(row[column])
    <3>1. CASE column \in DOMAIN PlaceOf[family]
      BY <2>2, <3>1 DEF Column
    <3>2. CASE column \notin DOMAIN PlaceOf[family]
      BY <2>1, <3>2 DEF Column
    <3> QED
      BY <3>1, <3>2
  <2>4. Filled(family, row, column) <=> ToNumeric(row[column]) # Null
    BY <2>1, <2>3 DEF Filled
  <2>5. /\ Column(family, row, column) =
             IF column = "fd_price_bas_dt" THEN Null ELSE ToNumeric(row[column])
        /\ f # DateField => (Filled(family, row, column) <=> ToNumeric(row[column]) # Null)
    BY <2>1, <2>3, <2>4
  <2> QED
    BY <1>1, <2>5 DEF column
<1>2. CASE f = DateField /\ family = "BOND_KR"
  <2>1. /\ column = "info_base_dt" /\ column \notin DOMAIN PlaceOf[family] \cup Unassessed[family]
        /\ TextColumns[family] = {"info_base_dt"}
    BY <1>2, ColumnsAre
  <2> HIDE DEF column
  <2>2. Column(family, row, column) = ToNumeric(row[column])
    BY <2>1 DEF Column
  <2>3. Filled(family, row, column) <=> row["info_base_dt"] # "empty"
    BY <2>1, <2>2, NumbersAre DEF Filled
  <2> QED
    BY <1>2, <2>1, <2>2, <2>3 DEF column
<1>3. CASE f = DateField /\ family = "FUND_PUBLIC"
  <2>1. /\ column = "fd_price_bas_dt" /\ column \notin DOMAIN PlaceOf[family] \cup Unassessed[family]
        /\ TextColumns[family] = {}
    BY <1>3, ColumnsAre
  <2> HIDE DEF column
  <2>2. Column(family, row, column) = Null
    BY <2>1 DEF Column
  <2>3. Filled(family, row, column) <=> row["fd_price_bas_dt"] \in Dates
    BY <2>1, <2>2 DEF Filled
  <2> QED
    BY <1>3, <2>1, <2>2, <2>3 DEF column
<1> QED
  BY <1>1, <1>2, <1>3, ColumnsAre

\* Every bond carries INVALID_FOR_DECISION, no other product does, and none
\* carries JOIN_CONTAMINATION.
LEMMA FlagsAre ==
  ASSUME NEW family \in Families, NEW row, NEW fields
  PROVE  /\ "INVALID_FOR_DECISION" \in MapRow(family, row, fields).flags <=> family = "BOND_KR"
         /\ "JOIN_CONTAMINATION" \notin MapRow(family, row, fields).flags
         /\ MapRow(family, row, fields).issues = IssuesOf(family, row)
<1> DEFINE flags == {i.flag : i \in IssuesOf(family, row)}
<1>1. MapRow(family, row, fields).flags = flags /\ MapRow(family, row, fields).issues = IssuesOf(family, row)
  BY DEF MapRow
<1>2. \A m \in MetricFields(family) : \A f \in AssessMetric(m, row) :
        [field |-> m, flag |-> f] \in IssuesOf(family, row)
  BY DEF IssuesOf
<1>3. \A i \in IssuesOf(family, row) :
        i.field \in MetricFields(family) /\ i.flag \in AssessMetric(i.field, row)
  BY DEF IssuesOf
<1>4. \A m : /\ "JOIN_CONTAMINATION" \notin AssessMetric(m, row)
             /\ "INVALID_FOR_DECISION" \in AssessMetric(m, row) <=> m = "buyable_quantity"
  BY DEF AssessMetric, ExtraFlags, Severity
<1>5. "buyable_quantity" \in MetricFields(family) <=> family = "BOND_KR"
  BY FourFamilies
<1>6. "JOIN_CONTAMINATION" \notin flags
  BY <1>3, <1>4
<1>7. "INVALID_FOR_DECISION" \in flags => family = "BOND_KR"
  BY <1>3, <1>4, <1>5
<1>8. family = "BOND_KR" => "INVALID_FOR_DECISION" \in flags
  <2> DEFINE issue == [field |-> "buyable_quantity", flag |-> "INVALID_FOR_DECISION"]
  <2>1. family = "BOND_KR" => issue \in IssuesOf(family, row)
    BY <1>2, <1>4, <1>5
  <2>2. issue.flag = "INVALID_FOR_DECISION"
    OBVIOUS
  <2> HIDE DEF issue
  <2> QED
    BY <2>1, <2>2
<1> QED
  BY <1>1, <1>6, <1>7, <1>8


\* A build that has committed.
Mapped ==
  rows = [p \in {q \in Products : Included(FamilyOf[q], sheet[q])} |->
            MapRow(FamilyOf[p], sheet[p], Fields)]

\* What a ranking reads in a product is what the sheet has.
LEMMA RowsAre ==
  ASSUME Mapped, NEW p \in DOMAIN rows
  PROVE  /\ p \in Products /\ FamilyOf[p] \in Families /\ Included(FamilyOf[p], sheet[p])
         /\ \A f \in Fields :
              /\ rows[p].values[f] = InSheet(p, f) /\ MetricValue(p, f) = InSheet(p, f)
              /\ MetricValue(p, f) \in Int \cup {Null}
              /\ f \in rows[p].there <=> IF f = DateField THEN Dated(p) ELSE InSheet(p, f) # Null
         /\ "JOIN_CONTAMINATION" \notin rows[p].flags
         /\ "INVALID_FOR_DECISION" \in rows[p].flags <=> FamilyOf[p] = "BOND_KR"
         /\ rows[p].issues = IssuesOf(FamilyOf[p], sheet[p])
<1> DEFINE family == FamilyOf[p]
<1>1. p \in Products /\ family \in Families /\ Included(family, sheet[p])
      /\ rows[p] = MapRow(family, sheet[p], Fields)
  BY RankingAssumption DEF Mapped
<1> HIDE DEF family
<1>2. \A f \in Fields :
        /\ rows[p].values[f] = IF f \in DOMAIN ColumnOf[family]
                               THEN Column(family, sheet[p], ColumnOf[family][f]) ELSE Null
        /\ f \in rows[p].there <=> /\ f \in DOMAIN ColumnOf[family]
                                   /\ Filled(family, sheet[p], ColumnOf[family][f])
  BY <1>1 DEF MapRow
<1>3. ASSUME NEW f \in Fields
      PROVE  /\ rows[p].values[f] = InSheet(p, f) /\ MetricValue(p, f) = InSheet(p, f)
             /\ InSheet(p, f) \in Int \cup {Null}
             /\ f \in rows[p].there <=> IF f = DateField THEN Dated(p) ELSE InSheet(p, f) # Null
  <2> DEFINE column == ColumnOf[family][f]
  <2>1. InSheet(p, f) = IF f \in DOMAIN ColumnOf[family] /\ column # "fd_price_bas_dt"
                        THEN ToNumeric(sheet[p][column]) ELSE Null
    BY DEF InSheet, ToNumeric, family
  <2>2. rows[p].values[f] = InSheet(p, f)
    <3>1. f \in DOMAIN ColumnOf[family] =>
            Column(family, sheet[p], column) =
              IF column = "fd_price_bas_dt" THEN Null ELSE ToNumeric(sheet[p][column])
      BY <1>1, ColumnIs
    <3> QED
      BY <1>2, <2>1, <3>1
  <2>3. InSheet(p, f) \in Int \cup {Null}
    BY <2>1, NumbersAre
  <2>4. MetricValue(p, f) = InSheet(p, f)
    BY <2>2 DEF MetricValue
  <2>5. CASE f = DateField
    <3>1. Dated(p) <=> \/ family = "BOND_KR" /\ sheet[p]["info_base_dt"] # "empty"
                       \/ family = "FUND_PUBLIC" /\ sheet[p]["fd_price_bas_dt"] \in Dates
      BY DEF Dated, family
    <3>2. f \in DOMAIN ColumnOf[family] => (Filled(family, sheet[p], column) <=> Dated(p))
      BY <1>1, <2>5, <3>1, ColumnIs
    <3>3. Dated(p) => f \in DOMAIN ColumnOf[family]
      BY <2>5, <3>1 DEF ColumnOf, DateField
    <3> QED
      BY <1>2, <2>2, <2>3, <2>4, <2>5, <3>2, <3>3
  <2>6. CASE f # DateField
    <3>1. f \in DOMAIN ColumnOf[family] =>
            /\ column # "fd_price_bas_dt"
            /\ Filled(family, sheet[p], column) <=> ToNumeric(sheet[p][column]) # Null
      BY <1>1, <2>6, ColumnIs, ColumnsAre
    <3> QED
      BY <1>2, <2>1, <2>2, <2>3, <2>4, <2>6, <3>1
  <2> QED
    BY <2>5, <2>6
<1> QED
  BY <1>1, <1>3, FlagsAre DEF family

-----------------------------------------------------------------------------
(***************************************************************************)
(* The order of products.                                                  *)
(***************************************************************************)

\* Every set of numbers has a least one.
LEMMA LeastOf ==
  ASSUME NEW T \in SUBSET Nat, T # {}
  PROVE  \E m \in T : \A n \in T : m <= n
<1>1. PICK m \in T : \A n \in T : <<n, m>> \notin OpToRel(<, Nat)
  BY NatLessThanWellFounded, WFMin
<1>2. ASSUME NEW n \in T PROVE ~(n < m)
  BY <1>1, Zenon DEF OpToRel
<1> QED
  BY <1>2

\* The components of a sort key are compared as numbers.
LEMMA KeysAre ==
  ASSUME NEW p, NEW sort \in Sort, MetricValue(p, sort.field) \in Int \cup {Null}
  PROVE  SortKey(p, sort) \in Int \X Int
<1>1. sort.asc \in BOOLEAN
  BY DEF Sort
<1>2. CASE MetricValue(p, sort.field) = Null
  BY <1>1, <1>2 DEF SortKey
<1>3. CASE MetricValue(p, sort.field) # Null
  <2>1. MetricValue(p, sort.field) \in Int /\ -MetricValue(p, sort.field) \in Int
    BY <1>3
  <2> QED
    BY <1>1, <1>3, <2>1 DEF SortKey
<1> QED
  BY <1>2, <1>3

\* The order by which the products of S are ranked.
RankOrder(S, sorts) == {e \in S \X S : Precedes(e[1], e[2], sorts)}

\* What can be compared: every metric a number or nothing.
Comparable(S, sorts) ==
  /\ S \in SUBSET Nat /\ IsFiniteSet(S) /\ sorts \in Seq(Sort)
  /\ \A p \in S : \A i \in DOMAIN sorts : MetricValue(p, sorts[i].field) \in Int \cup {Null}

\* Pairs of numbers are ordered by Less.
LEMMA LessIsOrder ==
  /\ \A k \in Int \X Int : ~Less(k, k)
  /\ \A k, l, m \in Int \X Int : Less(k, l) /\ Less(l, m) => Less(k, m)
  /\ \A k, l \in Int \X Int : k # l => Less(k, l) \/ Less(l, k)
<1>1. \A k \in Int \X Int : ~Less(k, k)
  BY DEF Less
<1>2. ASSUME NEW k \in Int \X Int, NEW l \in Int \X Int, NEW m \in Int \X Int, Less(k, l), Less(l, m)
      PROVE  Less(k, m)
  <2>1. /\ k[1] < l[1] \/ (k[1] = l[1] /\ k[2] < l[2])
        /\ l[1] < m[1] \/ (l[1] = m[1] /\ l[2] < m[2])
    BY <1>2 DEF Less
  <2>2. /\ k[1] \in Int /\ k[2] \in Int /\ l[1] \in Int /\ l[2] \in Int /\ m[1] \in Int /\ m[2] \in Int
    OBVIOUS
  <2> QED
    BY <2>1, <2>2 DEF Less
<1>3. ASSUME NEW k \in Int \X Int, NEW l \in Int \X Int, k # l PROVE Less(k, l) \/ Less(l, k)
  <2>1. k[1] # l[1] \/ k[2] # l[2]
    BY <1>3
  <2>2. /\ k[1] \in Int /\ k[2] \in Int /\ l[1] \in Int /\ l[2] \in Int
    OBVIOUS
  <2> QED
    BY <2>1, <2>2 DEF Less
<1> QED
  BY <1>1, <1>2, <1>3

\* The sort key with its tie break is a strict total order.
LEMMA PrecedesIsOrder ==
  ASSUME NEW S, NEW sorts, Comparable(S, sorts)
  PROVE  StrictOrder(RankOrder(S, sorts), S)
<1> DEFINE D == DOMAIN sorts
           Key(p, i) == SortKey(p, sorts[i])
           R == RankOrder(S, sorts)
<1>1. D \subseteq Nat /\ \A p \in S : \A i \in D : Key(p, i) \in Int \X Int
  BY KeysAre DEF Comparable
<1>2. \A p, q \in S : <<p, q>> \in R <=>
         \/ \E i \in D : Less(Key(p, i), Key(q, i)) /\ \A j \in 1 .. i - 1 : Key(p, j) = Key(q, j)
         \/ p < q /\ \A i \in D : Key(p, i) = Key(q, i)
  BY DEF RankOrder, Precedes
<1>3. S \subseteq Nat /\ D = 1 .. Len(sorts) /\ Len(sorts) \in Nat
  BY DEF Comparable
<1> HIDE DEF D, Key, R
<1>4. ASSUME NEW p \in S PROVE <<p, p>> \notin R
  BY <1>1, <1>2, <1>3, LessIsOrder
<1>5. ASSUME NEW p \in S, NEW q \in S, NEW r \in S, <<p, q>> \in R, <<q, r>> \in R
      PROVE  <<p, r>> \in R
  <2>1. CASE p < q /\ \A i \in D : Key(p, i) = Key(q, i)
    <3>1. CASE q < r /\ \A i \in D : Key(q, i) = Key(r, i)
      <4>1. p < r
        BY <1>3, <2>1, <3>1
      <4> QED
        BY <1>2, <2>1, <3>1, <4>1
    <3>2. ASSUME NEW i \in D, Less(Key(q, i), Key(r, i)), \A j \in 1 .. i - 1 : Key(q, j) = Key(r, j)
          PROVE  <<p, r>> \in R
      <4>1. Less(Key(p, i), Key(r, i)) /\ \A j \in 1 .. i - 1 : Key(p, j) = Key(r, j)
        BY <1>3, <2>1, <3>2
      <4> QED
        BY <1>2, <4>1
    <3> QED
      BY <1>2, <1>5, <3>1, <3>2
  <2>2. ASSUME NEW a \in D, Less(Key(p, a), Key(q, a)), \A j \in 1 .. a - 1 : Key(p, j) = Key(q, j)
        PROVE  <<p, r>> \in R
    <3>1. CASE q < r /\ \A i \in D : Key(q, i) = Key(r, i)
      <4>1. Less(Key(p, a), Key(r, a)) /\ \A j \in 1 .. a - 1 : Key(p, j) = Key(r, j)
        BY <1>3, <2>2, <3>1
      <4> QED
        BY <1>2, <4>1
    <3>2. ASSUME NEW b \in D, Less(Key(q, b), Key(r, b)), \A j \in 1 .. b - 1 : Key(q, j) = Key(r, j)
          PROVE  <<p, r>> \in R
      <4>1. CASE a < b
        <5>1. Less(Key(p, a), Key(r, a)) /\ \A j \in 1 .. a - 1 : Key(p, j) = Key(r, j)
          BY <1>3, <2>2, <3>2, <4>1
        <5> QED
          BY <1>2, <5>1
      <4>2. CASE b < a
        <5>1. Less(Key(p, b), Key(r, b)) /\ \A j \in 1 .. b - 1 : Key(p, j) = Key(r, j)
          BY <1>3, <2>2, <3>2, <4>2
        <5> QED
          BY <1>2, <5>1
      <4>3. CASE a = b
        <5>1. Less(Key(p, a), Key(r, a))
          BY <1>1, <2>2, <3>2, <4>3, LessIsOrder
        <5>2. \A j \in 1 .. a - 1 : Key(p, j) = Key(r, j)
          BY <2>2, <3>2, <4>3
        <5> QED
          BY <1>2, <5>1, <5>2
      <4> QED
        BY <1>3, <4>1, <4>2, <4>3
    <3> QED
      BY <1>2, <1>5, <3>1, <3>2
  <2> QED
    BY <1>2, <1>5, <2>1, <2>2
<1>6. ASSUME NEW p \in S, NEW q \in S, p # q PROVE <<p, q>> \in R \/ <<q, p>> \in R
  <2> DEFINE T == {i \in D : Key(p, i) # Key(q, i)}
  <2>1. CASE T = {}
    <3>1. p < q \/ q < p
      BY <1>3, <1>6
    <3> QED
      BY <1>2, <2>1, <3>1
  <2>2. CASE T # {}
    <3>1. T \in SUBSET Nat
      BY <1>1
    <3>2. PICK m \in T : \A n \in T : m <= n
      <4> HIDE DEF T
      <4> QED
        BY <2>2, <3>1, LeastOf
    <3>3. \A j \in 1 .. m - 1 : Key(p, j) = Key(q, j)
      BY <1>3, <3>2
    <3>4. Less(Key(p, m), Key(q, m)) \/ Less(Key(q, m), Key(p, m))
      BY <1>1, <3>2, LessIsOrder
    <3> QED
      BY <1>2, <3>2, <3>3, <3>4
  <2> QED
    BY <2>1, <2>2
<1> QED
  BY <1>4, <1>5, <1>6 DEF StrictOrder, R

\* Sorting lists every product once, none before one that precedes it.
LEMMA LexicographicLists ==
  ASSUME NEW S, NEW sorts, Comparable(S, sorts)
  PROVE  Lists(LexicographicSort(S, sorts), S, RankOrder(S, sorts))
<1> DEFINE R == RankOrder(S, sorts)
           rank == [x \in S |-> Cardinality({y \in S : Precedes(y, x, sorts)})]
<1>1. StrictOrder(R, S) /\ IsFiniteSet(S)
  BY PrecedesIsOrder DEF Comparable
<1>2. ASSUME NEW x \in S PROVE rank[x] = Cardinality({y \in S : <<y, x>> \in R})
  <2>1. {y \in S : <<y, x>> \in R} = {y \in S : Precedes(y, x, sorts)}
    BY DEF RankOrder
  <2> QED
    BY <2>1
<1>3. LexicographicSort(S, sorts) = ByRank(S, rank)
  BY DEF LexicographicSort, Ordered
<1> HIDE DEF rank, R
<1>4. Lists(ByRank(S, rank), S, R)
  BY <1>1, <1>2, RanksList
<1> QED
  BY <1>3, <1>4 DEF R


-----------------------------------------------------------------------------
(***************************************************************************)
(* A ranking by sort keys is a ranking by the sheet.                       *)
(***************************************************************************)

\* The order in which sorts decide: by priority, then by their place in the plan.
MoreUrgent(sorts, i, j) ==
  \/ sorts[i].priority < sorts[j].priority
  \/ sorts[i].priority = sorts[j].priority /\ i < j

\* used has the sorts in the order of their urgency.
Urgency(used, sorts) ==
  \E places \in [DOMAIN sorts -> DOMAIN sorts] :
    /\ used = [i \in DOMAIN sorts |-> sorts[places[i]]]
    /\ \A i \in DOMAIN sorts : \E k \in DOMAIN sorts : places[k] = i
    /\ \A i, j \in DOMAIN sorts : i < j => MoreUrgent(sorts, places[i], places[j])

\* A sort has a field and a priority.
LEMMA SortType ==
  ASSUME NEW sort \in Sort
  PROVE  sort.field \in Fields /\ sort.asc \in BOOLEAN /\ sort.priority \in Int
<1>1. sort.field \in Fields /\ sort.asc \in BOOLEAN /\ sort.priority \in 1 .. NoPriority
  BY DEF Sort
<1>2. NoPriority \in Int
  BY DEF NoPriority
<1> QED
  BY <1>1, <1>2

\* ByPriority lists the sorts by urgency.
LEMMA ByPriorityIsUrgency ==
  ASSUME NEW sorts \in Seq(Sort)
  PROVE  Urgency(ByPriority(sorts), sorts) /\ ByPriority(sorts) \in Seq(Sort)
<1> DEFINE D == DOMAIN sorts
           R == {e \in D \X D : MoreUrgent(sorts, e[1], e[2])}
           rank == [x \in D |-> Cardinality({y \in D : MoreUrgent(sorts, y, x)})]
           places == ByRank(D, rank)
<1>1. D = 1 .. Len(sorts) /\ Len(sorts) \in Nat
  OBVIOUS
<1>2. \A i \in D : sorts[i] \in Sort /\ sorts[i].priority \in Int
  BY SortType
<1>3. IsFiniteSet(D) /\ Cardinality(D) = Len(sorts)
  BY <1>1, FS_Interval
<1>4. StrictOrder(R, D)
  <2> DEFINE u(i) == sorts[i].priority
  <2>1. \A x, y \in D : <<x, y>> \in R <=> u(x) < u(y) \/ (u(x) = u(y) /\ x < y)
    BY DEF MoreUrgent
  <2>2. \A x \in D : x \in Int /\ u(x) \in Int
    BY <1>1, <1>2
  <2> HIDE DEF R, D, u
  <2>3. \A x \in D : <<x, x>> \notin R
    BY <2>1, <2>2
  <2>4. ASSUME NEW x \in D, NEW y \in D, NEW z \in D, <<x, y>> \in R, <<y, z>> \in R
        PROVE  <<x, z>> \in R
    <3>1. /\ u(x) < u(y) \/ (u(x) = u(y) /\ x < y)
          /\ u(y) < u(z) \/ (u(y) = u(z) /\ y < z)
      BY <2>1, <2>4
    <3>2. u(x) < u(z) \/ (u(x) = u(z) /\ x < z)
      BY <2>2, <3>1
    <3> QED
      BY <2>1, <3>2
  <2>5. ASSUME NEW x \in D, NEW y \in D, x # y PROVE <<x, y>> \in R \/ <<y, x>> \in R
    BY <2>1, <2>2, <2>5
  <2> QED
    BY <2>3, <2>4, <2>5 DEF StrictOrder
<1>5. ASSUME NEW x \in D PROVE rank[x] = Cardinality({y \in D : <<y, x>> \in R})
  <2>1. {y \in D : <<y, x>> \in R} = {y \in D : MoreUrgent(sorts, y, x)}
    OBVIOUS
  <2> QED
    BY <2>1
<1>6. Lists(places, D, R)
  <2> HIDE DEF R, D, rank
  <2> QED
    BY <1>3, <1>4, <1>5, RanksList
<1>7. /\ places \in [D -> D] /\ \A x \in D : \E i \in D : places[i] = x
      /\ \A i, j \in D : i < j => MoreUrgent(sorts, places[i], places[j])
  <2> HIDE DEF rank, places
  <2> QED
    BY <1>1, <1>3, <1>6 DEF Lists
<1>8. ByPriority(sorts) = [i \in D |-> sorts[places[i]]]
  BY DEF ByPriority, Ordered, MoreUrgent
<1> HIDE DEF places
<1>9. Urgency(ByPriority(sorts), sorts)
  BY <1>7, <1>8 DEF Urgency
<1>10. ByPriority(sorts) \in [1 .. Len(sorts) -> Sort]
  BY <1>1, <1>2, <1>7, <1>8
<1> QED
  BY <1>1, <1>9, <1>10, SeqDef

\* Without priorities that is the order of the plan.
LEMMA UnprioritisedIsUrgency ==
  ASSUME NEW sorts \in Seq(Sort), ~Prioritised(sorts)
  PROVE  Urgency(sorts, sorts)
<1> DEFINE places == [i \in DOMAIN sorts |-> i]
<1>1. places \in [DOMAIN sorts -> DOMAIN sorts] /\ \A i \in DOMAIN sorts : places[i] = i
  OBVIOUS
<1>2. sorts = [i \in DOMAIN sorts |-> sorts[places[i]]]
  BY <1>1
<1>3. \A i, j \in DOMAIN sorts : i < j => MoreUrgent(sorts, i, j)
  BY DEF MoreUrgent, Prioritised
<1> HIDE DEF places
<1> QED
  BY <1>1, <1>2, <1>3 DEF Urgency

\* The key of a sort is what the sheet has for it.
LEMMA KeysAreWorths ==
  ASSUME Mapped, NEW p \in DOMAIN rows, NEW q \in DOMAIN rows, NEW sort \in Sort
  PROVE  /\ SortKey(p, sort) = SortKey(q, sort) <=> Worth(p, sort) = Worth(q, sort)
         /\ Less(SortKey(p, sort), SortKey(q, sort)) => ~Prefers(Worth(q, sort), Worth(p, sort), sort)
<1> DEFINE v == InSheet(p, sort.field)
           w == InSheet(q, sort.field)
<1>1. sort.field \in Fields /\ sort.asc \in BOOLEAN
  BY SortType
<1>2. MetricValue(p, sort.field) = v /\ MetricValue(q, sort.field) = w
  BY <1>1, RowsAre
<1>3. v \in Int \cup {Null} /\ w \in Int \cup {Null} /\ Null \notin Int
  BY <1>1, <1>2, RowsAre, RankingAssumption
<1>4. /\ Worth(p, sort) = IF v = Null /\ ~sort.asc THEN 0 ELSE v
      /\ Worth(q, sort) = IF w = Null /\ ~sort.asc THEN 0 ELSE w
  BY DEF Worth
<1> HIDE DEF v, w
<1>5. CASE sort.asc
  <2>1. /\ SortKey(p, sort) = IF v = Null THEN <<1, 0>> ELSE <<0, v>>
        /\ SortKey(q, sort) = IF w = Null THEN <<1, 0>> ELSE <<0, w>>
    BY <1>2, <1>5 DEF SortKey
  <2>2. Worth(p, sort) = v /\ Worth(q, sort) = w
    BY <1>4, <1>5
  <2>3. CASE v = Null /\ w = Null
    BY <1>3, <2>1, <2>2, <2>3 DEF Less, Prefers
  <2>4. CASE v = Null /\ w \in Int
    BY <1>3, <2>1, <2>2, <2>4 DEF Less, Prefers
  <2>5. CASE v \in Int /\ w = Null
    BY <1>3, <2>1, <2>2, <2>5 DEF Less, Prefers
  <2>6. CASE v \in Int /\ w \in Int
    BY <1>3, <1>5, <2>1, <2>2, <2>6 DEF Less, Prefers, Better
  <2> QED
    BY <1>3, <2>3, <2>4, <2>5, <2>6
<1>6. CASE ~sort.asc
  <2>1. PICK a, b : /\ a = Worth(p, sort) /\ b = Worth(q, sort)
                    /\ a \in Int /\ b \in Int
    BY <1>3, <1>4, <1>6
  <2>2. SortKey(p, sort) = <<0, -a>> /\ SortKey(q, sort) = <<0, -b>>
    <3>1. \A x : SortKey(x, sort) = IF MetricValue(x, sort.field) = Null
                                    THEN <<0, 0>> ELSE <<0, -MetricValue(x, sort.field)>>
      BY <1>6 DEF SortKey
    <3>2. a = (IF v = Null THEN 0 ELSE v) /\ b = (IF w = Null THEN 0 ELSE w)
      BY <1>4, <1>6, <2>1
    <3>3. (v = Null => -a = 0) /\ (w = Null => -b = 0)
      <4>1. (v = Null => a = 0) /\ (w = Null => b = 0)
        BY <3>2
      <4> QED
        BY <2>1, <4>1
    <3>4. (v # Null => a = v) /\ (w # Null => b = w)
      BY <3>2
    <3>5. /\ SortKey(p, sort) = IF v = Null THEN <<0, 0>> ELSE <<0, -v>>
          /\ SortKey(q, sort) = IF w = Null THEN <<0, 0>> ELSE <<0, -w>>
      BY <1>2, <3>1
    <3>6. SortKey(p, sort) = <<0, -a>>
      BY <3>3, <3>4, <3>5
    <3>7. SortKey(q, sort) = <<0, -b>>
      BY <3>3, <3>4, <3>5
    <3> QED
      BY <3>6, <3>7
  <2>3. SortKey(p, sort) = SortKey(q, sort) <=> a = b
    BY <2>1, <2>2
  <2>4. Less(SortKey(p, sort), SortKey(q, sort)) => a > b
    BY <2>1, <2>2 DEF Less
  <2>5. a # Null /\ b # Null
    BY <1>3, <2>1
  <2>6. a > b => ~Prefers(b, a, sort)
    BY <1>6, <2>1, <2>5 DEF Prefers, Better
  <2> QED
    BY <2>1, <2>3, <2>4, <2>6
<1> QED
  BY <1>5, <1>6

\* A product that precedes another is not outranked by it.
LEMMA PrecedingIsNotOutranked ==
  ASSUME Mapped, plan.sorts \in Seq(Sort), NEW used, Urgency(used, plan.sorts),
         NEW p \in DOMAIN rows, NEW q \in DOMAIN rows, Precedes(p, q, used)
  PROVE  ~Outranks(q, p)
<1> DEFINE sorts == plan.sorts
           D == DOMAIN sorts
           V(x, i) == Worth(x, sorts[i])
           Key(x, i) == SortKey(x, sorts[i])
<1>1. PICK places \in [D -> D] :
        /\ used = [i \in D |-> sorts[places[i]]]
        /\ \A i \in D : \E k \in D : places[k] = i
        /\ \A i, j \in D : i < j => MoreUrgent(sorts, places[i], places[j])
  BY DEF Urgency
<1>14. D = 1 .. Len(sorts) /\ Len(sorts) \in Nat /\ \A i \in D : sorts[i] \in Sort
  OBVIOUS
<1>15. \A i \in D : places[i] \in D
  OBVIOUS
<1>2. /\ DOMAIN used = D /\ \A i \in D : used[i] = sorts[places[i]] /\ places[i] \in D
      /\ D = 1 .. Len(sorts) /\ Len(sorts) \in Nat
  <2> HIDE DEF D, sorts
  <2> QED
    BY <1>1, <1>14, <1>15
<1>3. \A i \in D : /\ Key(p, i) = Key(q, i) <=> V(p, i) = V(q, i)
                   /\ Less(Key(p, i), Key(q, i)) => ~Prefers(V(q, i), V(p, i), sorts[i])
  BY <1>14, KeysAreWorths
<1>4. \A i \in D : Key(p, i) \in Int \X Int
  BY <1>14, RowsAre, KeysAre, SortType
<1>5. \/ \E a \in D : /\ Less(Key(p, places[a]), Key(q, places[a]))
                      /\ \A j \in 1 .. a - 1 : Key(p, places[j]) = Key(q, places[j])
      \/ \A a \in D : Key(p, places[a]) = Key(q, places[a])
  <2>1. \A a \in D : \A x : Key(x, places[a]) = SortKey(x, used[a])
    BY <1>2
  <2>2. \A a \in D : \A j \in 1 .. a - 1 : j \in D
    BY <1>2
  <2>3. \/ \E a \in D : /\ Less(SortKey(p, used[a]), SortKey(q, used[a]))
                        /\ \A j \in 1 .. a - 1 : SortKey(p, used[j]) = SortKey(q, used[j])
        \/ \A a \in D : SortKey(p, used[a]) = SortKey(q, used[a])
    <3> HIDE DEF D, Key
    <3> QED
      BY <1>2, Zenon DEF Precedes
  <2> HIDE DEF D, Key
  <2> QED
    BY <2>1, <2>2, <2>3
<1>6. SUFFICES ASSUME Outranks(q, p) PROVE FALSE
  OBVIOUS
<1>7. PICK i \in D : /\ V(p, i) # V(q, i)
                     /\ \A j \in D : MoreUrgent(sorts, j, i) => V(p, j) = V(q, j)
                     /\ Prefers(V(q, i), V(p, i), sorts[i])
  BY <1>6 DEF Outranks, MoreUrgent
<1>8. PICK k \in D : places[k] = i
  BY <1>1
<1> HIDE DEF sorts, D, V, Key
<1>9. Key(p, i) # Key(q, i) /\ ~Less(Key(p, i), Key(q, i))
  BY <1>3, <1>7
<1>10. PICK a \in D : /\ Less(Key(p, places[a]), Key(q, places[a]))
                      /\ \A j \in 1 .. a - 1 : Key(p, places[j]) = Key(q, places[j])
  BY <1>5, <1>8, <1>9
<1>11. a # k /\ ~(k < a)
  BY <1>2, <1>8, <1>9, <1>10
<1>12. a < k
  BY <1>2, <1>11
<1>13. Key(p, places[a]) = Key(q, places[a])
  <2>1. MoreUrgent(sorts, places[a], i)
    BY <1>1, <1>8, <1>12
  <2> QED
    BY <1>2, <1>3, <1>7, <2>1
<1> QED
  BY <1>2, <1>4, <1>10, <1>13, LessIsOrder


-----------------------------------------------------------------------------
(***************************************************************************)
(* A batch.                                                                *)
(***************************************************************************)

\* The products that a ranking of S may list.
Base(S, sorts) == IF UsePareto(sorts) THEN ParetoFrontier(S, sorts) ELSE S

\* What may be listed, in order and before it is cut.
Ranked(family, uids) ==
  LET S == Matching(family) \cap uids
  IN  Only(SortCandidates(S, plan.sorts), {p \in S : Usable(p, plan.sorts)})

\* The candidates that query ranks: those of the frontier, or all, that are usable.
Eligible(family, uids) ==
  LET S == Matching(family) \cap uids
  IN  {p \in Base(S, plan.sorts) : Usable(p, plan.sorts)}

\* The parts of a plan.
LEMMA PlanIs ==
  ASSUME plan \in Plan
  PROVE  /\ plan.sorts \in Seq(Sort) /\ plan.families \in Seq(Families)
         /\ plan.limit \in Nat /\ plan.limit >= 1 /\ plan.matches \subseteq Products
         /\ \A i, j \in DOMAIN plan.families : plan.families[i] = plan.families[j] => i = j
  BY DEF Plan

\* A query is the first of its eligible candidates, sorted.
LEMMA RankedLists ==
  ASSUME Mapped, plan \in Plan, NEW family, NEW uids
  PROVE  /\ IsFiniteSet(Eligible(family, uids)) /\ Eligible(family, uids) \subseteq DOMAIN rows
         /\ \E used : /\ Urgency(used, plan.sorts)
                      /\ Lists(Ranked(family, uids), Eligible(family, uids),
                               RankOrder(Base(Matching(family) \cap uids, plan.sorts), used))
<1> DEFINE S == Matching(family) \cap uids
           sorts == plan.sorts
           B == Base(S, sorts)
           used == IF UsePareto(sorts) THEN sorts ELSE ByPriority(sorts)
           U == {p \in S : Usable(p, sorts)}
<1>1. S \subseteq DOMAIN rows /\ B \subseteq S
  BY DEF Matching, Base, ParetoFrontier
<1>2. DOMAIN rows \subseteq Products
  BY DEF Mapped
<1>3. IsFiniteSet(B) /\ B \subseteq Nat
  <2>1. B \subseteq Products
    BY <1>1, <1>2
  <2> HIDE DEF B
  <2> QED
    BY <2>1, RankingAssumption, FS_Subset
<1>4. used \in Seq(Sort) /\ Urgency(used, sorts)
  BY PlanIs, ByPriorityIsUrgency, UnprioritisedIsUrgency DEF UsePareto
<1>5. Comparable(B, used)
  <2>1. ASSUME NEW p \in B, NEW i \in DOMAIN used
        PROVE  MetricValue(p, used[i].field) \in Int \cup {Null}
    <3>1. used[i] \in Sort
      <4> HIDE DEF used
      <4> QED
        BY <1>4
    <3>2. p \in DOMAIN rows
      BY <1>1
    <3> HIDE DEF used, B
    <3> QED
      BY <3>1, <3>2, RowsAre, SortType
  <2> HIDE DEF used, B
  <2> QED
    BY <1>3, <1>4, <2>1 DEF Comparable
<1>6. SortCandidates(S, sorts) = LexicographicSort(B, used)
  BY DEF SortCandidates, Base
<1>7. Lists(LexicographicSort(B, used), B, RankOrder(B, used))
  <2> HIDE DEF used, B
  <2> QED
    BY <1>5, LexicographicLists
<1>8. B \cap U = Eligible(family, uids)
  BY <1>1 DEF Eligible
<1>9. Ranked(family, uids) = Only(LexicographicSort(B, used), U)
  BY <1>6 DEF Ranked
<1>10. Lists(Only(LexicographicSort(B, used), U), B \cap U, RankOrder(B, used))
  <2> HIDE DEF used, B, U
  <2> QED
    BY <1>3, <1>7, OnlyLists
<1>11. IsFiniteSet(B \cap U)
  <2> HIDE DEF U, B
  <2> QED
    BY <1>3, FS_Subset
<1> HIDE DEF used, U
<1> QED
  BY <1>1, <1>4, <1>8, <1>9, <1>10, <1>11 DEF Eligible

\* Query lists the first of the products it may list, as many as the limit allows.
LEMMA QueryIs ==
  ASSUME Mapped, plan \in Plan, NEW family, NEW uids
  PROVE  LET E == Eligible(family, uids)
             batch == Query(family, uids)
             room == IF Cardinality(E) < plan.limit THEN Cardinality(E) ELSE plan.limit
         IN  /\ batch \in Seq(Products) /\ Len(batch) = room /\ room \in Nat
             /\ DOMAIN batch = 1 .. room
             /\ \A i \in 1 .. room : batch[i] = Ranked(family, uids)[i] /\ batch[i] \in E
<1> DEFINE E == Eligible(family, uids)
           n == Cardinality(E)
           full == Ranked(family, uids)
<1>1. IsFiniteSet(E) /\ E \subseteq Products /\ n \in Nat
  <2>1. DOMAIN rows \subseteq Products
    BY DEF Mapped
  <2> QED
    BY <2>1, RankedLists, FS_CardinalityType
<1>2. full \in [1 .. n -> E]
  BY RankedLists DEF Lists
<1>3. Query(family, uids) = Take(full, plan.limit)
  BY DEF Query, Ranked
<1> HIDE DEF E, n, full
<1>4. full \in Seq(E) /\ full \in Seq(Products) /\ Len(full) = n
  <2>1. full \in [1 .. n -> Products]
    BY <1>1, <1>2
  <2> QED
    BY <1>1, <1>2, <2>1, SeqDef
<1>5. plan.limit \in Nat
  BY PlanIs
<1>6. /\ Take(full, plan.limit) \in Seq(Products)
      /\ Len(Take(full, plan.limit)) = IF n < plan.limit THEN n ELSE plan.limit
      /\ \A i \in 1 .. Len(Take(full, plan.limit)) : Take(full, plan.limit)[i] = full[i]
  BY <1>4, <1>5, TakeIs
<1> DEFINE batch == Take(full, plan.limit)
           room == IF n < plan.limit THEN n ELSE plan.limit
<1>7. room \in Nat /\ room <= n
  BY <1>1, <1>5
<1> HIDE DEF batch, room
<1>8. /\ batch \in Seq(Products) /\ Len(batch) = room /\ DOMAIN batch = 1 .. room
      /\ \A i \in 1 .. room : batch[i] = full[i]
  BY <1>6 DEF batch, room
<1>9. \A i \in 1 .. room : batch[i] = full[i] /\ batch[i] \in E
  BY <1>1, <1>2, <1>7, <1>8
<1> QED
  BY <1>3, <1>7, <1>8, <1>9 DEF batch, room, E, n, full


\* The repository's rule for what may be ranked is the sheet's.
LEMMA UsableIsRankable ==
  ASSUME Mapped, NEW p \in DOMAIN rows, NEW sorts \in Seq(Sort)
  PROVE  Usable(p, sorts) <=> Rankable(p, sorts)
<1>1. \A i \in DOMAIN sorts : sorts[i].field \in Fields
  BY SortType
<1>2. ASSUME NEW f \in Fields
      PROVE  f \in rows[p].there /\ ~FlaggedZero(p, f) <=>
               IF f = DateField THEN Dated(p)
               ELSE InSheet(p, f) \notin (IF FamilyOf[p] = "BOND_KR" THEN {Null, 0} ELSE {Null})
  <2>1. /\ MetricValue(p, f) = InSheet(p, f)
        /\ f \in rows[p].there <=> IF f = DateField THEN Dated(p) ELSE InSheet(p, f) # Null
        /\ "INVALID_FOR_DECISION" \in rows[p].flags <=> FamilyOf[p] = "BOND_KR"
    BY RowsAre
  <2>2. Null # 0
    BY RankingAssumption
  <2>3. FlaggedZero(p, f) <=> f # DateField /\ InSheet(p, f) = 0 /\ FamilyOf[p] = "BOND_KR"
    BY <2>1, Zenon DEF FlaggedZero
  <2>4. CASE f = DateField
    BY <2>1, <2>3, <2>4
  <2>5. CASE f # DateField
    BY <2>1, <2>2, <2>3, <2>5
  <2> QED
    BY <2>4, <2>5
<1> QED
  BY <1>1, <1>2 DEF Usable, Rankable

\* On curated rows and on sheets domination is the same.
LEMMA DominatesIsCovers ==
  ASSUME Mapped, NEW p \in DOMAIN rows, NEW q \in DOMAIN rows, NEW sorts \in Seq(Sort)
  PROVE  /\ HasMetrics(p, sorts) <=> \A i \in DOMAIN sorts : InSheet(p, sorts[i].field) # Null
         /\ Dominates(q, p, sorts) <=> Covers(q, p, sorts)
<1>1. \A i \in DOMAIN sorts : /\ MetricValue(p, sorts[i].field) = InSheet(p, sorts[i].field)
                              /\ MetricValue(q, sorts[i].field) = InSheet(q, sorts[i].field)
  BY RowsAre, SortType
<1>2. /\ HasMetrics(p, sorts) <=> \A i \in DOMAIN sorts : InSheet(p, sorts[i].field) # Null
      /\ HasMetrics(q, sorts) <=> \A i \in DOMAIN sorts : InSheet(q, sorts[i].field) # Null
  BY <1>1 DEF HasMetrics
<1> QED
  BY <1>1, <1>2 DEF Dominates, Covers

\* The eligible candidates are the rows that the sheet says can be ranked.
LEMMA EligibleIsSheet ==
  ASSUME Mapped, plan \in Plan, NEW family
  PROVE  LET sorts == plan.sorts
             S == {p \in plan.matches : FamilyOf[p] = family /\ Included(family, sheet[p])}
         IN  Eligible(family, Products) =
               {p \in S : /\ Rankable(p, sorts)
                          /\ UsePareto(sorts) =>
                               /\ \A i \in DOMAIN sorts : InSheet(p, sorts[i].field) # Null
                               /\ ~\E q \in S : Covers(q, p, sorts)}
<1> DEFINE sorts == plan.sorts
           S == {p \in plan.matches : FamilyOf[p] = family /\ Included(family, sheet[p])}
           M == Matching(family) \cap Products
<1>1. M = S
  BY PlanIs DEF Matching, Mapped
<1>2. S \subseteq DOMAIN rows /\ sorts \in Seq(Sort)
  BY <1>1, PlanIs DEF Matching
<1>3. Eligible(family, Products) = {p \in Base(S, sorts) : Usable(p, sorts)}
  BY <1>1 DEF Eligible
<1> HIDE DEF M, S, sorts
<1>4. Base(S, sorts) = {p \in S : UsePareto(sorts) =>
                          /\ \A i \in DOMAIN sorts : InSheet(p, sorts[i].field) # Null
                          /\ ~\E q \in S : Covers(q, p, sorts)}
  <2>1. ParetoFrontier(S, sorts) = {p \in S : HasMetrics(p, sorts) /\ ~\E q \in S : Dominates(q, p, sorts)}
    BY DEF ParetoFrontier
  <2>2. \A p \in S : HasMetrics(p, sorts) <=> \A i \in DOMAIN sorts : InSheet(p, sorts[i].field) # Null
    BY <1>2, DominatesIsCovers
  <2>3. \A p, q \in S : Dominates(q, p, sorts) <=> Covers(q, p, sorts)
    BY <1>2, DominatesIsCovers
  <2> QED
    BY <2>1, <2>2, <2>3 DEF Base
<1>5. \A p \in S : Usable(p, sorts) <=> Rankable(p, sorts)
  BY <1>2, UsableIsRankable
<1>6. Eligible(family, Products) =
        {p \in S : /\ Rankable(p, sorts)
                   /\ UsePareto(sorts) =>
                        /\ \A i \in DOMAIN sorts : InSheet(p, sorts[i].field) # Null
                        /\ ~\E q \in S : Covers(q, p, sorts)}
  BY <1>3, <1>4, <1>5
<1> QED
  BY <1>6 DEF S, sorts

\* So a query is the top of the sheet.
LEMMA QueryIsTop ==
  ASSUME Mapped, plan \in Plan, NEW family
  PROVE  BatchIsTop(family, Query(family, Products))
<1> DEFINE sorts == plan.sorts
           E == Eligible(family, Products)
           n == Cardinality(E)
           batch == Query(family, Products)
           full == Ranked(family, Products)
           room == IF n < plan.limit THEN n ELSE plan.limit
<1>1. /\ batch \in Seq(Products) /\ Len(batch) = room /\ room \in Nat /\ DOMAIN batch = 1 .. room
      /\ \A i \in 1 .. room : batch[i] = full[i] /\ batch[i] \in E
  BY QueryIs
<1>2. IsFiniteSet(E) /\ E \subseteq DOMAIN rows /\ n \in Nat
  BY RankedLists, FS_CardinalityType
<1>3. room <= n
  BY <1>2, PlanIs
<1> DEFINE B == Base(Matching(family) \cap Products, sorts)
<1>4. PICK used : Urgency(used, sorts) /\ Lists(full, E, RankOrder(B, used))
  BY RankedLists
<1>5. /\ full \in [1 .. n -> E] /\ \A x \in E : \E i \in 1 .. n : full[i] = x
      /\ \A i, j \in 1 .. n : i < j => Precedes(full[i], full[j], used)
      /\ \A i, j \in 1 .. n : full[i] = full[j] => i = j
  BY <1>4 DEF Lists, RankOrder
<1>6. \A p \in E : Rankable(p, sorts)
  BY <1>2, PlanIs, UsableIsRankable DEF Eligible
<1> HIDE DEF B, batch, full, n, E
<1>7. ToSet(batch) \subseteq E
  BY <1>1 DEF ToSet
<1>8. Cardinality(ToSet(batch)) = room
  <2>1. \A i \in 1 .. room : i \in 1 .. n
    BY <1>1, <1>2, <1>3
  <2>2. batch \in [1 .. room -> ToSet(batch)] /\ \A x \in ToSet(batch) : \E i \in 1 .. room : batch[i] = x
    BY <1>1 DEF ToSet
  <2>3. \A i, j \in 1 .. room : batch[i] = batch[j] => i = j
    BY <1>1, <1>5, <2>1
  <2> HIDE DEF room
  <2>4. batch \in Bijection(1 .. room, ToSet(batch))
    BY <2>2, <2>3 DEF Bijection, Injection, IsInjective, Surjection
  <2> QED
    BY <1>1, <2>4, FS_CountingElements DEF ExistsBijection
<1>9. ASSUME NEW i \in DOMAIN batch, NEW q \in E \ {batch[j] : j \in 1 .. i}
      PROVE  ~Outranks(q, batch[i])
  <2>1. PICK k \in 1 .. n : full[k] = q
    BY <1>5
  <2>2. i \in 1 .. n /\ \A j \in 1 .. i : j \in 1 .. room /\ batch[j] = full[j]
    BY <1>1, <1>2, <1>3
  <2>3. ~(k <= i)
    BY <2>1, <2>2
  <2>4. Precedes(batch[i], q, used)
    BY <1>1, <1>2, <1>5, <2>1, <2>2, <2>3
  <2>5. batch[i] \in E
    BY <1>1
  <2>6. /\ batch[i] \in DOMAIN rows /\ q \in DOMAIN rows
        /\ Rankable(batch[i], sorts) /\ Rankable(q, sorts)
    BY <1>2, <1>6, <2>5
  <2> QED
    BY <1>4, <2>4, <2>6, PlanIs, PrecedingIsNotOutranked
<1>10. E = {p \in {p \in plan.matches : FamilyOf[p] = family /\ Included(family, sheet[p])} :
              /\ Rankable(p, sorts)
              /\ UsePareto(sorts) =>
                   /\ \A i \in DOMAIN sorts : InSheet(p, sorts[i].field) # Null
                   /\ ~\E q \in {q \in plan.matches : FamilyOf[q] = family /\ Included(family, sheet[q])} :
                        Covers(q, p, sorts)}
  BY EligibleIsSheet DEF E
<1>11. /\ Len(batch) = IF Cardinality(E) < plan.limit THEN Cardinality(E) ELSE plan.limit
       /\ Cardinality(ToSet(batch)) = IF Cardinality(E) < plan.limit THEN Cardinality(E) ELSE plan.limit
  BY <1>1, <1>8 DEF n
<1> QED
  BY <1>7, <1>9, <1>10, <1>11 DEF BatchIsTop, batch

-----------------------------------------------------------------------------
(***************************************************************************)
(* The inductive invariant: what each stage has left is what its operator  *)
(* makes of the data, which no later stage changes.                        *)
(***************************************************************************)

\* What Init chooses and no step changes.
DataOK ==
  /\ plan \in Plan
  /\ \A p \in Products : sheet[p] \in Row(FamilyOf[p])
  /\ holdings \in [Holders(plan) -> SUBSET (1 .. MaxClauses)]

\* Before there are products.
Early == {"build", "failed"}

\* The products are those that the mapper makes of the sheet.
RowsOK ==
  /\ pc \in Early => rows = [p \in {} |-> Null] /\ batches = <<>>
  /\ pc \notin Early => Mapped

\* Each batch is what the query of its family returns.
BatchesOK ==
  /\ batches \in Seq(Seq(Products)) /\ Len(batches) <= Len(plan.families)
  /\ \A i \in DOMAIN batches : batches[i] = Query(plan.families[i], Products)

\* Each stage holds what its operator makes of the stages before.
StagesOK ==
  /\ IF pc \in Early \cup {"sql"} THEN sql = <<>>
     ELSE sql = MergeFamilies(batches) /\ Len(batches) = Len(plan.families)
  /\ IF pc \in {"merge", "done"} /\ plan.intent = "RELATION_SEARCH"
     THEN relation = RetrieveRelation ELSE relation = Empty
  /\ pc = "relation" => plan.intent = "RELATION_SEARCH"
  /\ IF pc # "done" THEN result = <<>>
     ELSE result \in IF plan.intent = "RELATION_SEARCH" THEN MergeRelation ELSE {sql}

\* The inductive invariant.
RankInv ==
  /\ pc \in {"build", "failed", "sql", "relation", "merge", "done"}
  /\ DataOK /\ RowsOK /\ BatchesOK /\ StagesOK

-----------------------------------------------------------------------------
\* What a stage computes changes only with what it reads.
LEMMA OrderStays ==
  ASSUME UNCHANGED <<data, rows>>, NEW S, NEW sorts
  PROVE  LexicographicSort(S, sorts)' = LexicographicSort(S, sorts)
<1>1. \A p, s : SortKey(p, s)' = SortKey(p, s)
  BY DEF data, SortKey, MetricValue
<1>2. \A p, q : Precedes(p, q, sorts)' = Precedes(p, q, sorts)
  BY <1>1, Zenon DEF Precedes
<1> DEFINE rank == [x \in S |-> Cardinality({y \in S : Precedes(y, x, sorts)})]
<1>3. rank' = rank
  BY <1>2
<1> QED
  BY <1>3 DEF LexicographicSort, Ordered

\* What the operators of the model compute changes only with the data they read.
LEMMA QueryStays ==
  ASSUME UNCHANGED <<data, rows>>, NEW family, NEW uids
  PROVE  Query(family, uids)' = Query(family, uids)
<1>1. Matching(family)' = Matching(family) /\ plan' = plan
  BY DEF data, Matching
<1>2. \A p, sorts : Usable(p, sorts)' = Usable(p, sorts)
  BY DEF data, Usable, FlaggedZero, MetricValue
<1>3. \A S, sorts : ParetoFrontier(S, sorts)' = ParetoFrontier(S, sorts)
  BY DEF data, ParetoFrontier, Dominates, HasMetrics, MetricValue
<1>4. \A S, sorts : SortCandidates(S, sorts)' = SortCandidates(S, sorts)
  BY <1>3, OrderStays DEF SortCandidates
<1> QED
  BY <1>1, <1>2, <1>4 DEF Query

LEMMA MergeStays ==
  ASSUME UNCHANGED <<data, batches>>
  PROVE  MergeFamilies(batches)' = MergeFamilies(batches)
<1>1. plan' = plan /\ batches' = batches
  BY DEF data
<1>2. MergeCrossFamily(batches)' = MergeCrossFamily(batches)
  BY <1>1 DEF MergeCrossFamily, Ordered
<1> QED
  BY <1>1, <1>2 DEF MergeFamilies

LEMMA RelationStays ==
  ASSUME UNCHANGED <<data, rows>>
  PROVE  RetrieveRelation' = RetrieveRelation
<1>1. plan' = plan /\ holdings' = holdings
  BY DEF data
<1>2. HoldingEvidences' = HoldingEvidences
  BY <1>1 DEF HoldingEvidences
<1>3. \A f, u : Query(f, u)' = Query(f, u)
  BY QueryStays
<1> QED
  BY <1>1, <1>2, <1>3 DEF RetrieveRelation

LEMMA MappedStays ==
  ASSUME UNCHANGED <<data, rows>>
  PROVE  Mapped' = Mapped
BY DEF data, Mapped

LEMMA DataStays ==
  ASSUME UNCHANGED data, DataOK
  PROVE  DataOK'
BY DEF data, DataOK, Holders

\* It holds at the start.
LEMMA InitRankInv == Init => RankInv
<1> SUFFICES ASSUME Init PROVE RankInv
  OBVIOUS
<1>1. DataOK
  BY PlansAssumption DEF Init, DataOK
<1>2. RowsOK
  BY DEF Init, RowsOK, Early
<1>3. BatchesOK
  <2>1. plan.families \in Seq(Families)
    BY <1>1, PlanIs DEF DataOK
  <2> QED
    BY <2>1 DEF Init, BatchesOK
<1>4. StagesOK
  BY DEF Init, StagesOK, Early
<1> QED
  BY <1>1, <1>2, <1>3, <1>4 DEF Init, RankInv

\* Every step keeps it.
LEMMA NextRankInv == RankInv /\ [Next]_vars => RankInv'
<1> SUFFICES ASSUME RankInv, [Next]_vars PROVE RankInv'
  OBVIOUS
<1> USE DEF RankInv
<1>1. CASE Build
  <2>1. DataOK'
    BY <1>1, DataStays DEF Build, data, DataOK, Holders
  <2>2. batches = <<>> /\ sql = <<>> /\ relation = Empty /\ result = <<>>
    BY <1>1 DEF Build, RowsOK, StagesOK, Early
  <2>3. UNCHANGED <<batches, sql, relation, result, plan, sheet>> /\ pc' \in {"failed", "sql"}
    BY <1>1 DEF Build
  <2>4. RowsOK'
    <3>1. CASE \E p \in Products : Fails(FamilyOf[p], sheet[p])
      BY <1>1, <2>2, <3>1 DEF Build, RowsOK, Early
    <3>2. CASE ~\E p \in Products : Fails(FamilyOf[p], sheet[p])
      BY <1>1, <2>2, <3>2 DEF Build, RowsOK, Early, Mapped
    <3> QED
      BY <3>1, <3>2
  <2>5. BatchesOK'
    BY <2>2, <2>3 DEF BatchesOK
  <2>6. StagesOK'
    BY <2>2, <2>3 DEF StagesOK, Early
  <2> QED
    BY <2>1, <2>3, <2>4, <2>5, <2>6
<1>2. ASSUME UNCHANGED <<data, rows>>, pc \notin Early, pc' \notin Early PROVE DataOK' /\ RowsOK'
  BY <1>2, DataStays, MappedStays DEF RowsOK, Early
<1>3. ASSUME UNCHANGED <<data, rows, batches>> PROVE BatchesOK'
  <2>1. \A f : Query(f, Products)' = Query(f, Products)
    BY <1>3, QueryStays
  <2> QED
    BY <1>3, <2>1 DEF BatchesOK, data
<1>4. CASE QueryFamily
  <2>1. UNCHANGED <<data, rows, sql, relation, result, pc>> /\ pc = "sql"
    BY <1>4 DEF QueryFamily, data
  <2>2. DataOK' /\ RowsOK'
    BY <1>2, <2>1 DEF Early
  <2>3. BatchesOK'
    <3> DEFINE batch == Query(plan.families[Len(batches) + 1], Products)
    <3>1. batch \in Seq(Products)
      BY <2>1, QueryIs DEF RowsOK, Early, DataOK
    <3>2. \A f : Query(f, Products)' = Query(f, Products)
      BY <2>1, QueryStays
    <3>3. batches' = Append(batches, batch) /\ Len(batches) < Len(plan.families)
      BY <1>4 DEF QueryFamily
    <3>4. plan' = plan /\ plan.families \in Seq(Families)
      BY <2>1, PlanIs DEF data, DataOK
    <3>5. batches' \in Seq(Seq(Products)) /\ Len(batches') = Len(batches) + 1
          /\ Len(batches') <= Len(plan.families)
      BY <3>1, <3>3, <3>4 DEF BatchesOK
    <3> HIDE DEF batch
    <3>6. \A i \in DOMAIN batches' : batches'[i] = IF i = Len(batches) + 1 THEN batch ELSE batches[i]
      BY <3>3 DEF BatchesOK
    <3>7. \A i \in DOMAIN batches' : batches'[i] = Query(plan.families[i], Products)
      BY <3>3, <3>5, <3>6 DEF BatchesOK, batch
    <3> QED
      BY <3>2, <3>4, <3>5, <3>7 DEF BatchesOK
  <2>4. StagesOK'
    <3>1. sql = <<>> /\ relation = Empty /\ result = <<>>
      BY <2>1 DEF StagesOK, Early
    <3> QED
      BY <2>1, <3>1 DEF StagesOK, Early, Empty
  <2> QED
    BY <2>1, <2>2, <2>3, <2>4
<1>5. CASE FinishSql
  <2>1. UNCHANGED <<data, rows, batches, relation, result>> /\ pc = "sql" /\ pc' \in {"relation", "merge"}
    BY <1>5 DEF FinishSql, data
  <2>2. DataOK' /\ RowsOK' /\ BatchesOK'
    BY <1>2, <1>3, <2>1 DEF Early
  <2>3. StagesOK'
    <3>1. MergeFamilies(batches)' = MergeFamilies(batches)
      BY <2>1, MergeStays
    <3> QED
      BY <1>5, <2>1, <3>1 DEF FinishSql, StagesOK, Early, data
  <2> QED
    BY <2>1, <2>2, <2>3
<1>6. CASE FinishRelation
  <2>1. UNCHANGED <<data, rows, batches, sql, result>> /\ pc = "relation" /\ pc' = "merge"
    BY <1>6 DEF FinishRelation, data
  <2>2. DataOK' /\ RowsOK' /\ BatchesOK'
    BY <1>2, <1>3, <2>1 DEF Early
  <2>3. StagesOK'
    <3>1. MergeFamilies(batches)' = MergeFamilies(batches)
      BY <2>1, MergeStays
    <3>2. RetrieveRelation' = RetrieveRelation
      BY <2>1, RelationStays
    <3> QED
      BY <1>6, <2>1, <3>1, <3>2 DEF FinishRelation, StagesOK, Early, data
  <2> QED
    BY <2>1, <2>2, <2>3
<1>7. CASE MergeResults
  <2>1. UNCHANGED <<data, rows, batches, sql, relation>> /\ pc = "merge" /\ pc' = "done"
    BY <1>7 DEF MergeResults, data
  <2>2. DataOK' /\ RowsOK' /\ BatchesOK'
    BY <1>2, <1>3, <2>1 DEF Early
  <2>3. StagesOK'
    <3>1. MergeFamilies(batches)' = MergeFamilies(batches)
      BY <2>1, MergeStays
    <3>2. RetrieveRelation' = RetrieveRelation
      BY <2>1, RelationStays
    <3>3. MergeRelation' = MergeRelation
      BY <2>1 DEF MergeRelation
    <3> QED
      BY <1>7, <2>1, <3>1, <3>2, <3>3 DEF MergeResults, StagesOK, Early, data
  <2> QED
    BY <2>1, <2>2, <2>3
<1>8. CASE UNCHANGED vars
  <2>1. UNCHANGED <<data, rows, batches, sql, relation, result, pc>>
    BY <1>8 DEF vars, data
  <2>2. DataOK' /\ RowsOK' /\ BatchesOK'
    BY <1>3, <2>1, DataStays, MappedStays DEF RowsOK, Early
  <2>3. StagesOK'
    <3>1. MergeFamilies(batches)' = MergeFamilies(batches)
      BY <2>1, MergeStays
    <3>2. RetrieveRelation' = RetrieveRelation
      BY <2>1, RelationStays
    <3>3. MergeRelation' = MergeRelation
      BY <2>1 DEF MergeRelation
    <3> QED
      BY <2>1, <3>1, <3>2, <3>3 DEF StagesOK, Early, data
  <2> QED
    BY <2>1, <2>2, <2>3
<1> QED
  BY <1>1, <1>4, <1>5, <1>6, <1>7, <1>8 DEF Next

\* RankInv is inductive.
LEMMA AlwaysRankInv == Spec => []RankInv
BY InitRankInv, NextRankInv, PTL DEF Spec

\* Every batch is the top of its family's sheet.
THEOREM BatchesAreTop == Spec => []TopOfTheSheet
<1>1. RankInv => TopOfTheSheet
  <2> SUFFICES ASSUME RankInv, NEW i \in DOMAIN batches
               PROVE  BatchIsTop(plan.families[i], batches[i])
    BY DEF TopOfTheSheet
  <2>1. Mapped
    BY DEF RankInv, RowsOK
  <2>2. batches[i] = Query(plan.families[i], Products) /\ plan \in Plan
    BY DEF RankInv, BatchesOK, DataOK
  <2> QED
    BY <2>1, <2>2, QueryIsTop
<1> QED
  BY <1>1, AlwaysRankInv, PTL

LEMMA Counted == \A n \in Nat : IsFiniteSet(1 .. n) /\ Cardinality(1 .. n) = n
<1> SUFFICES ASSUME NEW n \in Nat PROVE IsFiniteSet(1 .. n) /\ Cardinality(1 .. n) = n
  OBVIOUS
<1> QED
  BY FS_Interval

\* Only keeps the elements asked for, and adds none.
LEMMA OnlyIs ==
  ASSUME NEW A, NEW s \in Seq(A), NEW T
  PROVE  /\ Only(s, T) \in Seq(A \cap T) /\ Len(Only(s, T)) <= Len(s)
<1> DEFINE n == Len(s)
           K == {i \in DOMAIN s : s[i] \in T}
           E == {e \in K \X K : e[1] < e[2]}
           places == Ordered(K, <)
           k == Cardinality(K)
<1>1. n \in Nat /\ DOMAIN s = 1 .. n /\ \A i \in 1 .. n : s[i] \in A
  OBVIOUS
<1>2. K \in SUBSET Int /\ IsFiniteSet(K) /\ k <= n
  <2>1. K \subseteq 1 .. n /\ IsFiniteSet(1 .. n) /\ Cardinality(1 .. n) = n
    BY <1>1, Counted
  <2>2. K \in SUBSET Int
    BY <1>1
  <2> HIDE DEF K, n
  <2> QED
    BY <2>1, <2>2, FS_Subset
<1>3. Lists(places, K, E)
  <2> HIDE DEF K
  <2> QED
    BY <1>2, NumbersOrdered
<1>4. places \in [1 .. k -> K] /\ k \in Nat
  <2> HIDE DEF K, E
  <2> QED
    BY <1>2, <1>3, FS_CardinalityType DEF Lists
<1>5. Only(s, T) = [i \in 1 .. k |-> s[places[i]]]
  <2>1. DOMAIN places = 1 .. k
    BY <1>4
  <2> QED
    BY <2>1 DEF Only
<1>6. \A i \in 1 .. k : s[places[i]] \in A \cap T
  BY <1>1, <1>4
<1> HIDE DEF places, k, K, n, E
<1>7. Only(s, T) \in [1 .. k -> A \cap T]
  BY <1>5, <1>6
<1>8. Only(s, T) \in Seq(A \cap T) /\ Len(Only(s, T)) = k
  BY <1>4, <1>7, SeqDef
<1> QED
  BY <1>2, <1>8 DEF n

\* A list has no more elements than places.
LEMMA ListedIs ==
  ASSUME NEW A, NEW s \in Seq(A)
  PROVE  /\ ToSet(s) \subseteq A /\ IsFiniteSet(ToSet(s)) /\ Cardinality(ToSet(s)) <= Len(s)
         /\ \A i \in DOMAIN s : s[i] \in ToSet(s)
<1>1. s \in Surjection(1 .. Len(s), ToSet(s)) /\ Len(s) \in Nat
  BY DEF Surjection, ToSet
<1>2. IsFiniteSet(1 .. Len(s)) /\ Cardinality(1 .. Len(s)) = Len(s)
  BY <1>1, Counted
<1>3. IsFiniteSet(ToSet(s)) /\ Cardinality(ToSet(s)) <= Len(s)
  BY <1>1, <1>2, FS_Surjection
<1> QED
  BY <1>3 DEF ToSet

\* Any listing of a set has its elements, each once.
LEMMA SetToSeqsIs ==
  ASSUME NEW S, IsFiniteSet(S), NEW s \in SetToSeqs(S)
  PROVE  s \in Seq(S) /\ Len(s) = Cardinality(S)
<1>1. s \in [1 .. Cardinality(S) -> S] /\ Cardinality(S) \in Nat
  BY FS_CardinalityType DEF SetToSeqs
<1> QED
  BY <1>1, SeqDef

\* What may be shown: the products that may be ranked.
Good == {p \in DOMAIN rows : Usable(p, plan.sorts)}

\* A query returns usable products only.
LEMMA QueryIsGood ==
  ASSUME Mapped, plan \in Plan, NEW family, NEW uids
  PROVE  Query(family, uids) \in Seq(Good)
<1> DEFINE E == Eligible(family, uids)
           batch == Query(family, uids)
           n == Len(batch)
<1>1. E \subseteq Good
  BY RankedLists DEF Eligible, Good
<1>2. batch \in Seq(Products) /\ n \in Nat /\ DOMAIN batch = 1 .. n /\ \A i \in 1 .. n : batch[i] \in E
  BY QueryIs
<1> HIDE DEF batch, n, E
<1>3. batch \in [1 .. n -> Good]
  BY <1>1, <1>2
<1>4. batch \in Seq(Good)
  BY <1>2, <1>3, SeqDef
<1> QED
  BY <1>4 DEF batch

\* There are finitely many of them.
LEMMA GoodFinite ==
  ASSUME Mapped
  PROVE  Good \subseteq Products /\ IsFiniteSet(Good)
BY RankingAssumption, FS_Subset DEF Mapped, Good

\* Merging families adds no product of its own and stays within the limit.
LEMMA MergeIs ==
  ASSUME NEW A \in SUBSET Products, NEW bs \in Seq(Seq(A)), plan \in Plan
  PROVE  MergeFamilies(bs) \in Seq(A) /\ Len(MergeFamilies(bs)) <= plan.limit
<1>1. Concat(bs) \in Seq(A)
  BY ConcatIs
<1>2. RoundRobin(bs) \in Seq(A)
  BY RoundRobinIs, ReadOffIs
<1>3. Ordered(UNION {ToSet(bs[b]) : b \in DOMAIN bs}, <) \in Seq(A)
  <2> DEFINE U == UNION {ToSet(bs[b]) : b \in DOMAIN bs}
  <2>1. U \subseteq A
    BY DEF ToSet
  <2>2. IsFiniteSet(U) /\ U \in SUBSET Int
    <3>1. IsFiniteSet(Products) /\ Products \subseteq Int
      BY RankingAssumption
    <3> HIDE DEF U
    <3>2. U \subseteq Products
      BY <2>1
    <3> QED
      BY <3>1, <3>2, FS_Subset
  <2> DEFINE m == Cardinality(U)
             o == Ordered(U, <)
  <2>3. o \in [1 .. m -> U] /\ m \in Nat
    <3> HIDE DEF U
    <3> QED
      BY <2>2, NumbersOrdered, FS_CardinalityType DEF Lists
  <2>4. o = Ordered(U, <)
    OBVIOUS
  <2> HIDE DEF o, m, U
  <2>5. o \in [1 .. m -> A]
    BY <2>1, <2>3
  <2>6. o \in Seq(A)
    BY <2>3, <2>5, SeqDef
  <2> QED
    BY <2>4, <2>6 DEF U
<1>4. MergeCrossFamily(bs) \in Seq(A)
  BY <1>2, <1>3 DEF MergeCrossFamily
<1> DEFINE merged == IF plan.intent = "CROSS_FAMILY_SEARCH" THEN MergeCrossFamily(bs) ELSE Concat(bs)
<1>5. merged \in Seq(A) /\ MergeFamilies(bs) = Take(merged, plan.limit)
  BY <1>1, <1>4 DEF MergeFamilies
<1> HIDE DEF merged
<1>6. plan.limit \in Nat /\ Len(merged) \in Nat
  BY <1>5, PlanIs
<1> QED
  BY <1>5, <1>6, TakeIs

\* The evidences are the rows held.
LEMMA HoldingsAre ==
  ASSUME DataOK
  PROVE  HoldingEvidences \in Seq(Products)
<1> DEFINE pairs == UNION {{<<c, p>> : c \in holdings[p]} : p \in DOMAIN holdings}
           sorted == Ordered(pairs, Less)
           n == Cardinality(pairs)
<1>1. DOMAIN holdings \subseteq Products /\ \A p \in DOMAIN holdings : holdings[p] \subseteq 1 .. MaxClauses
  BY DEF DataOK, Holders
<1>2. pairs \subseteq (1 .. MaxClauses) \X Products
  BY <1>1
<1>3. IsFiniteSet((1 .. MaxClauses) \X Products)
  <2>1. IsFiniteSet(1 .. MaxClauses) /\ IsFiniteSet(Products)
    BY RankingAssumption, Counted
  <2> QED
    BY <2>1, FS_Product
<1>4. (1 .. MaxClauses) \X Products \subseteq Int \X Int
  <2>1. 1 .. MaxClauses \subseteq Int /\ Products \subseteq Int
    BY RankingAssumption
  <2> QED
    BY <2>1
<1>5. IsFiniteSet(pairs) /\ pairs \in SUBSET (Int \X Int)
  <2> HIDE DEF pairs
  <2> QED
    BY <1>2, <1>3, <1>4, FS_Subset
<1>6. sorted \in [1 .. n -> pairs] /\ n \in Nat
  <2> HIDE DEF pairs
  <2> QED
    BY <1>5, PairsOrdered, FS_CardinalityType DEF Lists
<1>7. HoldingEvidences = [i \in DOMAIN sorted |-> sorted[i][2]]
  BY DEF HoldingEvidences
<1> HIDE DEF sorted, pairs, n
<1>8. HoldingEvidences \in [1 .. n -> Products]
  BY <1>2, <1>6, <1>7
<1> QED
  BY <1>6, <1>8, SeqDef

\* What RelationRetriever returns, and what of it is kept.
LEMMA RelationIs ==
  ASSUME Mapped, DataOK
  PROVE  LET r == RetrieveRelation
         IN  /\ r.candidates \in Seq(Good) /\ Len(r.candidates) <= plan.limit
             /\ r.evidences \in Seq(Products) /\ Len(r.evidences) <= plan.limit
<1> DEFINE evidences == HoldingEvidences
           lists == [i \in DOMAIN plan.families |-> Query(plan.families[i], ToSet(evidences))]
           candidates == Concat(lists)
           kept == IF candidates = <<>> THEN evidences ELSE Only(evidences, ToSet(candidates))
<1>1. plan \in Plan /\ plan.limit \in Nat /\ plan.families \in Seq(Families)
  BY PlanIs DEF DataOK
<1>2. lists \in Seq(Seq(Good))
  <2>1. \A i \in DOMAIN plan.families : Query(plan.families[i], ToSet(evidences)) \in Seq(Good)
    BY <1>1, QueryIsGood
  <2>2. DOMAIN plan.families = 1 .. Len(plan.families) /\ Len(plan.families) \in Nat
    BY <1>1
  <2>3. lists \in [1 .. Len(plan.families) -> Seq(Good)]
    BY <2>1, <2>2
  <2> HIDE DEF lists
  <2> QED
    BY <2>2, <2>3, SeqDef
<1>3. candidates \in Seq(Good)
  <2> HIDE DEF lists
  <2> QED
    BY <1>2, ConcatIs
<1>4. evidences \in Seq(Products)
  BY HoldingsAre
<1>5. RetrieveRelation = [candidates |-> Take(candidates, plan.limit), evidences |-> Take(kept, plan.limit)]
  BY DEF RetrieveRelation
<1> HIDE DEF lists, candidates, evidences
<1>6. kept \in Seq(Products)
  <2>1. Only(evidences, ToSet(candidates)) \in Seq(Products \cap ToSet(candidates))
    BY <1>4, OnlyIs
  <2>2. Only(evidences, ToSet(candidates)) \in Seq(Products)
    BY <2>1
  <2> QED
    BY <1>4, <2>2
<1> HIDE DEF kept
<1>7. Len(candidates) \in Nat /\ Len(kept) \in Nat
  BY <1>3, <1>6
<1>8. /\ Take(candidates, plan.limit) \in Seq(Good) /\ Len(Take(candidates, plan.limit)) <= plan.limit
      /\ Take(kept, plan.limit) \in Seq(Products) /\ Len(Take(kept, plan.limit)) <= plan.limit
  BY <1>1, <1>3, <1>6, <1>7, TakeIs
<1> QED
  BY <1>5, <1>8

\* Every list of candidates is of products that may be ranked, and no longer than
\* the limit.
LEMMA ResultsAre ==
  ASSUME RankInv
  PROVE  /\ \A s \in {sql, result, relation.candidates} : s \in Seq(Good) /\ Len(s) <= plan.limit
         /\ relation.evidences \in Seq(Products) /\ Len(relation.evidences) <= plan.limit
<1>1. plan \in Plan /\ plan.limit \in Nat /\ DataOK
  BY PlanIs DEF RankInv, DataOK
<1>2. <<>> \in Seq(Good) /\ <<>> \in Seq(Products) /\ Len(<<>>) <= plan.limit
  BY <1>1
<1>3. CASE pc \in Early
  <2>1. sql = <<>> /\ result = <<>> /\ relation = Empty
    BY <1>3 DEF RankInv, StagesOK, Early
  <2>2. relation.candidates = <<>> /\ relation.evidences = <<>>
    BY <2>1 DEF Empty
  <2> QED
    BY <1>2, <2>1, <2>2
<1>4. CASE pc \notin Early
  <2>1. Mapped
    BY <1>4 DEF RankInv, RowsOK
  <2>2. batches \in Seq(Seq(Good))
    <3>1. \A i \in DOMAIN batches : batches[i] \in Seq(Good)
      BY <1>1, <2>1, QueryIsGood DEF RankInv, BatchesOK
    <3>2. batches \in Seq(Seq(Products))
      BY DEF RankInv, BatchesOK
    <3>3. DOMAIN batches = 1 .. Len(batches) /\ Len(batches) \in Nat
      BY <3>2
    <3>4. batches \in [1 .. Len(batches) -> Seq(Good)]
      BY <3>1, <3>2, <3>3
    <3> QED
      BY <3>3, <3>4, SeqDef
  <2>3. MergeFamilies(batches) \in Seq(Good) /\ Len(MergeFamilies(batches)) <= plan.limit
    BY <1>1, <2>1, <2>2, GoodFinite, MergeIs
  <2>4. sql \in Seq(Good) /\ Len(sql) <= plan.limit
    BY <1>2, <2>3 DEF RankInv, StagesOK
  <2>5. /\ relation.candidates \in Seq(Good) /\ Len(relation.candidates) <= plan.limit
        /\ relation.evidences \in Seq(Products) /\ Len(relation.evidences) <= plan.limit
    <3>1. CASE relation = Empty
      BY <1>2, <3>1 DEF Empty
    <3>2. CASE relation = RetrieveRelation
      BY <1>1, <2>1, <3>2, RelationIs
    <3> QED
      BY <3>1, <3>2 DEF RankInv, StagesOK
  <2>6. \A s \in MergeRelation : s \in Seq(Good) /\ Len(s) <= plan.limit
    <3> DEFINE named == ToSet(relation.evidences)
               both == named \cap ToSet(relation.candidates)
    <3>1. ASSUME NEW s \in SetToSeqs(both) PROVE s \in Seq(Good) /\ Len(s) <= plan.limit
      <4>1. /\ both \subseteq Good /\ IsFiniteSet(both)
            /\ Cardinality(both) <= Cardinality(ToSet(relation.candidates))
            /\ Cardinality(ToSet(relation.candidates)) <= Len(relation.candidates)
            /\ IsFiniteSet(ToSet(relation.candidates))
        BY <2>5, ListedIs, FS_Subset
      <4> HIDE DEF both
      <4>2. s \in Seq(both) /\ Len(s) = Cardinality(both)
        BY <3>1, <4>1, SetToSeqsIs
      <4>3. s \in Seq(Good)
        BY <4>1, <4>2
      <4>4. Cardinality(both) \in Nat /\ Cardinality(ToSet(relation.candidates)) \in Nat
            /\ Len(relation.candidates) \in Nat
        BY <2>5, <4>1, FS_CardinalityType
      <4> QED
        BY <1>1, <2>5, <4>1, <4>2, <4>3, <4>4
    <3>2. Only(sql, named) \in Seq(Good) /\ Len(Only(sql, named)) <= plan.limit
      <4> HIDE DEF named
      <4>1. Only(sql, named) \in Seq(Good \cap named) /\ Len(Only(sql, named)) <= Len(sql)
        BY <2>4, OnlyIs
      <4>2. Only(sql, named) \in Seq(Good)
        BY <4>1
      <4>3. Len(sql) \in Nat /\ Len(Only(sql, named)) \in Nat
        BY <2>4, <4>2
      <4> QED
        BY <1>1, <2>4, <4>1, <4>2, <4>3
    <3>3. \A s \in MergeRelation : \/ s = relation.candidates \/ s = sql
                                   \/ s \in SetToSeqs(both) \/ s = Only(sql, named)
      BY DEF MergeRelation
    <3> HIDE DEF named, both
    <3> QED
      BY <2>4, <2>5, <3>1, <3>2, <3>3
  <2>7. result = <<>> \/ result \in MergeRelation \/ result = sql
    BY DEF RankInv, StagesOK
  <2> QED
    BY <1>2, <2>4, <2>5, <2>6, <2>7
<1> QED
  BY <1>3, <1>4

\* Every list of a search, from the batches of the families to the merged result,
\* holds rows of the sheet and is within the limit, for any sheet and plan.
THEOREM RankingTypeCorrect == Spec => []TypeOK
<1>1. RankInv => TypeOK
  <2> SUFFICES ASSUME RankInv PROVE TypeOK
    OBVIOUS
  <2>1. DOMAIN rows \subseteq Products
    BY DEF RankInv, RowsOK, Mapped
  <2>2. Good \subseteq Products
    BY <2>1 DEF Good
  <2>3. \A s \in Seq(Good) : s \in Seq(Products)
    BY <2>2
  <2>4. \A s \in {sql, result, relation.candidates, relation.evidences} :
          s \in Seq(Products) /\ Len(s) <= plan.limit
    BY <2>3, ResultsAre
  <2> QED
    BY <2>1, <2>4 DEF TypeOK, RankInv, DataOK, BatchesOK
<1> QED
  BY <1>1, AlwaysRankInv, PTL

\* A product of a relation answer keeps an evidence, although retrieve_sync cuts
\* evidences and candidates to the limit each alone.
THEOREM CandidatesAlwaysKeepEvidence == Spec => []CandidatesKeepEvidence
<1>1. RankInv => CandidatesKeepEvidence
  <2> SUFFICES ASSUME RankInv, pc = "done", plan.intent = "RELATION_SEARCH", relation.evidences # <<>>
               PROVE  ToSet(result) \subseteq ToSet(relation.evidences)
    BY DEF CandidatesKeepEvidence
  <2> DEFINE named == ToSet(relation.evidences)
             both == named \cap ToSet(relation.candidates)
  <2>1. named # {}
    <3>1. relation.evidences \in Seq(Products)
      BY ResultsAre
    <3>2. 1 \in DOMAIN relation.evidences
      BY <3>1
    <3> QED
      BY <3>2 DEF ToSet
  <2>2. result \in SetToSeqs(both) \/ result = Only(sql, named)
    BY <2>1 DEF RankInv, StagesOK, MergeRelation
  <2>3. result \in Seq(named)
    <3>1. sql \in Seq(Good) /\ relation.candidates \in Seq(Good)
      BY ResultsAre
    <3>2. IsFiniteSet(both)
      BY <3>1, ListedIs, FS_Subset
    <3> HIDE DEF named
    <3>3. Only(sql, named) \in Seq(named)
      <4>1. Only(sql, named) \in Seq(Good \cap named)
        BY <3>1, OnlyIs
      <4> QED
        BY <4>1
    <3>4. \A s \in SetToSeqs(both) : s \in Seq(named)
      <4>1. both \subseteq named
        OBVIOUS
      <4> HIDE DEF both
      <4>2. \A s \in SetToSeqs(both) : s \in Seq(both)
        BY <3>2, SetToSeqsIs
      <4> QED
        BY <4>1, <4>2
    <3> QED
      BY <2>2, <3>3, <3>4
  <2> HIDE DEF named
  <2> QED
    BY <2>3, ListedIs DEF named
<1> QED
  BY <1>1, AlwaysRankInv, PTL

\* How many of the first n turns are those of list l.
TurnsOf(places, n, l) == Cardinality({k \in 1 .. n : places[k][1] = l})

\* Whether one of them is e.
Among(places, n, e) == \E k \in 1 .. n : places[k] = e

\* A prefix of the turns has the first of each list, as many as it has of it.
LEMMA TurnsPrefix ==
  ASSUME NEW A, NEW lists \in Seq(Seq(A)),
         NEW places, Lists(places, Places(lists), TurnsOrder(lists)),
         NEW n \in 0 .. Cardinality(Places(lists)), NEW l \in DOMAIN lists
  PROVE  /\ TurnsOf(places, n, l) \in 0 .. Len(lists[l])
         /\ \A r \in 1 .. Len(lists[l]) :
              r <= TurnsOf(places, n, l) <=> Among(places, n, <<l, r>>)
<1> DEFINE L == Len(lists[l])
           N == Cardinality(Places(lists))
           Taken(r) == \E k \in 1 .. n : places[k] = <<l, r>>
           C == {k \in 1 .. n : places[k][1] = l}
<1>1. N \in Nat /\ n \in Nat /\ n <= N /\ L \in Nat /\ DOMAIN lists[l] = 1 .. L
  BY PlacesFinite, FS_CardinalityType
<1>2. /\ \A e \in Places(lists) : /\ e[1] \in DOMAIN lists /\ e[2] \in DOMAIN lists[e[1]]
                                  /\ e = <<e[1], e[2]>>
      /\ \A r \in 1 .. L : <<l, r>> \in Places(lists)
  <2>1. \A e \in Places(lists) : e[1] \in DOMAIN lists /\ e[2] \in DOMAIN lists[e[1]] /\ e = <<e[1], e[2]>>
    BY PlacesFinite
  <2> QED
    BY <1>1, <2>1, PlacesFinite
<1>3. /\ places \in [1 .. N -> Places(lists)]
      /\ \A e \in Places(lists) : \E k \in 1 .. N : places[k] = e
      /\ \A i, j \in 1 .. N : i < j => <<places[i], places[j]>> \in TurnsOrder(lists)
      /\ \A i, j \in 1 .. N : places[i] = places[j] => i = j
  BY DEF Lists
<1> HIDE DEF N, L
<1>4. \A k \in 1 .. n : k \in 1 .. N
  BY <1>1
<1>5. ASSUME NEW r \in 1 .. L, NEW q \in 1 .. r, Taken(r) PROVE Taken(q)
  <2>1. PICK k \in 1 .. n : places[k] = <<l, r>>
    BY <1>5
  <2>2. q \in 1 .. L
    BY <1>1
  <2>3. PICK j \in 1 .. N : places[j] = <<l, q>>
    BY <1>2, <1>3, <2>2
  <2>4. CASE q = r
    BY <1>5, <2>4
  <2>5. CASE q < r
    <3>1. ~(k < j)
      <4>1. SUFFICES ASSUME k < j PROVE FALSE
        OBVIOUS
      <4>2. <<places[k], places[j]>> \in TurnsOrder(lists)
        BY <1>3, <1>4, <4>1
      <4>3. r < q \/ (r = q /\ l < l)
        BY <2>1, <2>3, <4>2 DEF TurnsOrder, Less
      <4> QED
        BY <1>1, <2>5, <4>3
    <3>2. k \in 1 .. N /\ n \in Nat /\ N \in Nat
      BY <1>1, <1>4
    <3>3. j \in 1 .. n
      BY <3>1, <3>2
    <3> QED
      BY <2>3, <3>3
  <2>6. q = r \/ q < r
    BY <1>1
  <2> QED
    BY <2>4, <2>5, <2>6
<1>6. \E m \in 0 .. L : \A r \in 1 .. L : r <= m <=> Taken(r)
  <2> DEFINE T == {r \in 1 .. L + 1 : r = L + 1 \/ ~Taken(r)}
  <2>1. T \in SUBSET Nat /\ L + 1 \in T
    BY <1>1
  <2> HIDE DEF T
  <2>2. PICK t \in T : \A r \in T : t <= r
    BY <2>1, LeastOf
  <2> USE DEF T
  <2>3. t - 1 \in 0 .. L /\ t \in 1 .. L + 1
    BY <1>1
  <2>4. ASSUME NEW r \in 1 .. L, r <= t - 1 PROVE Taken(r)
    <3> HIDE DEF Taken
    <3> QED
      BY <1>1, <2>2, <2>3, <2>4
  <2>5. ASSUME NEW r \in 1 .. L, Taken(r) PROVE r <= t - 1
    <3>1. SUFFICES ASSUME ~(r <= t - 1) PROVE FALSE
      OBVIOUS
    <3>2. t \in 1 .. r /\ t # L + 1
      BY <1>1, <2>3, <3>1
    <3>3. Taken(t)
      BY <1>5, <2>5, <3>2
    <3> HIDE DEF Taken
    <3> QED
      BY <2>2, <3>2, <3>3
  <2> QED
    BY <2>3, <2>4, <2>5
<1>7. PICK m \in 0 .. L : \A r \in 1 .. L : r <= m <=> Taken(r)
  BY <1>6
<1>8. Cardinality(C) = m
  <2> DEFINE g == [k \in C |-> places[k][2]]
  <2>1. ASSUME NEW k \in C PROVE places[k] = <<l, g[k]>> /\ g[k] \in 1 .. m
    <3>1. places[k] \in Places(lists) /\ places[k][1] = l
      BY <1>3, <1>4
    <3>2. places[k] = <<l, places[k][2]>> /\ places[k][2] \in 1 .. L
      BY <1>1, <1>2, <3>1
    <3>3. Taken(places[k][2])
      BY <3>2
    <3>4. places[k][2] <= m
      BY <1>7, <3>2, <3>3
    <3> QED
      BY <1>1, <3>2, <3>4
  <2>2. \A k, j \in C : g[k] = g[j] => k = j
    <3> SUFFICES ASSUME NEW k \in C, NEW j \in C, g[k] = g[j] PROVE k = j
      OBVIOUS
    <3>1. places[k] = places[j]
      BY <2>1
    <3> QED
      BY <1>3, <1>4, <3>1
  <2>3. \A r \in 1 .. m : \E k \in C : g[k] = r
    <3> SUFFICES ASSUME NEW r \in 1 .. m PROVE \E k \in C : g[k] = r
      OBVIOUS
    <3>1. Taken(r)
      <4>1. r \in 1 .. L /\ r <= m
        BY <1>1
      <4> HIDE DEF Taken
      <4> QED
        BY <1>7, <4>1
    <3>2. PICK k \in 1 .. n : places[k] = <<l, r>>
      BY <3>1
    <3>3. k \in C /\ g[k] = r
      BY <3>2
    <3> QED
      BY <3>3
  <2>4. IsFiniteSet(C)
    <3>1. C \subseteq 1 .. n /\ IsFiniteSet(1 .. n)
      BY <1>1, Counted
    <3> HIDE DEF C
    <3> QED
      BY <3>1, FS_Subset
  <2>5. g \in [C -> 1 .. m]
    BY <2>1
  <2> HIDE DEF g, C
  <2>6. g \in Bijection(C, 1 .. m)
    BY <2>2, <2>3, <2>5 DEF Bijection, Injection, IsInjective, Surjection
  <2>7. ExistsBijection(C, 1 .. m)
    BY <2>6 DEF ExistsBijection
  <2>8. Cardinality(C) = Cardinality(1 .. m)
    BY <2>4, <2>7, FS_Bijection
  <2> QED
    BY <2>8, Counted
<1> QED
  BY <1>7, <1>8 DEF L, TurnsOf, Among

\* No prefix of the turns has two more of one list than of another that is not
\* exhausted.
LEMMA TurnsAreFair ==
  ASSUME NEW A, NEW lists \in Seq(Seq(A)),
         NEW places, Lists(places, Places(lists), TurnsOrder(lists)),
         NEW n \in 0 .. Cardinality(Places(lists)), NEW i \in DOMAIN lists, NEW j \in DOMAIN lists
  PROVE  \/ TurnsOf(places, n, i) <= TurnsOf(places, n, j) + 1
         \/ TurnsOf(places, n, j) = Len(lists[j])
<1> DEFINE N == Cardinality(Places(lists))
           Li == Len(lists[i])
           Lj == Len(lists[j])
           a == TurnsOf(places, n, i)
           b == TurnsOf(places, n, j)
<1>1. a \in 0 .. Li /\ \A r \in 1 .. Li : r <= a <=> Among(places, n, <<i, r>>)
  <2> HIDE DEF N
  <2> QED
    BY TurnsPrefix
<1>2. b \in 0 .. Lj /\ \A r \in 1 .. Lj : r <= b <=> Among(places, n, <<j, r>>)
  <2> HIDE DEF N
  <2> QED
    BY TurnsPrefix
<1>3. N \in Nat /\ n \in Nat /\ n <= N /\ Li \in Nat /\ Lj \in Nat
  BY PlacesFinite, FS_CardinalityType
<1>4. \A r \in 1 .. Lj : <<j, r>> \in Places(lists)
  BY PlacesFinite
<1>5. /\ \A e \in Places(lists) : \E k \in 1 .. N : places[k] = e
      /\ \A k, h \in 1 .. N : k < h => <<places[k], places[h]>> \in TurnsOrder(lists)
  BY DEF Lists
<1> HIDE DEF N, Li, Lj, a, b
<1>6. a <= b + 1 \/ b = Lj
  <2>1. SUFFICES ASSUME ~(a <= b + 1), b # Lj PROVE FALSE
    OBVIOUS
  <2>2. b + 2 \in 1 .. Li /\ b + 2 <= a /\ b + 1 \in 1 .. Lj /\ ~(b + 1 <= b) /\ b \in Nat
    BY <1>1, <1>2, <1>3, <2>1
  <2>3. PICK k \in 1 .. n : places[k] = <<i, b + 2>>
    BY <1>1, <2>2 DEF Among
  <2>4. PICK h \in 1 .. N : places[h] = <<j, b + 1>>
    BY <1>4, <1>5, <2>2
  <2>5. ~(h \in 1 .. n)
    BY <1>2, <2>2, <2>4 DEF Among
  <2>6. k \in 1 .. N /\ k < h
    BY <1>3, <2>5
  <2>7. <<places[k], places[h]>> \in TurnsOrder(lists)
    BY <1>5, <2>6
  <2>8. b + 2 < b + 1 \/ (b + 2 = b + 1 /\ i < j)
    BY <2>3, <2>4, <2>7 DEF TurnsOrder, Less
  <2> QED
    BY <2>2, <2>8
<1> QED
  BY <1>6 DEF a, b, Lj

\* A family's batch is of that family.
LEMMA BatchFamily ==
  ASSUME RankInv, NEW b \in DOMAIN batches, NEW i \in DOMAIN batches[b]
  PROVE  FamilyOf[batches[b][i]] = plan.families[b]
<1> DEFINE family == plan.families[b]
<1>1. Mapped /\ plan \in Plan /\ batches[b] = Query(family, Products)
  <2>1. batches # <<>>
    OBVIOUS
  <2> QED
    BY <2>1 DEF RankInv, RowsOK, DataOK, BatchesOK
<1>2. batches[b][i] \in Eligible(family, Products)
  <2> HIDE DEF family
  <2> QED
    BY <1>1, QueryIs
<1> QED
  BY <1>2 DEF Eligible, Base, ParetoFrontier, Matching

\* The round robin of merge_cross_family gives every family its turn up to any
\* prefix, also when another family runs out or the limit cuts a round short.
THEOREM FamiliesAlwaysTakeTurns == Spec => []FamiliesTakeTurns
<1>1. RankInv => FamiliesTakeTurns
  <2> SUFFICES ASSUME RankInv, pc = "done", plan.intent = "CROSS_FAMILY_SEARCH", ~plan.comparable,
                      NEW n \in DOMAIN result, NEW i \in DOMAIN plan.families, NEW j \in DOMAIN plan.families
               PROVE  LET Given(f) == Cardinality({k \in 1 .. n : FamilyOf[result[k]] = f})
                      IN  \/ Given(plan.families[i]) <= Given(plan.families[j]) + 1
                          \/ Given(plan.families[j]) = Len(batches[j])
    BY DEF FamiliesTakeTurns
  <2> DEFINE Given(f) == Cardinality({k \in 1 .. n : FamilyOf[result[k]] = f})
             N == Cardinality(Places(batches))
  <2>1. batches \in Seq(Seq(Products)) /\ plan.limit \in Nat
    BY PlanIs DEF RankInv, BatchesOK, DataOK
  <2>2. DOMAIN batches = DOMAIN plan.families
    <3>1. plan.families \in Seq(Families) /\ Len(batches) = Len(plan.families)
      BY PlanIs DEF RankInv, DataOK, StagesOK, Early
    <3> QED
      BY <2>1, <3>1
  <2>3. PICK places : Lists(places, Places(batches), TurnsOrder(batches)) /\ RoundRobin(batches) = ReadOff(batches, places)
    BY <2>1, RoundRobinIs
  <2>4. result = Take(RoundRobin(batches), plan.limit)
    BY DEF RankInv, StagesOK, Early, MergeFamilies, MergeCrossFamily
  <2>5. /\ N \in Nat /\ n \in 0 .. N
        /\ \A k \in 1 .. n : result[k] = batches[places[k][1]][places[k][2]]
        /\ \A k \in 1 .. n : places[k][1] \in DOMAIN batches /\ places[k][2] \in DOMAIN batches[places[k][1]]
    <3> DEFINE o == RoundRobin(batches)
    <3>1. o \in Seq(Products) /\ Len(o) = N /\ N \in Nat
      BY <2>1, <2>3, ReadOffIs, PlacesFinite, FS_CardinalityType
    <3>2. places \in [1 .. N -> Places(batches)]
      BY <2>3 DEF Lists
    <3>3. o = [k \in 1 .. N |-> batches[places[k][1]][places[k][2]]]
      BY <2>3, <3>2 DEF ReadOff
    <3> HIDE DEF o, N
    <3>4. /\ Take(o, plan.limit) \in Seq(Products) /\ Len(Take(o, plan.limit)) <= Len(o)
          /\ \A k \in 1 .. Len(Take(o, plan.limit)) : Take(o, plan.limit)[k] = o[k]
      BY <2>1, <3>1, TakeIs
    <3>5. result \in Seq(Products) /\ Len(result) <= N /\ \A k \in 1 .. Len(result) : result[k] = o[k]
      BY <2>4, <3>1, <3>4 DEF o
    <3>6. n \in 0 .. N /\ \A k \in 1 .. n : k \in 1 .. Len(result) /\ k \in 1 .. N
      BY <3>1, <3>5
    <3>7. \A k \in 1 .. n : places[k] \in Places(batches)
      BY <3>2, <3>6
    <3>8. \A k \in 1 .. n : places[k][1] \in DOMAIN batches /\ places[k][2] \in DOMAIN batches[places[k][1]]
      BY <2>1, <3>7, PlacesFinite
    <3> QED
      BY <3>1, <3>3, <3>5, <3>6, <3>8
  <2>6. ASSUME NEW l \in DOMAIN plan.families
        PROVE  {k \in 1 .. n : FamilyOf[result[k]] = plan.families[l]} = {k \in 1 .. n : places[k][1] = l}
    <3>1. \A k \in 1 .. n : FamilyOf[result[k]] = plan.families[places[k][1]]
      BY <2>5, BatchFamily
    <3>2. \A k \in 1 .. n : places[k][1] \in DOMAIN plan.families
      BY <2>2, <2>5
    <3>3. \A h, k \in DOMAIN plan.families : plan.families[h] = plan.families[k] => h = k
      BY PlanIs DEF RankInv, DataOK
    <3> QED
      BY <3>1, <3>2, <3>3
  <2>7. \/ TurnsOf(places, n, i) <= TurnsOf(places, n, j) + 1
        \/ TurnsOf(places, n, j) = Len(batches[j])
    <3>1. i \in DOMAIN batches /\ j \in DOMAIN batches
      BY <2>2
    <3>2. n \in 0 .. Cardinality(Places(batches))
      BY <2>5
    <3> HIDE DEF N
    <3> QED
      BY <2>1, <2>3, <3>1, <3>2, TurnsAreFair
  <2>8. ASSUME NEW l \in DOMAIN plan.families PROVE Given(plan.families[l]) = TurnsOf(places, n, l)
    BY <2>6 DEF TurnsOf
  <2> HIDE DEF Given
  <2>9. Given(plan.families[i]) <= Given(plan.families[j]) + 1 \/ Given(plan.families[j]) = Len(batches[j])
    BY <2>7, <2>8
  <2> QED
    BY <2>9 DEF Given
<1> QED
  BY <1>1, AlwaysRankInv, PTL

\* The flags of a metric are the issues of its row.
LEMMA IssuesAre ==
  ASSUME NEW family, NEW row, NEW m \in MetricFields(family), NEW f \in AssessMetric(m, row)
  PROVE  [field |-> m, flag |-> f] \in IssuesOf(family, row)
BY DEF IssuesOf

\* A numeric column is filled from the metric at its place.
LEMMA PlacesExist ==
  ASSUME NEW family \in Families, NEW column \in DOMAIN PlaceOf[family]
  PROVE  PlaceOf[family][column] \in DOMAIN Metrics[family]
<1>1. CASE family = "BOND_KR"
  BY <1>1 DEF PlaceOf, Metrics
<1>2. CASE family = "ETF_KR"
  BY <1>2 DEF PlaceOf, Metrics
<1>3. CASE family = "ETF_GLOBAL"
  BY <1>3 DEF PlaceOf, Metrics
<1>4. CASE family = "FUND_PUBLIC"
  BY <1>4 DEF PlaceOf, Metrics
<1> QED
  BY <1>1, <1>2, <1>3, <1>4, FourFamilies

\* A number that a ranking cannot use is missing from its cell, is a text that is
\* none, or is the zero of a bond.
LEMMA GapsAreOnRecord ==
  ASSUME Mapped, NEW p \in DOMAIN rows, sheet[p] \in Row(FamilyOf[p]), plan \in Plan,
         ~Usable(p, plan.sorts)
  PROVE  GapOnRecord(p)
<1> DEFINE family == FamilyOf[p]
<1>1. PICK j \in DOMAIN plan.sorts :
        plan.sorts[j].field \notin rows[p].there \/ FlaggedZero(p, plan.sorts[j].field)
  BY DEF Usable
<1> DEFINE f == plan.sorts[j].field
           column == ColumnOf[family][f]
<1>2. f \in Fields /\ family \in Families
  BY PlanIs, SortType, RowsAre
<1>3. /\ f \in rows[p].there <=> IF f = DateField THEN Dated(p) ELSE InSheet(p, f) # Null
      /\ MetricValue(p, f) = InSheet(p, f)
      /\ "INVALID_FOR_DECISION" \in rows[p].flags <=> family = "BOND_KR"
      /\ rows[p].issues = IssuesOf(family, sheet[p])
  BY <1>2, RowsAre
<1>4. SUFFICES ASSUME f \in DOMAIN ColumnOf[family], column \in DOMAIN PlaceOf[family],
                      sheet[p][column] # "word"
               PROVE  \E issue \in rows[p].issues :
                        \/ issue = [field |-> column, flag |-> "MISSING"]
                        \/ issue.flag = "INVALID_FOR_DECISION" /\ InSheet(p, f) = 0
  BY DEF GapOnRecord
<1>5. CASE FlaggedZero(p, f)
  <2>1. InSheet(p, f) = 0 /\ family = "BOND_KR"
    BY <1>3, <1>5 DEF FlaggedZero
  <2>2. [field |-> "buyable_quantity", flag |-> "INVALID_FOR_DECISION"] \in rows[p].issues
    <3>1. "buyable_quantity" \in MetricFields(family)
      BY <2>1, FourFamilies
    <3>2. "INVALID_FOR_DECISION" \in AssessMetric("buyable_quantity", sheet[p])
      BY DEF AssessMetric, Severity
    <3> HIDE DEF family
    <3> QED
      BY <1>3, <3>1, <3>2, IssuesAre
  <2> DEFINE issue == [field |-> "buyable_quantity", flag |-> "INVALID_FOR_DECISION"]
  <2>3. issue \in rows[p].issues /\ issue.flag = "INVALID_FOR_DECISION"
    BY <2>2
  <2> HIDE DEF issue, f, column, family
  <2> QED
    BY <2>1, <2>3
<1>6. CASE f \notin rows[p].there
  <2>1. f # DateField /\ column # "fd_price_bas_dt"
    BY <1>2, <1>4, ColumnsAre
  <2>2. sheet[p][column] \notin DOMAIN Number
    <3>1. InSheet(p, f) = Null
      BY <1>3, <1>6, <2>1
    <3>2. InSheet(p, f) = ToNumeric(sheet[p][column])
      BY <1>4, <2>1 DEF InSheet, ToNumeric
    <3> HIDE DEF column
    <3> QED
      BY <3>1, <3>2, NumbersAre
  <2>3. sheet[p][column] = "empty"
    <3>1. sheet[p][column] \in DOMAIN Number \cup {"empty", "word"}
      <4> HIDE DEF column
      <4> QED
        BY <1>4 DEF Row
    <3> QED
      BY <1>4, <2>2, <3>1
  <2>4. column \in MetricFields(family)
    <3>1. Metrics[family][PlaceOf[family][column]] = column
      BY <1>2, <1>4, PlaceIsRight
    <3>2. PlaceOf[family][column] \in DOMAIN Metrics[family]
      BY <1>2, <1>4, PlacesExist
    <3> HIDE DEF column, family
    <3> QED
      BY <3>1, <3>2 DEF MetricFields
  <2>5. "MISSING" \in AssessMetric(column, sheet[p])
    <3> HIDE DEF column
    <3> QED
      BY <2>3 DEF AssessMetric, ValueState, Severity
  <2> HIDE DEF column, family
  <2>6. [field |-> column, flag |-> "MISSING"] \in rows[p].issues
    BY <1>3, <2>4, <2>5, IssuesAre
  <2> QED
    BY <2>6
<1> QED
  BY <1>1, <1>5, <1>6

\* A committed build has every public row, passes validate_curated, and has an
\* issue for what a ranking leaves out.
THEOREM LossesAlwaysOnRecord == Spec => []LossesAreOnRecord
<1>1. RankInv => LossesAreOnRecord
  <2> SUFFICES ASSUME RankInv, pc \notin Early PROVE LossesAreOnRecord
    BY DEF LossesAreOnRecord, Early
  <2>1. Mapped /\ plan \in Plan /\ \A p \in Products : sheet[p] \in Row(FamilyOf[p])
    BY DEF RankInv, RowsOK, DataOK
  <2>2. \A p \in Products :
          p \notin DOMAIN rows <=> FamilyOf[p] = "FUND_PUBLIC" /\ sheet[p]["prvo_pbff_desc"] # "public"
    BY <2>1 DEF Mapped, Included
  <2>3. Validated
    <3>1. ASSUME NEW p \in DOMAIN rows, FamilyOf[p] = "BOND_KR"
          PROVE  [field |-> "buyable_quantity", flag |-> "INVALID_FOR_DECISION"] \in rows[p].issues
      <4>1. "buyable_quantity" \in MetricFields("BOND_KR")
        BY FourFamilies
      <4>2. "INVALID_FOR_DECISION" \in AssessMetric("buyable_quantity", sheet[p])
        BY DEF AssessMetric, Severity
      <4> QED
        BY <2>1, <3>1, <4>1, <4>2, IssuesAre, RowsAre
    <3>2. ASSUME NEW p \in DOMAIN rows, FamilyOf[p] = "FUND_PUBLIC"
          PROVE  [field |-> "fd_wk1_ern_r", flag |-> "FEATURE_NOT_AVAILABLE_FOR_MARKET"] \in rows[p].issues
      <4>1. "fd_wk1_ern_r" \in MetricFields("FUND_PUBLIC")
        BY FourFamilies
      <4>2. "FEATURE_NOT_AVAILABLE_FOR_MARKET" \in AssessMetric("fd_wk1_ern_r", sheet[p])
        BY DEF AssessMetric, Severity
      <4> QED
        BY <2>1, <3>2, <4>1, <4>2, IssuesAre, RowsAre
    <3> QED
      BY <3>1, <3>2 DEF Validated
  <2>4. ASSUME NEW family, NEW p \in Matching(family)
        PROVE  Usable(p, plan.sorts) \/ GapOnRecord(p)
    <3>1. p \in DOMAIN rows /\ p \in Products
      BY <2>1 DEF Matching, Mapped
    <3> QED
      BY <2>1, <3>1, GapsAreOnRecord
  <2> QED
    BY <2>2, <2>3, <2>4 DEF LossesAreOnRecord
<1> QED
  BY <1>1, AlwaysRankInv, PTL

=============================================================================
