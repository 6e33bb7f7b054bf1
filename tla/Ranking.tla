------------------------------ MODULE Ranking ------------------------------
(***************************************************************************)
(* How a sheet of raw rows becomes a ranked list: build_curated maps the   *)
(* rows, ProductRepository.query ranks and cuts those of each family that  *)
(* pass the filters, SqlRetriever merges the families, RelationRetriever   *)
(* finds the products that hold an entity, and the two are merged.         *)
(*                                                                         *)
(* A product is a number: its place in the order of source_key, which      *)
(* breaks every tie, and of uids.  A process iterates over a set of uids   *)
(* in an order that depends on the seed of its string hashes.              *)
(***************************************************************************)
EXTENDS Curation, FiniteSets, SequencesExt

CONSTANTS
  Products,      \* raw rows, numbered in source_key order
  FamilyOf,      \* FamilyOf[p]: the family whose sheet holds p
  Fields,        \* logical fields a plan sorts by
  Plans,         \* what build_safe_plan can return
  SheetsFor,     \* SheetsFor[plan]: the contents of the Excel sheets to search
  MaxClauses     \* bound: HOLDS clauses of a relation search

NoPriority == 10000
Sort == [field : Fields, asc : BOOLEAN, priority : 1 .. NoPriority]

Intents == {"FILTER_AND_RANK", "CROSS_FAMILY_SEARCH", "RELATION_SEARCH"}

\* Each family is searched once, and a limit is from 1 to 10.
Plan ==
  {pl \in [intent : Intents, families : Seq(Families), matches : SUBSET Products,
           sorts : Seq(Sort), comparable : BOOLEAN, limit : 1 .. 10] :
     \A i, j \in DOMAIN pl.families : pl.families[i] = pl.families[j] => i = j}

\* What the rows of a family's sheet have in the columns that its mapper reads:
\* cells, and in a column of numbers a number, nothing, or a text that is none.
Row(family) ==
  LET fields  == MetricFields(family) \cup Unassessed[family] \cup DateFields[family]
                   \cup Switches[family]
      numbers == DOMAIN PlaceOf[family] \cup Unassessed[family]
  IN  {row \in [fields -> Cells] : \A f \in numbers : row[f] \in DOMAIN Number \cup {"empty", "word"}}

ASSUME RankingAssumption ==
  /\ Products \subseteq Nat /\ IsFiniteSet(Products)
  /\ FamilyOf \in [Products -> Families]
  /\ Null \notin Int
  /\ MaxClauses \in Nat

ASSUME PlansAssumption ==
  /\ Plans \subseteq Plan
  /\ \A pl \in Plans : \A s \in SheetsFor[pl] :
       DOMAIN s = Products /\ \A p \in Products : s[p] \in Row(FamilyOf[p])

VARIABLES
  sheet,     \* sheet[p]: the cells of row p, by source field
  rows,      \* rows[p]: the curated product of p, for the rows that have one
  holdings,  \* holdings[p]: the clauses whose entity p holds, ACTIVE
  plan,      \* the plan of the search
  pc,        \* "build", "failed", "sql", "relation", "merge", "done"
  batches,   \* candidates of the families queried so far
  sql,       \* candidates of SqlRetriever
  relation,  \* candidates and evidences of RelationRetriever
  result     \* candidates of the merged result

data == <<sheet, rows, holdings, plan>>
vars == <<data, pc, batches, sql, relation, result>>

\* S in the order of a strict total order: each element after as many as come
\* before it.
ByRank(S, rank) == [i \in 1 .. Cardinality(S) |-> CHOOSE x \in S : rank[x] = i - 1]
Ordered(S, Before(_, _)) == ByRank(S, [x \in S |-> Cardinality({y \in S : Before(y, x)})])

Less(k, l) == k[1] < l[1] \/ (k[1] = l[1] /\ k[2] < l[2])

Take(s, n) == SubSeq(s, 1, IF Len(s) < n THEN Len(s) ELSE n)

\* What is left of s when only the elements of S are.
Only(s, S) ==
  LET places == Ordered({i \in DOMAIN s : s[i] \in S}, <)
  IN  [i \in DOMAIN places |-> s[places[i]]]

\* The elements of several lists, each at its place in its list.
Places(lists) == UNION {{<<l, i>> : i \in DOMAIN lists[l]} : l \in DOMAIN lists}
ReadOff(lists, places) == [i \in DOMAIN places |-> lists[places[i][1]][places[i][2]]]

\* One list after the other.
Concat(lists) == ReadOff(lists, Ordered(Places(lists), Less))

-----------------------------------------------------------------------------
\* _metric_value: a value that Decimal cannot read is no metric.
MetricValue(p, f) == rows[p].values[f]

\* One component of the sort key; a product without the metric comes last of an
\* ascending sort, and among the zeros of a descending one.
SortKey(p, sort) ==
  LET v == MetricValue(p, sort.field)
  IN  CASE v = Null /\ sort.asc  -> <<1, 0>>
        [] v = Null /\ ~sort.asc -> <<0, 0>>
        [] v # Null /\ sort.asc  -> <<0, v>>
        [] OTHER                 -> <<0, -v>>

Precedes(p, q, sorts) ==
  LET Tied(i) == SortKey(p, sorts[i]) = SortKey(q, sorts[i])
  IN  \/ \E i \in DOMAIN sorts : /\ Less(SortKey(p, sorts[i]), SortKey(q, sorts[i]))
                                 /\ \A j \in 1 .. i - 1 : Tied(j)
      \/ p < q /\ \A i \in DOMAIN sorts : Tied(i)

LexicographicSort(S, sorts) == Ordered(S, LAMBDA p, q : Precedes(p, q, sorts))

\* Stable: equal priorities keep the order of the plan.
ByPriority(sorts) ==
  LET Earlier(i, j) == \/ sorts[i].priority < sorts[j].priority
                       \/ sorts[i].priority = sorts[j].priority /\ i < j
      places == Ordered(DOMAIN sorts, Earlier)
  IN  [i \in DOMAIN sorts |-> sorts[places[i]]]

Better(v, w, sort) == IF sort.asc THEN v < w ELSE v > w

HasMetrics(p, sorts) == \A i \in DOMAIN sorts : MetricValue(p, sorts[i].field) # Null

Dominates(p, q, sorts) ==
  LET Beats(a, b, i) == Better(MetricValue(a, sorts[i].field),
                               MetricValue(b, sorts[i].field), sorts[i])
  IN  /\ HasMetrics(p, sorts) /\ HasMetrics(q, sorts)
      /\ \A i \in DOMAIN sorts : ~Beats(q, p, i)
      /\ \E i \in DOMAIN sorts : Beats(p, q, i)

ParetoFrontier(S, sorts) ==
  {p \in S : HasMetrics(p, sorts) /\ ~\E q \in S : Dominates(q, p, sorts)}

Prioritised(sorts) == \E i \in DOMAIN sorts : sorts[i].priority # NoPriority
UsePareto(sorts) == Len(sorts) > 1 /\ ~Prioritised(sorts)

SortCandidates(S, sorts) ==
  IF UsePareto(sorts) THEN LexicographicSort(ParetoFrontier(S, sorts), sorts)
                      ELSE LexicographicSort(S, ByPriority(sorts))

\* A number of zero in a row that carries INVALID_FOR_DECISION: every bond's.
FlaggedZero(p, f) ==
  f # DateField /\ MetricValue(p, f) = 0 /\ "INVALID_FOR_DECISION" \in rows[p].flags

\* A value that is there, and not a flagged zero.
Usable(p, sorts) ==
  \A i \in DOMAIN sorts : sorts[i].field \in rows[p].there /\ ~FlaggedZero(p, sorts[i].field)

\* The curated products of a family that pass the filters.
Matching(family) == {p \in plan.matches \cap DOMAIN rows : FamilyOf[p] = family}

\* ProductRepository.query: rank, drop what must not be ranked, cut.
Query(family, uids) ==
  LET S == Matching(family) \cap uids
  IN  Take(Only(SortCandidates(S, plan.sorts), {p \in S : Usable(p, plan.sorts)}), plan.limit)

-----------------------------------------------------------------------------
\* Mutant: the families are listed one after the other.
RoundRobin_Concatenates(bs) == Concat(bs)

\* merge_cross_family takes the first of each family, then the second of each.
RoundRobin(bs) ==
  LET Sooner(k, l) == Less(<<k[2], k[1]>>, <<l[2], l[1]>>)
  IN  ReadOff(bs, Ordered(Places(bs), Sooner))

\* With one metric the batches are sorted, by source_key.
MergeCrossFamily(bs) ==
  IF plan.comparable THEN Ordered(UNION {ToSet(bs[b]) : b \in DOMAIN bs}, <)
                     ELSE RoundRobin(bs)

\* Mutant: the merged list is not cut to the limit.
MergeFamilies_Uncut(bs) ==
  IF plan.intent = "CROSS_FAMILY_SEARCH" THEN MergeCrossFamily(bs) ELSE Concat(bs)

MergeFamilies(bs) ==
  Take(IF plan.intent = "CROSS_FAMILY_SEARCH" THEN MergeCrossFamily(bs) ELSE Concat(bs),
       plan.limit)

\* The holdings of every HOLDS clause, one clause after the other, by product.
HoldingEvidences ==
  LET pairs  == UNION {{<<c, p>> : c \in holdings[p]} : p \in DOMAIN holdings}
      sorted == Ordered(pairs, Less)
  IN  [i \in DOMAIN sorted |-> sorted[i][2]]

\* RelationRetriever.retrieve_sync: the products held are queried family by
\* family, then evidences and candidates are cut, each alone.
RetrieveRelation ==
  LET evidences  == HoldingEvidences
      candidates == Concat([i \in DOMAIN plan.families |->
                              Query(plan.families[i], ToSet(evidences))])
      kept == IF candidates = <<>> THEN evidences ELSE Only(evidences, ToSet(candidates))
  IN  [candidates |-> Take(candidates, plan.limit), evidences |-> Take(kept, plan.limit)]

\* Mutant: every candidate is kept, related or not.
MergeRelation_KeepsAll ==
  {IF relation.candidates # <<>> THEN relation.candidates ELSE sql}

\* merge_retrieval_results in mode RELATION_INTERSECT: the candidates that an
\* evidence names, listed in the order of a set, which is any order.
MergeRelation ==
  LET named == ToSet(relation.evidences)
      both  == named \cap ToSet(relation.candidates)
  IN  CASE named = {} /\ sql = <<>> -> {relation.candidates}
        [] named = {} /\ sql # <<>> -> {sql}
        [] named # {} /\ both # {}  -> SetToSeqs(both)
        [] OTHER                    -> {Only(sql, named)}

-----------------------------------------------------------------------------
Empty == [candidates |-> <<>>, evidences |-> <<>>]

\* The products of the families searched that may hold an entity.
Holders(pl) == IF pl.intent = "RELATION_SEARCH"
               THEN {p \in Products : FamilyOf[p] \in ToSet(pl.families)} ELSE {}

Init == /\ plan \in Plans
        /\ sheet \in SheetsFor[plan]
        /\ holdings \in [Holders(plan) -> SUBSET (1 .. MaxClauses)]
        /\ rows = [p \in {} |-> Null]
        /\ pc = "build" /\ batches = <<>> /\ sql = <<>> /\ result = <<>>
        /\ relation = Empty

\* build_curated maps every raw row in one transaction; one row that cannot be
\* mapped rolls all of it back.
Build ==
  /\ pc = "build"
  /\ IF \E p \in Products : Fails(FamilyOf[p], sheet[p])
     THEN pc' = "failed" /\ UNCHANGED rows
     ELSE /\ pc' = "sql"
          /\ rows' = [p \in {q \in Products : Included(FamilyOf[q], sheet[q])} |->
                        MapRow(FamilyOf[p], sheet[p], Fields)]
  /\ UNCHANGED <<sheet, holdings, plan, batches, sql, relation, result>>

\* One family of SqlRetriever.retrieve_sync.
QueryFamily ==
  /\ pc = "sql" /\ Len(batches) < Len(plan.families)
  /\ batches' = Append(batches, Query(plan.families[Len(batches) + 1], Products))
  /\ UNCHANGED <<data, pc, sql, relation, result>>

FinishSql ==
  /\ pc = "sql" /\ Len(batches) = Len(plan.families)
  /\ sql' = MergeFamilies(batches)
  /\ pc' = IF plan.intent = "RELATION_SEARCH" THEN "relation" ELSE "merge"
  /\ UNCHANGED <<data, batches, relation, result>>

FinishRelation ==
  /\ pc = "relation"
  /\ relation' = RetrieveRelation
  /\ pc' = "merge"
  /\ UNCHANGED <<data, batches, sql, result>>

MergeResults ==
  /\ pc = "merge"
  /\ result' \in IF plan.intent = "RELATION_SEARCH" THEN MergeRelation ELSE {sql}
  /\ pc' = "done"
  /\ UNCHANGED <<data, batches, sql, relation>>

Next == Build \/ QueryFamily \/ FinishSql \/ FinishRelation \/ MergeResults

Spec == Init /\ [][Next]_vars

-----------------------------------------------------------------------------
TypeOK ==
  /\ pc \in {"build", "failed", "sql", "relation", "merge", "done"}
  /\ plan \in Plan /\ \A p \in Products : sheet[p] \in Row(FamilyOf[p])
  /\ DOMAIN rows \subseteq Products
  /\ batches \in Seq(Seq(Products)) /\ Len(batches) <= Len(plan.families)
  /\ \A s \in {sql, result, relation.candidates, relation.evidences} :
       s \in Seq(Products) /\ Len(s) <= plan.limit

\* What the Excel row of p has for a logical field: a number, or nothing.  A bond's
\* date is the number of its eight digits, a fund's is none.
InSheet(p, f) ==
  LET columns == ColumnOf[FamilyOf[p]]
  IN  IF /\ f \in DOMAIN columns /\ columns[f] # "fd_price_bas_dt"
         /\ sheet[p][columns[f]] \in DOMAIN Number
      THEN Number[sheet[p][columns[f]]] ELSE Null

\* The row has a date: a bond whatever its cell says, a fund one that can be read.
Dated(p) ==
  \/ FamilyOf[p] = "BOND_KR" /\ sheet[p]["info_base_dt"] # "empty"
  \/ FamilyOf[p] = "FUND_PUBLIC" /\ sheet[p]["fd_price_bas_dt"] \in Dates

\* A row that can be ranked by its sheet alone: a number for every sort, for a
\* bond one that is not zero; a date need only be there.
Rankable(p, sorts) ==
  \A i \in DOMAIN sorts :
    IF sorts[i].field = DateField THEN Dated(p)
    ELSE InSheet(p, sorts[i].field) \notin (IF FamilyOf[p] = "BOND_KR" THEN {Null, 0} ELSE {Null})

\* What the sheet has for a sort.  A date that spells no number counts as none: it
\* comes last of an ascending sort, and among the zeros of a descending one.
Worth(p, sort) ==
  IF InSheet(p, sort.field) = Null /\ ~sort.asc THEN 0 ELSE InSheet(p, sort.field)
Prefers(v, w, sort) == v # Null /\ (w = Null \/ Better(v, w, sort))

\* Outranks(q, p): the plan prefers q to p.  The most urgent sort on which the
\* two rows differ decides.
Outranks(q, p) ==
  LET sorts == plan.sorts
      MoreUrgent(i, j) == \/ sorts[i].priority < sorts[j].priority
                          \/ sorts[i].priority = sorts[j].priority /\ i < j
      Differ(i) == Worth(p, sorts[i]) # Worth(q, sorts[i])
  IN  \E i \in DOMAIN sorts :
        /\ Differ(i)
        /\ \A j \in DOMAIN sorts : MoreUrgent(j, i) => ~Differ(j)
        /\ Prefers(Worth(q, sorts[i]), Worth(p, sorts[i]), sorts[i])

\* q matches p on every sort and beats it on one; both have a number for each.
Covers(q, p, sorts) ==
  /\ \A i \in DOMAIN sorts : Null \notin {InSheet(q, sorts[i].field), InSheet(p, sorts[i].field)}
  /\ \A i \in DOMAIN sorts : ~Better(InSheet(p, sorts[i].field), InSheet(q, sorts[i].field), sorts[i])
  /\ \E i \in DOMAIN sorts : Better(InSheet(q, sorts[i].field), InSheet(p, sorts[i].field), sorts[i])

\* A batch is the top of the Excel sheet: the public rows that can be ranked, less
\* those that another row covers, or that lack a number, when no sort has a
\* priority; as many as fit, none outranked by one that comes later or is left out.
BatchIsTop(family, batch) ==
  LET sorts  == plan.sorts
      S      == {p \in plan.matches : FamilyOf[p] = family /\ Included(family, sheet[p])}
      ranked == {p \in S : /\ Rankable(p, sorts)
                           /\ UsePareto(sorts) =>
                                /\ \A i \in DOMAIN sorts : InSheet(p, sorts[i].field) # Null
                                /\ ~\E q \in S : Covers(q, p, sorts)}
      room   == IF Cardinality(ranked) < plan.limit THEN Cardinality(ranked) ELSE plan.limit
  IN  /\ ToSet(batch) \subseteq ranked
      /\ Len(batch) = room /\ Cardinality(ToSet(batch)) = room
      /\ \A i \in DOMAIN batch :
           \A q \in ranked \ {batch[j] : j \in 1 .. i} : ~Outranks(q, batch[i])

TopOfTheSheet == \A i \in DOMAIN batches : BatchIsTop(plan.families[i], batches[i])

\* The content checks of validate_curated; its counts are constants of the data.
Validated ==
  /\ \A p \in DOMAIN rows : FamilyOf[p] = "BOND_KR" =>
       [field |-> "buyable_quantity", flag |-> "INVALID_FOR_DECISION"] \in rows[p].issues
  /\ \A p \in DOMAIN rows : FamilyOf[p] = "FUND_PUBLIC" =>
       [field |-> "fd_wk1_ern_r", flag |-> "FEATURE_NOT_AVAILABLE_FOR_MARKET"] \in rows[p].issues

\* The sort field by which p cannot be ranked has an issue that says so, unless its
\* column is one of those that are not assessed, or the cell a text that is no number.
GapOnRecord(p) ==
  \E j \in DOMAIN plan.sorts :
    LET f == plan.sorts[j].field
        family == FamilyOf[p]
    IN  \/ f \notin DOMAIN ColumnOf[family]
        \/ ColumnOf[family][f] \notin DOMAIN PlaceOf[family]
        \/ sheet[p][ColumnOf[family][f]] = "word"
        \/ \E issue \in rows[p].issues :
             \/ issue = [field |-> ColumnOf[family][f], flag |-> "MISSING"]
             \/ issue.flag = "INVALID_FOR_DECISION" /\ InSheet(p, f) = 0

\* Between the sheet and a ranking nothing is lost in silence: a build that commits
\* has a product for every row but those of private funds, passes validate_curated
\* whatever the cells, and a product that a ranking leaves out for its value has a
\* quality issue that says so.
LossesAreOnRecord ==
  pc \notin {"build", "failed"} =>
    /\ \A p \in Products :
         p \notin DOMAIN rows <=> FamilyOf[p] = "FUND_PUBLIC" /\ sheet[p]["prvo_pbff_desc"] # "public"
    /\ Validated
    /\ \A i \in DOMAIN batches : \A p \in Matching(plan.families[i]) :
         Usable(p, plan.sorts) \/ GapOnRecord(p)

\* A cross-family search without a common metric gives every family its turn: no
\* prefix of the answer holds two more of one family than of another that still
\* had a candidate to give.
FamiliesTakeTurns ==
  (pc = "done" /\ plan.intent = "CROSS_FAMILY_SEARCH" /\ ~plan.comparable) =>
    \A n \in DOMAIN result :
      LET Given(f) == Cardinality({i \in 1 .. n : FamilyOf[result[i]] = f})
      IN  \A i, j \in DOMAIN plan.families :
            \/ Given(plan.families[i]) <= Given(plan.families[j]) + 1
            \/ Given(plan.families[j]) = Len(batches[j])

\* Evidences and candidates are cut to the limit independently and joined after:
\* every product of an answer to a question about holdings still has an evidence.
CandidatesKeepEvidence ==
  (pc = "done" /\ plan.intent = "RELATION_SEARCH" /\ relation.evidences # <<>>) =>
    ToSet(result) \subseteq ToSet(relation.evidences)

\* What data_policy.md says of ranking (the run claim_metrics): a flagged zero
\* takes part in none, so it keeps no row out of one.
InvalidMetricsDoNotRank ==
  \A i \in DOMAIN batches :
    LET S == {p \in Matching(plan.families[i]) : Usable(p, plan.sorts)}
    IN  S # {} /\ (\A p \in S : HasMetrics(p, plan.sorts)) => batches[i] # <<>>
=============================================================================
