------------------------------ MODULE MCRanking ------------------------------
(***************************************************************************)
(* Ranking over few products: one family with every plan of up to two      *)
(* sorts, families searched across, two families with holdings, and each   *)
(* column of each family with every kind of cell.                          *)
(***************************************************************************)
EXTENDS Ranking

MCFamilyOf == <<"BOND_KR", "BOND_KR", "BOND_KR", "ETF_KR", "FUND_PUBLIC", "ETF_GLOBAL">>

PlanOf(intent, families, matches, sorts, comparable, limit) ==
  [intent |-> intent, families |-> families, matches |-> matches, sorts |-> sorts,
   comparable |-> comparable, limit |-> limit]

SortsOf(fields, priorities) ==
  LET one == [field : fields, asc : BOOLEAN, priority : priorities]
  IN  {<<s>> : s \in one}
        \cup {st \in one \X one : /\ st[1].field # st[2].field
                                  /\ st[1].priority = NoPriority \/ st[1].priority # st[2].priority}

BondFields == {"applied_yield", "issue_balance", "as_of_date"}
Down(field) == <<[field |-> field, asc |-> FALSE, priority |-> NoPriority]>>

\* One family, preferences with and without priorities: either of them the more
\* urgent one, or none.
OneFamilyPlans ==
  {PlanOf("FILTER_AND_RANK", <<"BOND_KR">>, 1 .. 3, sorts, FALSE, limit) :
     sorts \in SortsOf(BondFields, {1, NoPriority}), limit \in 1 .. 2}

CrossPlans ==
  {PlanOf("CROSS_FAMILY_SEARCH", families, matches, sorts, comparable, limit) :
     families \in {<<"BOND_KR", "ETF_KR">>, <<"ETF_KR", "BOND_KR">>}, matches \in SUBSET (1 .. 4),
     sorts \in {<<>>, Down("applied_yield")}, comparable \in BOOLEAN, limit \in {2, 4}}
  \cup {PlanOf("CROSS_FAMILY_SEARCH", families, 4 .. 6, sorts, comparable, 2) :
     families \in {<<"ETF_KR", "FUND_PUBLIC", "ETF_GLOBAL">>, <<"FUND_PUBLIC", "ETF_GLOBAL">>},
     sorts \in {<<>>, Down("aum")}, comparable \in BOOLEAN}

RelationPlans ==
  {PlanOf("RELATION_SEARCH", families, matches, sorts, FALSE, limit) :
     families \in {<<"ETF_KR">>, <<"BOND_KR", "ETF_KR">>}, matches \in {1 .. 4, 1 .. 3},
     sorts \in {<<>>, Down("applied_yield"), Down("aum")}, limit \in {1, 2}}

\* One product, one column of it.
SheetPlans ==
  UNION {{PlanOf("FILTER_AND_RANK", <<MCFamilyOf[p]>>, {p}, Down(f), FALSE, 1) :
            f \in DOMAIN ColumnOf[MCFamilyOf[p]]} : p \in 3 .. 6}

MCPlans == OneFamilyPlans \cup CrossPlans \cup RelationPlans \cup SheetPlans

-----------------------------------------------------------------------------
\* Every cell that a mapper reads, as it usually is.
UsualRow(p) ==
  LET family == MCFamilyOf[p]
      dates  == DateFields[family]
  IN  [f \in MetricFields(family) \cup Unassessed[family] \cup dates \cup Switches[family] |->
         CASE f \in dates -> "day" [] f = "prvo_pbff_desc" -> "public"
           [] f = "du_base_dt_match_yn" -> "word" [] OTHER -> "1"]

Usual == [p \in Products |-> UsualRow(p)]

\* The cells of the columns that the plan sorts by.
SortColumns(pl, p) ==
  {ColumnOf[MCFamilyOf[p]][f] :
     f \in {pl.sorts[i].field : i \in DOMAIN pl.sorts} \cap DOMAIN ColumnOf[MCFamilyOf[p]]}

\* The rows that a plan is tried with: each sorted cell empty, a zero or a one,
\* for one family; a zero or a one for several; and of a bond's date two that are
\* numbers and one that is none.
RowsFor(pl, p) ==
  IF p \notin pl.matches THEN {Usual[p]}
  ELSE LET cells(column) == CASE column = "info_base_dt" -> {"day", "20250711", "20250801"}
                              [] pl.intent = "FILTER_AND_RANK" -> {"empty", "0", "1"}
                              [] OTHER -> {"0", "1"}
       IN  {[f \in DOMAIN Usual[p] |-> IF f \in DOMAIN c THEN c[f] ELSE Usual[p][f]] :
              c \in {d \in [SortColumns(pl, p) -> {"empty", "0", "1", "day", "20250711", "20250801"}] :
                        \A column \in DOMAIN d : d[column] \in cells(column)}}

\* For one product every kind of cell in the column, in one date, and in the
\* fields that decide a flag.
Variations(pl, p) ==
  LET Change(fields, cells) == [fields \cap DOMAIN Usual[p] -> cells]
      dates == DateFields[MCFamilyOf[p]]
  IN  {[f \in DOMAIN Usual[p] |->
          CASE f \in DOMAIN n -> n[f] [] f \in DOMAIN d -> d[f] [] f \in DOMAIN o -> o[f]
            [] OTHER -> Usual[p][f]] :
         n \in Change(SortColumns(pl, p) \ dates, {"empty", "0", "0.00", "2", "500", "word"}),
         d \in Change({"info_base_dt", "pd_lste_dt", "du_clpr_base_dt", "fd_price_bas_dt"},
                      {"empty", "day", "moment", "20250711", "99990000", "99991231"}),
         o \in Change({"buyable_quantity", "dur", "fd_wk1_ern_r"}, {"empty", "0"})
               \cup Change({"prvo_pbff_desc"}, {"public", "private"})
               \cup Change({"du_base_dt_match_yn"}, {"N", "word"})}

SheetOf(pl, p, row) == [Usual EXCEPT ![p] = row]

MCSheetsFor == [pl \in Plans |->
  IF Cardinality(pl.matches) = 1 /\ pl.intent = "FILTER_AND_RANK"
  THEN UNION {{SheetOf(pl, p, row) : row \in Variations(pl, p)} : p \in pl.matches}
  ELSE {<<r1, r2, r3, r4, r5, r6>> :
          r1 \in RowsFor(pl, 1), r2 \in RowsFor(pl, 2), r3 \in RowsFor(pl, 3),
          r4 \in RowsFor(pl, 4), r5 \in RowsFor(pl, 5), r6 \in RowsFor(pl, 6)}]
=============================================================================
