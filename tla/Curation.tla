------------------------------ MODULE Curation ------------------------------
(***************************************************************************)
(* What build_curated makes of one raw row: its cells as the Excel reader  *)
(* classified them, the quality of each metric, the columns of the product *)
(* table and the quality issues beside it; and what validate_curated asks  *)
(* of the result.                                                          *)
(*                                                                         *)
(* A cell is one of a few strings that the rules tell apart.  "0.00" is a  *)
(* text that float() reads; "99990000" eight digits that are no date;      *)
(* "day" stands for a date with hyphens and "moment" for a date cell of    *)
(* Excel, which is kept with its time.  Numbers stand for every number of  *)
(* their kind.                                                             *)
(***************************************************************************)
EXTENDS Integers, Sequences

CONSTANT Null  \* no value

\* The number that a cell spells: for float() and for Decimal the same.
Number == [c \in {"0", "0.00", "1", "2", "500", "20250711", "20250801", "99990000", "99991231"} |->
             CASE c \in {"0", "0.00"} -> 0 [] c = "1" -> 1 [] c = "2" -> 2 [] c = "500" -> 500
               [] c = "20250711" -> 20250711 [] c = "20250801" -> 20250801
               [] c = "99990000" -> 99990000 [] c = "99991231" -> 99991231]

Cells == DOMAIN Number \cup {"empty", "word", "day", "moment", "N", "public", "private"}

\* classify_cell_value: an empty cell is not a zero, and only these zeros are.
ValueState(c) == CASE c = "empty" -> "empty" [] c = "0" -> "zero" [] OTHER -> Null

\* _to_numeric.
ToNumeric(c) == IF c \in DOMAIN Number THEN Number[c] ELSE Null

\* parse_as_of_date: the cells that are dates; on eight digits that are none it raises.
Dates == {"20250711", "20250801", "day", "moment"}
Unparseable(c) == c = "99990000"

-----------------------------------------------------------------------------
\* The metrics of a family, in the order of its mapper.
Metrics ==
  [BOND_KR     |-> <<"remaining_days", "applied_yield", "dur", "eval_price", "buyable_quantity">>,
   ETF_KR      |-> <<"du_er_1d", "du_last_aum", "cu_charge_rt", "cu_base_index", "pd_lste_dt">>,
   ETF_GLOBAL  |-> <<"du_clpr", "du_last_nav", "du_last_aum", "du_er_1d", "du_diff_rt">>,
   FUND_PUBLIC |-> <<"fd_wk1_ern_r", "fd_mm1_ern_r", "fd_yr1_ern_r", "fd_nast_suma">>]

Families == DOMAIN Metrics

\* Mutant: a metric is added to the list, not to the places after it.
PlaceOf_OffByOne ==
  [BOND_KR     |-> [remaining_days |-> 1, applied_yield |-> 1, dur |-> 2, eval_price |-> 3],
   ETF_KR      |-> [du_er_1d |-> 1, du_last_aum |-> 2, cu_charge_rt |-> 3],
   ETF_GLOBAL  |-> [du_clpr |-> 1, du_last_nav |-> 2, du_last_aum |-> 3, du_er_1d |-> 4],
   FUND_PUBLIC |-> [fd_mm1_ern_r |-> 1, fd_yr1_ern_r |-> 2, fd_nast_suma |-> 3]]

\* The numeric columns that are filled from a metric, by its place in the list.
PlaceOf ==
  [BOND_KR     |-> [remaining_days |-> 1, applied_yield |-> 2, dur |-> 3, eval_price |-> 4],
   ETF_KR      |-> [du_er_1d |-> 1, du_last_aum |-> 2, cu_charge_rt |-> 3],
   ETF_GLOBAL  |-> [du_clpr |-> 1, du_last_nav |-> 2, du_last_aum |-> 3, du_er_1d |-> 4],
   FUND_PUBLIC |-> [fd_mm1_ern_r |-> 2, fd_yr1_ern_r |-> 3, fd_nast_suma |-> 4]]

\* The numeric columns that are read from the row and not assessed.
Unassessed == [BOND_KR     |-> {"srfc_irt", "isu_bal_amt"},
               ETF_KR      |-> {},
               ETF_GLOBAL  |-> {"du_val_1d", "du_vol_1d"},
               FUND_PUBLIC |-> {}]

\* The fields whose dates are parsed, for a metric, a column or the row.
DateFields ==
  [BOND_KR     |-> {"info_base_dt", "sale_yield_base_dt", "exg_close_price_base_dt"},
   ETF_KR      |-> {"du_upt_dt", "wu_upt_dt", "pd_lste_dt"},
   ETF_GLOBAL  |-> {"du_upt_dt", "du_clpr_base_dt", "du_nav_base_dt"},
   FUND_PUBLIC |-> {"fd_price_bas_dt"}]

\* The fields that decide a flag, or whether there is a product at all.
Switches == [BOND_KR     |-> {},
             ETF_KR      |-> {},
             ETF_GLOBAL  |-> {"du_base_dt_match_yn"},
             FUND_PUBLIC |-> {"prvo_pbff_desc"}]

\* The fields that are kept as they are, in columns of sixteen characters.
TextColumns == [BOND_KR     |-> {"info_base_dt"},
                ETF_KR      |-> {"pd_lste_dt"},
                ETF_GLOBAL  |-> {},
                FUND_PUBLIC |-> {}]

\* resolve_column: the column of a logical field.  Names and labels are left out.
ColumnOf ==
  [BOND_KR     |-> [remaining_days |-> "remaining_days", applied_yield |-> "applied_yield",
                    coupon_rate |-> "srfc_irt", duration |-> "dur",
                    evaluation_price |-> "eval_price", issue_balance |-> "isu_bal_amt",
                    as_of_date |-> "info_base_dt"],
   ETF_KR      |-> [return_1d |-> "du_er_1d", aum |-> "du_last_aum",
                    expense_ratio |-> "cu_charge_rt"],
   ETF_GLOBAL  |-> [return_1d |-> "du_er_1d", aum |-> "du_last_aum", price |-> "du_clpr",
                    nav |-> "du_last_nav", volume |-> "du_vol_1d",
                    trading_value |-> "du_val_1d"],
   FUND_PUBLIC |-> [return_1m |-> "fd_mm1_ern_r", return_1y |-> "fd_yr1_ern_r",
                    aum |-> "fd_nast_suma", as_of_date |-> "fd_price_bas_dt"]]

\* The field whose columns are not of a numeric type: a bond's keeps the text of the
\* cell, a fund's is a DATE, and the ETFs have none.
DateField == "as_of_date"

-----------------------------------------------------------------------------
Severity ==
  [MISSING                          |-> "WARN",
   ZERO_VALUE                       |-> "WARN",
   PARTIAL_COVERAGE                 |-> "INFO",
   SENTINEL_OR_INVALID_DATE         |-> "EXCLUDE_METRIC",
   DATE_MISMATCH                    |-> "EXCLUDE_METRIC",
   FEATURE_NOT_AVAILABLE_FOR_MARKET |-> "EXCLUDE_METRIC",
   INVALID_FOR_DECISION             |-> "EXCLUDE_METRIC",
   OUTLIER_REVIEW                   |-> "EXCLUDE_METRIC",
   JOIN_CONTAMINATION               |-> "BLOCK_ANSWER"]

\* The flags that a mapper adds to those of assess_metric.  Row is a function
\* from source fields to cells.
ExtraFlags(field, row) ==
  {f \in DOMAIN Severity :
     \/ /\ f = "PARTIAL_COVERAGE"
        /\ field \in {"cu_charge_rt", "cu_base_index"} /\ ValueState(row[field]) = "empty"
     \/ /\ f = "SENTINEL_OR_INVALID_DATE"
        /\ field = "pd_lste_dt" /\ row[field] = "99991231"
     \/ /\ f = "DATE_MISMATCH"
        /\ field \in {"du_clpr", "du_last_nav", "du_diff_rt"} /\ row["du_base_dt_match_yn"] = "N"}

\* assess_metric: the quality flags of a metric.
AssessMetric(field, row) ==
  LET c == row[field] IN
  ExtraFlags(field, row) \cup
  {f \in DOMAIN Severity :
     \/ f = "INVALID_FOR_DECISION" /\ field = "buyable_quantity"
     \/ f = "FEATURE_NOT_AVAILABLE_FOR_MARKET" /\ field = "fd_wk1_ern_r"
     \/ f = "MISSING" /\ ValueState(c) = "empty"
     \/ f = "ZERO_VALUE" /\ ValueState(c) = "zero"
     \/ f = "SENTINEL_OR_INVALID_DATE" /\ c = "99991231"
     \/ /\ f = "OUTLIER_REVIEW"
        /\ field = "applied_yield" /\ c \in DOMAIN Number /\ Number[c] > 100}

MetricFields(family) == {Metrics[family][i] : i \in DOMAIN Metrics[family]}

\* The mapper of a family has no product for a private fund, and no end for a
\* date that cannot be parsed; PostgreSQL refuses a text that its column is too
\* short for.
Included(family, row) == family = "FUND_PUBLIC" => row["prvo_pbff_desc"] = "public"
Fails(family, row) ==
  /\ Included(family, row)
  /\ \/ \E field \in DateFields[family] : Unparseable(row[field])
     \/ \E field \in TextColumns[family] : row[field] = "moment"

\* What Decimal reads in a column of the product: the number of a metric, by its
\* place, or of the row; the digits of a text; nothing in a date.
Column(family, row, column) ==
  CASE column \in DOMAIN PlaceOf[family] ->
         ToNumeric(row[Metrics[family][PlaceOf[family][column]]])
    [] column \in Unassessed[family] \cup TextColumns[family] -> ToNumeric(row[column])
    [] OTHER -> Null

\* The column has a value: a number, any text, or a date.
Filled(family, row, column) ==
  \/ Column(family, row, column) # Null
  \/ column \in TextColumns[family] /\ row[column] # "empty"
  \/ column = "fd_price_bas_dt" /\ row[column] \in Dates

\* Mutant: warnings are not kept.
IssuesOf_WithoutWarnings(family, row) ==
  UNION {{[field |-> m, flag |-> f] : f \in {g \in AssessMetric(m, row) : Severity[g] # "WARN"}} :
           m \in MetricFields(family)}

\* Every flag of every metric is a product_quality_issue.
IssuesOf(family, row) ==
  UNION {{[field |-> m, flag |-> f] : f \in AssessMetric(m, row)} : m \in MetricFields(family)}

\* map_bond_kr, map_etf_kr, map_etf_global and map_fund_public.  A row carries the
\* flags of all its metrics.
MapRow(family, row, fields) ==
  [values |-> [f \in fields |-> IF f \in DOMAIN ColumnOf[family]
                                THEN Column(family, row, ColumnOf[family][f]) ELSE Null],
   there  |-> {f \in fields \cap DOMAIN ColumnOf[family] : Filled(family, row, ColumnOf[family][f])},
   flags  |-> {i.flag : i \in IssuesOf(family, row)},
   issues |-> IssuesOf(family, row)]
=============================================================================
