------------------------- MODULE MCQueryValidation -------------------------
(***************************************************************************)
(* The rules and the validation over the fields that the rules, and the    *)
(* specs tried here, refer to: their types, operators, families and        *)
(* columns are those of the registry and of the curated tables.  A spec    *)
(* that HCX writes has at most one filter, one sort and one metric.        *)
(***************************************************************************)
EXTENDS KoreanRules

MCTypeOf == [f \in Registered |->
  CASE f \in {"product_name", "manager_or_issuer", "asset_type", "investment_region", "credit_grade"} -> "string"
    [] f = "as_of_date" -> "date"
    [] OTHER -> "number"]

MCOperatorsOf == [f \in Registered |->
  {"EQ", "IS_NULL", "NOT_NULL"} \cup
  CASE f = "product_name" -> {"CONTAINS"}
    [] f = "credit_grade" -> {"IN"}
    [] f \in {"manager_or_issuer", "asset_type", "investment_region"} -> {"IN", "CONTAINS"}
    [] OTHER -> {"GTE", "LTE", "BETWEEN"}]

MCFamiliesOf == [f \in Registered |->
  CASE f \in {"product_name", "asset_type", "as_of_date"} -> Families
    [] f = "manager_or_issuer" -> Families \ {"FUND_PUBLIC"}
    [] f \in {"investment_region", "aum"} -> Families \ {"BOND_KR"}
    [] f \in {"coupon_rate", "credit_grade", "remaining_days", "applied_yield"} -> {"BOND_KR"}
    [] f \in {"expense_ratio", "return_1d"} -> {"ETF_KR", "ETF_GLOBAL"}
    [] f = "return_1y" -> {"FUND_PUBLIC"}
    [] f \in {"price", "nav", "nav_discount"} -> {"ETF_GLOBAL"}]

MCMisnamed == [f \in Registered |-> IF f = "expense_ratio" THEN {"ETF_GLOBAL"} ELSE {}]

MCColumnsOf == [f \in Registered |->
  CASE f \in {"credit_grade", "nav_discount"} -> {}
    [] f = "as_of_date" -> {"BOND_KR", "FUND_PUBLIC"}
    [] OTHER -> MCFamiliesOf[f] \ MCMisnamed[f]]

Scalar(k) == [list |-> FALSE, items |-> <<k>>]
Array(items) == [list |-> TRUE, items |-> items]
Values == {[list |-> FALSE, items |-> <<>>], Array(<<>>)}
            \cup {Scalar(k) : k \in Kinds} \cup {Array(<<k>>) : k \in Kinds}
            \cup {Array(<<k, l>>) : k, l \in {"text", "number"}}

AtMostOne(S) == {<<>>} \cup {<<x>> : x \in S}

MCSpecs ==
  [intent : Intents, families : {<<"BOND_KR">>, <<"ETF_GLOBAL">>, <<"BOND_KR", "ETF_GLOBAL">>},
   filters : AtMostOne([field : {"product_name", "credit_grade", "coupon_rate", "as_of_date",
                                 "nav_discount", Unknown},
                        operator : {"EQ", "IN", "BETWEEN", "CONTAINS", "IS_NULL"}, value : Values]),
   sorts : AtMostOne({"coupon_rate", "nav_discount"}),
   metrics : AtMostOne({"coupon_rate", "product_name", "expense_ratio"}),
   entities : {FALSE}, relations : {FALSE}]
=============================================================================
