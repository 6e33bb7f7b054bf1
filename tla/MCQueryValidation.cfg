\* Questions of up to three of the parser's phrases; specs of every intent, with at
\* most one clause of each kind, when no rule takes the question.
SPECIFICATION RulesSpec
CHECK_DEADLOCK FALSE
CONSTANTS
  Families = {"BOND_KR", "ETF_KR", "ETF_GLOBAL", "FUND_PUBLIC"}
  Registered = {"product_name", "manager_or_issuer", "asset_type", "investment_region", "credit_grade",
                "as_of_date", "coupon_rate", "remaining_days", "applied_yield", "aum", "expense_ratio",
                "return_1d", "return_1y", "price", "nav", "nav_discount"}
  Unknown = "unknown"
  TypeOf <- MCTypeOf
  OperatorsOf <- MCOperatorsOf
  FamiliesOf <- MCFamiliesOf
  ColumnsOf <- MCColumnsOf
  Misnamed <- MCMisnamed
  Filterable = {"product_name", "manager_or_issuer", "asset_type", "investment_region", "credit_grade",
                "as_of_date", "coupon_rate", "remaining_days", "applied_yield", "aum", "expense_ratio",
                "return_1d", "return_1y", "price", "nav", "nav_discount"}
  RankBlocked = {"nav_discount"}
  Specs <- MCSpecs
  MaxWords = 3
  Tops = {0, 5, 50}
INVARIANTS TypeOK AcceptedSpecsRun RulesAskForWhatExists RefusalsHold MostSpecificRuleWins
