\* data_policy.md: INVALID_FOR_DECISION values take no part in ranking.
SPECIFICATION Spec
CHECK_DEADLOCK FALSE
CONSTANTS
  Products = {1, 2, 3, 4, 5, 6}
  FamilyOf <- MCFamilyOf
  Fields = {"applied_yield", "coupon_rate", "duration", "issue_balance", "as_of_date", "return_1d",
            "remaining_days", "evaluation_price", "trading_value", "aum", "expense_ratio", "price",
            "nav", "volume", "return_1m", "return_1y"}
  Null = Null
  Plans <- OneFamilyPlans
  SheetsFor <- MCSheetsFor
  MaxClauses = 2
INVARIANTS InvalidMetricsDoNotRank
