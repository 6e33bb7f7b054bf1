---------------------------- MODULE KoreanRules ----------------------------
(***************************************************************************)
(* parse_korean_finance_question: the ordered rules that turn a question   *)
(* into a QuerySpec before HCX is asked, and what becomes of the spec in   *)
(* validation and SQL.  The first rule whose words are all in the question *)
(* writes the whole spec, whatever else the question says.                 *)
(*                                                                         *)
(* A question is the set of phrases found in it; a word of this module is  *)
(* one phrase of the parser, or several between which it makes no          *)
(* difference.  Names, regions and amounts inside a question are left out: *)
(* they are the values of filters and no rule looks at them.               *)
(***************************************************************************)
EXTENDS QueryValidation, SequencesExt

CONSTANTS
  MaxWords,    \* bound: words of a question, those inside its words aside
  Tops         \* the n of a "TOP n", 0 for none

\* What the rules take from the registry: its families, the fields they name, and
\* the two refusals that the parser's guards are written for.
ASSUME RuleAssumption ==
  /\ MaxWords \in Nat /\ Tops \subseteq Nat
  /\ {"BOND_KR", "ETF_KR", "ETF_GLOBAL", "FUND_PUBLIC"} \subseteq Families
  /\ {"product_name", "manager_or_issuer", "asset_type", "investment_region", "coupon_rate",
      "remaining_days", "applied_yield", "aum", "expense_ratio", "return_1d", "return_1y",
      "price", "nav", "nav_discount"} \subseteq Registered
  /\ "GTE" \notin OperatorsOf["product_name"]
  /\ "BOND_KR" \notin FamiliesOf["investment_region"]

\* What the rules filter, rank and show by has a column wherever they do, of the
\* type they compare it with.
ASSUME ColumnAssumption ==
  /\ \A f \in {"product_name", "manager_or_issuer", "asset_type", "investment_region"} :
       f \in Filterable /\ TypeOf[f] = "string"
  /\ \A f \in {"coupon_rate", "remaining_days", "applied_yield", "aum", "expense_ratio",
               "return_1d", "return_1y", "price", "nav"} :
       f \in Filterable /\ TypeOf[f] = "number"
  /\ \A f \in {"product_name", "coupon_rate", "remaining_days", "applied_yield"} : "BOND_KR" \in ColumnsOf[f]
  /\ \A f \in {"product_name", "manager_or_issuer", "investment_region", "aum", "expense_ratio",
               "return_1d"} : "ETF_KR" \in ColumnsOf[f]
  /\ \A f \in {"product_name", "investment_region", "aum", "return_1d", "price", "nav"} :
       "ETF_GLOBAL" \in ColumnsOf[f]
  /\ \A f \in {"product_name", "asset_type", "aum", "return_1y"} : "FUND_PUBLIC" \in ColumnsOf[f]
  /\ "nav_discount" \in RankBlocked

VARIABLES question, top, taken  \* taken: the rule that wrote the spec, 0 for none

ruleVars == <<question, top, taken>>

Text(field, operator)   == [field |-> field, operator |-> operator,
                            value |-> [list |-> FALSE, items |-> <<"text">>]]
Num(field, operator)    == [field |-> field, operator |-> operator,
                            value |-> [list |-> FALSE, items |-> <<"number">>]]
Pair(field, operator, k) == [field |-> field, operator |-> operator,
                             value |-> [list |-> TRUE, items |-> <<k, k>>]]
Present(field)          == [field |-> field, operator |-> "NOT_NULL",
                            value |-> [list |-> FALSE, items |-> <<>>]]

\* _spec
SpecOf(intent, families, filters, metrics, sorts) ==
  [intent |-> intent, families |-> families, filters |-> filters, sorts |-> sorts,
   metrics |-> metrics, entities |-> FALSE, relations |-> FALSE]

\* A rule takes a question with all of its words and none that it is not for.
Rule(words, spec_) == [words |-> words, unless |-> {}, spec |-> spec_]
Find(words, family, filters, metrics) ==
  Rule(words, SpecOf("FILTER", <<family>>, filters, metrics, <<>>))
Rank(words, family, filters, metrics, sorts) ==
  Rule(words, SpecOf("FILTER_AND_RANK", <<family>>, filters, metrics, sorts))

-----------------------------------------------------------------------------
\* What must reach the policy instead of HCX.
Guards == <<
  Rule({"predict"}, SpecOf("UNSUPPORTED_PREDICTION", <<>>, <<>>, <<>>, <<>>)),
  Rule({"no relation"}, SpecOf("RELATION_SEARCH", <<"ETF_KR">>, <<>>, <<>>, <<>>)),
  Rank({"rank without filter"}, "FUND_PUBLIC", <<Present("return_1y")>>, <<>>, <<>>),
  Find({"search without filter"}, "ETF_KR", <<>>, <<>>),
  Find({"wrong operator"}, "ETF_KR", <<Text("product_name", "GTE")>>, <<>>),
  Find({"bonds by region"}, "BOND_KR", <<Text("investment_region", "CONTAINS")>>, <<>>),
  Rule({"unknown entity"}, [SpecOf("LOOKUP_PRODUCT", <<"ETF_KR">>, <<Text("product_name", "CONTAINS")>>,
                                   <<>>, <<>>) EXCEPT !.entities = TRUE]),
  Find({"unknown field"}, "ETF_KR", <<Text(Unknown, "EQ")>>, <<>>),
  [Find({"buyable_quantity"}, "BOND_KR", <<Num(Unknown, "GTE")>>, <<>>) EXCEPT !.unless = {"unused"}],
  Find({"SELECT"}, "ETF_KR", <<[Text("product_name", "CONTAINS") EXCEPT !.value.items = <<"unsafe">>]>>, <<>>)
>>

\* _relation_spec
Related == [SpecOf("RELATION_SEARCH", <<"ETF_KR">>, <<>>, <<>>, <<>>) EXCEPT !.relations = TRUE]
Relations == <<Rule({"subsidiary"}, Related), Rule({"affiliate"}, Related), Rule({"ETF that holds"}, Related)>>

\* _cross_family_spec and _compare_spec
Across == <<
  Rule({"across", "bond", "domestic ETF"},
       SpecOf("CROSS_FAMILY_SEARCH", <<"BOND_KR", "ETF_KR">>, <<Text("product_name", "CONTAINS")>>, <<>>, <<>>)),
  Rule({"across", "all ETFs"},
       SpecOf("CROSS_FAMILY_SEARCH", <<"ETF_KR", "ETF_GLOBAL">>,
              <<Text("investment_region", "CONTAINS")>>, <<>>, <<>>)),
  Rule({"compare", "manager", "ETF"},
       SpecOf("COMPARE_PRODUCTS", <<"ETF_KR">>, <<Pair("manager_or_issuer", "IN", "text")>>, <<"aum">>, <<>>)),
  Rule({"compare", "region", "global ETF"},
       SpecOf("COMPARE_PRODUCTS", <<"ETF_GLOBAL">>, <<Pair("investment_region", "IN", "text")>>,
              <<"aum", "return_1d">>, <<>>))
>>

\* _lookup_spec.  The first in the text wins of several names; here, the first rule.
LookUp(words, family) ==
  Rule(words, SpecOf("LOOKUP_PRODUCT", <<family>>, <<Text("product_name", "CONTAINS")>>, <<>>, <<>>))
Lookups == <<
  LookUp({"no such product"}, "ETF_KR"), LookUp({"named global ETF"}, "ETF_GLOBAL"),
  LookUp({"named domestic ETF"}, "ETF_KR"), LookUp({"named bond"}, "BOND_KR"),
  LookUp({"named fund"}, "FUND_PUBLIC")>>

\* _rank_or_filter_spec: private funds and bonds
DaysLeft == <<"remaining_days", "applied_yield">>
Bonds == <<
  Find({"private fund"}, "FUND_PUBLIC", <<Text("asset_type", "CONTAINS")>>, <<>>),
  Find({"no such coupon"}, "BOND_KR", <<Num("coupon_rate", "GTE")>>, <<"coupon_rate">>),
  Find({"coupon of zero"}, "BOND_KR", <<Num("coupon_rate", "EQ")>>, <<"coupon_rate">>),
  Find({"no match", "days left"}, "BOND_KR", <<Num("remaining_days", "LTE")>>, <<"remaining_days">>),
  Find({"filter by days left"}, "BOND_KR", <<Num("remaining_days", "LTE")>>, DaysLeft),
  Find({"days left from to"}, "BOND_KR", <<Pair("remaining_days", "BETWEEN", "number")>>, DaysLeft),
  Find({"days left up to"}, "BOND_KR", <<Num("remaining_days", "LTE")>>, DaysLeft),
  Rank({"few days left"}, "BOND_KR", <<Present("remaining_days")>>, DaysLeft, <<"remaining_days">>)
>>

ByFee(words, filter, family) ==
  Rank(words, family, <<filter>>, <<"expense_ratio", "aum">>, <<"expense_ratio">>)
UsByFee == ByFee({"domestic ETF of US by fee"}, Text("investment_region", "CONTAINS"), "ETF_KR")

\* Mutant: the rule is copied for the other ETFs.
DomesticByFee_Global == ByFee({"domestic ETF by fee"}, Present("expense_ratio"), "ETF_GLOBAL")

DomesticByFee == ByFee({"domestic ETF by fee"}, Present("expense_ratio"), "ETF_KR")

OtherDomesticEtfs == <<
  Rank({"low fee large domestic ETF"}, "ETF_KR", <<Present("aum")>>, <<"expense_ratio", "aum">>,
       <<"expense_ratio", "aum">>),
  Rank({"high return low fee domestic ETF"}, "ETF_KR", <<Present("aum")>>, <<"return_1d", "expense_ratio">>,
       <<"return_1d", "expense_ratio">>),
  Rank({"domestic ETF by size"}, "ETF_KR", <<Present("aum")>>, <<"aum">>, <<"aum">>),
  Find({"domestic ETF of US"}, "ETF_KR", <<Text("investment_region", "CONTAINS")>>, <<"aum">>)>>

\* Mutant: the rules are sorted by name.
DomesticEtfs_ByName == <<DomesticByFee, UsByFee>> \o OtherDomesticEtfs

DomesticEtfs == <<UsByFee, DomesticByFee>> \o OtherDomesticEtfs

GlobalEtfs == <<
  Rank({"global ETF NAV", "discount"}, "ETF_GLOBAL", <<Num("aum", "GTE")>>, <<"nav_discount">>, <<"nav_discount">>),
  Rank({"global ETF NAV by"}, "ETF_GLOBAL", <<Present("nav")>>, <<"nav", "price">>, <<"nav">>),
  Find({"global ETF close"}, "ETF_GLOBAL", <<Present("price")>>, <<"price", "nav">>),
  Find({"global ETF with size"}, "ETF_GLOBAL", <<Present("aum")>>, <<"aum">>),
  Rank({"global ETF by size"}, "ETF_GLOBAL", <<Present("aum")>>, <<"aum", "return_1d">>, <<"aum">>),
  Find({"global ETF", "size", "at least"}, "ETF_GLOBAL", <<Num("aum", "GTE")>>, <<"aum", "return_1d">>)
>>

Funds == <<
  Rank({"fund by size"}, "FUND_PUBLIC", <<Present("aum")>>, <<"aum", "return_1y">>, <<"aum">>),
  Rank({"large high return fund"}, "FUND_PUBLIC", <<Present("return_1y")>>, <<"aum", "return_1y">>,
       <<"aum", "return_1y">>),
  Rank({"fund by return alone"}, "FUND_PUBLIC", <<Present("return_1y")>>, <<"return_1y">>, <<"return_1y">>),
  Find({"fund with return"}, "FUND_PUBLIC", <<Present("return_1y")>>, <<"return_1y">>),
  Rank({"high return fund"}, "FUND_PUBLIC", <<Present("return_1y")>>, <<"return_1y", "aum">>, <<"return_1y">>)
>>

\* Mutant: relations first, they are the most frequent questions.
Rules_RelationsFirst ==
  Relations \o Guards \o Across \o Lookups \o Bonds \o DomesticEtfs \o GlobalEtfs \o Funds

\* parse_korean_finance_question, in the order in which it asks.
Rules == Guards \o Relations \o Across \o Lookups \o Bonds \o DomesticEtfs \o GlobalEtfs \o Funds

-----------------------------------------------------------------------------
Words == {"unused"} \cup UNION {Rules[i].words : i \in DOMAIN Rules}

\* A phrase is found inside every longer one.
Inside ==
  [w \in Words |-> {w} \cup
    CASE w \in {"domestic ETF", "global ETF", "ETF that holds"} -> {"ETF"}
      [] w = "bonds by region" -> {"bond", "region"}
      [] w = "named bond" -> {"bond"}
      [] w \in {"all ETFs", "named global ETF", "global ETF NAV", "global ETF close"} -> {"global ETF", "ETF"}
      [] w = "global ETF NAV by" -> {"global ETF NAV", "global ETF", "ETF"}
      [] w \in {"global ETF with size", "global ETF by size"} -> {"global ETF", "ETF", "size"}
      [] w \in {"domestic ETF by fee", "domestic ETF of US", "high return low fee domestic ETF",
                "named domestic ETF"} -> {"domestic ETF", "ETF"}
      [] w = "domestic ETF of US by fee" -> {"domestic ETF of US", "domestic ETF by fee", "domestic ETF", "ETF"}
      [] w \in {"low fee large domestic ETF", "domestic ETF by size"} -> {"domestic ETF", "ETF", "size"}
      [] w \in {"filter by days left", "days left from to", "days left up to", "few days left"} -> {"days left"}
      [] w = "fund by size" -> {"size"}
      [] w = "large high return fund" -> {"high return fund", "size"}
      [] OTHER -> {}]

AllOf(words) == UNION {Inside[w] : w \in words}

Matches(rule, words) == rule.words \subseteq words /\ rule.unless \cap words = {}

\* The first rule that takes the question, 0 if none does.
FirstRule(words) ==
  IF \E i \in DOMAIN Rules : Matches(Rules[i], words)
  THEN CHOOSE i \in DOMAIN Rules :
         Matches(Rules[i], words) /\ \A j \in 1 .. i - 1 : ~Matches(Rules[j], words)
  ELSE 0

\* QuerySpec accepts limits from 1 to 10; only one rule takes its limit from the
\* question, and TOP 0 is no limit.
LimitOf(rule, n) == IF rule.words = {"high return fund"} /\ n # 0 THEN n ELSE 5

\* A limit that QuerySpec refuses is raised out of the parser: no rule is left to
\* try, HCX is not asked, and the request is a 503.
Refused(words, n) == FirstRule(words) # 0 /\ LimitOf(Rules[FirstRule(words)], n) \notin 1 .. 10

\* HCX answers the questions that no rule takes, whatever their words: the question
\* without any stands for them.
RulesInit ==
  /\ question \in {AllOf(Elements(words)) : words \in SeqOf(Words, MaxWords)}
  /\ top \in Tops
  /\ taken = FirstRule(question)
  /\ \/ taken # 0 /\ spec = Rules[taken].spec
     \/ question = {} /\ top = 0 /\ spec \in Specs
  /\ IF Refused(question, top) THEN pc = "refused" /\ decision = "none" /\ queried = 0 ELSE Parsed

RulesNext == Next /\ UNCHANGED ruleVars

RulesSpec == RulesInit /\ [][RulesNext]_<<vars, ruleVars>>

-----------------------------------------------------------------------------
\* What a rule writes is accepted or answered with a question or an abstention, and
\* what is accepted has its columns and values of their type: no question that a
\* rule takes ends in a 503, but for a TOP n that QuerySpec refuses.
RulesAskForWhatExists ==
  taken # 0 => pc # "failed" /\ (pc = "refused" => top \notin 0 .. 10)

\* Other words around it do not turn a question that must be refused into a search:
\* a prediction is never made, and a field that is not for decisions or an SQL
\* fragment is never searched for.
RefusalsHold ==
  pc # "validate" =>
    /\ "predict" \in question => decision = "ABSTAIN"
    /\ ("SELECT" \in question \/ ("buyable_quantity" \in question /\ "unused" \notin question))
         => decision # "none" \/ Rules[taken].words = {"unknown entity"}

\* The first rule that takes a question is the most specific one: none further down
\* that takes it too asks for all the words of this one and more.
MostSpecificRuleWins ==
  taken # 0 => \A i \in DOMAIN Rules :
    ~(Matches(Rules[i], question) /\ AllOf(Rules[taken].words) \subseteq AllOf(Rules[i].words)
                                  /\ AllOf(Rules[taken].words) # AllOf(Rules[i].words))
=============================================================================
