----------------------- MODULE QueryValidation_proofs -----------------------
(***************************************************************************)
(* Proofs about QueryValidation and KoreanRules, for any registry, any     *)
(* specs that HCX may write and questions of any number of phrases.        *)
(***************************************************************************)
EXTENDS KoreanRules, SequenceTheorems, WellFoundedInduction, TLAPS

-----------------------------------------------------------------------------
\* No issue at all, issue by issue.
LEMMA NoIssues ==
  ASSUME NEW s, Issues(s) = {}
  PROVE  /\ Unknown \notin FieldRefs(s)
         /\ s.intent # "UNSUPPORTED_PREDICTION" =>
              \A f \in FieldRefs(s) \ {Unknown} : FamiliesOf[f] \cap Elements(s.families) # {}
         /\ \A c \in Elements(s.filters) : ClauseIssues(c) = {}
         /\ Elements(s.sorts) \cap RankBlocked = {}
<1>1. ExistenceIssues(s) = {} /\ FamilyIssues(s) = {} /\ RankIssues(s) = {}
  <2>1. ASSUME NEW x \in ExistenceIssues(s) \cup FamilyIssues(s) \cup RankIssues(s) PROVE FALSE
    <3>1. x \in Issues(s)
      BY Zenon DEF Issues
    <3> QED
      BY <3>1
  <2> QED
    BY <2>1
<1>2. ASSUME NEW c \in Elements(s.filters), NEW x \in ClauseIssues(c) PROVE FALSE
  <2>1. x \in UNION {ClauseIssues(d) : d \in Elements(s.filters)}
    BY <1>2
  <2> QED
    BY <2>1 DEF Issues
<1> QED
  BY <1>1, <1>2 DEF ExistenceIssues, FamilyIssues, RankIssues, IssueIf

\* What validation has looked at in a clause it has nothing against.
LEMMA CleanClause ==
  ASSUME NEW c \in Filter, c.field # Unknown, ClauseIssues(c) = {}
  PROVE  /\ c.field \in Registered /\ c.field \in Filterable
         /\ c.operator \in OperatorsOf[c.field]
         /\ WellShaped(c) /\ WellTyped(c)
  BY DEF ClauseIssues, IssueIf, Filter, FieldIds

\* A clean clause whose field has a column compiles for the family, and its
\* comparison is one that PostgreSQL makes, unless it is of a date.
LEMMA CleanClauseRuns ==
  ASSUME NEW c \in Filter, c.field # Unknown, ClauseIssues(c) = {}, NEW family,
         family \in FamiliesOf[c.field], family \in ColumnsOf[c.field],
         TypeOf[c.field] # "date"
  PROVE  Compilable(c, family) /\ Executes(c) = {TRUE}
<1> DEFINE v == c.value
<1>1. /\ c.field \in Registered /\ c.field \in Filterable
      /\ c.operator \in OperatorsOf[c.field]
      /\ WellShaped(c) /\ WellTyped(c)
  BY CleanClause
<1>2. Executes(c) = {TRUE}
  BY <1>1 DEF Executes
<1>3. CASE c.operator = "IN"
  BY <1>1, <1>2, <1>3 DEF Compilable, WellShaped, Unary
<1>4. CASE c.operator = "BETWEEN"
  BY <1>1, <1>2, <1>4 DEF Compilable, WellShaped, Unary
<1>5. CASE c.operator = "CONTAINS"
  <2>1. TypeOf[c.field] = "string" /\ ~Unary(c)
    BY <1>1, <1>5, RegistryAssumption DEF Unary
  <2>2. ~v.list /\ \A k \in Elements(v.items) : k \in KindsOf(TypeOf[c.field])
    BY <1>1, <1>5, <2>1 DEF WellTyped
  <2>3. KindsOf(TypeOf[c.field]) = {"text", "unsafe"}
    BY <2>1 DEF KindsOf
  <2> QED
    BY <1>1, <1>2, <1>5, <2>2, <2>3 DEF Compilable
<1>6. CASE c.operator \notin {"IN", "BETWEEN", "CONTAINS"}
  BY <1>1, <1>2, <1>6 DEF Compilable
<1> QED
  BY <1>2, <1>3, <1>4, <1>5, <1>6

\* The clauses and the fields of a spec.
LEMMA SpecParts ==
  ASSUME NEW s \in QuerySpec
  PROVE  /\ \A c \in Elements(s.filters) : c \in Filter /\ c.field \in FieldRefs(s)
         /\ FieldRefs(s) \subseteq FieldIds
         /\ Elements(s.metrics) \cup Elements(s.sorts) \subseteq FieldRefs(s)
         /\ s.families \in Seq(Families) /\ Len(s.families) \in Nat
         /\ s.intent = "UNSUPPORTED_PREDICTION" \/ Len(s.families) \in 1 .. 4
<1>1. /\ s.filters \in Seq(Filter) /\ s.metrics \in Seq(FieldIds)
      /\ s.sorts \in Seq(FieldIds) /\ s.families \in Seq(Families)
      /\ s.intent = "UNSUPPORTED_PREDICTION" \/ Len(s.families) \in 1 .. 4
  BY DEF QuerySpec
<1>2. \A c \in Elements(s.filters) : c \in Filter
  BY <1>1 DEF Elements
<1>3. \A c \in Filter : c.field \in FieldIds
  BY DEF Filter
<1>4. Elements(s.metrics) \subseteq FieldIds /\ Elements(s.sorts) \subseteq FieldIds
  BY <1>1 DEF Elements
<1> QED
  BY <1>1, <1>2, <1>3, <1>4 DEF FieldRefs

\* A spec about one family that validation has nothing against is planned,
\* compiled, read and executed for that family.
LEMMA CleanSpecRuns ==
  ASSUME NEW s \in QuerySpec, Issues(s) = {}, s.intent # "UNSUPPORTED_PREDICTION",
         Len(s.families) = 1,
         \A f \in FieldRefs(s) : ColumnsOf[f] = FamiliesOf[f],
         \A c \in Elements(s.filters) : TypeOf[c.field] # "date"
  PROVE  /\ Plannable(s) /\ Readable(s, s.families[1])
         /\ \A c \in Elements(s.filters) :
              Compilable(c, s.families[1]) /\ Executes(c) = {TRUE}
         /\ \A f \in FieldRefs(s) : s.families[1] \in ColumnsOf[f]
<1> DEFINE family == s.families[1]
<1>1. Elements(s.families) = {family}
  BY SpecParts DEF Elements
<1>2. \A f \in FieldRefs(s) : f \in Registered /\ family \in FamiliesOf[f] /\ family \in ColumnsOf[f]
  BY <1>1, NoIssues, SpecParts DEF FieldIds
<1> HIDE DEF family
<1>3. \A f \in FieldRefs(s) : family \notin Misnamed[f]
  BY <1>2, RegistryAssumption
<1>4. Plannable(s) /\ Readable(s, family)
  BY <1>3, NoIssues, SpecParts DEF Plannable, Readable
<1>5. ASSUME NEW c \in Elements(s.filters)
      PROVE  Compilable(c, family) /\ Executes(c) = {TRUE}
  <2>1. c \in Filter /\ c.field \in FieldRefs(s) /\ c.field # Unknown /\ ClauseIssues(c) = {}
    BY NoIssues, SpecParts
  <2> QED
    BY <1>2, <2>1, CleanClauseRuns
<1> QED
  BY <1>2, <1>4, <1>5 DEF family

\* What is true of a spec on its way, whoever wrote it: one that is being
\* compiled has no issue and a family left to query.
Handled ==
  /\ TypeOK
  /\ pc = "validate" => decision = "none" /\ queried = 0
  /\ pc \notin {"validate", "refused"} => decision = DecisionFor(spec)
  /\ pc \in {"compile", "aggregate"} => Issues(spec) = {} /\ spec.intent # "UNSUPPORTED_PREDICTION"
  /\ pc = "compile" => queried < Len(spec.families)
  /\ pc = "aggregate" => Averaged(spec)
  /\ AcceptedSpecsRun

LEMMA NotMore == \A n \in 1 .. 4 : ~(n > 1) => n = 1
  OBVIOUS

LEMMA DecisionType ==
  /\ DecisionFor(spec) \in {"none", "ASK", "ABSTAIN"}
  /\ DecisionFor(spec) = "none" => Issues(spec) = {} /\ spec.intent # "UNSUPPORTED_PREDICTION"
  BY DEF DecisionFor

LEMMA HandledStep == Handled /\ [Next]_vars => Handled'
<1> SUFFICES ASSUME Handled, [Next]_vars PROVE Handled'
  OBVIOUS
<1>1. spec \in QuerySpec /\ Len(spec.families) \in Nat /\ queried \in Nat
  BY SpecParts DEF Handled, TypeOK
<1>2. CASE Validate
  <2>1. /\ decision' = DecisionFor(spec) /\ spec' = spec /\ queried' = 0
        /\ pc' = "compile" \/ pc' = "done"
        /\ pc' = "compile" => DecisionFor(spec) = "none"
    BY <1>2 DEF Validate, Handled
  <2>2. pc' = "compile" => Len(spec.families) \in 1 .. 4
    BY <1>1, <2>1, DecisionType, SpecParts
  <2>3. pc' = "compile" => Issues(spec) = {} /\ spec.intent # "UNSUPPORTED_PREDICTION"
    BY <2>1, DecisionType
  <2>4. DecisionFor(spec') = DecisionFor(spec) /\ Issues(spec') = Issues(spec)
    BY <2>1
  <2>5. TypeOK'
    BY <1>1, <2>1, <2>4, DecisionType DEF TypeOK
  <2>6. AcceptedSpecsRun'
    BY <2>1 DEF AcceptedSpecsRun
  <2> QED
    BY <2>1, <2>2, <2>3, <2>4, <2>5, <2>6 DEF Handled
<1>3. CASE QueryFamily
  <2>1. /\ pc = "compile" /\ decision' = decision /\ spec' = spec
        /\ Issues(spec) = {} /\ spec.intent # "UNSUPPORTED_PREDICTION"
        /\ queried < Len(spec.families) /\ decision = DecisionFor(spec)
    BY <1>3 DEF QueryFamily, Handled
  <2>2. CASE /\ queried' = queried + 1
             /\ pc' = CASE queried' < Len(spec.families) -> "compile"
                        [] queried' = Len(spec.families) /\ Averaged(spec) -> "aggregate"
                        [] OTHER -> "done"
    <3>1. /\ queried' \in 0 .. Len(spec.families)
          /\ pc' \in {"compile", "aggregate", "done"}
          /\ pc' = "compile" => queried' < Len(spec.families)
          /\ pc' = "aggregate" => Averaged(spec)
      BY <1>1, <2>1, <2>2
    <3> QED
      BY <1>1, <2>1, <3>1 DEF Handled, TypeOK, AcceptedSpecsRun
  <2>3. CASE /\ \/ ~Plannable(spec) \/ ~Readable(spec, spec.families[queried + 1])
                \/ \E c \in Elements(spec.filters) :
                     \/ ~Compilable(c, spec.families[queried + 1])
                     \/ FALSE \in Executes(c)
             /\ pc' = "failed" /\ queried' = queried
    <3>1. ASSUME ~(Len(spec.families) > 1),
                 ~(\E f \in FieldRefs(spec) : ColumnsOf[f] # FamiliesOf[f]),
                 ~(\E c \in Elements(spec.filters) : TypeOf[c.field] = "date")
          PROVE  FALSE
      <4>1. Len(spec.families) = 1 /\ queried + 1 = 1
        <5>1. Len(spec.families) \in 1 .. 4
          BY <1>1, <2>1, SpecParts
        <5>2. Len(spec.families) = 1
          BY <3>1, <5>1, NotMore
        <5> QED
          BY <1>1, <2>1, <5>2
      <4> QED
        BY <1>1, <2>1, <2>3, <3>1, <4>1, CleanSpecRuns
    <3>2. AcceptedSpecsRun'
      BY <2>1, <3>1 DEF AcceptedSpecsRun
    <3> QED
      BY <2>1, <2>3, <3>2 DEF Handled, TypeOK
  <2> QED
    BY <1>3, <2>2, <2>3 DEF QueryFamily
<1>4. CASE Aggregate
  <2>1. /\ pc = "aggregate" /\ decision' = decision /\ spec' = spec /\ queried' = queried
        /\ pc' = "done" \/ (pc' = "failed" /\ FALSE \in Averages(spec))
        /\ Issues(spec) = {} /\ spec.intent # "UNSUPPORTED_PREDICTION"
        /\ decision = DecisionFor(spec) /\ Averaged(spec)
    BY <1>4 DEF Aggregate, Handled, Averages
  <2>2. ASSUME FALSE \in Averages(spec), ~(Len(spec.families) > 1),
               ~(\E f \in FieldRefs(spec) : ColumnsOf[f] # FamiliesOf[f]),
               ~(\E c \in Elements(spec.filters) : TypeOf[c.field] = "date"),
               TypeOf[spec.metrics[1]] = "number"
        PROVE  FALSE
    <3>1. Len(spec.families) = 1
      <4>1. Len(spec.families) \in 1 .. 4
        BY <1>1, <2>1, SpecParts
      <4>2. ~(Len(spec.families) > 1)
        BY <2>2
      <4> QED
        BY <4>1, <4>2, NotMore
    <3>2. spec.metrics[1] \in FieldRefs(spec)
      <4>1. spec.metrics \in Seq(FieldIds) /\ spec.metrics # <<>>
        BY <1>1, <2>1 DEF Averaged, QuerySpec
      <4>2. spec.metrics[1] \in Elements(spec.metrics)
        BY <4>1 DEF Elements
      <4> QED
        BY <1>1, <4>2, SpecParts
    <3>3. spec.families[1] \in ColumnsOf[spec.metrics[1]]
      BY <1>1, <2>1, <2>2, <3>1, <3>2, CleanSpecRuns
    <3> QED
      BY <2>2, <3>3 DEF Averages
  <2>3. AcceptedSpecsRun'
    BY <2>1, <2>2 DEF AcceptedSpecsRun
  <2> QED
    BY <2>1, <2>3 DEF Handled, TypeOK
<1>5. CASE UNCHANGED vars
  BY <1>5 DEF vars, Handled, TypeOK, AcceptedSpecsRun, DecisionFor
<1> QED
  BY <1>2, <1>3, <1>4, <1>5 DEF Next

\* Every spec that validation lets through runs, for whatever HCX writes.
THEOREM AcceptedSpecsAlwaysRun == Spec => [](TypeOK /\ AcceptedSpecsRun)
<1>1. Init => Handled
  BY SpecsAssumption, SpecParts DEF Init, Parsed, Handled, TypeOK, AcceptedSpecsRun
<1>2. Handled => TypeOK /\ AcceptedSpecsRun
  BY DEF Handled
<1> QED
  BY <1>1, <1>2, HandledStep, PTL DEF Spec

-----------------------------------------------------------------------------
(***************************************************************************)
(* The rules.  Each writes a QuerySpec, and the first one whose words are  *)
(* in the question writes it, however long the question is.                *)
(***************************************************************************)

RuleFamilies == {"BOND_KR", "ETF_KR", "ETF_GLOBAL", "FUND_PUBLIC"}

RuleFields ==
  {"product_name", "manager_or_issuer", "asset_type", "investment_region", "coupon_rate",
   "remaining_days", "applied_yield", "aum", "expense_ratio", "return_1d", "return_1y",
   "price", "nav", "nav_discount", Unknown}

LEMMA RuleNames == RuleFamilies \subseteq Families /\ RuleFields \subseteq FieldIds
  BY RuleAssumption DEF RuleFamilies, RuleFields, FieldIds

LEMMA ClauseTypes ==
  ASSUME NEW f \in RuleFields, NEW o \in Operators
  PROVE  /\ Text(f, o) \in Filter /\ Num(f, o) \in Filter /\ Present(f) \in Filter
         /\ \A k \in Kinds : Pair(f, o, k) \in Filter
<1>1. f \in FieldIds
  BY RuleNames
<1>2. /\ <<"text">> \in Seq(Kinds) /\ <<"number">> \in Seq(Kinds) /\ <<>> \in Seq(Kinds)
      /\ \A k \in Kinds : <<k, k>> \in Seq(Kinds)
  BY DEF Kinds
<1>3. "NOT_NULL" \in Operators
  BY DEF Operators
<1> QED
  BY <1>1, <1>2, <1>3 DEF Text, Num, Present, Pair, Filter, Value

\* One issue is enough for a question or an abstention.
LEMMA IssuesDecide ==
  ASSUME NEW s,
         \/ ShapeIssues(s) # {} \/ ExistenceIssues(s) # {}
         \/ FamilyIssues(s) # {} \/ InjectionIssues(s) # {} \/ RankIssues(s) # {}
         \/ \E c \in Elements(s.filters) : ClauseIssues(c) # {}
  PROVE  DecisionFor(s) # "none"
<1>1. Issues(s) # {}
  <2>1. CASE \E c \in Elements(s.filters) : ClauseIssues(c) # {}
    <3>1. (UNION {ClauseIssues(c) : c \in Elements(s.filters)}) # {}
      BY <2>1
    <3> QED
      BY <3>1, Zenon DEF Issues
  <2>2. CASE \/ ShapeIssues(s) # {} \/ ExistenceIssues(s) # {}
             \/ FamilyIssues(s) # {} \/ InjectionIssues(s) # {} \/ RankIssues(s) # {}
    BY <2>2, Zenon DEF Issues
  <2> QED
    BY <2>1, <2>2
<1> QED
  BY <1>1 DEF DecisionFor

\* The guards' specs are not run, the one that looks for a product that nobody
\* knows aside, and none of them takes its limit from the question.
LEMMA GuardsDecide ==
  /\ DecisionFor(Guards[1].spec) = "ABSTAIN"
  /\ \A i \in 1 .. 10 :
       /\ DecisionFor(Guards[i].spec) # "none" \/ (i = 7 /\ Guards[i].words = {"unknown entity"})
       /\ Guards[i].words # {"high return fund"}
<1>1. DecisionFor(Guards[1].spec) = "ABSTAIN"
  BY DEF Guards, Rule, SpecOf, DecisionFor
<1>2. ShapeIssues(Guards[2].spec) # {}
  BY DEF Guards, Rule, SpecOf, ShapeIssues, IssueIf
<1>3. ShapeIssues(Guards[3].spec) # {}
  BY DEF Guards, Rank, Rule, SpecOf, ShapeIssues, IssueIf
<1>4. ShapeIssues(Guards[4].spec) # {}
  BY DEF Guards, Find, Rule, SpecOf, ShapeIssues, IssueIf
<1>5. ClauseIssues(Text("product_name", "GTE")) # {}
  BY RuleAssumption, RegistryAssumption DEF Text, ClauseIssues, IssueIf
<1>6. FamilyIssues(Guards[6].spec) # {}
  <2> DEFINE s == Guards[6].spec
             c == Text("investment_region", "CONTAINS")
  <2>1. s.filters = <<c>> /\ s.families = <<"BOND_KR">> /\ s.intent = "FILTER"
    BY DEF Guards, Find, Rule, SpecOf
  <2>2. c.field = "investment_region"
    BY DEF Text
  <2> HIDE DEF s, c
  <2>3. Elements(s.filters) = {c} /\ Elements(s.families) = {"BOND_KR"}
    BY <2>1 DEF Elements
  <2>4. "investment_region" \in FieldRefs(s) \ {Unknown}
    BY <2>2, <2>3, RuleAssumption, RegistryAssumption DEF FieldRefs
  <2> QED
    BY <2>1, <2>3, <2>4, RuleAssumption DEF FamilyIssues, IssueIf, s
<1>7. Guards[7].words = {"unknown entity"}
  BY DEF Guards, Rule
<1>8. \A s : (\E c \in Elements(s.filters) : c.field = Unknown) => ExistenceIssues(s) # {}
  BY DEF FieldRefs, ExistenceIssues, IssueIf
<1>9. /\ Guards[5].spec.filters = <<Text("product_name", "GTE")>>
      /\ Guards[8].spec.filters = <<Text(Unknown, "EQ")>>
      /\ Guards[9].spec.filters = <<Num(Unknown, "GTE")>>
      /\ Guards[10].spec.filters = <<[Text("product_name", "CONTAINS")
                                       EXCEPT !.value.items = <<"unsafe">>]>>
  BY DEF Guards, Find, Rule, SpecOf
<1>10. \A c : Elements(<<c>>) = {c}
  BY DEF Elements
<1>11. Text(Unknown, "EQ").field = Unknown /\ Num(Unknown, "GTE").field = Unknown
  BY DEF Text, Num
<1>12. InjectionIssues(Guards[10].spec) # {}
  <2> DEFINE c == [Text("product_name", "CONTAINS") EXCEPT !.value.items = <<"unsafe">>]
  <2>1. ~c.value.list /\ c.value.items = <<"unsafe">>
    BY DEF Text
  <2> HIDE DEF c
  <2>2. "unsafe" \in Elements(c.value.items)
    BY <2>1, <1>10
  <2>3. c \in Elements(Guards[10].spec.filters)
    BY <1>9, <1>10 DEF c
  <2> QED
    BY <2>1, <2>2, <2>3 DEF InjectionIssues, IssueIf
<1>13. \A i \in 2 .. 10 : DecisionFor(Guards[i].spec) # "none" \/ i = 7
  <2>1. /\ DecisionFor(Guards[2].spec) # "none" /\ DecisionFor(Guards[3].spec) # "none"
        /\ DecisionFor(Guards[4].spec) # "none" /\ DecisionFor(Guards[6].spec) # "none"
        /\ DecisionFor(Guards[10].spec) # "none"
    BY <1>2, <1>3, <1>4, <1>6, <1>12, IssuesDecide
  <2>2. DecisionFor(Guards[5].spec) # "none"
    BY <1>5, <1>9, <1>10, IssuesDecide
  <2>3. DecisionFor(Guards[8].spec) # "none" /\ DecisionFor(Guards[9].spec) # "none"
    BY <1>8, <1>9, <1>10, <1>11, IssuesDecide
  <2> QED
    BY <2>1, <2>2, <2>3
<1> DEFINE Five(i) == Guards[i].words # {"high return fund"}
<1>14. /\ Five(1) /\ Five(2) /\ Five(3) /\ Five(4) /\ Five(5)
       /\ Five(6) /\ Five(7) /\ Five(8) /\ Five(9) /\ Five(10)
  BY DEF Guards, Find, Rank, Rule
<1>15. \A i \in 1 .. 10 : Five(i)
  <2> HIDE DEF Five
  <2> QED
    BY <1>14
<1>16. \A i \in 1 .. 10 :
         DecisionFor(Guards[i].spec) # "none" \/ (i = 7 /\ Guards[i].words = {"unknown entity"})
  <2> SUFFICES ASSUME NEW i \in 1 .. 10
               PROVE  \/ DecisionFor(Guards[i].spec) # "none"
                      \/ i = 7 /\ Guards[i].words = {"unknown entity"}
    OBVIOUS
  <2>1. i = 1 \/ i = 7 \/ (i \in 2 .. 10 /\ i # 7)
    OBVIOUS
  <2>2. "ABSTAIN" # "none"
    OBVIOUS
  <2> QED
    BY <1>1, <1>7, <1>13, <2>1, <2>2
<1> QED
  BY <1>1, <1>15, <1>16

\* A clause that the tables of a family can answer.
RunsIn(c, family) == Compilable(c, family) /\ Executes(c) = {TRUE}

\* Fields that may be shown and ranked by for a family.
ColumnList(fs, family) == fs \in Seq(FieldIds) /\ \A f \in Elements(fs) : family \notin Misnamed[f]

\* Nothing fails on a spec after validation.
Runs(s) ==
  \A family \in Elements(s.families) :
    Readable(s, family) /\ \A c \in Elements(s.filters) : RunsIn(c, family)

\* A rule has words, and what it writes is a QuerySpec that is not run or runs.
SoundRule(r) ==
  /\ r.words # {} /\ r.spec \in QuerySpec /\ r.spec.intent # "AGGREGATE"
  /\ DecisionFor(r.spec) = "none" => Runs(r.spec)

LEMMA ElementsAre ==
  /\ Elements(<<>>) = {}
  /\ \A x : Elements(<<x>>) = {x}
  /\ \A x, y : Elements(<<x, y>>) = {x, y}
<1>1. Elements(<<>>) = {} /\ \A x : Elements(<<x>>) = {x}
  BY DEF Elements
<1>2. \A x, y : Elements(<<x, y>>) = {x, y}
  <2> TAKE x, y
  <2>1. DOMAIN <<x, y>> = {1, 2}
    OBVIOUS
  <2> QED
    BY <2>1 DEF Elements
<1> QED
  BY <1>1, <1>2

\* A pair is an array of two items of its kind.
LEMMA PairsRun ==
  ASSUME NEW family, NEW f \in Registered, family \in ColumnsOf[f], f \in Filterable,
         NEW o \in {"IN", "BETWEEN"}, NEW k \in KindsOf(TypeOf[f]), TypeOf[f] # "date"
  PROVE  RunsIn(Pair(f, o, k), family)
<1> DEFINE c == Pair(f, o, k)
<1>1. /\ c.field = f /\ c.operator = o /\ c.value.list = TRUE /\ c.value.items = <<k, k>>
  BY DEF Pair
<1>2. Len(c.value.items) = 2 /\ Elements(c.value.items) = {k}
  BY <1>1, ElementsAre
<1> HIDE DEF c
<1>3. f # Unknown /\ family \in FamiliesOf[f]
  BY RegistryAssumption
<1>4. Compilable(c, family)
  BY <1>1, <1>2, <1>3 DEF Compilable
<1>5. ~Unary(c) /\ WellTyped(c)
  BY <1>1, <1>2 DEF Unary, WellTyped
<1>6. Executes(c) = {TRUE}
  BY <1>1, <1>5 DEF Executes
<1> QED
  BY <1>4, <1>6 DEF RunsIn, c

\* Each sort of clause that the rules write runs on a column of its type.
LEMMA ClausesRun ==
  ASSUME NEW family, NEW f \in Registered, family \in ColumnsOf[f], f \in Filterable
  PROVE  /\ RunsIn(Present(f), family)
         /\ TypeOf[f] = "string" => RunsIn(Text(f, "CONTAINS"), family) /\ RunsIn(Pair(f, "IN", "text"), family)
         /\ TypeOf[f] = "number" =>
              /\ \A o \in {"EQ", "GTE", "LTE"} : RunsIn(Num(f, o), family)
              /\ RunsIn(Pair(f, "BETWEEN", "number"), family)
<1>1. f # Unknown /\ family \in FamiliesOf[f]
  BY RegistryAssumption
<1>2. RunsIn(Present(f), family)
  BY <1>1 DEF RunsIn, Present, Compilable, Executes, Unary
<1>3. ASSUME TypeOf[f] = "string"
      PROVE  RunsIn(Text(f, "CONTAINS"), family) /\ RunsIn(Pair(f, "IN", "text"), family)
  <2>1. KindsOf(TypeOf[f]) = {"text", "unsafe"}
    BY <1>3 DEF KindsOf
  <2>2. RunsIn(Text(f, "CONTAINS"), family)
    BY <1>1, <1>3, <2>1, ElementsAre DEF RunsIn, Text, Compilable, Executes, Unary, WellTyped, None
  <2>3. RunsIn(Pair(f, "IN", "text"), family)
    BY <1>3, <2>1, PairsRun
  <2> QED
    BY <2>2, <2>3
<1>4. ASSUME TypeOf[f] = "number"
      PROVE  /\ \A o \in {"EQ", "GTE", "LTE"} : RunsIn(Num(f, o), family)
             /\ RunsIn(Pair(f, "BETWEEN", "number"), family)
  <2>1. KindsOf(TypeOf[f]) = {"number"}
    BY <1>4 DEF KindsOf
  <2>2. ASSUME NEW o \in {"EQ", "GTE", "LTE"} PROVE RunsIn(Num(f, o), family)
    BY <1>1, <1>4, <2>1, ElementsAre DEF RunsIn, Num, Compilable, Executes, Unary, WellTyped, None
  <2>3. RunsIn(Pair(f, "BETWEEN", "number"), family)
    BY <1>4, <2>1, PairsRun
  <2> QED
    BY <2>2, <2>3
<1> QED
  BY <1>2, <1>3, <1>4

\* Lists of fields that have columns.
LEMMA ColumnLists ==
  ASSUME NEW family
  PROVE  /\ ColumnList(<<>>, family)
         /\ \A f \in Registered : family \in ColumnsOf[f] => ColumnList(<<f>>, family)
         /\ \A f, g \in Registered :
              family \in ColumnsOf[f] /\ family \in ColumnsOf[g] => ColumnList(<<f, g>>, family)
<1>1. \A f \in Registered : f \in FieldIds /\ (family \in ColumnsOf[f] => family \notin Misnamed[f])
  BY RegistryAssumption DEF FieldIds
<1> QED
  BY <1>1, ElementsAre DEF ColumnList

LEMMA SpecType ==
  ASSUME NEW i \in Intents, NEW fs \in Seq(Families), NEW cs \in Seq(Filter),
         NEW ms \in Seq(FieldIds), NEW ss \in Seq(FieldIds),
         i = "UNSUPPORTED_PREDICTION" \/ Len(fs) \in 1 .. 4
  PROVE  /\ SpecOf(i, fs, cs, ms, ss) \in QuerySpec
         /\ [SpecOf(i, fs, cs, ms, ss) EXCEPT !.entities = TRUE] \in QuerySpec
         /\ [SpecOf(i, fs, cs, ms, ss) EXCEPT !.relations = TRUE] \in QuerySpec
  BY DEF SpecOf, QuerySpec

\* The rules' lists of clauses.
LEMMA ListTypes ==
  /\ <<>> \in Seq(FieldIds) /\ <<>> \in Seq(Filter)
  /\ \A f \in RuleFields : <<f>> \in Seq(FieldIds)
  /\ \A f, g \in RuleFields : <<f, g>> \in Seq(FieldIds)
  /\ \A c \in Filter : <<c>> \in Seq(Filter)
  BY RuleNames

\* A rule whose clauses run and whose fields have columns in each of its families.
LEMMA RuleIsSound ==
  ASSUME NEW words, words # {}, NEW i \in Intents \ {"AGGREGATE"},
         NEW fs \in Seq(Families), Len(fs) \in 1 .. 4, NEW cs \in Seq(Filter),
         NEW ms \in Seq(FieldIds), NEW ss \in Seq(FieldIds),
         \A family \in Elements(fs) :
           /\ ColumnList(ms, family) /\ ColumnList(ss, family)
           /\ \A c \in Elements(cs) : RunsIn(c, family)
  PROVE  /\ SoundRule(Rule(words, SpecOf(i, fs, cs, ms, ss)))
         /\ SoundRule(Rule(words, [SpecOf(i, fs, cs, ms, ss) EXCEPT !.entities = TRUE]))
         /\ SoundRule(Rule(words, [SpecOf(i, fs, cs, ms, ss) EXCEPT !.relations = TRUE]))
<1> DEFINE Fits(s) == /\ s.intent = i /\ s.families = fs /\ s.filters = cs
                      /\ s.metrics = ms /\ s.sorts = ss
<1>1. ASSUME NEW s \in QuerySpec, Fits(s) PROVE SoundRule(Rule(words, s))
  <2>1. Runs(s)
    BY <1>1 DEF Runs, Readable, ColumnList
  <2>2. Rule(words, s).words = words /\ Rule(words, s).spec = s
    BY DEF Rule
  <2> QED
    BY <1>1, <2>1, <2>2 DEF SoundRule
<1> DEFINE s == SpecOf(i, fs, cs, ms, ss)
<1>2. Fits(s) /\ Fits([s EXCEPT !.entities = TRUE]) /\ Fits([s EXCEPT !.relations = TRUE])
  BY DEF SpecOf
<1>3. s \in QuerySpec /\ [s EXCEPT !.entities = TRUE] \in QuerySpec /\ [s EXCEPT !.relations = TRUE] \in QuerySpec
  BY SpecType
<1> HIDE DEF Fits, s
<1>4. /\ SoundRule(Rule(words, s)) /\ SoundRule(Rule(words, [s EXCEPT !.entities = TRUE]))
      /\ SoundRule(Rule(words, [s EXCEPT !.relations = TRUE]))
  BY <1>1, <1>2, <1>3
<1> QED
  BY <1>4 DEF s

LEMMA OneClause ==
  ASSUME NEW words, words # {}, NEW family \in RuleFamilies, NEW c \in Filter, RunsIn(c, family),
         NEW ms, ColumnList(ms, family), NEW ss, ColumnList(ss, family)
  PROVE  SoundRule(Find(words, family, <<c>>, ms)) /\ SoundRule(Rank(words, family, <<c>>, ms, ss))
<1>1. <<family>> \in Seq(Families) /\ Len(<<family>>) \in 1 .. 4 /\ Elements(<<family>>) = {family}
  BY RuleNames, ElementsAre
<1>2. {"FILTER", "FILTER_AND_RANK"} \subseteq Intents \ {"AGGREGATE"}
  BY DEF Intents
<1>3. ms \in Seq(FieldIds) /\ ss \in Seq(FieldIds) /\ <<>> \in Seq(FieldIds) /\ ColumnList(<<>>, family)
  BY ListTypes, ColumnLists DEF ColumnList
<1>4. <<c>> \in Seq(Filter) /\ \A d \in Elements(<<c>>) : RunsIn(d, family)
  BY ListTypes, ElementsAre
<1>5. /\ SoundRule(Rule(words, SpecOf("FILTER", <<family>>, <<c>>, ms, <<>>)))
      /\ SoundRule(Rule(words, SpecOf("FILTER_AND_RANK", <<family>>, <<c>>, ms, ss)))
  BY <1>1, <1>2, <1>3, <1>4, RuleIsSound
<1> QED
  BY <1>5 DEF Find, Rank

LEMMA IsTuple == ASSUME NEW n \in Nat, NEW S, NEW f \in [1 .. n -> S] PROVE f \in Seq(S)
  BY SeqDef

\* A list of rules is a sequence, and each of them is sound.
SoundRules(rules) ==
  rules \in Seq(Elements(rules)) /\ \A r \in Elements(rules) : SoundRule(r)

LEMMA AreSound ==
  ASSUME NEW rules, NEW n \in Nat, rules \in [1 .. n -> Elements(rules)],
         \A i \in 1 .. n : SoundRule(rules[i])
  PROVE  SoundRules(rules)
<1>1. rules \in Seq(Elements(rules))
  BY IsTuple
<1>2. DOMAIN rules = 1 .. n
  OBVIOUS
<1> QED
  BY <1>1, <1>2 DEF SoundRules, Elements

\* What a rule of one family writes is a QuerySpec, whatever its fields.
LEMMA OneFamily ==
  ASSUME NEW words, NEW family \in RuleFamilies, NEW cs \in Seq(Filter),
         NEW ms \in Seq(FieldIds), NEW ss \in Seq(FieldIds)
  PROVE  /\ Find(words, family, cs, ms).spec \in QuerySpec
         /\ Rank(words, family, cs, ms, ss).spec \in QuerySpec
<1>1. <<family>> \in Seq(Families) /\ Len(<<family>>) \in 1 .. 4
  BY RuleNames
<1>2. "FILTER" \in Intents /\ "FILTER_AND_RANK" \in Intents
  BY DEF Intents
<1>3. /\ SpecOf("FILTER", <<family>>, cs, ms, <<>>) \in QuerySpec
      /\ SpecOf("FILTER_AND_RANK", <<family>>, cs, ms, ss) \in QuerySpec
  BY <1>1, <1>2, ListTypes, SpecType
<1> QED
  BY <1>3 DEF Find, Rank, Rule

\* A rule whose spec is not run.
LEMMA DecidedIsSound ==
  ASSUME NEW r, r.words # {}, r.spec \in QuerySpec, r.spec.intent # "AGGREGATE",
         DecisionFor(r.spec) # "none"
  PROVE  SoundRule(r)
  BY DEF SoundRule

LEMMA GuardsAreSpecs == \A i \in 1 .. 10 : Guards[i].spec \in QuerySpec
<1>1. /\ Present("return_1y") \in Filter /\ Text("product_name", "GTE") \in Filter
      /\ Text("investment_region", "CONTAINS") \in Filter
      /\ Text("product_name", "CONTAINS") \in Filter
      /\ Text(Unknown, "EQ") \in Filter /\ Num(Unknown, "GTE") \in Filter
  BY ClauseTypes DEF RuleFields, Operators
<1>2. [Text("product_name", "CONTAINS") EXCEPT !.value.items = <<"unsafe">>] \in Filter
  <2>1. <<"unsafe">> \in Seq(Kinds)
    BY DEF Kinds
  <2>2. [Text("product_name", "CONTAINS").value EXCEPT !.items = <<"unsafe">>] \in Value
    BY <1>1, <2>1 DEF Filter, Value
  <2> QED
    BY <1>1, <2>2 DEF Filter, Text
<1>3. /\ <<>> \in Seq(FieldIds) /\ <<>> \in Seq(Filter) /\ <<>> \in Seq(Families)
      /\ \A c \in Filter : <<c>> \in Seq(Filter)
  BY ListTypes
<1>4. /\ "ETF_KR" \in RuleFamilies /\ "FUND_PUBLIC" \in RuleFamilies /\ "BOND_KR" \in RuleFamilies
      /\ <<"ETF_KR">> \in Seq(Families) /\ Len(<<"ETF_KR">>) \in 1 .. 4
  BY RuleNames DEF RuleFamilies
<1>5. {"UNSUPPORTED_PREDICTION", "RELATION_SEARCH", "LOOKUP_PRODUCT"} \subseteq Intents
  BY DEF Intents
<1>6. /\ Guards[1].spec \in QuerySpec /\ Guards[2].spec \in QuerySpec
      /\ Guards[7].spec \in QuerySpec
  BY <1>1, <1>3, <1>4, <1>5, SpecType DEF Guards, Rule
<1>7. /\ Guards[3].spec \in QuerySpec /\ Guards[4].spec \in QuerySpec
      /\ Guards[5].spec \in QuerySpec /\ Guards[6].spec \in QuerySpec
      /\ Guards[8].spec \in QuerySpec /\ Guards[10].spec \in QuerySpec
  BY <1>1, <1>2, <1>3, <1>4, OneFamily DEF Guards
<1>8. Guards[9].spec \in QuerySpec
  <2>1. Find({"buyable_quantity"}, "BOND_KR", <<Num(Unknown, "GTE")>>, <<>>).spec \in QuerySpec
    BY <1>1, <1>3, <1>4, OneFamily
  <2> QED
    BY <2>1 DEF Guards, Find, Rule
<1> QED
  BY <1>6, <1>7, <1>8

\* All guards but one are decided before anything runs; that one looks up a name.
LEMMA GuardsAreSound == SoundRules(Guards)
<1>1. Guards \in [1 .. 10 -> Elements(Guards)]
  BY DEF Guards, Elements
<1> DEFINE Runnable(i) == Guards[i].words # {} /\ Guards[i].spec.intent # "AGGREGATE"
<1>2. \A i \in 1 .. 10 : Runnable(i)
  <2>1. /\ Runnable(1) /\ Runnable(2) /\ Runnable(3) /\ Runnable(4) /\ Runnable(5)
        /\ Runnable(6) /\ Runnable(7) /\ Runnable(8) /\ Runnable(9) /\ Runnable(10)
    BY DEF Guards, Find, Rank, Rule, SpecOf
  <2> HIDE DEF Runnable
  <2> QED
    BY <2>1
<1>3. SoundRule(Guards[7])
  <2>1. /\ "ETF_KR" \in RuleFamilies /\ "product_name" \in Registered /\ "product_name" \in RuleFields
        /\ "ETF_KR" \in ColumnsOf["product_name"] /\ "product_name" \in Filterable
        /\ TypeOf["product_name"] = "string"
    BY RuleAssumption, ColumnAssumption DEF RuleFamilies, RuleFields
  <2>2. RunsIn(Text("product_name", "CONTAINS"), "ETF_KR")
    BY <2>1, ClausesRun
  <2>3. <<Text("product_name", "CONTAINS")>> \in Seq(Filter)
    BY <2>1, ClauseTypes, ListTypes DEF Operators
  <2>4. /\ <<"ETF_KR">> \in Seq(Families) /\ Len(<<"ETF_KR">>) \in 1 .. 4
        /\ Elements(<<"ETF_KR">>) = {"ETF_KR"}
    BY <2>1, RuleNames, ElementsAre
  <2>5. "LOOKUP_PRODUCT" \in Intents \ {"AGGREGATE"} /\ {"unknown entity"} # {}
    BY DEF Intents
  <2>6. ColumnList(<<>>, "ETF_KR") /\ <<>> \in Seq(FieldIds)
    BY ColumnLists, ListTypes
  <2>7. \A c \in Elements(<<Text("product_name", "CONTAINS")>>) : RunsIn(c, "ETF_KR")
    BY <2>2, ElementsAre
  <2>8. SoundRule(Rule({"unknown entity"},
          [SpecOf("LOOKUP_PRODUCT", <<"ETF_KR">>, <<Text("product_name", "CONTAINS")>>, <<>>, <<>>)
             EXCEPT !.entities = TRUE]))
    BY <2>3, <2>4, <2>5, <2>6, <2>7, RuleIsSound
  <2> QED
    BY <2>8 DEF Guards
<1>4. ASSUME NEW i \in 1 .. 10, i # 7 PROVE SoundRule(Guards[i])
  <2>1. DecisionFor(Guards[i].spec) # "none"
    BY <1>4, GuardsDecide
  <2>2. Guards[i].words # {} /\ Guards[i].spec.intent # "AGGREGATE"
    BY <1>2
  <2> QED
    BY <2>1, <2>2, GuardsAreSpecs, DecidedIsSound
<1> QED
  BY <1>1, <1>3, <1>4, AreSound

LEMMA RelationsAreSound == SoundRules(Relations)
<1>1. /\ <<"ETF_KR">> \in Seq(Families) /\ Len(<<"ETF_KR">>) \in 1 .. 4
      /\ "RELATION_SEARCH" \in Intents \ {"AGGREGATE"}
  BY RuleNames DEF RuleFamilies, Intents
<1>2. ASSUME NEW words, words # {} PROVE SoundRule(Rule(words, Related))
  <2>1. <<>> \in Seq(FieldIds) /\ <<>> \in Seq(Filter) /\ \A family : ColumnList(<<>>, family)
    BY ListTypes, ColumnLists
  <2>2. \A family : \A c \in Elements(<<>>) : RunsIn(c, family)
    BY ElementsAre
  <2> QED
    BY <1>1, <1>2, <2>1, <2>2, RuleIsSound DEF Related
<1>3. SoundRule(Relations[1]) /\ SoundRule(Relations[2]) /\ SoundRule(Relations[3])
  BY <1>2 DEF Relations
<1>4. Relations \in [1 .. 3 -> Elements(Relations)]
  BY DEF Relations, Elements
<1>5. \A i \in 1 .. 3 : SoundRule(Relations[i])
  BY <1>3
<1> QED
  BY <1>4, <1>5, AreSound

LEMMA AcrossAreSound == SoundRules(Across)
<1> DEFINE byName == Text("product_name", "CONTAINS")
           byRegion == Text("investment_region", "CONTAINS")
           managers == Pair("manager_or_issuer", "IN", "text")
           regions == Pair("investment_region", "IN", "text")
<1>1. /\ byName \in Filter /\ byRegion \in Filter /\ managers \in Filter /\ regions \in Filter
  BY ClauseTypes DEF RuleFields, Operators, Kinds
<1>2. /\ RunsIn(byName, "BOND_KR") /\ RunsIn(byName, "ETF_KR")
      /\ RunsIn(byRegion, "ETF_KR") /\ RunsIn(byRegion, "ETF_GLOBAL")
      /\ RunsIn(managers, "ETF_KR") /\ RunsIn(regions, "ETF_GLOBAL")
  BY RuleAssumption, ColumnAssumption, ClausesRun
<1>3. /\ ColumnList(<<"aum">>, "ETF_KR") /\ ColumnList(<<"aum", "return_1d">>, "ETF_GLOBAL")
      /\ \A family : ColumnList(<<>>, family)
  BY RuleAssumption, ColumnAssumption, ColumnLists
<1>4. /\ <<"BOND_KR", "ETF_KR">> \in Seq(Families) /\ Len(<<"BOND_KR", "ETF_KR">>) \in 1 .. 4
      /\ <<"ETF_KR", "ETF_GLOBAL">> \in Seq(Families) /\ Len(<<"ETF_KR", "ETF_GLOBAL">>) \in 1 .. 4
      /\ <<"ETF_KR">> \in Seq(Families) /\ Len(<<"ETF_KR">>) \in 1 .. 4
      /\ <<"ETF_GLOBAL">> \in Seq(Families) /\ Len(<<"ETF_GLOBAL">>) \in 1 .. 4
  BY RuleNames DEF RuleFamilies
<1>5. /\ "CROSS_FAMILY_SEARCH" \in Intents \ {"AGGREGATE"}
      /\ "COMPARE_PRODUCTS" \in Intents \ {"AGGREGATE"}
  BY DEF Intents
<1> HIDE DEF byName, byRegion, managers, regions
<1>6. ASSUME NEW words, words # {}, NEW i \in Intents \ {"AGGREGATE"}, NEW fs \in Seq(Families),
             Len(fs) \in 1 .. 4, NEW c \in Filter, NEW ms,
             \A family \in Elements(fs) : ColumnList(ms, family) /\ RunsIn(c, family),
             ms \in Seq(FieldIds)
      PROVE  SoundRule(Rule(words, SpecOf(i, fs, <<c>>, ms, <<>>)))
  <2>1. <<c>> \in Seq(Filter) /\ <<>> \in Seq(FieldIds) /\ Elements(<<c>>) = {c}
    BY ListTypes, ElementsAre
  <2> QED
    BY <1>3, <1>6, <2>1, RuleIsSound
<1>7. /\ Elements(<<"BOND_KR", "ETF_KR">>) = {"BOND_KR", "ETF_KR"}
      /\ Elements(<<"ETF_KR", "ETF_GLOBAL">>) = {"ETF_KR", "ETF_GLOBAL"}
      /\ Elements(<<"ETF_KR">>) = {"ETF_KR"} /\ Elements(<<"ETF_GLOBAL">>) = {"ETF_GLOBAL"}
  BY ElementsAre
<1>8. <<>> \in Seq(FieldIds) /\ <<"aum">> \in Seq(FieldIds) /\ <<"aum", "return_1d">> \in Seq(FieldIds)
  BY ListTypes DEF RuleFields
<1>9. /\ SoundRule(Rule({"across", "bond", "domestic ETF"},
             SpecOf("CROSS_FAMILY_SEARCH", <<"BOND_KR", "ETF_KR">>, <<byName>>, <<>>, <<>>)))
      /\ SoundRule(Rule({"across", "all ETFs"},
             SpecOf("CROSS_FAMILY_SEARCH", <<"ETF_KR", "ETF_GLOBAL">>, <<byRegion>>, <<>>, <<>>)))
  BY <1>1, <1>2, <1>3, <1>4, <1>5, <1>6, <1>7, <1>8
<1>10. /\ SoundRule(Rule({"compare", "manager", "ETF"},
             SpecOf("COMPARE_PRODUCTS", <<"ETF_KR">>, <<managers>>, <<"aum">>, <<>>)))
       /\ SoundRule(Rule({"compare", "region", "global ETF"},
             SpecOf("COMPARE_PRODUCTS", <<"ETF_GLOBAL">>, <<regions>>, <<"aum", "return_1d">>, <<>>)))
  BY <1>1, <1>2, <1>3, <1>4, <1>5, <1>6, <1>7, <1>8
<1>11. Across \in [1 .. 4 -> Elements(Across)]
  BY DEF Across, Elements
<1>12. SoundRule(Across[1]) /\ SoundRule(Across[2]) /\ SoundRule(Across[3]) /\ SoundRule(Across[4])
  BY <1>9, <1>10 DEF Across, byName, byRegion, managers, regions
<1>13. \A i \in 1 .. 4 : SoundRule(Across[i])
  BY <1>12
<1> QED
  BY <1>11, <1>13, AreSound

LEMMA LookupsAreSound == SoundRules(Lookups)
<1> DEFINE c == Text("product_name", "CONTAINS")
<1>1. /\ <<c>> \in Seq(Filter) /\ <<>> \in Seq(FieldIds) /\ Elements(<<c>>) = {c}
      /\ "LOOKUP_PRODUCT" \in Intents \ {"AGGREGATE"}
  BY ClauseTypes, ListTypes, ElementsAre DEF RuleFields, Operators, Intents
<1>2. ASSUME NEW words, words # {}, NEW family \in RuleFamilies PROVE SoundRule(LookUp(words, family))
  <2>1. <<family>> \in Seq(Families) /\ Len(<<family>>) \in 1 .. 4 /\ Elements(<<family>>) = {family}
    BY RuleNames, ElementsAre
  <2>2. family \in ColumnsOf["product_name"]
    BY ColumnAssumption DEF RuleFamilies
  <2>3. RunsIn(c, family)
    BY <2>2, RuleAssumption, ColumnAssumption, ClausesRun
  <2>4. ColumnList(<<>>, family)
    BY ColumnLists
  <2> HIDE DEF c
  <2>5. SoundRule(Rule(words, SpecOf("LOOKUP_PRODUCT", <<family>>, <<c>>, <<>>, <<>>)))
    BY <1>1, <1>2, <2>1, <2>3, <2>4, RuleIsSound
  <2> QED
    BY <2>5 DEF LookUp, c
<1>3. /\ "ETF_KR" \in RuleFamilies /\ "FUND_PUBLIC" \in RuleFamilies /\ "BOND_KR" \in RuleFamilies
      /\ "ETF_GLOBAL" \in RuleFamilies
  BY DEF RuleFamilies
<1>4. /\ SoundRule(Lookups[1]) /\ SoundRule(Lookups[2]) /\ SoundRule(Lookups[3])
      /\ SoundRule(Lookups[4]) /\ SoundRule(Lookups[5])
  BY <1>2, <1>3 DEF Lookups
<1>5. Lookups \in [1 .. 5 -> Elements(Lookups)]
  BY DEF Lookups, Elements
<1>6. \A i \in 1 .. 5 : SoundRule(Lookups[i])
  BY <1>4
<1> QED
  BY <1>5, <1>6, AreSound

LEMMA BondsAreSound == SoundRules(Bonds)
<1>1. /\ Text("asset_type", "CONTAINS") \in Filter
      /\ Num("coupon_rate", "GTE") \in Filter /\ Num("coupon_rate", "EQ") \in Filter
      /\ Num("remaining_days", "LTE") \in Filter
      /\ Pair("remaining_days", "BETWEEN", "number") \in Filter
      /\ Present("remaining_days") \in Filter
  BY ClauseTypes DEF RuleFields, Operators, Kinds
<1>2. RunsIn(Text("asset_type", "CONTAINS"), "FUND_PUBLIC")
  BY RuleAssumption, ColumnAssumption, ClausesRun
<1>3. RunsIn(Num("coupon_rate", "GTE"), "BOND_KR") /\ RunsIn(Num("coupon_rate", "EQ"), "BOND_KR")
  BY RuleAssumption, ColumnAssumption, ClausesRun
<1>4. /\ RunsIn(Num("remaining_days", "LTE"), "BOND_KR") /\ RunsIn(Present("remaining_days"), "BOND_KR")
      /\ RunsIn(Pair("remaining_days", "BETWEEN", "number"), "BOND_KR")
  BY RuleAssumption, ColumnAssumption, ClausesRun
<1>5. /\ ColumnList(DaysLeft, "BOND_KR") /\ ColumnList(<<"coupon_rate">>, "BOND_KR")
      /\ ColumnList(<<"remaining_days">>, "BOND_KR") /\ ColumnList(<<>>, "FUND_PUBLIC")
  BY RuleAssumption, ColumnAssumption, ColumnLists DEF DaysLeft
<1>6. "BOND_KR" \in RuleFamilies /\ "FUND_PUBLIC" \in RuleFamilies
  BY DEF RuleFamilies
<1>7. /\ SoundRule(Bonds[1]) /\ SoundRule(Bonds[2]) /\ SoundRule(Bonds[3]) /\ SoundRule(Bonds[4])
  BY <1>1, <1>2, <1>3, <1>4, <1>5, <1>6, OneClause DEF Bonds
<1>8. /\ SoundRule(Bonds[5]) /\ SoundRule(Bonds[6]) /\ SoundRule(Bonds[7]) /\ SoundRule(Bonds[8])
  BY <1>1, <1>4, <1>5, <1>6, OneClause DEF Bonds
<1>9. Bonds \in [1 .. 8 -> Elements(Bonds)]
  BY DEF Bonds, Elements
<1>10. \A i \in 1 .. 8 : SoundRule(Bonds[i])
  BY <1>7, <1>8
<1> QED
  BY <1>9, <1>10, AreSound

LEMMA ConcatSound ==
  ASSUME NEW a, NEW b, SoundRules(a), SoundRules(b)
  PROVE  /\ SoundRules(a \o b) /\ Len(a) \in Nat /\ Len(a) <= Len(a \o b)
         /\ \A i \in 1 .. Len(a) : (a \o b)[i] = a[i]
<1> DEFINE S == Elements(a) \cup Elements(b)
           ab == a \o b
<1>1. a \in Seq(S) /\ b \in Seq(S)
  <2>1. a \in Seq(Elements(a)) /\ b \in Seq(Elements(b))
    BY DEF SoundRules
  <2>2. Elements(a) \subseteq S /\ Elements(b) \subseteq S
    OBVIOUS
  <2> HIDE DEF S
  <2> QED
    BY <2>1, <2>2, SeqMonotonic
<1>2. Len(a) \in Nat /\ Len(b) \in Nat /\ DOMAIN a = 1 .. Len(a) /\ DOMAIN b = 1 .. Len(b)
  BY <1>1, LenProperties
<1>3. /\ ab \in Seq(S) /\ Len(ab) = Len(a) + Len(b)
      /\ \A i \in 1 .. Len(a) + Len(b) : ab[i] = IF i <= Len(a) THEN a[i] ELSE b[i - Len(a)]
  BY <1>1, ConcatProperties
<1> HIDE DEF ab
<1>4. ab \in [1 .. Len(a) + Len(b) -> Elements(ab)]
  BY <1>2, <1>3, LenProperties DEF Elements
<1>5. \A i \in 1 .. Len(a) : ab[i] = a[i]
  BY <1>2, <1>3
<1>6. ASSUME NEW i \in 1 .. Len(a) + Len(b) PROVE SoundRule(ab[i])
  <2>1. CASE i <= Len(a)
    <3>1. i \in 1 .. Len(a) /\ ab[i] = a[i]
      BY <1>2, <1>3, <2>1
    <3> QED
      BY <1>2, <3>1 DEF SoundRules, Elements
  <2>2. CASE ~(i <= Len(a))
    <3>1. i - Len(a) \in 1 .. Len(b) /\ ab[i] = b[i - Len(a)]
      BY <1>2, <1>3, <2>2
    <3> QED
      BY <1>2, <3>1 DEF SoundRules, Elements
  <2> QED
    BY <2>1, <2>2
<1>7. Len(a) + Len(b) \in Nat /\ Len(a) <= Len(a) + Len(b)
  BY <1>2
<1>8. SoundRules(ab)
  BY <1>4, <1>6, <1>7, AreSound
<1> QED
  BY <1>2, <1>3, <1>5, <1>7, <1>8 DEF ab

LEMMA DomesticAreSound == SoundRules(DomesticEtfs)
<1> DEFINE byFee == <<UsByFee, DomesticByFee>>
<1>1. /\ Text("investment_region", "CONTAINS") \in Filter /\ Present("expense_ratio") \in Filter
      /\ Present("aum") \in Filter
  BY ClauseTypes DEF RuleFields, Operators
<1>2. /\ RunsIn(Text("investment_region", "CONTAINS"), "ETF_KR")
      /\ RunsIn(Present("expense_ratio"), "ETF_KR") /\ RunsIn(Present("aum"), "ETF_KR")
  BY RuleAssumption, ColumnAssumption, ClausesRun
<1>3. /\ ColumnList(<<"expense_ratio">>, "ETF_KR") /\ ColumnList(<<"expense_ratio", "aum">>, "ETF_KR")
      /\ ColumnList(<<"return_1d", "expense_ratio">>, "ETF_KR") /\ ColumnList(<<"aum">>, "ETF_KR")
  BY RuleAssumption, ColumnAssumption, ColumnLists
<1>4. "ETF_KR" \in RuleFamilies
  BY DEF RuleFamilies
<1>5. SoundRule(UsByFee) /\ SoundRule(DomesticByFee)
  BY <1>1, <1>2, <1>3, <1>4, OneClause DEF UsByFee, DomesticByFee, ByFee
<1>6. /\ SoundRule(OtherDomesticEtfs[1]) /\ SoundRule(OtherDomesticEtfs[2])
      /\ SoundRule(OtherDomesticEtfs[3]) /\ SoundRule(OtherDomesticEtfs[4])
  BY <1>1, <1>2, <1>3, <1>4, OneClause DEF OtherDomesticEtfs
<1>7. \A i \in 1 .. 4 : SoundRule(OtherDomesticEtfs[i])
  BY <1>6
<1>8. OtherDomesticEtfs \in [1 .. 4 -> Elements(OtherDomesticEtfs)]
  BY DEF OtherDomesticEtfs, Elements
<1>9. byFee \in [1 .. 2 -> Elements(byFee)] /\ \A i \in 1 .. 2 : SoundRule(byFee[i])
  BY <1>5 DEF Elements
<1>10. SoundRules(OtherDomesticEtfs)
  BY <1>7, <1>8, AreSound
<1>11. SoundRules(byFee)
  <2> HIDE DEF byFee
  <2> QED
    BY <1>9, AreSound
<1> QED
  BY <1>10, <1>11, ConcatSound DEF DomesticEtfs

\* The first rule of these ranks by a field that must not be ranked by.
LEMMA GlobalAreSound == SoundRules(GlobalEtfs)
<1>1. /\ Num("aum", "GTE") \in Filter /\ Present("nav") \in Filter
      /\ Present("price") \in Filter /\ Present("aum") \in Filter
  BY ClauseTypes DEF RuleFields, Operators
<1>2. /\ RunsIn(Num("aum", "GTE"), "ETF_GLOBAL") /\ RunsIn(Present("nav"), "ETF_GLOBAL")
      /\ RunsIn(Present("price"), "ETF_GLOBAL") /\ RunsIn(Present("aum"), "ETF_GLOBAL")
  BY RuleAssumption, ColumnAssumption, ClausesRun
<1>3. /\ ColumnList(<<"nav">>, "ETF_GLOBAL") /\ ColumnList(<<"nav", "price">>, "ETF_GLOBAL")
      /\ ColumnList(<<"price", "nav">>, "ETF_GLOBAL") /\ ColumnList(<<"aum">>, "ETF_GLOBAL")
      /\ ColumnList(<<"aum", "return_1d">>, "ETF_GLOBAL")
  BY RuleAssumption, ColumnAssumption, ColumnLists
<1>4. "ETF_GLOBAL" \in RuleFamilies
  BY DEF RuleFamilies
<1>5. /\ SoundRule(GlobalEtfs[2]) /\ SoundRule(GlobalEtfs[3]) /\ SoundRule(GlobalEtfs[4])
      /\ SoundRule(GlobalEtfs[5]) /\ SoundRule(GlobalEtfs[6])
  BY <1>1, <1>2, <1>3, <1>4, OneClause DEF GlobalEtfs
<1>6. SoundRule(GlobalEtfs[1])
  <2>1. GlobalEtfs[1].spec \in QuerySpec
    <3>1. <<Num("aum", "GTE")>> \in Seq(Filter) /\ <<"nav_discount">> \in Seq(FieldIds)
      BY <1>1, ListTypes DEF RuleFields
    <3> QED
      BY <1>4, <3>1, OneFamily DEF GlobalEtfs
  <2>2. /\ GlobalEtfs[1].words # {} /\ GlobalEtfs[1].spec.intent # "AGGREGATE"
        /\ GlobalEtfs[1].spec.sorts = <<"nav_discount">>
    BY DEF GlobalEtfs, Rank, Rule, SpecOf
  <2>3. RankIssues(GlobalEtfs[1].spec) # {}
    BY <2>2, ElementsAre, ColumnAssumption DEF RankIssues, IssueIf
  <2> QED
    BY <2>1, <2>2, <2>3, IssuesDecide, DecidedIsSound
<1>7. \A i \in 1 .. 6 : SoundRule(GlobalEtfs[i])
  BY <1>5, <1>6
<1>8. GlobalEtfs \in [1 .. 6 -> Elements(GlobalEtfs)]
  BY DEF GlobalEtfs, Elements
<1> QED
  BY <1>7, <1>8, AreSound

LEMMA FundsAreSound == SoundRules(Funds)
<1>1. Present("aum") \in Filter /\ Present("return_1y") \in Filter
  BY ClauseTypes DEF RuleFields, Operators
<1>2. RunsIn(Present("aum"), "FUND_PUBLIC") /\ RunsIn(Present("return_1y"), "FUND_PUBLIC")
  BY RuleAssumption, ColumnAssumption, ClausesRun
<1>3. /\ ColumnList(<<"aum">>, "FUND_PUBLIC") /\ ColumnList(<<"return_1y">>, "FUND_PUBLIC")
      /\ ColumnList(<<"aum", "return_1y">>, "FUND_PUBLIC") /\ ColumnList(<<"return_1y", "aum">>, "FUND_PUBLIC")
  BY RuleAssumption, ColumnAssumption, ColumnLists
<1>4. "FUND_PUBLIC" \in RuleFamilies
  BY DEF RuleFamilies
<1>5. /\ SoundRule(Funds[1]) /\ SoundRule(Funds[2]) /\ SoundRule(Funds[3])
      /\ SoundRule(Funds[4]) /\ SoundRule(Funds[5])
  BY <1>1, <1>2, <1>3, <1>4, OneClause DEF Funds
<1>6. \A i \in 1 .. 5 : SoundRule(Funds[i])
  BY <1>5
<1>7. Funds \in [1 .. 5 -> Elements(Funds)]
  BY DEF Funds, Elements
<1> QED
  BY <1>6, <1>7, AreSound

\* All rules are sound, and the guards are asked first.
LEMMA RulesAreSound ==
  /\ SoundRules(Rules) /\ DOMAIN Rules = 1 .. Len(Rules)
  /\ Len(Rules) \in Nat /\ Len(Rules) >= 10
  /\ \A i \in 1 .. 10 : Rules[i] = Guards[i]
<1> DEFINE a == Guards \o Relations
           b == a \o Across
           c == b \o Lookups
           d == c \o Bonds
           e == d \o DomesticEtfs
           f == e \o GlobalEtfs
<1>1. Len(Guards) = 10
  BY DEF Guards
<1> DEFINE Begins(l) == SoundRules(l) /\ Len(l) \in Nat /\ Len(l) >= 10
                          /\ \A i \in 1 .. 10 : l[i] = Guards[i]
<1>2. Begins(Guards)
  BY <1>1, GuardsAreSound
<1>3. ASSUME NEW l, NEW m, Begins(l), SoundRules(m) PROVE Begins(l \o m)
  <2>1. /\ SoundRules(l \o m) /\ Len(l) \in Nat /\ Len(l) >= 10 /\ Len(l) <= Len(l \o m)
        /\ \A i \in 1 .. Len(l) : (l \o m)[i] = l[i]
    BY <1>3, ConcatSound
  <2>2. Len(l \o m) \in Nat
    BY <2>1, LenProperties DEF SoundRules
  <2>3. \A i \in 1 .. 10 : i \in 1 .. Len(l)
    BY <2>1
  <2> QED
    BY <1>3, <2>1, <2>2, <2>3
<1> HIDE DEF Begins
<1>4. Begins(a) /\ Begins(b) /\ Begins(c) /\ Begins(d) /\ Begins(e) /\ Begins(f)
  <2>1. Begins(a)
    BY <1>2, <1>3, RelationsAreSound
  <2>2. Begins(b)
    BY <2>1, <1>3, AcrossAreSound
  <2>3. Begins(c)
    BY <2>2, <1>3, LookupsAreSound
  <2>4. Begins(d)
    BY <2>3, <1>3, BondsAreSound
  <2>5. Begins(e)
    BY <2>4, <1>3, DomesticAreSound
  <2>6. Begins(f)
    BY <2>5, <1>3, GlobalAreSound
  <2> QED
    BY <2>1, <2>2, <2>3, <2>4, <2>5, <2>6
<1>5. Begins(f \o Funds)
  BY <1>3, <1>4, FundsAreSound
<1>6. Rules = f \o Funds
  BY DEF Rules
<1> HIDE DEF f
<1>7. Begins(Rules)
  BY <1>5, <1>6
<1>8. DOMAIN Rules = 1 .. Len(Rules)
  BY <1>7, LenProperties DEF Begins, SoundRules
<1> QED
  BY <1>7, <1>8 DEF Begins

LEMMA LeastIndex ==
  ASSUME NEW T \in SUBSET Nat, T # {}
  PROVE  \E m \in T : \A n \in T : m <= n
<1>1. PICK m \in T : \A n \in T : <<n, m>> \notin OpToRel(<, Nat)
  BY NatLessThanWellFounded, WFMin
<1>2. ASSUME NEW n \in T PROVE ~(n < m)
  BY <1>1, Zenon DEF OpToRel
<1> QED
  BY <1>2

\* A question is taken by the first of the rules that match it, if any does.
LEMMA FirstRuleIs ==
  ASSUME NEW q
  PROVE  /\ FirstRule(q) \in 0 .. Len(Rules)
         /\ FirstRule(q) # 0 => Matches(Rules[FirstRule(q)], q)
         /\ \A i \in 1 .. Len(Rules) :
              Matches(Rules[i], q) => FirstRule(q) # 0 /\ FirstRule(q) <= i
<1> DEFINE T == {i \in DOMAIN Rules : Matches(Rules[i], q)}
<1>1. DOMAIN Rules = 1 .. Len(Rules) /\ Len(Rules) \in Nat
  BY RulesAreSound
<1>2. CASE T = {}
  BY <1>1, <1>2 DEF FirstRule
<1>3. CASE T # {}
  <2>0. T \in SUBSET Nat
    BY <1>1
  <2>1. \E m \in T : \A n \in T : m <= n
    <3> HIDE DEF T
    <3> QED
      BY <1>3, <2>0, LeastIndex
  <2>2. \E i \in DOMAIN Rules :
          Matches(Rules[i], q) /\ \A j \in 1 .. i - 1 : ~Matches(Rules[j], q)
    <3>1. PICK m \in T : \A n \in T : m <= n
      BY <2>1
    <3>2. \A j \in 1 .. m - 1 : j \notin T /\ j \in DOMAIN Rules
      BY <1>1, <3>1
    <3> QED
      BY <3>1, <3>2
  <2> DEFINE first == CHOOSE i \in DOMAIN Rules :
                        Matches(Rules[i], q) /\ \A j \in 1 .. i - 1 : ~Matches(Rules[j], q)
  <2>3. FirstRule(q) = first
    BY <1>3 DEF FirstRule
  <2>4. first \in DOMAIN Rules /\ Matches(Rules[first], q)
        /\ \A j \in 1 .. first - 1 : ~Matches(Rules[j], q)
    BY <2>2
  <2> HIDE DEF first
  <2>5. ASSUME NEW i \in 1 .. Len(Rules), Matches(Rules[i], q) PROVE first <= i
    BY <1>1, <2>4, <2>5
  <2> QED
    BY <1>1, <2>3, <2>4, <2>5
<1> QED
  BY <1>2, <1>3

-----------------------------------------------------------------------------
\* The rules hand validation what they wrote, nothing after that changes the
\* question or the spec, and a spec that a rule wrote does not fail.
Ruled ==
  /\ taken = FirstRule(question)
  /\ question # {} => taken # 0
  /\ taken # 0 => spec = Rules[taken].spec /\ pc # "failed"
  /\ pc = "refused" => Refused(question, top)

RulesInv == Handled /\ Ruled

\* The rule that took a question is one of them, and a question without words has none.
LEMMA TakenIsSound ==
  ASSUME NEW q
  PROVE  /\ FirstRule(q) # 0 => SoundRule(Rules[FirstRule(q)])
         /\ FirstRule({}) = 0
<1>1. \A i \in 1 .. Len(Rules) : SoundRule(Rules[i])
  BY RulesAreSound DEF SoundRules, Elements
<1>2. FirstRule({}) = 0
  <2>1. ASSUME FirstRule({}) # 0 PROVE FALSE
    <3>1. FirstRule({}) \in 1 .. Len(Rules) /\ Matches(Rules[FirstRule({})], {})
      BY <2>1, FirstRuleIs, RulesAreSound
    <3> QED
      BY <1>1, <3>1 DEF Matches, SoundRule
  <2> QED
    BY <2>1
<1>3. FirstRule(q) # 0 => FirstRule(q) \in 1 .. Len(Rules)
  BY FirstRuleIs, RulesAreSound
<1> QED
  BY <1>1, <1>2, <1>3

LEMMA RulesInvInit == RulesInit => RulesInv
<1> SUFFICES ASSUME RulesInit PROVE RulesInv
  OBVIOUS
<1>1. taken = FirstRule(question)
      /\ ((taken # 0 /\ spec = Rules[taken].spec) \/ (question = {} /\ spec \in Specs))
  BY DEF RulesInit
<1>2. spec \in QuerySpec
  BY <1>1, TakenIsSound, SpecsAssumption DEF SoundRule
<1>3. /\ pc = "validate" \/ pc = "refused"
      /\ pc = "refused" => Refused(question, top)
      /\ decision = "none" /\ queried = 0
  BY DEF RulesInit, Parsed
<1>4. Handled
  BY <1>2, <1>3, SpecParts DEF Handled, TypeOK, AcceptedSpecsRun
<1>5. Ruled
  BY <1>1, <1>3, TakenIsSound DEF Ruled
<1> QED
  BY <1>4, <1>5 DEF RulesInv

\* What a rule wrote does not fail on its way.
LEMMA RuledDoesNotFail ==
  ASSUME RulesInv, [Next]_vars, taken # 0
  PROVE  pc' # "failed"
<1>1. /\ SoundRule(Rules[taken]) /\ spec = Rules[taken].spec /\ pc # "failed" /\ spec \in QuerySpec
      /\ pc = "compile" => /\ Issues(spec) = {} /\ spec.intent # "UNSUPPORTED_PREDICTION"
                           /\ queried \in 0 .. Len(spec.families) /\ queried < Len(spec.families)
      /\ pc = "aggregate" => Averaged(spec)
  BY TakenIsSound DEF RulesInv, Ruled, Handled, TypeOK
<1>2. CASE QueryFamily
  <2> DEFINE family == spec.families[queried + 1]
  <2>1. Issues(spec) = {} /\ DecisionFor(spec) = "none"
    BY <1>1, <1>2 DEF QueryFamily, DecisionFor
  <2>2. Runs(spec)
    BY <1>1, <2>1 DEF SoundRule
  <2>3. family \in Elements(spec.families)
    <3>1. spec.families \in Seq(Families) /\ Len(spec.families) \in Nat
      BY <1>1, SpecParts
    <3>2. queried + 1 \in 1 .. Len(spec.families)
      BY <1>1, <1>2, <3>1 DEF QueryFamily
    <3> QED
      BY <3>1, <3>2 DEF Elements
  <2> HIDE DEF family
  <2>4. Readable(spec, family) /\ \A c \in Elements(spec.filters) : Compilable(c, family) /\ Executes(c) = {TRUE}
    BY <2>2, <2>3 DEF Runs, RunsIn
  <2>5. Plannable(spec)
    BY <2>1, NoIssues DEF Plannable
  <2>6. ~(\/ ~Plannable(spec) \/ ~Readable(spec, family)
          \/ \E c \in Elements(spec.filters) : ~Compilable(c, family) \/ FALSE \in Executes(c))
    BY <2>4, <2>5
  <2> QED
    BY <1>2, <2>6 DEF QueryFamily, family
<1>3. CASE Aggregate
  BY <1>1, <1>3 DEF Aggregate, Averaged, SoundRule
<1>4. CASE Validate
  BY <1>4 DEF Validate
<1>5. CASE UNCHANGED vars
  BY <1>1, <1>5 DEF vars
<1> QED
  BY <1>2, <1>3, <1>4, <1>5 DEF Next

LEMMA RulesInvStep == RulesInv /\ [RulesNext]_<<vars, ruleVars>> => RulesInv'
<1> SUFFICES ASSUME RulesInv, [RulesNext]_<<vars, ruleVars>> PROVE RulesInv'
  OBVIOUS
<1>1. [Next]_vars /\ question' = question /\ top' = top /\ taken' = taken
  BY DEF RulesNext, ruleVars
<1>2. Handled'
  BY <1>1, HandledStep DEF RulesInv
<1>3. spec' = spec /\ (pc' = "refused" => pc = "refused")
  BY <1>1 DEF Next, Validate, QueryFamily, Aggregate, vars
<1>4. taken # 0 => pc' # "failed"
  BY <1>1, RuledDoesNotFail
<1>5. Ruled'
  BY <1>1, <1>3, <1>4 DEF RulesInv, Ruled, Refused, FirstRule
<1> QED
  BY <1>2, <1>5 DEF RulesInv

\* The spec, the decision and the count of families queried keep their types,
\* whether a rule or HCX wrote the spec.
THEOREM TypeCorrect == RulesSpec => []TypeOK
<1>1. RulesInv => TypeOK
  BY DEF RulesInv, Handled
<1> QED
  BY <1>1, RulesInvInit, RulesInvStep, PTL DEF RulesSpec

\* What the rules write in HCX's place is no exception: accepted, it runs.
THEOREM RuledSpecsAlwaysRun == RulesSpec => [](TypeOK /\ AcceptedSpecsRun)
<1>1. RulesInv => TypeOK /\ AcceptedSpecsRun
  BY DEF RulesInv, Handled
<1> QED
  BY <1>1, RulesInvInit, RulesInvStep, PTL DEF RulesSpec

\* The guards whose words are predictions, decision fields and SQL fragments take
\* every question that has them, or a guard before them does.
LEMMA GuardsTake ==
  ASSUME NEW q
  PROVE  /\ "predict" \in q => FirstRule(q) = 1
         /\ ("SELECT" \in q \/ ("buyable_quantity" \in q /\ "unused" \notin q))
              => FirstRule(q) \in 1 .. 10
<1>1. /\ Rules[1] = Guards[1] /\ Rules[9] = Guards[9] /\ Rules[10] = Guards[10]
      /\ 1 \in 1 .. Len(Rules) /\ 9 \in 1 .. Len(Rules) /\ 10 \in 1 .. Len(Rules)
      /\ Len(Rules) \in Nat
  BY RulesAreSound
<1>2. /\ Guards[1].words = {"predict"} /\ Guards[1].unless = {}
      /\ Guards[9].words = {"buyable_quantity"} /\ Guards[9].unless = {"unused"}
      /\ Guards[10].words = {"SELECT"} /\ Guards[10].unless = {}
  BY DEF Guards, Find, Rule
<1>3. FirstRule(q) \in 0 .. Len(Rules)
  BY FirstRuleIs
<1>4. ASSUME NEW n \in {1, 9, 10}, Matches(Rules[n], q)
      PROVE  FirstRule(q) # 0 /\ FirstRule(q) <= n
  BY <1>1, <1>4, FirstRuleIs
<1>5. "predict" \in q => Matches(Rules[1], q)
  BY <1>1, <1>2 DEF Matches
<1>6. "SELECT" \in q => Matches(Rules[10], q)
  BY <1>1, <1>2 DEF Matches
<1>7. "buyable_quantity" \in q /\ "unused" \notin q => Matches(Rules[9], q)
  BY <1>1, <1>2 DEF Matches
<1> QED
  BY <1>1, <1>3, <1>4, <1>5, <1>6, <1>7

\* A question that must be refused is, however many other phrases are in it and
\* whatever the rules further down would have made of them.
THEOREM RefusalsAlwaysHold == RulesSpec => []RefusalsHold
<1>1. RulesInv => RefusalsHold
  <2> SUFFICES ASSUME RulesInv, pc # "validate",
                      \/ "predict" \in question
                      \/ "SELECT" \in question
                      \/ "buyable_quantity" \in question /\ "unused" \notin question
               PROVE  /\ "predict" \in question => decision = "ABSTAIN"
                      /\ decision # "none" \/ Rules[taken].words = {"unknown entity"}
    BY DEF RefusalsHold
  <2>1. taken = FirstRule(question) /\ taken \in 1 .. 10
        /\ ("predict" \in question => taken = 1)
    BY GuardsTake DEF RulesInv, Ruled
  <2>2. spec = Rules[taken].spec /\ Rules[taken] = Guards[taken]
    BY <2>1, RulesAreSound DEF RulesInv, Ruled
  <2>3. pc # "refused"
    <3>1. Rules[taken].words # {"high return fund"}
      BY <2>1, <2>2, GuardsDecide
    <3>2. LimitOf(Rules[taken], top) = 5
      BY <3>1 DEF LimitOf
    <3>3. ~Refused(question, top)
      BY <2>1, <3>2 DEF Refused
    <3> QED
      BY <3>3 DEF RulesInv, Ruled
  <2>4. decision = DecisionFor(spec)
    BY <2>3 DEF RulesInv, Handled
  <2> QED
    BY <2>1, <2>2, <2>4, GuardsDecide
<1> QED
  BY <1>1, RulesInvInit, RulesInvStep, PTL DEF RulesSpec

\* No question that a rule takes ends in a 503, however many phrases it has, but for
\* a TOP n that QuerySpec refuses: what the rules of korean_rule_parser write is
\* decided before it runs, or each family they search has the columns they name.
THEOREM RulesAlwaysAskForWhatExists == RulesSpec => []RulesAskForWhatExists
<1>1. RulesInv => RulesAskForWhatExists
  <2> SUFFICES ASSUME RulesInv, taken # 0
               PROVE  pc # "failed" /\ (pc = "refused" => top \notin 0 .. 10)
    BY DEF RulesAskForWhatExists
  <2>1. pc = "refused" => LimitOf(Rules[FirstRule(question)], top) \notin 1 .. 10
    BY DEF RulesInv, Ruled, Refused
  <2>2. ASSUME NEW n, LimitOf(Rules[FirstRule(question)], top) = n, n \notin 1 .. 10
        PROVE  top \notin 0 .. 10
    <3>1. 5 \in 1 .. 10 /\ (top \in 0 .. 10 => top = 0 \/ top \in 1 .. 10)
      OBVIOUS
    <3>2. n = top /\ top # 0
      BY <2>2, <3>1 DEF LimitOf
    <3> QED
      BY <2>2, <3>1, <3>2
  <2> QED
    BY <2>1, <2>2 DEF RulesInv, Ruled
<1> QED
  BY <1>1, RulesInvInit, RulesInvStep, PTL DEF RulesSpec

-----------------------------------------------------------------------------
(***************************************************************************)
(* Why the first rule is the most specific.  Nearly every rule has a word  *)
(* of its own: no rule further down asks for it, not even within a longer  *)
(* phrase.  Order gives that word the rule's number, and no word of a rule *)
(* a smaller one.  A rule that asked for all the words of one before it    *)
(* would ask for a word with that one's number, and has none.              *)
(***************************************************************************)

Shared == 100  \* of a word that several rules ask for

\* The rule that a word belongs to.
Order(w) ==
  CASE w = "predict" -> 1
    [] w = "no relation" -> 2
    [] w = "rank without filter" -> 3
    [] w = "search without filter" -> 4
    [] w = "wrong operator" -> 5
    [] w = "bonds by region" -> 6
    [] w = "unknown entity" -> 7
    [] w = "unknown field" -> 8
    [] w = "buyable_quantity" -> 9
    [] w = "SELECT" -> 10
    [] w = "subsidiary" -> 11
    [] w = "affiliate" -> 12
    [] w = "ETF that holds" -> 13
    [] w = "across" -> 15
    [] w = "all ETFs" -> 15
    [] w = "manager" -> 16
    [] w = "compare" -> 17
    [] w = "no such product" -> 18
    [] w = "named global ETF" -> 19
    [] w = "named domestic ETF" -> 20
    [] w = "named bond" -> 21
    [] w = "named fund" -> 22
    [] w = "private fund" -> 23
    [] w = "no such coupon" -> 24
    [] w = "coupon of zero" -> 25
    [] w = "no match" -> 26
    [] w = "filter by days left" -> 27
    [] w = "days left from to" -> 28
    [] w = "days left up to" -> 29
    [] w = "few days left" -> 30
    [] w = "domestic ETF of US by fee" -> 31
    [] w = "domestic ETF by fee" -> 32
    [] w = "low fee large domestic ETF" -> 33
    [] w = "high return low fee domestic ETF" -> 34
    [] w = "domestic ETF by size" -> 35
    [] w = "domestic ETF of US" -> 36
    [] w = "discount" -> 37
    [] w = "global ETF NAV by" -> 38
    [] w = "global ETF close" -> 39
    [] w = "global ETF with size" -> 40
    [] w = "global ETF by size" -> 41
    [] w = "at least" -> 42
    [] w = "fund by size" -> 43
    [] w = "large high return fund" -> 44
    [] w = "fund by return alone" -> 45
    [] w = "fund with return" -> 46
    [] w = "high return fund" -> 47
    [] OTHER -> Shared

\* What Order gives, word by word.
LEMMA OrderIs ==
  /\ Order("predict") = 1 /\ Order("no relation") = 2
  /\ Order("rank without filter") = 3 /\ Order("search without filter") = 4
  /\ Order("wrong operator") = 5 /\ Order("bonds by region") = 6
  /\ Order("unknown entity") = 7 /\ Order("unknown field") = 8
  /\ Order("buyable_quantity") = 9 /\ Order("SELECT") = 10
  /\ Order("subsidiary") = 11 /\ Order("affiliate") = 12
  /\ Order("ETF that holds") = 13 /\ Order("across") = 15
  /\ Order("all ETFs") = 15 /\ Order("manager") = 16
  /\ Order("compare") = 17 /\ Order("no such product") = 18
  /\ Order("named global ETF") = 19 /\ Order("named domestic ETF") = 20
  /\ Order("named bond") = 21 /\ Order("named fund") = 22
  /\ Order("private fund") = 23 /\ Order("no such coupon") = 24
  /\ Order("coupon of zero") = 25 /\ Order("no match") = 26
  /\ Order("filter by days left") = 27 /\ Order("days left from to") = 28
  /\ Order("days left up to") = 29 /\ Order("few days left") = 30
  /\ Order("domestic ETF of US by fee") = 31 /\ Order("domestic ETF by fee") = 32
  /\ Order("low fee large domestic ETF") = 33 /\ Order("high return low fee domestic ETF") = 34
  /\ Order("domestic ETF by size") = 35 /\ Order("domestic ETF of US") = 36
  /\ Order("discount") = 37 /\ Order("global ETF NAV by") = 38
  /\ Order("global ETF close") = 39 /\ Order("global ETF with size") = 40
  /\ Order("global ETF by size") = 41 /\ Order("at least") = 42
  /\ Order("fund by size") = 43 /\ Order("large high return fund") = 44
  /\ Order("fund by return alone") = 45 /\ Order("fund with return") = 46
  /\ Order("high return fund") = 47 /\ Order("bond") = Shared
  /\ Order("domestic ETF") = Shared /\ Order("ETF") = Shared
  /\ Order("region") = Shared /\ Order("global ETF") = Shared
  /\ Order("days left") = Shared /\ Order("global ETF NAV") = Shared
  /\ Order("size") = Shared
<1>1. /\ Order("predict") = 1 /\ Order("no relation") = 2
      /\ Order("rank without filter") = 3 /\ Order("search without filter") = 4
      /\ Order("wrong operator") = 5 /\ Order("bonds by region") = 6
      /\ Order("unknown entity") = 7 /\ Order("unknown field") = 8
  BY DEF Order
<1>2. /\ Order("buyable_quantity") = 9 /\ Order("SELECT") = 10
      /\ Order("subsidiary") = 11 /\ Order("affiliate") = 12
      /\ Order("ETF that holds") = 13 /\ Order("across") = 15
      /\ Order("all ETFs") = 15 /\ Order("manager") = 16
  BY DEF Order
<1>3. /\ Order("compare") = 17 /\ Order("no such product") = 18
      /\ Order("named global ETF") = 19 /\ Order("named domestic ETF") = 20
      /\ Order("named bond") = 21 /\ Order("named fund") = 22
      /\ Order("private fund") = 23 /\ Order("no such coupon") = 24
  BY DEF Order
<1>4. /\ Order("coupon of zero") = 25 /\ Order("no match") = 26
      /\ Order("filter by days left") = 27 /\ Order("days left from to") = 28
      /\ Order("days left up to") = 29 /\ Order("few days left") = 30
      /\ Order("domestic ETF of US by fee") = 31 /\ Order("domestic ETF by fee") = 32
  BY DEF Order
<1>5. /\ Order("low fee large domestic ETF") = 33 /\ Order("high return low fee domestic ETF") = 34
      /\ Order("domestic ETF by size") = 35 /\ Order("domestic ETF of US") = 36
      /\ Order("discount") = 37 /\ Order("global ETF NAV by") = 38
      /\ Order("global ETF close") = 39 /\ Order("global ETF with size") = 40
  BY DEF Order
<1>6. /\ Order("global ETF by size") = 41 /\ Order("at least") = 42
      /\ Order("fund by size") = 43 /\ Order("large high return fund") = 44
      /\ Order("fund by return alone") = 45 /\ Order("fund with return") = 46
      /\ Order("high return fund") = 47 /\ Order("bond") = Shared
  BY DEF Order
<1>7. /\ Order("domestic ETF") = Shared /\ Order("ETF") = Shared
      /\ Order("region") = Shared /\ Order("global ETF") = Shared
      /\ Order("days left") = Shared /\ Order("global ETF NAV") = Shared
      /\ Order("size") = Shared
  BY DEF Order
<1> QED
  BY <1>1, <1>2, <1>3, <1>4, <1>5, <1>6, <1>7

\* A number in any case, Shared at most.
LEMMA OrderIsNumber == \A w : Order(w) \in 1 .. Shared
  BY DEF Order, Shared

\* A phrase belongs to no later rule than the phrases inside it.
LEMMA PhrasesComeFirst ==
  ASSUME NEW w \in Words, NEW v \in Inside[w]
  PROVE  Order(v) >= Order(w)
<1>0. Order(w) \in 1 .. 100 /\ Order(v) \in 1 .. 100
  BY OrderIsNumber DEF Shared
<1>1. CASE v = w
  BY <1>0, <1>1
<1>2. CASE v # w
  <2> DEFINE shared == {"bond", "ETF", "region", "global ETF", "domestic ETF", "size",
                        "days left", "global ETF NAV"}
  <2>1. \/ v \in shared
        \/ w = "domestic ETF of US by fee" /\ v = "domestic ETF of US"
        \/ w = "domestic ETF of US by fee" /\ v = "domestic ETF by fee"
        \/ w = "large high return fund" /\ v = "high return fund"
    BY <1>2 DEF Inside
  <2>2. v \in shared => Order(v) = Shared
    BY OrderIs, Zenon
  <2>3. /\ Order("domestic ETF of US by fee") = 31 /\ Order("domestic ETF of US") = 36
        /\ Order("domestic ETF by fee") = 32
        /\ Order("large high return fund") = 44 /\ Order("high return fund") = 47
    BY OrderIs
  <2> HIDE DEF shared
  <2>4. CASE v \in shared
    BY <1>0, <2>2, <2>4 DEF Shared
  <2>5. CASE w = "domestic ETF of US by fee" /\ v = "domestic ETF of US"
    <3>1. Order(w) = 31 /\ Order(v) = 36
      BY <2>3, <2>5, Zenon
    <3> QED
      BY <3>1
  <2>6. CASE w = "domestic ETF of US by fee" /\ v = "domestic ETF by fee"
    <3>1. Order(w) = 31 /\ Order(v) = 32
      BY <2>3, <2>6, Zenon
    <3> QED
      BY <3>1
  <2>7. CASE w = "large high return fund" /\ v = "high return fund"
    <3>1. Order(w) = 44 /\ Order(v) = 47
      BY <2>3, <2>7, Zenon
    <3> QED
      BY <3>1
  <2> QED
    BY <2>1, <2>4, <2>5, <2>6, <2>7
<1> QED
  BY <1>1, <1>2


\* Rule n has no word of a rule before it and one of its own; but both rules across
\* families have "across", and "bond" tells the first from the second.
Ranks(rule, n) ==
  /\ \A v \in rule.words : Order(v) >= n
  /\ IF n = 14 THEN {"across", "bond"} \subseteq rule.words ELSE \E w \in rule.words : Order(w) = n
  /\ n = 15 => rule.words = {"across", "all ETFs"}

\* n rules, of which the first is the one after rule k.
Ranked(rules, k, n) ==
  rules \in Seq(Elements(rules)) /\ Len(rules) = n /\ \A i \in 1 .. n : Ranks(rules[i], k + i)

\* One of its words is its own, and the others are shared.
Own(rule, n) ==
  /\ \E w \in rule.words : Order(w) = n
  /\ \A v \in rule.words : Order(v) = n \/ Order(v) = Shared

\* Rules that have a word each, anywhere but where rules 14 and 15 are.
LEMMA OwnWords ==
  ASSUME NEW rules, NEW k \in Nat, NEW n \in Nat, rules \in [1 .. n -> Elements(rules)], Len(rules) = n,
         k + n < 14 \/ k > 14, k + n < 48,
         \A i \in 1 .. n : Own(rules[i], k + i)
  PROVE  Ranked(rules, k, n)
<1>1. ASSUME NEW i \in 1 .. n PROVE Ranks(rules[i], k + i)
  <2>1. k + i \in 1 .. 47 /\ k + i # 14 /\ k + i # 15
    OBVIOUS
  <2>2. \A v \in rules[i].words : Order(v) >= k + i
    BY <2>1 DEF Own, Shared
  <2> QED
    BY <2>1, <2>2 DEF Ranks, Own
<1> QED
  BY <1>1, IsTuple DEF Ranked

\* Lists of rules one after the other.
LEMMA RankedConcat ==
  ASSUME NEW a, NEW b, NEW k \in Nat, NEW m \in Nat, NEW n \in Nat, Ranked(a, k, m), Ranked(b, k + m, n)
  PROVE  Ranked(a \o b, k, m + n)
<1> DEFINE S == Elements(a) \cup Elements(b)
           ab == a \o b
<1>1. a \in Seq(S) /\ b \in Seq(S) /\ Len(a) = m /\ Len(b) = n
  <2>1. a \in Seq(Elements(a)) /\ b \in Seq(Elements(b)) /\ Len(a) = m /\ Len(b) = n
    BY DEF Ranked
  <2>2. Elements(a) \subseteq S /\ Elements(b) \subseteq S
    OBVIOUS
  <2> HIDE DEF S
  <2> QED
    BY <2>1, <2>2, SeqMonotonic
<1>2. /\ ab \in Seq(S) /\ Len(ab) = m + n
      /\ \A i \in 1 .. m + n : ab[i] = IF i <= m THEN a[i] ELSE b[i - m]
  BY <1>1, ConcatProperties
<1> HIDE DEF ab, S
<1>3. ab \in Seq(Elements(ab))
  <2>1. ab \in [1 .. m + n -> Elements(ab)] /\ m + n \in Nat
    BY <1>2, LenProperties DEF Elements
  <2> QED
    BY <2>1, IsTuple
<1>4. ASSUME NEW i \in 1 .. m + n PROVE Ranks(ab[i], k + i)
  <2>1. CASE i <= m
    <3>1. i \in 1 .. m /\ ab[i] = a[i]
      BY <1>2, <2>1
    <3> QED
      BY <3>1 DEF Ranked
  <2>2. CASE ~(i <= m)
    <3>1. i - m \in 1 .. n /\ ab[i] = b[i - m] /\ k + m + (i - m) = k + i
      BY <1>2, <2>2
    <3>2. Ranks(b[i - m], k + m + (i - m))
      BY <3>1 DEF Ranked
    <3> QED
      BY <3>1, <3>2
  <2> QED
    BY <2>1, <2>2
<1> QED
  BY <1>2, <1>3, <1>4 DEF Ranked, ab

\* The words of each list of rules, and that each rule has its own.
LEMMA GuardsRanked == Ranked(Guards, 0, 10)
<1>1. /\ Guards[1].words = {"predict"} /\ Guards[2].words = {"no relation"}
      /\ Guards[3].words = {"rank without filter"} /\ Guards[4].words = {"search without filter"}
      /\ Guards[5].words = {"wrong operator"} /\ Guards[6].words = {"bonds by region"}
      /\ Guards[7].words = {"unknown entity"} /\ Guards[8].words = {"unknown field"}
      /\ Guards[9].words = {"buyable_quantity"} /\ Guards[10].words = {"SELECT"}
  BY DEF Guards, Rule, Find, Rank
<1>2. /\ Order("predict") = 1 /\ Order("no relation") = 2 /\ Order("rank without filter") = 3
      /\ Order("search without filter") = 4 /\ Order("wrong operator") = 5 /\ Order("bonds by region") = 6
      /\ Order("unknown entity") = 7 /\ Order("unknown field") = 8 /\ Order("buyable_quantity") = 9
      /\ Order("SELECT") = 10
  BY OrderIs
<1>3. \A i \in 1 .. 10 : Own(Guards[i], 0 + i)
  <2> DEFINE P(i) == Own(Guards[i], 0 + i)
  <2>1. /\ Own(Guards[1], 1) /\ Own(Guards[2], 2) /\ Own(Guards[3], 3)
        /\ Own(Guards[4], 4) /\ Own(Guards[5], 5) /\ Own(Guards[6], 6)
        /\ Own(Guards[7], 7) /\ Own(Guards[8], 8) /\ Own(Guards[9], 9)
        /\ Own(Guards[10], 10)
    BY <1>1, <1>2, Zenon DEF Own
  <2>2. /\ P(1) /\ P(2) /\ P(3) /\ P(4) /\ P(5)
        /\ P(6) /\ P(7) /\ P(8) /\ P(9) /\ P(10)
    BY <2>1
  <2> HIDE DEF P
  <2>3. \A i \in 1 .. 10 : P(i)
    BY <2>2
  <2> QED
    BY <2>3 DEF P
<1>4. Guards \in [1 .. 10 -> Elements(Guards)] /\ Len(Guards) = 10
  BY DEF Guards, Elements
<1>5. 0 \in Nat /\ 10 \in Nat /\ (0 + 10 < 14 \/ 0 > 14) /\ 0 + 10 < 48
  OBVIOUS
<1> QED
  BY <1>3, <1>4, <1>5, OwnWords, Zenon

LEMMA RelationsRanked == Ranked(Relations, 10, 3)
<1>1. /\ Relations[1].words = {"subsidiary"} /\ Relations[2].words = {"affiliate"}
      /\ Relations[3].words = {"ETF that holds"}
  BY DEF Relations, Rule
<1>2. /\ Order("subsidiary") = 11 /\ Order("affiliate") = 12 /\ Order("ETF that holds") = 13
  BY OrderIs
<1>3. \A i \in 1 .. 3 : Own(Relations[i], 10 + i)
  <2> DEFINE P(i) == Own(Relations[i], 10 + i)
  <2>1. /\ Own(Relations[1], 11) /\ Own(Relations[2], 12) /\ Own(Relations[3], 13)
    BY <1>1, <1>2, Zenon DEF Own
  <2>2. /\ P(1) /\ P(2) /\ P(3)
    BY <2>1
  <2> HIDE DEF P
  <2>3. \A i \in 1 .. 3 : P(i)
    BY <2>2
  <2> QED
    BY <2>3 DEF P
<1>4. Relations \in [1 .. 3 -> Elements(Relations)] /\ Len(Relations) = 3
  BY DEF Relations, Elements
<1>5. 10 \in Nat /\ 3 \in Nat /\ (10 + 3 < 14 \/ 10 > 14) /\ 10 + 3 < 48
  OBVIOUS
<1> QED
  BY <1>3, <1>4, <1>5, OwnWords, Zenon

LEMMA AcrossRanked == Ranked(Across, 13, 4)
<1>1. /\ Across[1].words = {"across", "bond", "domestic ETF"} /\ Across[2].words = {"across", "all ETFs"}
      /\ Across[3].words = {"compare", "manager", "ETF"} /\ Across[4].words = {"compare", "region", "global ETF"}
  BY DEF Across, Rule
<1>2. /\ Order("across") = 15 /\ Order("bond") = Shared /\ Order("domestic ETF") = Shared
      /\ Order("all ETFs") = 15 /\ Order("compare") = 17 /\ Order("manager") = 16
      /\ Order("ETF") = Shared /\ Order("region") = Shared /\ Order("global ETF") = Shared
  BY OrderIs
<1>3. /\ \A v \in Across[1].words : Order(v) = 15 \/ Order(v) = Shared
      /\ \A v \in Across[2].words : Order(v) = 15
      /\ \A v \in Across[3].words : Order(v) = 16 \/ Order(v) = 17 \/ Order(v) = Shared
      /\ \A v \in Across[4].words : Order(v) = 17 \/ Order(v) = Shared
  BY <1>1, <1>2, Zenon
<1>4. /\ \E w \in Across[2].words : Order(w) = 15
      /\ \E w \in Across[3].words : Order(w) = 16
      /\ \E w \in Across[4].words : Order(w) = 17
  BY <1>1, <1>2, Zenon
<1>5. \A i \in 1 .. 4 : Ranks(Across[i], 13 + i)
  <2> DEFINE P(i) == Ranks(Across[i], 13 + i)
  <2>1. Ranks(Across[1], 14)
    <3>1. \A v \in Across[1].words : Order(v) >= 14
      BY <1>3 DEF Shared
    <3>2. {"across", "bond"} \subseteq Across[1].words
      BY <1>1, Zenon
    <3> QED
      BY <3>1, <3>2 DEF Ranks
  <2>2. Ranks(Across[2], 15)
    <3>1. \A v \in Across[2].words : Order(v) >= 15
      BY <1>3
    <3>2. Across[2].words = {"across", "all ETFs"}
      BY <1>1, Zenon
    <3>3. \E w \in Across[2].words : Order(w) = 15
      BY <1>4
    <3>4. 15 # 14
      OBVIOUS
    <3> QED
      BY <3>1, <3>2, <3>3, <3>4, Zenon DEF Ranks
  <2>3. Ranks(Across[3], 16)
    BY <1>3, <1>4 DEF Ranks, Shared
  <2>4. Ranks(Across[4], 17)
    BY <1>3, <1>4 DEF Ranks, Shared
  <2>5. P(1) /\ P(2) /\ P(3) /\ P(4)
    BY <2>1, <2>2, <2>3, <2>4
  <2> HIDE DEF P
  <2>6. \A i \in 1 .. 4 : P(i)
    BY <2>5
  <2> QED
    BY <2>6 DEF P
<1>6. Across \in [1 .. 4 -> Elements(Across)] /\ Len(Across) = 4
  BY DEF Across, Elements
<1> QED
  BY <1>5, <1>6, IsTuple DEF Ranked

LEMMA LookupsRanked == Ranked(Lookups, 17, 5)
<1>1. /\ Lookups[1].words = {"no such product"} /\ Lookups[2].words = {"named global ETF"}
      /\ Lookups[3].words = {"named domestic ETF"} /\ Lookups[4].words = {"named bond"}
      /\ Lookups[5].words = {"named fund"}
  BY DEF Lookups, LookUp, Rule
<1>2. /\ Order("no such product") = 18 /\ Order("named global ETF") = 19 /\ Order("named domestic ETF") = 20
      /\ Order("named bond") = 21 /\ Order("named fund") = 22
  BY OrderIs
<1>3. \A i \in 1 .. 5 : Own(Lookups[i], 17 + i)
  <2> DEFINE P(i) == Own(Lookups[i], 17 + i)
  <2>1. /\ Own(Lookups[1], 18) /\ Own(Lookups[2], 19) /\ Own(Lookups[3], 20)
        /\ Own(Lookups[4], 21) /\ Own(Lookups[5], 22)
    BY <1>1, <1>2, Zenon DEF Own
  <2>2. /\ P(1) /\ P(2) /\ P(3) /\ P(4) /\ P(5)
    BY <2>1
  <2> HIDE DEF P
  <2>3. \A i \in 1 .. 5 : P(i)
    BY <2>2
  <2> QED
    BY <2>3 DEF P
<1>4. Lookups \in [1 .. 5 -> Elements(Lookups)] /\ Len(Lookups) = 5
  BY DEF Lookups, Elements
<1>5. 17 \in Nat /\ 5 \in Nat /\ (17 + 5 < 14 \/ 17 > 14) /\ 17 + 5 < 48
  OBVIOUS
<1> QED
  BY <1>3, <1>4, <1>5, OwnWords, Zenon

LEMMA BondsRanked == Ranked(Bonds, 22, 8)
<1>1. /\ Bonds[1].words = {"private fund"} /\ Bonds[2].words = {"no such coupon"}
      /\ Bonds[3].words = {"coupon of zero"} /\ Bonds[4].words = {"no match", "days left"}
      /\ Bonds[5].words = {"filter by days left"} /\ Bonds[6].words = {"days left from to"}
      /\ Bonds[7].words = {"days left up to"} /\ Bonds[8].words = {"few days left"}
  BY DEF Bonds, Find, Rank, Rule
<1>2. /\ Order("private fund") = 23 /\ Order("no such coupon") = 24 /\ Order("coupon of zero") = 25
      /\ Order("no match") = 26 /\ Order("days left") = Shared /\ Order("filter by days left") = 27
      /\ Order("days left from to") = 28 /\ Order("days left up to") = 29 /\ Order("few days left") = 30
  BY OrderIs
<1>3. \A i \in 1 .. 8 : Own(Bonds[i], 22 + i)
  <2> DEFINE P(i) == Own(Bonds[i], 22 + i)
  <2>1. /\ Own(Bonds[1], 23) /\ Own(Bonds[2], 24) /\ Own(Bonds[3], 25)
        /\ Own(Bonds[4], 26) /\ Own(Bonds[5], 27) /\ Own(Bonds[6], 28)
        /\ Own(Bonds[7], 29) /\ Own(Bonds[8], 30)
    BY <1>1, <1>2, Zenon DEF Own
  <2>2. /\ P(1) /\ P(2) /\ P(3) /\ P(4) /\ P(5)
        /\ P(6) /\ P(7) /\ P(8)
    BY <2>1
  <2> HIDE DEF P
  <2>3. \A i \in 1 .. 8 : P(i)
    BY <2>2
  <2> QED
    BY <2>3 DEF P
<1>4. Bonds \in [1 .. 8 -> Elements(Bonds)] /\ Len(Bonds) = 8
  BY DEF Bonds, Elements
<1>5. 22 \in Nat /\ 8 \in Nat /\ (22 + 8 < 14 \/ 22 > 14) /\ 22 + 8 < 48
  OBVIOUS
<1> QED
  BY <1>3, <1>4, <1>5, OwnWords, Zenon

LEMMA OtherDomesticEtfsRanked == Ranked(OtherDomesticEtfs, 32, 4)
<1>1. /\ OtherDomesticEtfs[1].words = {"low fee large domestic ETF"}
      /\ OtherDomesticEtfs[2].words = {"high return low fee domestic ETF"}
      /\ OtherDomesticEtfs[3].words = {"domestic ETF by size"} /\ OtherDomesticEtfs[4].words = {"domestic ETF of US"}
  BY DEF OtherDomesticEtfs, Find, Rank, Rule
<1>2. /\ Order("low fee large domestic ETF") = 33 /\ Order("high return low fee domestic ETF") = 34
      /\ Order("domestic ETF by size") = 35
      /\ Order("domestic ETF of US") = 36
  BY OrderIs
<1>3. \A i \in 1 .. 4 : Own(OtherDomesticEtfs[i], 32 + i)
  <2> DEFINE P(i) == Own(OtherDomesticEtfs[i], 32 + i)
  <2>1. /\ Own(OtherDomesticEtfs[1], 33) /\ Own(OtherDomesticEtfs[2], 34) /\ Own(OtherDomesticEtfs[3], 35)
        /\ Own(OtherDomesticEtfs[4], 36)
    BY <1>1, <1>2, Zenon DEF Own
  <2>2. /\ P(1) /\ P(2) /\ P(3) /\ P(4)
    BY <2>1
  <2> HIDE DEF P
  <2>3. \A i \in 1 .. 4 : P(i)
    BY <2>2
  <2> QED
    BY <2>3 DEF P
<1>4. OtherDomesticEtfs \in [1 .. 4 -> Elements(OtherDomesticEtfs)] /\ Len(OtherDomesticEtfs) = 4
  BY DEF OtherDomesticEtfs, Elements
<1>5. 32 \in Nat /\ 4 \in Nat /\ (32 + 4 < 14 \/ 32 > 14) /\ 32 + 4 < 48
  OBVIOUS
<1> QED
  BY <1>3, <1>4, <1>5, OwnWords, Zenon

LEMMA DomesticEtfsRanked == Ranked(DomesticEtfs, 30, 6)
<1> DEFINE byFee == <<UsByFee, DomesticByFee>>
<1>1. byFee[1].words = {"domestic ETF of US by fee"} /\ byFee[2].words = {"domestic ETF by fee"}
  BY DEF UsByFee, DomesticByFee, ByFee, Rank, Rule
<1>2. Order("domestic ETF of US by fee") = 31 /\ Order("domestic ETF by fee") = 32
  BY OrderIs
<1>3. Own(byFee[1], 31) /\ Own(byFee[2], 32)
  <2> HIDE DEF byFee
  <2> QED
    BY <1>1, <1>2, Zenon DEF Own
<1>4. byFee \in [1 .. 2 -> Elements(byFee)] /\ Len(byFee) = 2
  BY DEF Elements
<1> HIDE DEF byFee
<1>5. \A i \in 1 .. 2 : Own(byFee[i], 30 + i)
  <2> DEFINE P(i) == Own(byFee[i], 30 + i)
  <2>1. P(1) /\ P(2)
    BY <1>3
  <2> HIDE DEF P
  <2>2. \A i \in 1 .. 2 : P(i)
    BY <2>1
  <2> QED
    BY <2>2 DEF P
<1>6. 30 \in Nat /\ 2 \in Nat /\ (30 + 2 < 14 \/ 30 > 14) /\ 30 + 2 < 48
  OBVIOUS
<1>7. Ranked(byFee, 30, 2)
  BY <1>4, <1>5, <1>6, OwnWords, Zenon
<1>8. Ranked(OtherDomesticEtfs, 30 + 2, 4) /\ 4 \in Nat
  BY OtherDomesticEtfsRanked
<1>9. Ranked(byFee \o OtherDomesticEtfs, 30, 2 + 4)
  BY <1>6, <1>7, <1>8, RankedConcat, Zenon
<1> QED
  BY <1>9 DEF DomesticEtfs, byFee

LEMMA GlobalEtfsRanked == Ranked(GlobalEtfs, 36, 6)
<1>1. /\ GlobalEtfs[1].words = {"global ETF NAV", "discount"} /\ GlobalEtfs[2].words = {"global ETF NAV by"}
      /\ GlobalEtfs[3].words = {"global ETF close"} /\ GlobalEtfs[4].words = {"global ETF with size"}
      /\ GlobalEtfs[5].words = {"global ETF by size"} /\ GlobalEtfs[6].words = {"global ETF", "size", "at least"}
  BY DEF GlobalEtfs, Find, Rank, Rule
<1>2. /\ Order("global ETF NAV") = Shared /\ Order("discount") = 37 /\ Order("global ETF NAV by") = 38
      /\ Order("global ETF close") = 39 /\ Order("global ETF with size") = 40 /\ Order("global ETF by size") = 41
      /\ Order("global ETF") = Shared /\ Order("size") = Shared /\ Order("at least") = 42
  BY OrderIs
<1>3. \A i \in 1 .. 6 : Own(GlobalEtfs[i], 36 + i)
  <2> DEFINE P(i) == Own(GlobalEtfs[i], 36 + i)
  <2>1. /\ Own(GlobalEtfs[1], 37) /\ Own(GlobalEtfs[2], 38) /\ Own(GlobalEtfs[3], 39)
        /\ Own(GlobalEtfs[4], 40) /\ Own(GlobalEtfs[5], 41) /\ Own(GlobalEtfs[6], 42)
    BY <1>1, <1>2, Zenon DEF Own
  <2>2. /\ P(1) /\ P(2) /\ P(3) /\ P(4) /\ P(5)
        /\ P(6)
    BY <2>1
  <2> HIDE DEF P
  <2>3. \A i \in 1 .. 6 : P(i)
    BY <2>2
  <2> QED
    BY <2>3 DEF P
<1>4. GlobalEtfs \in [1 .. 6 -> Elements(GlobalEtfs)] /\ Len(GlobalEtfs) = 6
  BY DEF GlobalEtfs, Elements
<1>5. 36 \in Nat /\ 6 \in Nat /\ (36 + 6 < 14 \/ 36 > 14) /\ 36 + 6 < 48
  OBVIOUS
<1> QED
  BY <1>3, <1>4, <1>5, OwnWords, Zenon

LEMMA FundsRanked == Ranked(Funds, 42, 5)
<1>1. /\ Funds[1].words = {"fund by size"} /\ Funds[2].words = {"large high return fund"}
      /\ Funds[3].words = {"fund by return alone"} /\ Funds[4].words = {"fund with return"}
      /\ Funds[5].words = {"high return fund"}
  BY DEF Funds, Find, Rank, Rule
<1>2. /\ Order("fund by size") = 43 /\ Order("large high return fund") = 44 /\ Order("fund by return alone") = 45
      /\ Order("fund with return") = 46 /\ Order("high return fund") = 47
  BY OrderIs
<1>3. \A i \in 1 .. 5 : Own(Funds[i], 42 + i)
  <2> DEFINE P(i) == Own(Funds[i], 42 + i)
  <2>1. /\ Own(Funds[1], 43) /\ Own(Funds[2], 44) /\ Own(Funds[3], 45)
        /\ Own(Funds[4], 46) /\ Own(Funds[5], 47)
    BY <1>1, <1>2, Zenon DEF Own
  <2>2. /\ P(1) /\ P(2) /\ P(3) /\ P(4) /\ P(5)
    BY <2>1
  <2> HIDE DEF P
  <2>3. \A i \in 1 .. 5 : P(i)
    BY <2>2
  <2> QED
    BY <2>3 DEF P
<1>4. Funds \in [1 .. 5 -> Elements(Funds)] /\ Len(Funds) = 5
  BY DEF Funds, Elements
<1>5. 42 \in Nat /\ 5 \in Nat /\ (42 + 5 < 14 \/ 42 > 14) /\ 42 + 5 < 48
  OBVIOUS
<1> QED
  BY <1>3, <1>4, <1>5, OwnWords, Zenon

\* The table of rules, in the order in which they are asked.
LEMMA RulesRanked == Ranked(Rules, 0, 47)
<1> DEFINE a == Guards \o Relations
           b == a \o Across
           c == b \o Lookups
           d == c \o Bonds
           e == d \o DomesticEtfs
           f == e \o GlobalEtfs
<1>1. ASSUME NEW l, NEW r, NEW m \in Nat, NEW n \in Nat, Ranked(l, 0, m), Ranked(r, m, n)
      PROVE  Ranked(l \o r, 0, m + n)
  <2>1. 0 \in Nat /\ 0 + m = m
    OBVIOUS
  <2> QED
    BY <1>1, <2>1, RankedConcat
<1>2. Ranked(a, 0, 13)
  <2>1. Ranked(a, 0, 10 + 3)
    BY <1>1, GuardsRanked, RelationsRanked
  <2> QED
    BY <2>1
<1> HIDE DEF a
<1>3. Ranked(b, 0, 17)
  <2>1. Ranked(b, 0, 13 + 4)
    BY <1>1, <1>2, AcrossRanked
  <2> QED
    BY <2>1
<1> HIDE DEF b
<1>4. Ranked(c, 0, 22)
  <2>1. Ranked(c, 0, 17 + 5)
    BY <1>1, <1>3, LookupsRanked
  <2> QED
    BY <2>1
<1> HIDE DEF c
<1>5. Ranked(d, 0, 30)
  <2>1. Ranked(d, 0, 22 + 8)
    BY <1>1, <1>4, BondsRanked
  <2> QED
    BY <2>1
<1> HIDE DEF d
<1>6. Ranked(e, 0, 36)
  <2>1. Ranked(e, 0, 30 + 6)
    BY <1>1, <1>5, DomesticEtfsRanked
  <2> QED
    BY <2>1
<1> HIDE DEF e
<1>7. Ranked(f, 0, 42)
  <2>1. Ranked(f, 0, 36 + 6)
    BY <1>1, <1>6, GlobalEtfsRanked
  <2> QED
    BY <2>1
<1> HIDE DEF f
<1>8. Ranked(f \o Funds, 0, 47)
  <2>1. Ranked(f \o Funds, 0, 42 + 5)
    BY <1>1, <1>7, FundsRanked
  <2> QED
    BY <2>1
<1>9. f \o Funds = Rules
  BY DEF Rules, a, b, c, d, e, f
<1> QED
  BY <1>8, <1>9

\* A rule further down asks for all the words of this one only if they are the same.
LEMMA NoneMoreSpecific ==
  ASSUME NEW t \in 1 .. 47, NEW i \in 1 .. 47, t < i, AllOf(Rules[t].words) \subseteq AllOf(Rules[i].words)
  PROVE  FALSE
<1>1. /\ Ranks(Rules[t], t) /\ Ranks(Rules[i], i)
      /\ Rules[t].words \subseteq Words /\ Rules[i].words \subseteq Words
  <2>1. DOMAIN Rules = 1 .. 47
    BY RulesRanked, LenProperties DEF Ranked
  <2>2. Ranks(Rules[t], 0 + t) /\ Ranks(Rules[i], 0 + i)
    BY RulesRanked DEF Ranked
  <2> QED
    BY <2>1, <2>2 DEF Words
<1>2. ASSUME NEW w \in Rules[t].words
      PROVE  \E v \in Rules[i].words : v \in Words /\ w \in Inside[v]
  <2>1. w \in Inside[w]
    BY <1>1, <1>2 DEF Inside
  <2> QED
    BY <1>1, <1>2, <2>1 DEF AllOf
<1>3. ASSUME NEW w \in Rules[t].words
      PROVE  Order(w) >= i
  <2>1. PICK v \in Rules[i].words : v \in Words /\ w \in Inside[v]
    BY <1>2
  <2>2. Order(w) >= Order(v) /\ Order(v) >= i
    BY <1>1, <2>1, PhrasesComeFirst DEF Ranks
  <2>3. Order(w) \in 1 .. 100 /\ Order(v) \in 1 .. 100
    BY OrderIsNumber DEF Shared
  <2> QED
    BY <2>2, <2>3
<1>4. CASE t # 14
  <2>1. PICK w \in Rules[t].words : Order(w) = t
    BY <1>1, <1>4 DEF Ranks
  <2> QED
    BY <1>3, <2>1
<1>5. CASE t = 14
  <2>1. "across" \in Rules[t].words /\ "bond" \in Rules[t].words
    BY <1>1, <1>5 DEF Ranks
  <2>2. i = 15
    <3>1. Order("across") >= i /\ Order("across") = 15
      BY <1>3, <2>1, OrderIs
    <3> QED
      BY <1>5, <3>1
  <2>3. Rules[i].words = {"across", "all ETFs"}
    BY <1>1, <2>2 DEF Ranks
  <2>4. PICK v \in {"across", "all ETFs"} : v \in Words /\ "bond" \in Inside[v]
    BY <1>2, <2>1, <2>3
  <2> QED
    BY <2>4 DEF Inside
<1> QED
  BY <1>4, <1>5

\* The rule that takes a question is the most specific of those that could: whatever
\* phrases a question has together, no rule of korean_rule_parser further down asks
\* for all the words of the one that took it and for more.
THEOREM MostSpecificAlwaysWins == RulesSpec => []MostSpecificRuleWins
<1>1. RulesInv => MostSpecificRuleWins
  <2> SUFFICES ASSUME RulesInv, taken # 0, NEW i \in DOMAIN Rules, Matches(Rules[i], question),
                      AllOf(Rules[taken].words) \subseteq AllOf(Rules[i].words),
                      AllOf(Rules[taken].words) # AllOf(Rules[i].words)
               PROVE  FALSE
    BY DEF MostSpecificRuleWins
  <2>1. DOMAIN Rules = 1 .. 47 /\ Len(Rules) = 47
    BY RulesRanked, LenProperties DEF Ranked
  <2>2. taken \in 0 .. 47 /\ taken <= i
    BY <2>1, FirstRuleIs DEF RulesInv, Ruled
  <2>3. taken # i
    OBVIOUS
  <2>4. taken \in 1 .. 47 /\ i \in 1 .. 47 /\ taken < i
    BY <2>1, <2>2, <2>3
  <2> QED
    BY <2>4, NoneMoreSpecific
<1> QED
  BY <1>1, RulesInvInit, RulesInvStep, PTL DEF RulesSpec
=============================================================================
