-------------------------- MODULE QueryValidation --------------------------
(***************************************************************************)
(* What stands between a QuerySpec that HCX wrote and the SQL made of it:  *)
(* validate_queryspec and decision_from_validation of app/query and        *)
(* app/agent, then build_safe_plan, the filter compiler and the column map *)
(* of app/retrieval, which trust that validation looked at everything they *)
(* need.  Whatever raises after validation is a RetrieverFailure: a 503.   *)
(*                                                                         *)
(* A filter value is the sequence of the kinds of its items, with a flag   *)
(* for a JSON array; a missing value is no array and has no item.          *)
(***************************************************************************)
EXTENDS Naturals, Sequences, FiniteSets

CONSTANTS
  Families,
  Registered,   \* fields of the registry
  Unknown,      \* a field name that is not in it
  TypeOf,       \* TypeOf[f]: its value_type
  OperatorsOf,  \* OperatorsOf[f]: the operators it allows
  FamiliesOf,   \* FamiliesOf[f]: the families it is mapped for
  ColumnsOf,    \* ColumnsOf[f]: the families whose curated table has a column for it
  Misnamed,     \* Misnamed[f]: the families for which the column map names a column
                \* that the curated table does not have
  Filterable,   \* fields that may be filtered by
  RankBlocked,  \* fields that must not be ranked by
  Specs         \* the QuerySpecs that HCX may answer with

Intents == {"LOOKUP_PRODUCT", "FILTER", "FILTER_AND_RANK", "COMPARE_PRODUCTS",
            "CROSS_FAMILY_SEARCH", "RELATION_SEARCH", "AGGREGATE",
            "EXPLAIN_TERM", "UNSUPPORTED_PREDICTION"}
Operators == {"EQ", "NE", "GTE", "LTE", "IN", "BETWEEN", "CONTAINS", "IS_NULL", "NOT_NULL"}
Kinds == {"text", "unsafe", "number", "boolean"}  \* unsafe: text with an SQL marker

ASSUME RegistryAssumption ==
  /\ Unknown \notin Registered
  /\ TypeOf \in [Registered -> {"string", "number", "boolean", "date"}]
  /\ OperatorsOf \in [Registered -> SUBSET Operators]
  /\ \A f \in Registered : "CONTAINS" \in OperatorsOf[f] => TypeOf[f] = "string"
  /\ FamiliesOf \in [Registered -> SUBSET Families]
  /\ ColumnsOf \in [Registered -> SUBSET Families]
  /\ Misnamed \in [Registered -> SUBSET Families]
  /\ \A f \in Registered : ColumnsOf[f] \subseteq FamiliesOf[f] \ Misnamed[f]
  /\ Filterable \subseteq Registered /\ RankBlocked \subseteq Registered

FieldIds == Registered \cup {Unknown}
Value  == [list : BOOLEAN, items : Seq(Kinds)]
Filter == [field : FieldIds, operator : Operators, value : Value]

\* The QuerySpec model wants one to four families, except for a prediction.
QuerySpec ==
  {s \in [intent   : Intents,
          families : Seq(Families),
          filters  : Seq(Filter),
          sorts    : Seq(FieldIds),     \* preferences, then sort clauses
          metrics  : Seq(FieldIds),
          entities : BOOLEAN,
          relations : BOOLEAN] :        \* has relationship_filters
     s.intent = "UNSUPPORTED_PREDICTION" \/ Len(s.families) \in 1 .. 4}

ASSUME SpecsAssumption == Specs \subseteq QuerySpec

VARIABLES
  spec,
  pc,       \* "validate", "compile", "aggregate", "done", "failed", or "refused"
            \* by the QuerySpec model, before there is a spec
  decision, \* the early decision, "none" before it and when there is none
  queried   \* how many of its families were queried

vars == <<spec, pc, decision, queried>>

Elements(s) == {s[i] : i \in DOMAIN s}

-----------------------------------------------------------------------------
Issue(askable) == [askable |-> askable]
IssueIf(condition, askable) == IF condition THEN {Issue(askable)} ELSE {}

Executable(s) == s.filters # <<>> \/ s.metrics # <<>> \/ s.sorts # <<>> \/ s.relations

Named(s) == s.entities \/ \E c \in Elements(s.filters) : c.field = "product_name"

ShapeIssues(s) ==
  IF s.intent = "UNSUPPORTED_PREDICTION" THEN IssueIf(Executable(s), FALSE)
  ELSE IssueIf(\/ s.intent \in {"FILTER", "FILTER_AND_RANK"} /\ s.filters = <<>>
               \/ s.intent = "FILTER_AND_RANK" /\ s.sorts = <<>> /\ s.metrics = <<>>
               \/ s.intent = "RELATION_SEARCH" /\ ~s.relations
               \/ s.intent = "LOOKUP_PRODUCT" /\ ~Named(s), TRUE)

FieldRefs(s) == {c.field : c \in Elements(s.filters)} \cup Elements(s.metrics) \cup Elements(s.sorts)

ExistenceIssues(s) == IssueIf(Unknown \in FieldRefs(s), FALSE)

FamilyIssues(s) ==
  IssueIf(/\ s.intent # "UNSUPPORTED_PREDICTION"
          /\ \E f \in FieldRefs(s) \ {Unknown} : FamiliesOf[f] \cap Elements(s.families) = {},
          TRUE)

None(value) == ~value.list /\ value.items = <<>>
Unary(clause) == clause.operator \in {"IS_NULL", "NOT_NULL"}

\* Mutant: a BETWEEN may have any number of bounds.
WellShaped_AnyPair(clause) ==
  IF Unary(clause) THEN None(clause.value) ELSE ~None(clause.value)

\* _validate_filter_clause_shape
WellShaped(clause) ==
  LET v == clause.value IN
  CASE Unary(clause)                 -> None(v)
    [] clause.operator = "BETWEEN"   -> v.list /\ Len(v.items) = 2
    [] clause.operator = "IN"        -> v.list /\ v.items # <<>>
    [] OTHER                         -> ~None(v)

KindsOf(type) == CASE type = "string"  -> {"text", "unsafe"}
                   [] type = "number"  -> {"number"}
                   [] type = "boolean" -> {"boolean"}

\* _validate_value_type: a date may be anything; the items of a BETWEEN or an IN
\* that is no array are not looked at.
WellTyped(clause) ==
  LET v == clause.value
      type == TypeOf[clause.field]
      Each == \A k \in Elements(v.items) : k \in KindsOf(type)
  IN  IF Unary(clause) \/ type = "date" THEN TRUE
      ELSE IF clause.operator \in {"BETWEEN", "IN"} THEN v.list => Each
      ELSE ~v.list /\ ~None(v) /\ Each

ClauseIssues(clause) ==
  IssueIf(~WellShaped(clause), TRUE)
    \cup IF clause.field = Unknown THEN {}
         ELSE IssueIf(clause.operator \notin OperatorsOf[clause.field], TRUE)
                \cup IssueIf(clause.field \notin Filterable, FALSE)
                \cup IssueIf(~WellTyped(clause), TRUE)

RankIssues(s) == IssueIf(Elements(s.sorts) \cap RankBlocked # {}, FALSE)

\* Only a value that is one string is searched for SQL markers.
InjectionIssues(s) ==
  IssueIf(\E c \in Elements(s.filters) :
            ~c.value.list /\ "unsafe" \in Elements(c.value.items), FALSE)

\* validate_queryspec
Issues(s) == ShapeIssues(s) \cup ExistenceIssues(s) \cup FamilyIssues(s)
               \cup (UNION {ClauseIssues(c) : c \in Elements(s.filters)})
               \cup RankIssues(s) \cup InjectionIssues(s)

\* decision_from_validation, for entities that are unambiguous.
DecisionFor(s) ==
  IF s.intent = "UNSUPPORTED_PREDICTION" \/ Issue(FALSE) \in Issues(s) THEN "ABSTAIN"
  ELSE IF Issues(s) # {} THEN "ASK"
  ELSE "none"

-----------------------------------------------------------------------------
\* build_safe_plan refuses to rank by a blocked field.
Plannable(s) == Elements(s.sorts) \cap RankBlocked = {}

\* compile_filter_expression for one family; resolve_column needs the column.
Compilable(clause, family) ==
  LET v == clause.value IN
  /\ clause.field # Unknown
  /\ family \in FamiliesOf[clause.field]
  /\ clause.field \in Filterable
  /\ family \in ColumnsOf[clause.field]
  /\ CASE clause.operator = "IN"       -> v.list
       [] clause.operator = "BETWEEN"  -> v.list /\ Len(v.items) = 2
       [] clause.operator = "CONTAINS" -> ~v.list /\ Elements(v.items) \subseteq {"text", "unsafe"}
       [] OTHER                        -> TRUE

\* A metric or a sort without a column is passed over; one whose column the map
\* names and the table does not have raises another error than the one expected.
Readable(s, family) ==
  \A f \in Elements(s.metrics) \cup Elements(s.sorts) : family \notin Misnamed[f]

\* What PostgreSQL may make of a comparison: a date is compared with whatever HCX
\* wrote, which it may or may not be able to read as the type of the column.
Executes(clause) ==
  IF TypeOf[clause.field] = "date" /\ ~Unary(clause) THEN BOOLEAN
  ELSE {Unary(clause) \/ WellTyped(clause)}

\* aggregate_numeric averages the first metric over the first family; a text reads
\* as a number or it does not.
Averaged(s) == s.intent = "AGGREGATE" /\ s.metrics # <<>>
Averages(s) ==
  LET f == s.metrics[1]
  IN  IF s.families[1] \notin ColumnsOf[f] THEN {FALSE}
      ELSE IF TypeOf[f] = "number" THEN {TRUE}
      ELSE BOOLEAN

-----------------------------------------------------------------------------
Parsed == pc = "validate" /\ decision = "none" /\ queried = 0

Init == spec \in Specs /\ Parsed

\* Mutant: the decision is not taken before planning.
Validate_PlansAlways ==
  /\ pc = "validate"
  /\ decision' = "planned"
  /\ pc' = "compile"
  /\ UNCHANGED <<spec, queried>>

\* validate_and_plan; the document retriever makes no SQL of the clauses.
Validate ==
  /\ pc = "validate"
  /\ decision' = DecisionFor(spec)
  /\ pc' = IF decision' = "none" /\ spec.intent # "EXPLAIN_TERM" THEN "compile" ELSE "done"
  /\ UNCHANGED <<spec, queried>>

\* ProductRepository.query for the next family of the plan.
QueryFamily ==
  /\ pc = "compile"
  /\ LET family == spec.families[queried + 1]
         clauses == Elements(spec.filters)
     IN  \/ /\ Plannable(spec)
            /\ \A c \in clauses : Compilable(c, family) /\ TRUE \in Executes(c)
            /\ Readable(spec, family)
            /\ queried' = queried + 1
            /\ pc' = CASE queried' < Len(spec.families) -> "compile"
                       [] queried' = Len(spec.families) /\ Averaged(spec) -> "aggregate"
                       [] OTHER -> "done"
         \/ /\ \/ ~Plannable(spec) \/ ~Readable(spec, family)
               \/ \E c \in clauses : ~Compilable(c, family) \/ FALSE \in Executes(c)
            /\ pc' = "failed"
            /\ UNCHANGED queried
  /\ UNCHANGED <<spec, decision>>

Aggregate ==
  /\ pc = "aggregate"
  /\ \E averages \in Averages(spec) : pc' = IF averages THEN "done" ELSE "failed"
  /\ UNCHANGED <<spec, decision, queried>>

Next == Validate \/ QueryFamily \/ Aggregate

Spec == Init /\ [][Next]_vars

-----------------------------------------------------------------------------
TypeOK ==
  /\ spec \in QuerySpec
  /\ pc \in {"refused", "validate", "compile", "aggregate", "done", "failed"}
  /\ decision \in {"none", "ASK", "ABSTAIN"}
  /\ queried \in 0 .. Len(spec.families)

\* Validation covers what the compiler, the column map and PostgreSQL can refuse:
\* a question about one family, whose fields have columns and whose filters are
\* not on dates, fails on none of them once validated.  Averages of text are left
\* out, and so is a field like credit_grade, which the registry and the prompt
\* list and the curated table has no column for, or one of another name.
AcceptedSpecsRun ==
  pc = "failed" =>
    \/ Len(spec.families) > 1
    \/ \E f \in FieldRefs(spec) : ColumnsOf[f] # FamiliesOf[f]
    \/ \E c \in Elements(spec.filters) : TypeOf[c.field] = "date"
    \/ Averaged(spec) /\ TypeOf[spec.metrics[1]] # "number"
=============================================================================
