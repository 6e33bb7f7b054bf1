---------------------------- MODULE AnswerPolicy ----------------------------
(***************************************************************************)
(* The decisions of app/agent as functions of their inputs: which          *)
(* retrievers a QuerySpec needs, what validation refuses, how retrieval    *)
(* results are merged, and how a preliminary decision becomes final.       *)
(*                                                                         *)
(* A QuerySpec keeps what those functions look at: its intent, which       *)
(* clauses are non-empty, what the field registry says of its clauses and  *)
(* the products its filters select.  A product row is a pair of a uid and  *)
(* the dataset version it was curated from; a link is a relationship       *)
(* evidence, with the product it belongs to (NoProduct for a relation      *)
(* between companies) and the official document it was read from.          *)
(***************************************************************************)
EXTENDS Naturals, FiniteSets

CONSTANTS Uids, Versions, Docs,
          NoProduct   \* product_uid None of a relation between companies

ASSUME NoProductAssumption == NoProduct \notin Uids

Intents == {"LOOKUP_PRODUCT", "FILTER", "FILTER_AND_RANK", "COMPARE_PRODUCTS",
            "CROSS_FAMILY_SEARCH", "RELATION_SEARCH", "AGGREGATE",
            "EXPLAIN_TERM", "UNSUPPORTED_PREDICTION"}

RelationKinds == {"HOLDS", "COMPANY"}  \* COMPANY: every RelationType but HOLDS

QuerySpecs ==
  [intent    : Intents,
   filters   : BOOLEAN,               \* has filter clauses
   ranking   : BOOLEAN,               \* has preferences or sort
   metrics   : BOOLEAN,               \* names metrics
   target    : BOOLEAN,               \* has entities or a product_name filter
   entities  : BOOLEAN,               \* has entities
   relations : SUBSET RelationKinds,  \* kinds of relationship_filters
   fields    : {"ok", "askable", "blocking"},  \* worst registry issue
   grounded  : BOOLEAN,               \* every entity token has one meaning
   compiles  : BOOLEAN,               \* each family supports each filter field
   selects   : SUBSET Uids]           \* products with the metrics it ranks by
                                      \* that pass its filters; fewer than its limit

Row  == [uid : Uids, version : Versions]
Link == [product : Uids \cup {NoProduct}, doc : Docs]

DecisionStates == {"ANSWER", "ASK", "ABSTAIN", "PRE_ANSWER"}
Decision == [state : DecisionStates, selected : SUBSET Row]

Decide(state) == [state |-> state, selected |-> {}]

-----------------------------------------------------------------------------
\* The allowlisted retrievers that must succeed for a spec to be answered.
RequiredRetrievers(spec) ==
  CASE spec.intent = "UNSUPPORTED_PREDICTION" -> {}
    [] spec.intent = "EXPLAIN_TERM" -> {"DOCUMENT"}
    [] spec.intent = "RELATION_SEARCH" -> {"SQL", "RELATION"}
    [] OTHER -> {"SQL"} \cup (IF spec.relations # {} THEN {"RELATION"} ELSE {})

\* The retrievers whose failure is only traced.
OptionalRetrievers(spec) ==
  IF spec.intent = "EXPLAIN_TERM" /\ spec.relations # {} THEN {"RELATION"} ELSE {}

SelectRetrievers(spec) == RequiredRetrievers(spec) \cup OptionalRetrievers(spec)

MergeMode(spec) ==
  IF spec.intent = "EXPLAIN_TERM" /\ ~spec.filters THEN "DOCUMENT_ONLY"
  ELSE IF spec.relations # {} THEN "RELATION_INTERSECT"
  ELSE "SQL_PRIMARY"

\* The askable issues of _validate_intent_shape.
IncompleteShape(spec) ==
  \/ spec.intent \in {"FILTER", "FILTER_AND_RANK"} /\ ~spec.filters
  \/ spec.intent = "FILTER_AND_RANK" /\ ~(spec.ranking \/ spec.metrics)
  \/ spec.intent = "RELATION_SEARCH" /\ spec.relations = {}
  \/ spec.intent = "LOOKUP_PRODUCT" /\ ~spec.target

\* validate_queryspec followed by decision_from_validation: the decisions that
\* need no retrieval, in the order in which the code takes them.
EarlyDecisions(spec) ==
  IF spec.intent = "UNSUPPORTED_PREDICTION" THEN {Decide("ABSTAIN")}
  ELSE IF spec.fields = "blocking" THEN {Decide("ABSTAIN")}
  ELSE IF spec.fields = "askable" \/ IncompleteShape(spec) THEN {Decide("ASK")}
  ELSE IF ~spec.grounded THEN {Decide("ASK")}
  ELSE {}

-----------------------------------------------------------------------------
Products(links) == {l.product : l \in links} \ {NoProduct}
UidsOf(rows) == {r.uid : r \in rows}

\* Mutant: SQL candidates are kept beside those of the relation.
MergeCandidates_KeepsSql(spec, sqlRows, relationRows, links) == sqlRows \cup relationRows

\* merge_retrieval_results: the candidates after the relation result is merged
\* into the SQL result.  The order of candidates is left to module Ranking.
MergeCandidates(spec, sqlRows, relationRows, links) ==
  IF MergeMode(spec) = "RELATION_INTERSECT" /\ Products(links) # {}
  THEN LET enriched == {r \in relationRows : r.uid \in Products(links)}
       IN  IF enriched # {} THEN enriched
           ELSE {r \in sqlRows : r.uid \in Products(links)}
  ELSE IF sqlRows = {} THEN relationRows ELSE sqlRows

\* A company-to-company answer: nothing but relations that no product owns.
OnlyCompanyLinks(links) == links # {} /\ Products(links) = {}

DecidePreliminary_QualityUnchecked(spec, rows, links, documents, aggregate, blocked) ==
  IF rows = {} THEN Decide("ABSTAIN")
  ELSE [state |-> "PRE_ANSWER", selected |-> rows]

\* decide_preliminary, guard by guard.
DecidePreliminary(spec, rows, links, documents, aggregate, blocked) ==
  LET eligible == {r \in rows : r.uid \notin blocked} IN
  IF spec.intent = "RELATION_SEARCH" /\ links = {} THEN Decide("ABSTAIN")
  ELSE IF spec.intent = "EXPLAIN_TERM"
  THEN Decide(IF documents THEN "PRE_ANSWER" ELSE "ABSTAIN")
  ELSE IF spec.intent = "RELATION_SEARCH" /\ eligible = {} /\ OnlyCompanyLinks(links)
  THEN Decide("PRE_ANSWER")
  ELSE IF eligible = {} /\ (rows # {} \/ spec.intent # "AGGREGATE") THEN Decide("ABSTAIN")
  ELSE IF spec.intent = "AGGREGATE" /\ aggregate THEN Decide("PRE_ANSWER")
  ELSE [state |-> "PRE_ANSWER", selected |-> eligible]

\* finalize_decision: what is left once the evidence manager dropped rows.
FinalizeDecision(preliminary, valid) ==
  LET remaining == preliminary.selected \cap valid IN
  IF preliminary.state \notin {"PRE_ANSWER", "ANSWER"} THEN preliminary
  ELSE IF remaining # {} THEN [state |-> "ANSWER", selected |-> remaining]
  ELSE Decide("ABSTAIN")
=============================================================================
