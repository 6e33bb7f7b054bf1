--------------------------- MODULE MCAnswerService ---------------------------
(***************************************************************************)
(* Small instances of AnswerService.  Each question stands for a kind of   *)
(* QuerySpec; a .cfg picks the questions, versions and manifests whose     *)
(* interplay it is about.                                                  *)
(***************************************************************************)
EXTENDS AnswerService, TLC

CONSTANTS ua, ub, ux,   \* products; ux has a BLOCK_ANSWER flag
          m1, m2,       \* manifests
          d1, d2, d3    \* official documents

Base == [intent |-> "FILTER", filters |-> TRUE, ranking |-> FALSE,
         metrics |-> FALSE, target |-> FALSE, entities |-> FALSE,
         relations |-> {}, fields |-> "ok", grounded |-> TRUE,
         compiles |-> TRUE, selects |-> Uids \ {ub}]

\* HCX may read "filter" in two ways; "filter" and "rule" can mean the same.
MCParse == [q \in Questions |->
  CASE q = "filter"  -> {Base, [Base EXCEPT !.selects = Uids \ {ua}]}
    [] q = "rule"    -> {Base}
    [] q = "vague"   -> {[Base EXCEPT !.filters = FALSE]}
    [] q = "holds"   -> {[Base EXCEPT !.intent = "RELATION_SEARCH",
                                      !.relations = {"HOLDS"}]}
    [] q = "firms"   -> {[Base EXCEPT !.intent = "RELATION_SEARCH",
                                      !.relations = {"COMPANY"}, !.selects = LowQuality]}
    [] q = "term"    -> {[Base EXCEPT !.intent = "EXPLAIN_TERM", !.filters = FALSE,
                                      !.entities = TRUE]}
    [] q = "average" -> {[Base EXCEPT !.intent = "AGGREGATE", !.metrics = TRUE]}
    [] q = "mixed"   -> {[Base EXCEPT !.compiles = FALSE]}
    [] q = "owners"  -> {[Base EXCEPT !.relations = {"HOLDS"}]}
    [] OTHER         -> {}]

\* The second version brings ub.
MCCurated == [v \in Versions |-> IF v = 1 THEN Uids \ {ub} ELSE Uids]

\* Both manifests hold d1; the second replaces d2 by d3.
MCLinks == [m \in Manifests |->
  IF m = m1
    THEN {[product |-> ua, doc |-> d1], [product |-> NoProduct, doc |-> d2]}
    ELSE {[product |-> ua, doc |-> d3], [product |-> NoProduct, doc |-> d1]}]

Interchangeable == Permutations(Requests)
==============================================================================
