-------------------------- MODULE MCRelationAnswer --------------------------
(***************************************************************************)
(* Three snapshots: the second knows the first target by its own name only *)
(* and nothing of the second target; in the third the first target could   *)
(* mean two entities.                                                      *)
(***************************************************************************)
EXTENDS RelationAnswer

CONSTANTS m1, m2, m3,      \* manifests
          t1, t2,          \* targets
          e1, e2, e3,      \* entities
          ua, ub, ux,      \* products; ux is not asked for
          d1, d2           \* documents, by id and content

MCTargets == {t1, t2}

Holding(t) == [relation |-> "HOLDS", target |-> t]
Subsidiary(t) == [relation |-> "SUBSIDIARY_OF", target |-> t]

\* One of those who hold the first target, with what belongs to the second; and what
\* belongs to the first.
MCQuestions ==
  {[clauses |-> <<Holding(t1), Subsidiary(t2)>>, selects |-> {{ua}, {ub}},
    searched |-> {ua, ub}, limit |-> 1],
   [clauses |-> <<Subsidiary(t1)>>, selects |-> {}, searched |-> {ua}, limit |-> 2]}

MCAlias == [t \in Targets |->
  [m \in Manifests |-> CASE t = t2 -> (IF m = m2 THEN {} ELSE {e2})
                         [] t = t1 /\ m = m1 -> {e1}
                         [] t = t1 /\ m = m2 -> {}
                         [] t = t1 /\ m = m3 -> {e1, e2}]]

MCCanonical == [t \in Targets |-> [m \in Manifests |-> IF t = t1 THEN {e1} ELSE {}]]

Holds(e, p, d) == [relation |-> "HOLDS", about |-> {e}, product |-> p, doc |-> d, usable |-> TRUE]
Firms(e, f, d) == [relation |-> "SUBSIDIARY_OF", about |-> {e, f}, product |-> NoProduct,
                   doc |-> d, usable |-> TRUE]

MCFacts == [m \in Manifests |->
  CASE m = m1 -> {Holds(e1, ua, d1), Holds(e1, ub, d2), Holds(e1, ux, d1), Firms(e1, e2, d2)}
    [] m = m2 -> {Holds(e1, ua, d1), [Holds(e1, ub, d1) EXCEPT !.usable = FALSE]}
    [] m = m3 -> {Firms(e2, e3, d2)}]
=============================================================================
