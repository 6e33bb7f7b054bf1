--------------------------- MODULE AnswerContract ---------------------------
(***************************************************************************)
(* What the service promises of an answer, whatever happens in between:    *)
(* each fact it rests on was looked up and found in the database at some   *)
(* moment between the question and the decision, the backing is not        *)
(* altered afterwards, and a request once closed (answered, failed or      *)
(* lost) stays as it is.  Facts stands for the curated rows and the        *)
(* official documents; jobs may change what is held at any time, also      *)
(* between two look-ups.                                                   *)
(***************************************************************************)
CONSTANTS Requests, Facts

VARIABLES held,      \* the facts the database holds
          stage,     \* idle, open, decided or closed, for each request
          backing    \* the facts found for an open request, and those that a
                     \* decided or answered one rests on

vars == <<held, stage, backing>>

Init == /\ held = {}
        /\ stage = [r \in Requests |-> "idle"]
        /\ backing = [r \in Requests |-> {}]

Change == held' \in SUBSET Facts /\ UNCHANGED <<stage, backing>>

Ask(r) == /\ stage[r] = "idle"
          /\ stage' = [stage EXCEPT ![r] = "open"]
          /\ UNCHANGED <<held, backing>>

\* One look-up: a fact counts when it is held now.
Confirm(r) == /\ stage[r] = "open"
              /\ \E fact \in held : backing' = [backing EXCEPT ![r] = @ \cup {fact}]
              /\ UNCHANGED <<held, stage>>

\* The decision is taken on confirmed facts, whether they are held still or not.
Decide(r) == /\ stage[r] = "open"
             /\ stage' = [stage EXCEPT ![r] = "decided"]
             /\ \E facts \in SUBSET backing[r] : backing' = [backing EXCEPT ![r] = facts]
             /\ UNCHANGED held

\* The answer delivered rests on the facts of the decision.
Deliver(r) == /\ stage[r] = "decided"
              /\ stage' = [stage EXCEPT ![r] = "closed"]
              /\ UNCHANGED <<held, backing>>

\* Requests end without an answer that rests on facts: a failure, a question
\* sent back, or all requests in flight when the process goes.
Abandon(R) == /\ \A r \in R : stage[r] # "closed"
              /\ stage' = [r \in Requests |-> IF r \in R THEN "closed" ELSE stage[r]]
              /\ backing' = [r \in Requests |-> IF r \in R THEN {} ELSE backing[r]]
              /\ UNCHANGED held

Next == \/ Change
        \/ \E r \in Requests : Ask(r) \/ Confirm(r) \/ Decide(r) \/ Deliver(r)
        \/ \E R \in SUBSET Requests : Abandon(R)

Spec == Init /\ [][Next]_vars
=============================================================================
