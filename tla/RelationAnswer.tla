--------------------------- MODULE RelationAnswer ---------------------------
(***************************************************************************)
(* One RELATION_SEARCH question, SELECT by SELECT, while ingest_external   *)
(* processes replace the library under it: clause by clause the target is  *)
(* resolved and its relations are read with their documents, the run is    *)
(* merged, decided on and cached, every document is looked up again, and   *)
(* the trace and the audit row name a manifest.  Under READ COMMITTED each *)
(* of these statements sees what is committed when it starts, and none of  *)
(* them waits for an ingest.                                               *)
(*                                                                         *)
(* The statements on product tables are left out: the rows of a built      *)
(* version stay, as DatasetLifecycle shows, so what they return does not   *)
(* depend on when they run.  Which of too many products or evidences a     *)
(* limit keeps depends on columns: here it keeps any of them.              *)
(***************************************************************************)
EXTENDS ExternalLibrary

CONSTANTS
  Targets,    \* the names that clauses ask for
  Questions,  \* what RELATION_SEARCH specs ask of the library
  Alias,      \* Alias[t][m]: entities with t as an approved exact alias
  Canonical,  \* Canonical[t][m]: entities with t as their own name
  Facts,      \* Facts[m]: product_holding and entity_relation rows
  NoProduct   \* the product of a relation between companies

Relations == {"HOLDS", "SUBSIDIARY_OF", "AFFILIATE_OF", "TRACKS_INDEX", "BELONGS_TO_THEME"}

\* A question searches the products of its families; selects holds, family by family,
\* those that pass its other clauses, none of which the policy blocks.  A holding is about
\* the company held, any other relation about both of its ends.
ASSUME RelationAssumption ==
  /\ \A q \in Questions :
       /\ q.clauses \in Seq([relation : Relations, target : Targets]) /\ q.clauses # <<>>
       /\ q.limit \in 1 .. 10
       /\ IsFiniteSet(UNION q.selects) /\ NoProduct \notin q.searched \cup UNION q.selects
       /\ \A F, G \in q.selects : F # G => F \cap G = {}
  /\ \A m \in Manifests :
       /\ IsFiniteSet(Facts[m])
       /\ \A f \in Facts[m] : f.product # NoProduct <=> f.relation = "HOLDS"
  /\ None \notin {"answered", "abstained", "failed"}

VARIABLE reader  \* a request, with the run that it made or found in the cache

allVars == <<tables, job, reader>>

NoRead == [at |-> "idle", question |-> None, clause |-> 1, entities |-> {},
           evidences |-> {},  \* read so far, each with the number of its clause
           facts |-> {},      \* of the run: the evidences that it would show
           selected |-> {},   \* of the run: the products it selects
           rows |-> {},       \* those of them that are not dropped
           unread |-> {},     \* facts whose document is still to be looked up
           manifest |-> None, \* the one the trace names
           outcome |-> None,
           quiet |-> TRUE,    \* history: no ingest has committed since the run was begun
           gone |-> {}]       \* history: documents of the run that the library has not
                              \* had since the request began

-----------------------------------------------------------------------------
\* What a SELECT sees now.
Committed(t, content) == UNION {content[m] : m \in tables[t]}
DocsOf(facts) == {f.doc : f \in facts}
Documents == DocsOf(Committed("document", Facts))

Clause == reader.question.clauses[reader.clause]

\* Mutant: all entities that the target may mean.
Meant_Any(entities) == entities

\* The entities of a resolution that is neither unresolved nor ambiguous.
Meant(entities) == IF \E e \in entities : entities = {e} THEN entities ELSE {}

\* coverage_status, review_status, UNIT_ flags and FUZZY_ONLY.
Usable(f) == f.usable

\* Rows of product_holding or entity_relation about the target, each with its document.
Asked(entities) ==
  {f \in Committed("fact", Facts) :
     /\ f.relation = Clause.relation /\ f.about \cap entities # {}
     /\ Usable(f) /\ f.doc \in Documents
     /\ f.product \in reader.question.searched \cup {NoProduct}}

-----------------------------------------------------------------------------
\* A list cut to its first n, in whatever order it is.
Cuts(S, n) == IF Cardinality(S) <= n THEN {S} ELSE {T \in SUBSET S : Cardinality(T) = n}

ProductsOf(evidences) == {e[2].product : e \in evidences} \ {NoProduct}

OfProducts(evidences, products) == {e \in evidences : e[2].product \in products}

\* The holders that pass the other clauses: one query a family, each with the limit.
Found(q, held) ==
  {S \in SUBSET (held \cap UNION q.selects) :
     \A F \in q.selects : S \cap F \in Cuts(held \cap F, q.limit)}

\* Evidences of other holders go, unless there is nothing else.
Kept(evidences, found) ==
  IF found = {} THEN evidences ELSE OfProducts(evidences, found \cup {NoProduct})

\* RELATION_INTERSECT: of the products that the evidences left name, the holders
\* found, else those that SQL found by itself.
Merged(named, candidates, sql) ==
  IF named = {} THEN IF sql = {} THEN candidates ELSE sql
  ELSE IF named \cap candidates # {} THEN named \cap candidates ELSE named \cap sql

\* Without any evidence there is no decision for a product.
Selected(evidences, candidates, sql) ==
  IF evidences = {} THEN {} ELSE Merged(ProductsOf(evidences), candidates, sql)

\* A bundle shows the evidences of its product; without any product, relations
\* between companies are shown by themselves.
Shown(evidences, selected) ==
  IF selected = {} /\ ProductsOf(evidences) = {} THEN evidences
  ELSE OfProducts(evidences, selected)

-----------------------------------------------------------------------------
\* A statement of the request; what it returned is in changes.
Enter(at, changes) == reader' = [changes EXCEPT !.at = at] /\ UNCHANGED <<tables, job>>

\* On to the next clause, or out of the loop.
Proceed(changes) ==
  LET more == reader.clause < Len(reader.question.clauses) IN
  Enter(IF more THEN "alias" ELSE "conclude",
        [changes EXCEPT !.entities = {}, !.clause = IF more THEN @ + 1 ELSE @])

\* A target that means no one entity is skipped, with a warning.
Resolve(found) ==
  IF Meant(found) = {} THEN Proceed(reader)
  ELSE Enter("facts", [reader EXCEPT !.entities = Meant(found)])

\* Nothing in the cache: the request resolves the first target.
Ask(q) ==
  /\ reader.at \in {"idle", "ended"}
  /\ Enter("alias", [NoRead EXCEPT !.question = q])

ResolveAlias ==
  LET found == Committed("fact", Alias[Clause.target]) IN
  /\ reader.at = "alias"
  /\ IF found = {} THEN Enter("canonical", reader) ELSE Resolve(found)

ResolveCanonical ==
  /\ reader.at = "canonical"
  /\ Resolve(Committed("fact", Canonical[Clause.target]))

\* The rows of one clause, read with their documents.
ReadFacts ==
  /\ reader.at = "facts"
  /\ Proceed([reader EXCEPT !.evidences = @ \cup {reader.clause} \X Asked(reader.entities)])

\* The evidences are joined with products, cut, merged with what SQL found, cut to
\* the limit too, and decided on.
Conclude ==
  /\ reader.at = "conclude"
  /\ LET q == reader.question IN
     \E found \in Found(q, ProductsOf(reader.evidences)) :
     \E evidences \in Cuts(Kept(reader.evidences, found), q.limit),
        candidates \in Cuts(found, q.limit), sql \in Cuts(UNION q.selects, q.limit) :
       LET selected == Selected(evidences, candidates, sql)
           shown == Shown(evidences, selected)
       IN Enter("check", [reader EXCEPT !.clause = 1, !.evidences = {},
                                        !.facts = shown, !.unread = shown,
                                        !.selected = selected, !.rows = selected])

\* Mutant: the documents were looked up when the run was made.
Reuse_Trusted ==
  /\ reader.at = "ended"
  /\ Enter("check", [reader EXCEPT !.rows = reader.selected, !.manifest = None, !.outcome = None,
                                   !.quiet = FALSE,
                                   !.gone = {e[2].doc : e \in reader.facts} \ Documents])

\* The same question later, of the cached run: it is read back again.
Reuse ==
  /\ reader.at = "ended"
  /\ Enter("check", [reader EXCEPT !.rows = reader.selected, !.unread = reader.facts,
                                   !.manifest = None, !.outcome = None, !.quiet = FALSE,
                                   !.gone = {e[2].doc : e \in reader.facts} \ Documents])

\* One SELECT of a source_document by id and content hash.  A product without its
\* document is dropped, a relation between companies ends the request with a 503.
CheckDocument ==
  /\ reader.at = "check"
  /\ \E e \in reader.unread :
       IF e[2].doc \in Documents
       THEN Enter("check", [reader EXCEPT !.unread = @ \ {e}])
       ELSE IF e[2].product = NoProduct
       THEN Enter("ended", [reader EXCEPT !.unread = {}, !.outcome = "failed"])
       ELSE Enter("check", [reader EXCEPT !.rows = @ \ {e[2].product},
                                          !.unread = {d \in @ : d[2].product # e[2].product}])

Answers == IF reader.rows # {} \/ \E e \in reader.facts : e[2].product = NoProduct
           THEN "answered" ELSE "abstained"

\* finalize_decision, and the last SELECT: the manifest that the trace names.
NameManifest ==
  /\ reader.at = "check" /\ reader.unread = {}
  /\ \E m \in tables["run"] :
       Enter("ended", [reader EXCEPT !.manifest = m, !.outcome = Answers])

Read == \/ ResolveAlias \/ ResolveCanonical \/ ReadFacts \/ Conclude
        \/ CheckDocument \/ NameManifest

\* A statement of an ingest, seen by the history.
Ingest ==
  /\ \E j \in Jobs : \/ StartDelete(j) \/ FinishDelete(j) \/ Load(j) \/ Fail(j)
                     \/ \E m \in Manifests : Start(j, m)
  /\ reader' = IF reader.at = "idle" \/ tables' = tables THEN reader
               ELSE [reader EXCEPT !.quiet = FALSE, !.gone = @ \ Documents']

AllInit == Init /\ reader = NoRead

AllNext == Ingest \/ Read \/ Reuse \/ \E q \in Questions : Ask(q)

AllSpec == AllInit /\ [][AllNext]_allVars /\ Fairness

-----------------------------------------------------------------------------
\* What a target means in a snapshot: nothing if it could mean two entities.
Meaning(m, t) == LET found == IF Alias[t][m] # {} THEN Alias[t][m] ELSE Canonical[t][m]
                 IN  {x \in found : found = {x}}

\* What a snapshot holds of what a question asks for, clause by clause.
HeldBy(m, q) ==
  {e \in (DOMAIN q.clauses) \X Facts[m] :
     LET c == q.clauses[e[1]]
         f == e[2]
     IN /\ f.usable /\ f.relation = c.relation /\ f.about \cap Meaning(m, c.target) # {}
        /\ f.product \in q.searched \cup {NoProduct}}

\* The statements that make a run, and those that read it back, see as many states of
\* the library.  If no ingest has committed since the first of them, then what the answer
\* shows one snapshot holds, under its manifest, about targets that mean one entity, and
\* no more of it than the limit.  Where all the evidences are within the limit, it shows
\* every holder that passes the other clauses, with its evidences, or else, when no
\* product is selected at all, every relation between companies.
QuietAnswersAreExact ==
  (reader.at = "ended" /\ reader.quiet) =>
    \E m \in Manifests :
      LET q == reader.question
          held == HeldBy(m, q)
          products == ProductsOf(held)
          found == products \cap UNION q.selects
          fits == Cardinality(Kept(held, found)) <= q.limit
      IN /\ \A t \in Tables : tables[t] = {m}
         /\ reader.manifest = m
         /\ reader.facts \subseteq held /\ Cardinality(reader.facts) <= q.limit
         /\ reader.rows \subseteq UNION q.selects /\ Cardinality(reader.rows) <= q.limit
         /\ held = {} => reader.outcome = "abstained"
         /\ fits /\ products # {} =>
              /\ reader.rows = found
              /\ reader.facts = OfProducts(held, found)
              /\ reader.outcome = IF found # {} THEN "answered" ELSE "abstained"
         /\ fits /\ products = {} =>
              /\ UNION q.selects = {} => reader.facts = held
              /\ reader.outcome = IF held # {} THEN "answered" ELSE "abstained"

\* What a target could mean to a clause whose two statements saw two snapshots.
Named(m, t) == Meaning(m, t) \cup {x \in Canonical[t][m] : Canonical[t][m] = {x}}

\* The evidences of clause c are facts of one snapshot about one entity, which the
\* target could mean.
Stands(q, evidences, c) ==
  /\ \E m \in Manifests : \A e \in evidences : e[1] = c => e[2] \in Facts[m]
  /\ \E m \in Manifests : \E x \in Named(m, q.clauses[c].target) :
       \A e \in evidences : e[1] = c => x \in e[2].about

AllStand(q, evidences) == \A c \in {e[1] : e \in evidences} : Stands(q, evidences, c)

FactsOfOneSnapshot == AllStand(reader.question, reader.facts)

\* Each document that an answer names was in the library at some moment since its
\* request began.
DocumentsStillStand ==
  reader.outcome = "answered" =>
    \A e \in reader.facts :
      e[2].product \in reader.rows \cup {NoProduct} => e[2].doc \notin reader.gone

\* However many ingests commit in between, the facts that answer one clause are facts
\* of one snapshot about one entity (those of two clauses may be of two snapshots);
\* and though a run may be served from the cache long after its library was replaced,
\* an answer cites no document that was withdrawn before its request and stayed away.
RunsStandTogether == FactsOfOneSnapshot /\ DocumentsStillStand
=============================================================================
