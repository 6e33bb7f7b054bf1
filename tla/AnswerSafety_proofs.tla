------------------------- MODULE AnswerSafety_proofs -------------------------
(***************************************************************************)
(* Proofs of the safety invariants of AnswerService and, last, of its      *)
(* refinement of AnswerContract.  What an answer rests on is decided       *)
(* several steps, and possibly several requests and deployments, before    *)
(* the answer is given; the inductive invariant says what each stage of a  *)
(* request and each entry of the cache already guarantees.                 *)
(***************************************************************************)
EXTENDS AnswerService_proofs

\* Rows of one version that pass the filters of a spec.
RowsMatch(rows, spec, v) ==
  \A row \in rows : row.version = v /\ row.uid \in Curated[v] \cap spec.selects

\* A question about holdings is answered with documented products only.
Documented(rows, links, spec) ==
  rows # {} /\ spec.relations = {"HOLDS"} => UidsOf(rows) \subseteq Products(links)

\* Every link that some manifest ingests.
AllLinks == UNION {Links[m] : m \in Manifests}

\* What a run may be trusted for, by the request that made it or found it.
RunSound(run, spec, v) ==
  LET selected == run.preliminary.selected  state == run.preliminary.state IN
  /\ run.links \subseteq AllLinks
  /\ RowsMatch(selected, spec, v)
  /\ UidsOf(selected) \cap LowQuality = {}
  /\ Documented(selected, run.links, spec)
  /\ state # "ANSWER"
  /\ selected # {} => state = "PRE_ANSWER"
  /\ state = "PRE_ANSWER" => run.planned
  /\ state = "PRE_ANSWER" /\ selected = {} =>
       spec.intent \in {"AGGREGATE", "EXPLAIN_TERM", "RELATION_SEARCH"}
  /\ state = "PRE_ANSWER" /\ selected = {} /\ spec.intent = "RELATION_SEARCH" =>
       run.links # {}

\* What a final decision rests on.
FinalSound(final, spec, v) ==
  /\ RowsMatch(final.rows, spec, v)
  /\ UidsOf(final.rows) \cap LowQuality = {}
  /\ Documented(final.rows, final.links, spec)
  /\ final.state = "ANSWER" <=> final.rows \cup final.links # {}
  /\ final.state = "PRE_ANSWER" => spec.intent \in {"AGGREGATE", "EXPLAIN_TERM"}

TextSound(text, final) == Guard(text, final) \/ final.state = "PRE_ANSWER"

Standing(stage, w) ==
  /\ stage = "sql" => "SQL" \in SelectRetrievers(w.spec)
  /\ stage = "relate" => RowsMatch(w.found, w.spec, w.version)
  /\ stage \in WithRun => RunSound(w.run, w.spec, w.version)
  /\ stage \in WithFinal => FinalSound(w.final, w.spec, w.version)
  /\ stage \in {"audit", "respond"} => TextSound(w.text, w.final)

RequestsSound == \A r \in Requests : Standing(pc[r], work[r])
CacheSound == \A e \in runCache : RunSound(e.value, e.key[1], e.key[2])
AnswersSound ==
  \A r \in Requests : Answered(r) =>
    /\ FinalSound(answer[r].final, answer[r].spec, answer[r].version)
    /\ TextSound(answer[r].text, answer[r].final)

EvidenceInv == RequestsSound /\ CacheSound /\ AnswersSound

\* The HCX calls a request may have started by the time it stands at a stage.
CallsAt(stage, asked) ==
  LET read == IF asked \in Ruled THEN 0 ELSE 2 IN
  CASE stage = "parse" -> 1
    [] stage = "correct" -> 2
    [] stage = "generate" -> read + 1
    [] stage \in {"regenerate", "audit", "respond"} -> read + 2
    [] stage \in {"retrieve", "sql", "relate", "document", "evidence"} -> read
    [] OTHER -> 0

BudgetInv ==
  \A r \in Requests :
    /\ work[r].calls <= CallsAt(pc[r], question[r])
    /\ pc[r] \in {"parse", "correct"} => question[r] \notin Ruled

\* Who has answered is done; whoever wrote an audit row has answered what it says,
\* is about to, or was lost.
AuditInv ==
  /\ \A r \in Requests : Answered(r) => pc[r] = "done"
  /\ \A row \in audit :
       \/ /\ pc[row.by] = "done" /\ Answered(row.by)
          /\ answer[row.by].final.state = row.state
       \/ pc[row.by] = "respond" /\ work[row.by].final.state = row.state
       \/ pc[row.by] = "lost"
  /\ \A row1, row2 \in audit : row1.qid = row2.qid => row1 = row2

-----------------------------------------------------------------------------
(* What the decisions guarantee. *)

\* When a preliminary decision has nothing selected, and when it has.
LEMMA DecidePreliminaryCases ==
  ASSUME NEW spec, NEW rows, NEW links, NEW documents, NEW aggregate, NEW blocked
  PROVE  LET eligible == {row \in rows : row.uid \notin blocked}
             d == DecidePreliminary(spec, rows, links, documents, aggregate, blocked)
         IN  \/ d = Decide("ABSTAIN")
             \/ /\ d = Decide("PRE_ANSWER")
                /\ \/ spec.intent \in {"EXPLAIN_TERM", "AGGREGATE"}
                   \/ spec.intent = "RELATION_SEARCH" /\ links # {}
             \/ /\ d = [state |-> "PRE_ANSWER", selected |-> eligible]
                /\ eligible = {} => spec.intent = "AGGREGATE"
                /\ ~(spec.intent = "RELATION_SEARCH" /\ links = {})
  BY DEF DecidePreliminary, OnlyCompanyLinks

\* The run of a plan is sound when the rows found match, and are documented
\* unless the decision ignores them.
LEMMA ConcludedRunSound ==
  ASSUME NEW spec \in QuerySpecs, NEW rows, NEW links \in SUBSET AllLinks,
         NEW documents, NEW aggregate, NEW v, NEW q,
         RowsMatch(rows, spec, v),
         \/ spec.intent = "RELATION_SEARCH" /\ links = {}
         \/ Documented(rows, links, spec)
  PROVE  RunSound([qid |-> q, planned |-> TRUE, links |-> links,
                   preliminary |-> DecidePreliminary(spec, rows, links, documents,
                                                     aggregate, LowQuality)], spec, v)
<1> DEFINE eligible == {row \in rows : row.uid \notin LowQuality}
           d == DecidePreliminary(spec, rows, links, documents, aggregate, LowQuality)
<1>1. \/ d = Decide("ABSTAIN")
      \/ /\ d = Decide("PRE_ANSWER")
         /\ \/ spec.intent \in {"EXPLAIN_TERM", "AGGREGATE"}
            \/ spec.intent = "RELATION_SEARCH" /\ links # {}
      \/ /\ d = [state |-> "PRE_ANSWER", selected |-> eligible]
         /\ eligible = {} => spec.intent = "AGGREGATE"
         /\ ~(spec.intent = "RELATION_SEARCH" /\ links = {})
  BY DecidePreliminaryCases
<1>2. /\ RowsMatch(eligible, spec, v)
      /\ UidsOf(eligible) \cap LowQuality = {}
      /\ Documented(rows, links, spec) => Documented(eligible, links, spec)
  BY DEF RowsMatch, UidsOf, Documented
<1> HIDE DEF eligible, d
<1>3. SUFFICES RunSound([qid |-> q, planned |-> TRUE, links |-> links,
                         preliminary |-> d], spec, v)
  BY DEF d
<1>4. CASE d = Decide("ABSTAIN")
  BY <1>4 DEF RunSound, Decide, RowsMatch, UidsOf, Documented
<1>5. CASE /\ d = Decide("PRE_ANSWER")
           /\ \/ spec.intent \in {"EXPLAIN_TERM", "AGGREGATE"}
              \/ spec.intent = "RELATION_SEARCH" /\ links # {}
  BY <1>5 DEF RunSound, Decide, RowsMatch, UidsOf, Documented
<1>6. CASE /\ d = [state |-> "PRE_ANSWER", selected |-> eligible]
           /\ eligible = {} => spec.intent = "AGGREGATE"
           /\ ~(spec.intent = "RELATION_SEARCH" /\ links = {})
  BY <1>2, <1>6 DEF RunSound
<1> QED
  BY <1>1, <1>4, <1>5, <1>6

\* So is the run of a decision that needed no retrieval.
LEMMA EarlyRunSound ==
  ASSUME NEW spec \in QuerySpecs, NEW early \in EarlyDecisions(spec), NEW v
  PROVE  RunSound([qid |-> spec, planned |-> FALSE, preliminary |-> early,
                   links |-> {}], spec, v)
  BY EarlyDecisionsTyped DEF RunSound, RowsMatch, UidsOf, Documented

LEMMA SelectedSound ==
  ASSUME NEW w
  PROVE  RowsMatch(Selected(w), w.spec, w.version)
  BY DEF RowsMatch, Selected, CuratedRows

\* Merging keeps the filters and, for a question about holdings, leaves only
\* products of the links, if there are links at all.
LEMMA MergeSound ==
  ASSUME NEW spec \in QuerySpecs, spec.intent = "RELATION_SEARCH", NEW v,
         NEW sqlRows, NEW relationRows, NEW links,
         RowsMatch(sqlRows, spec, v), RowsMatch(relationRows, spec, v),
         spec.relations = {"HOLDS"} => \A l \in links : l.product # NoProduct
  PROVE  LET rows == MergeCandidates(spec, sqlRows, relationRows, links)
         IN  /\ RowsMatch(rows, spec, v)
             /\ links = {} \/ Documented(rows, links, spec)
<1> DEFINE rows == MergeCandidates(spec, sqlRows, relationRows, links)
<1>1. rows \subseteq sqlRows \cup relationRows
  BY MergeCandidatesTyped
<1> HIDE DEF rows
<1>2. RowsMatch(rows, spec, v)
  BY <1>1 DEF RowsMatch
<1>3. ASSUME spec.relations = {"HOLDS"}, links # {}
      PROVE  UidsOf(rows) \subseteq Products(links)
  <2>1. Products(links) # {}
    BY <1>3 DEF Products
  <2>2. MergeMode(spec) = "RELATION_INTERSECT"
    BY <1>3 DEF MergeMode
  <2>3. \/ rows = {row \in relationRows : row.uid \in Products(links)}
        \/ rows = {row \in sqlRows : row.uid \in Products(links)}
    BY <2>1, <2>2 DEF MergeCandidates, rows
  <2> QED
    BY <2>3 DEF UidsOf
<1> QED
  BY <1>2, <1>3 DEF Documented, rows

\* The final decision is sound when the run is, whatever the database still
\* holds of it: for rows selected, for a relation between companies, and for a
\* decision with nothing to validate.
LEMMA FinalRowsSound ==
  ASSUME NEW run \in Run, NEW spec, NEW v, NEW valid, RunSound(run, spec, v),
         run.preliminary.selected # {}
  PROVE  LET d == FinalizeDecision(run.preliminary, valid)
         IN  FinalSound([state |-> d.state, rows |-> d.selected,
                         links |-> LinksOf(d.selected, run.links)], spec, v)
<1> DEFINE d == FinalizeDecision(run.preliminary, valid)
           selected == run.preliminary.selected
<1>1. run.preliminary \in Decision /\ run.preliminary.state = "PRE_ANSWER"
  BY DEF Run, RunSound
<1>2. d.selected = selected \cap valid /\ d.state = IF d.selected = {} THEN "ABSTAIN" ELSE "ANSWER"
  BY <1>1, FinalizeDecisionTyped
<1>3. /\ RowsMatch(selected, spec, v) /\ UidsOf(selected) \cap LowQuality = {}
      /\ Documented(selected, run.links, spec)
  BY DEF RunSound
<1> HIDE DEF d, selected
<1>4. RowsMatch(d.selected, spec, v) /\ UidsOf(d.selected) \cap LowQuality = {}
  BY <1>2, <1>3 DEF RowsMatch, UidsOf
<1>5. Documented(d.selected, LinksOf(d.selected, run.links), spec)
  BY <1>2, <1>3 DEF Documented, LinksOf, UidsOf, Products
<1>6. d.selected = {} => LinksOf(d.selected, run.links) = {}
  BY DEF LinksOf, UidsOf
<1> QED
  BY <1>2, <1>4, <1>5, <1>6 DEF FinalSound, d

LEMMA FinalRelationSound ==
  ASSUME NEW w \in Work, NEW v, RunSound(w.run, w.spec, v), StandaloneRelation(w)
  PROVE  FinalSound([state |-> "ANSWER", rows |-> {}, links |-> w.run.links], w.spec, v)
  BY DEF FinalSound, RunSound, StandaloneRelation, RowsMatch, UidsOf, Documented

LEMMA FinalEmptySound ==
  ASSUME NEW w \in Work, NEW v, RunSound(w.run, w.spec, v),
         w.run.preliminary.selected = {}, ~StandaloneRelation(w)
  PROVE  FinalSound([state |-> w.run.preliminary.state, rows |-> {}, links |-> {}],
                    w.spec, v)
  BY DEF FinalSound, RunSound, StandaloneRelation, RowsMatch, UidsOf, Documented

\* The fallback passes the guard for every decision but a PRE_ANSWER.
LEMMA FallbackSound ==
  ASSUME NEW final \in Final
  PROVE  TextSound(Fallback(final), final)
  BY DEF TextSound, Guard, Fallback, Final, DecisionStates

-----------------------------------------------------------------------------
(* The evidence invariant, action by action. *)

\* A request that moves on is sound when its new stage is; the others stay.
LEMMA ProceedSound ==
  ASSUME TypeOK, EvidenceInv, NEW r \in Requests, NEW to, NEW w, Standing(to, w),
         Proceed(r, to, w)
  PROVE  RequestsSound' /\ AnswersSound'
<1>1. ASSUME NEW s \in Requests PROVE Standing(pc'[s], work'[s])
  <2>1. CASE s = r
    BY <2>1 DEF TypeOK, Proceed
  <2>2. CASE s # r
    BY <2>2 DEF TypeOK, Proceed, EvidenceInv, RequestsSound
  <2> QED
    BY <2>1, <2>2
<1> QED
  BY <1>1 DEF RequestsSound, AnswersSound, Answered, Proceed, EvidenceInv

\* A request that leaves needs nothing any more.
LEMMA LeaveSound ==
  ASSUME TypeOK, EvidenceInv, NEW r \in Requests, Leave(r)
  PROVE  RequestsSound'
<1>1. ASSUME NEW s \in Requests PROVE Standing(pc'[s], work'[s])
  <2>1. CASE s = r
    BY <2>1 DEF TypeOK, Leave, Standing, WithRun, WithFinal
  <2>2. CASE s # r
    BY <2>2 DEF TypeOK, Leave, EvidenceInv, RequestsSound
  <2> QED
    BY <2>1, <2>2
<1> QED
  BY <1>1 DEF RequestsSound

LEMMA FailSound ==
  ASSUME TypeOK, EvidenceInv, NEW r \in Requests, NEW code, Fail(r, code)
  PROVE  RequestsSound' /\ AnswersSound'
<1>1. RequestsSound'
  BY LeaveSound DEF Fail
<1> QED
  BY <1>1 DEF Fail, EvidenceInv, AnswersSound, Answered

\* A call to HCX changes nothing that soundness looks at.
LEMMA StartCallSound ==
  ASSUME TypeOK, EvidenceInv, NEW r \in Requests, NEW to, NEW w \in Work,
         Standing(to, w), StartCall(r, to, w)
  PROVE  RequestsSound' /\ AnswersSound'
<1> DEFINE counted == [w EXCEPT !.calls = @ + 1]
<1>1. Standing(to, counted)
  BY DEF Standing, Work
<1> HIDE DEF counted
<1>2. CASE Fail(r, "HCX")
  BY <1>2, FailSound
<1>3. CASE Proceed(r, to, counted)
  BY <1>1, <1>3, ProceedSound
<1> QED
  BY <1>2, <1>3 DEF StartCall, counted

\* Nothing is asked of the stages before retrieval.
LEMMA EarlyStanding ==
  ASSUME NEW w
  PROVE  \A stage \in {"context", "parse", "correct", "retrieve", "document"} :
           Standing(stage, w)
  BY DEF Standing, WithRun, WithFinal

LEMMA CacheKept ==
  ASSUME EvidenceInv, UNCHANGED runCache
  PROVE  CacheSound'
  BY DEF EvidenceInv, CacheSound

LEMMA AcceptSound ==
  ASSUME TypeOK, EvidenceInv, NEW r \in Requests, NEW q \in Questions, Accept(r, q)
  PROVE  EvidenceInv'
<1>1. ASSUME NEW s \in Requests PROVE Standing(pc'[s], work'[s])
  <2>1. CASE s = r
    BY <2>1 DEF Accept, TypeOK, Standing, WithRun, WithFinal
  <2>2. CASE s # r
    BY <2>2 DEF Accept, TypeOK, EvidenceInv, RequestsSound
  <2> QED
    BY <2>1, <2>2
<1>2. CASE q \in Blank
  <2> DEFINE ask == [state |-> "ASK", rows |-> {}, links |-> {}]
             text == [prefix |-> "ASK", clean |-> TRUE, mentions |-> {}]
  <2>1. FinalSound(ask, None, NoVersion) /\ TextSound(text, ask)
    BY DEF FinalSound, TextSound, Guard, RowsMatch, Documented, UidsOf
  <2> HIDE DEF ask, text
  <2>2. answer' = [answer EXCEPT ![r] = [version |-> NoVersion, spec |-> None,
                                         final |-> ask, text |-> text]]
    BY <1>2 DEF Accept, ask, text
  <2> QED
    BY <1>1, <2>1, <2>2, CacheKept
       DEF Accept, TypeOK, caches, EvidenceInv, RequestsSound, AnswersSound, Answered
<1>3. CASE q \notin Blank
  BY <1>1, <1>3, CacheKept
     DEF Accept, caches, EvidenceInv, RequestsSound, AnswersSound, Answered
<1> QED
  BY <1>2, <1>3

LEMMA LoadContextSound ==
  ASSUME TypeOK, EvidenceInv, NEW r \in Requests, LoadContext(r)
  PROVE  EvidenceInv'
<1> DEFINE w == [NoWork EXCEPT !.version = active, !.manifest = disk]
<1>1. w \in Work
  BY NoWorkTyped DEF TypeOK, Work
<1> HIDE DEF w
<1>2. CASE Fail(r, "CONTEXT")
  BY <1>2, FailSound, CacheKept DEF LoadContext, EvidenceInv
<1>3. CASE \E v : Proceed(r, "retrieve", [w EXCEPT !.spec = v])
  BY <1>3, EarlyStanding, ProceedSound, CacheKept DEF LoadContext, EvidenceInv
<1>4. CASE StartCall(r, "parse", w)
  BY <1>1, <1>4, EarlyStanding, StartCallSound, CacheKept DEF LoadContext, EvidenceInv
<1> QED
  BY <1>2, <1>3, <1>4 DEF LoadContext, ReadQuestion, w

LEMMA ParseReplySound ==
  ASSUME TypeOK, EvidenceInv, NEW r \in Requests, ParseReply(r)
  PROVE  EvidenceInv'
<1>1. work[r] \in Work
  BY DEF TypeOK
<1>2. CASE \E v : Proceed(r, "retrieve", [work[r] EXCEPT !.spec = v])
  BY <1>2, EarlyStanding, ProceedSound, CacheKept DEF ParseReply, EvidenceInv
<1>3. CASE StartCall(r, "correct", work[r])
  BY <1>1, <1>3, EarlyStanding, StartCallSound, CacheKept DEF ParseReply, EvidenceInv
<1>4. CASE Fail(r, "HCX")
  BY <1>4, FailSound, CacheKept DEF ParseReply, EvidenceInv
<1> QED
  BY <1>2, <1>3, <1>4 DEF ParseReply

\* A sound run is stored under the key it is sound for.
LEMMA StoreSound ==
  ASSUME TypeOK, EvidenceInv, NEW r \in Requests, NEW run,
         RunSound(run, work[r].spec, work[r].version), Store(r, run)
  PROVE  EvidenceInv'
<1> DEFINE w == Take(work[r], run)
<1>1. work[r] \in Work
  BY DEF TypeOK
<1>2. w.run = run /\ w.spec = work[r].spec /\ w.version = work[r].version
  BY <1>1, TakeTyped
<1>3. Standing("evidence", w)
  <2> HIDE DEF w
  <2> QED
    BY <1>2 DEF Standing, WithFinal
<1>4. RequestsSound' /\ AnswersSound'
  <2> HIDE DEF w
  <2>1. Proceed(r, "evidence", w)
    BY DEF Store, w
  <2> QED
    BY <1>3, <2>1, ProceedSound
<1>5. runCache' \subseteq runCache \cup {[key |-> RunKey(work[r]), value |-> run]}
  BY RunPutsAdds DEF Store
<1>6. CacheSound'
  BY <1>5 DEF RunKey, EvidenceInv, CacheSound
<1> QED
  BY <1>4, <1>6 DEF EvidenceInv

LEMMA RetrieveSound ==
  ASSUME TypeOK, EvidenceInv, NEW r \in Requests, Retrieve(r)
  PROVE  EvidenceInv'
<1>1. work[r] \in Work /\ work[r].spec \in QuerySpecs
  BY TypeOKSplit, AtHand DEF Retrieve, WithSpec
<1>2. CASE /\ \E e \in RunStore!Hits(runCache, RunKey(work[r])) :
                Proceed(r, "evidence", Take(work[r], e.value))
           /\ UNCHANGED runCache
  <2>1. PICK e \in RunStore!Hits(runCache, RunKey(work[r])) :
                Proceed(r, "evidence", Take(work[r], e.value))
    BY <1>2
  <2>2. RunSound(e.value, work[r].spec, work[r].version)
    <3>1. e \in runCache /\ e.key = <<work[r].spec, work[r].version, work[r].manifest>>
      BY DEF RunStore!Hits, RunKey
    <3>2. e.key[1] = work[r].spec /\ e.key[2] = work[r].version
      BY <3>1
    <3> QED
      BY <3>1, <3>2 DEF EvidenceInv, CacheSound
  <2> DEFINE w == Take(work[r], e.value)
  <2>3. w.run = e.value /\ w.spec = work[r].spec /\ w.version = work[r].version
    BY <1>1, TakeTyped
  <2> HIDE DEF w
  <2>4. Standing("evidence", w)
    BY <2>2, <2>3 DEF Standing, WithFinal
  <2> QED
    BY <1>2, <2>1, <2>4, ProceedSound, CacheKept DEF EvidenceInv, w
<1>3. CASE \E early \in EarlyDecisions(work[r].spec) :
             Store(r, [qid |-> work[r].spec, planned |-> FALSE,
                       preliminary |-> early, links |-> {}])
  BY <1>1, <1>3, EarlyRunSound, StoreSound
<1>4. CASE /\ Proceed(r, IF "SQL" \in SelectRetrievers(work[r].spec)
                           THEN "sql" ELSE "document", work[r])
           /\ UNCHANGED runCache
  <2> DEFINE to == IF "SQL" \in SelectRetrievers(work[r].spec) THEN "sql" ELSE "document"
  <2>1. Standing(to, work[r])
    BY DEF Standing, WithRun, WithFinal
  <2> QED
    BY <1>4, <2>1, ProceedSound, CacheKept DEF EvidenceInv
<1> QED
  BY <1>2, <1>3, <1>4 DEF Retrieve

\* Rows, links and documents found for a request that is about to decide.
LEMMA ConcludeSound ==
  ASSUME TypeOK, EvidenceInv, NEW r \in Requests, work[r].spec \in QuerySpecs,
         NEW rows, NEW links \in SUBSET AllLinks,
         NEW documents, NEW aggregate, Conclude(r, rows, links, documents, aggregate),
         RowsMatch(rows, work[r].spec, work[r].version),
         \/ work[r].spec.intent = "RELATION_SEARCH" /\ links = {}
         \/ Documented(rows, links, work[r].spec)
  PROVE  EvidenceInv'
<1> DEFINE run == [qid |-> r, planned |-> TRUE, links |-> links,
                   preliminary |-> DecidePreliminary(work[r].spec, rows, links,
                                                     documents, aggregate, LowQuality)]
<1>1. \A spec \in QuerySpecs : \A v :
        /\ RowsMatch(rows, spec, v)
        /\ \/ spec.intent = "RELATION_SEARCH" /\ links = {}
           \/ Documented(rows, links, spec)
        => RunSound([qid |-> r, planned |-> TRUE, links |-> links,
                     preliminary |-> DecidePreliminary(spec, rows, links, documents,
                                                       aggregate, LowQuality)], spec, v)
  BY ConcludedRunSound
<1>2. RunSound(run, work[r].spec, work[r].version)
  BY <1>1
<1>3. Store(r, run)
  BY DEF Conclude
<1> HIDE DEF run
<1> QED
  BY <1>2, <1>3, StoreSound

\* A specification that SQL serves without the relation retriever names no
\* relations.
LEMMA SqlAloneNamesNoRelations ==
  ASSUME NEW spec \in QuerySpecs, "SQL" \in SelectRetrievers(spec),
         "RELATION" \notin SelectRetrievers(spec)
  PROVE  spec.relations = {}
<1>1. spec.intent \notin {"UNSUPPORTED_PREDICTION", "EXPLAIN_TERM", "RELATION_SEARCH"}
  BY DEF SelectRetrievers, RequiredRetrievers, OptionalRetrievers
<1> QED
  BY <1>1 DEF SelectRetrievers, RequiredRetrievers

LEMMA RunSqlSound ==
  ASSUME TypeOK, EvidenceInv, NEW r \in Requests, RunSql(r)
  PROVE  EvidenceInv'
<1> DEFINE rows == Selected(work[r])
<1>1. work[r] \in Work /\ work[r].spec \in QuerySpecs
  BY TypeOKSplit, AtHand DEF RunSql, WithSpec
<1>2. RowsMatch(rows, work[r].spec, work[r].version)
  BY SelectedSound
<1> HIDE DEF rows
<1>3. CASE Fail(r, "RETRIEVER") /\ UNCHANGED runCache
  BY <1>3, FailSound, CacheKept DEF EvidenceInv
<1>4. CASE Proceed(r, "relate", [work[r] EXCEPT !.found = rows]) /\ UNCHANGED runCache
  <2> DEFINE w == [work[r] EXCEPT !.found = rows]
  <2>1. w.found = rows /\ w.spec = work[r].spec /\ w.version = work[r].version
    BY <1>1 DEF Work
  <2> HIDE DEF w
  <2>2. Standing("relate", w)
    BY <1>2, <2>1 DEF Standing, WithRun, WithFinal
  <2> QED
    BY <1>4, <2>2, ProceedSound, CacheKept DEF EvidenceInv, w
<1>5. CASE /\ "RELATION" \notin SelectRetrievers(work[r].spec)
           /\ \E aggregate \in BOOLEAN : Conclude(r, rows, {}, FALSE, aggregate)
  <2>1. "SQL" \in SelectRetrievers(work[r].spec)
    BY DEF RunSql, EvidenceInv, RequestsSound, Standing
  <2>2. work[r].spec.relations = {}
    BY <1>1, <1>5, <2>1, SqlAloneNamesNoRelations
  <2>3. Documented(rows, {}, work[r].spec)
    BY <2>2 DEF Documented
  <2> QED
    BY <1>1, <1>2, <1>5, <2>3, ConcludeSound
<1> QED
  BY <1>3, <1>4, <1>5 DEF RunSql, rows

LEMMA RunRelationSound ==
  ASSUME TypeOK, EvidenceInv, NEW r \in Requests, RunRelation(r)
  PROVE  EvidenceInv'
<1> DEFINE w == work[r]
           links == RelatedLinks(w.spec)
           rows == {row \in Selected(w) : row.uid \in Products(links)}
           kept == IF rows = {} THEN links
                   ELSE {l \in links : l.product \in UidsOf(rows) \cup {NoProduct}}
           merged == MergeCandidates(w.spec, w.found, rows, kept)
<1>1. w \in Work /\ w.spec \in QuerySpecs
  BY TypeOKSplit, AtHand DEF RunRelation, WithSpec
<1>2. RowsMatch(w.found, w.spec, w.version)
  BY DEF RunRelation, EvidenceInv, RequestsSound, Standing
<1>3. RowsMatch(rows, w.spec, w.version)
  BY SelectedSound DEF RowsMatch
<1>4. /\ kept \subseteq AllLinks
      /\ w.spec.relations = {"HOLDS"} => \A l \in kept : l.product # NoProduct
  BY DEF RelatedLinks, Library, TypeOK, AllLinks
<1>5. CASE Fail(r, "RETRIEVER") /\ UNCHANGED runCache
  BY <1>5, FailSound, CacheKept DEF EvidenceInv
<1>6. CASE /\ w.spec.intent = "RELATION_SEARCH"
           /\ Conclude(r, merged, kept, FALSE, FALSE)
  <2> HIDE DEF links, rows, kept
  <2>1. RowsMatch(merged, w.spec, w.version) /\ (kept = {} \/ Documented(merged, kept, w.spec))
    BY <1>1, <1>2, <1>3, <1>4, <1>6, MergeSound
  <2> HIDE DEF merged
  <2> QED
    BY <1>1, <1>4, <1>6, <2>1, ConcludeSound
<1> QED
  BY <1>5, <1>6 DEF RunRelation

LEMMA RunDocumentSound ==
  ASSUME TypeOK, EvidenceInv, NEW r \in Requests, RunDocument(r)
  PROVE  EvidenceInv'
<1>1. work[r].spec \in QuerySpecs
  BY TypeOKSplit, AtHand DEF RunDocument, WithSpec
<1>2. RowsMatch({}, work[r].spec, work[r].version) /\ Documented({}, {}, work[r].spec)
  BY DEF RowsMatch, Documented
<1>3. \E documents : Conclude(r, {}, {}, documents, FALSE)
  BY DEF RunDocument
<1> QED
  BY <1>1, <1>2, <1>3, ConcludeSound

\* The final decision is sound when the run is, whatever was read back of it.
LEMMA FinalizedSound ==
  ASSUME NEW w \in Work, w.run \in Run, RunSound(w.run, w.spec, w.version)
  PROVE  FinalSound(Finalized(w), w.spec, w.version)
<1>1. CASE w.run.preliminary.selected # {}
  <2>1. \A run \in Run : \A spec, v, valid :
          RunSound(run, spec, v) /\ run.preliminary.selected # {} =>
            LET e == FinalizeDecision(run.preliminary, valid)
            IN  FinalSound([state |-> e.state, rows |-> e.selected,
                            links |-> LinksOf(e.selected, run.links)], spec, v)
    BY FinalRowsSound
  <2> QED
    BY <1>1, <2>1 DEF Finalized
<1>2. CASE w.run.preliminary.selected = {} /\ StandaloneRelation(w)
  BY <1>2, FinalRelationSound DEF Finalized
<1>3. CASE w.run.preliminary.selected = {} /\ ~StandaloneRelation(w)
  BY <1>3, FinalEmptySound DEF Finalized
<1> QED
  BY <1>1, <1>2, <1>3

\* What a run may be trusted for does not depend on what is read back of it.
LEMMA ReadBackSound ==
  ASSUME TypeOK, EvidenceInv, NEW r \in Requests, ReadRow(r) \/ ReadDocument(r)
  PROVE  EvidenceInv'
<1>1. /\ work[r] \in Work /\ RunSound(work[r].run, work[r].spec, work[r].version)
      /\ pc[r] = "evidence" /\ UNCHANGED runCache
  BY DEF ReadRow, ReadDocument, caches, WithRun, TypeOK, EvidenceInv, RequestsSound, Standing
<1>2. ASSUME NEW w, w.run = work[r].run, w.spec = work[r].spec,
             w.version = work[r].version, Proceed(r, "evidence", w)
      PROVE  EvidenceInv'
  <2>1. Standing("evidence", w)
    BY <1>1, <1>2 DEF Standing, WithFinal
  <2> QED
    BY <1>1, <1>2, <2>1, ProceedSound, CacheKept DEF EvidenceInv
<1>3. \A x : LET w == [work[r] EXCEPT !.checks = x]
             IN w.run = work[r].run /\ w.spec = work[r].spec /\ w.version = work[r].version
  BY <1>1 DEF Work
<1>4. ASSUME NEW x, Proceed(r, "evidence", [work[r] EXCEPT !.checks = x]) PROVE EvidenceInv'
  <2> DEFINE w == [work[r] EXCEPT !.checks = x]
  <2>1. w.run = work[r].run /\ w.spec = work[r].spec /\ w.version = work[r].version
    BY <1>3
  <2>2. Proceed(r, "evidence", w)
    BY <1>4
  <2> HIDE DEF w
  <2> QED
    BY <1>2, <2>1, <2>2
<1>5. CASE Fail(r, "EVIDENCE")
  BY <1>1, <1>5, FailSound, CacheKept DEF EvidenceInv
<1>6. \/ \E x : Proceed(r, "evidence", [work[r] EXCEPT !.checks = x])
      \/ Fail(r, "EVIDENCE")
  BY ReadBackProceeds
<1> QED
  BY <1>4, <1>5, <1>6

LEMMA FinalizeSound ==
  ASSUME TypeOK, EvidenceInv, NEW r \in Requests, Finalize(r)
  PROVE  EvidenceInv'
<1> DEFINE final == Finalized(work[r])
           w == [work[r] EXCEPT !.final = final, !.checks = NoChecks]
<1>1. /\ work[r] \in Work /\ work[r].run \in Run
      /\ RunSound(work[r].run, work[r].spec, work[r].version)
  BY TypeOKSplit, AtHand DEF Finalize, WithRun, EvidenceInv, RequestsSound, Standing
<1>2. final \in Final /\ FinalSound(final, work[r].spec, work[r].version)
  BY <1>1, FinalizedTyped, FinalizedSound
<1>3. StartCall(r, "generate", w) /\ UNCHANGED runCache
  BY DEF Finalize, caches
<1> HIDE DEF final
<1>4. /\ w \in Work /\ w.final = final /\ w.run = work[r].run
      /\ w.spec = work[r].spec /\ w.version = work[r].version
  BY <1>1, <1>2 DEF Work, NoChecks, Checks
<1> HIDE DEF w
<1>5. Standing("generate", w)
  BY <1>1, <1>2, <1>4 DEF Standing
<1> QED
  BY <1>3, <1>4, <1>5, StartCallSound, CacheKept DEF EvidenceInv

LEMMA AnswerReplySound ==
  ASSUME TypeOK, EvidenceInv, NEW r \in Requests, NEW text \in Text, AnswerReply(r, text)
  PROVE  EvidenceInv'
<1>1. work[r] \in Work /\ work[r].final \in Final
  BY TypeOKSplit, AtHand DEF AnswerReply, WithFinal
<1>2. /\ RunSound(work[r].run, work[r].spec, work[r].version)
      /\ FinalSound(work[r].final, work[r].spec, work[r].version)
  BY DEF AnswerReply, WithRun, WithFinal, EvidenceInv, RequestsSound, Standing
<1>3. CASE \E t : /\ TextSound(t, work[r].final)
                  /\ Proceed(r, "audit", [work[r] EXCEPT !.text = t])
  <2>1. PICK t : /\ TextSound(t, work[r].final)
                 /\ Proceed(r, "audit", [work[r] EXCEPT !.text = t])
    BY <1>3
  <2> DEFINE w == [work[r] EXCEPT !.text = t]
  <2>2. /\ w.text = t /\ w.final = work[r].final /\ w.run = work[r].run
        /\ w.spec = work[r].spec /\ w.version = work[r].version
    BY <1>1 DEF Work
  <2> HIDE DEF w
  <2>3. Standing("audit", w)
    BY <1>2, <2>1, <2>2 DEF Standing
  <2> QED
    BY <2>1, <2>3, ProceedSound, CacheKept DEF AnswerReply, caches, EvidenceInv, w
<1>4. CASE StartCall(r, "regenerate", work[r])
  <2>1. Standing("regenerate", work[r])
    BY <1>2 DEF Standing
  <2> QED
    BY <1>1, <1>4, <2>1, StartCallSound, CacheKept DEF AnswerReply, caches, EvidenceInv
<1>5. TextSound(Fallback(work[r].final), work[r].final)
  BY <1>1, FallbackSound
<1> QED
  BY <1>3, <1>4, <1>5 DEF AnswerReply, TextSound

LEMMA RecordAuditSound ==
  ASSUME TypeOK, EvidenceInv, NEW r \in Requests, RecordAudit(r)
  PROVE  EvidenceInv'
<1>1. pc[r] = "audit" /\ Proceed(r, "respond", work[r]) /\ UNCHANGED runCache
  BY DEF RecordAudit, caches
<1>2. Standing("respond", work[r])
  BY <1>1 DEF EvidenceInv, RequestsSound, Standing, WithRun, WithFinal
<1> QED
  BY <1>1, <1>2, ProceedSound, CacheKept DEF EvidenceInv

LEMMA RespondSound ==
  ASSUME TypeOK, EvidenceInv, NEW r \in Requests, Respond(r)
  PROVE  EvidenceInv'
<1> DEFINE given == [version |-> work[r].version, spec |-> work[r].spec,
                     final |-> work[r].final, text |-> work[r].text]
<1>1. /\ FinalSound(given.final, given.spec, given.version)
      /\ TextSound(given.text, given.final)
  BY DEF Respond, WithFinal, EvidenceInv, RequestsSound, Standing
<1>2. answer' = [answer EXCEPT ![r] = given]
  BY DEF Respond
<1> HIDE DEF given
<1>3. AnswersSound'
  BY <1>1, <1>2 DEF TypeOK, EvidenceInv, AnswersSound, Answered
<1>4. RequestsSound' /\ CacheSound'
  BY LeaveSound, CacheKept DEF Respond, caches
<1> QED
  BY <1>3, <1>4 DEF EvidenceInv

LEMMA FailureSound ==
  ASSUME TypeOK, EvidenceInv, NEW r \in Requests, NEW code, Fail(r, code), UNCHANGED caches
  PROVE  EvidenceInv'
  BY FailSound, CacheKept DEF caches, EvidenceInv

LEMMA ServeSound ==
  ASSUME TypeOK, EvidenceInv, NEW r \in Requests, Serve(r)
  PROVE  EvidenceInv'
<1>1. CASE \E q \in Questions : Accept(r, q)
  BY <1>1, AcceptSound
<1>2. CASE Continue(r)
  <2>1. CASE PoolTimeout(r)
    BY <2>1, FailureSound DEF PoolTimeout
  <2> QED
    BY <1>2, <2>1, LoadContextSound, RetrieveSound, RunSqlSound, RunRelationSound,
       RunDocumentSound, ReadBackSound, FinalizeSound, RecordAuditSound, RespondSound
       DEF Continue
<1>3. CASE ParseReply(r)
  BY <1>3, ParseReplySound
<1>4. CASE \E text \in Text : AnswerReply(r, text)
  BY <1>4, AnswerReplySound
<1>5. CASE Expire(r)
  BY <1>5, CacheKept
     DEF Expire, caches, EvidenceInv, RequestsSound, AnswersSound, Answered
<1>6. CASE Timeout(r) \/ DatabaseFails(r) \/ ProviderFails(r)
  BY <1>6, FailureSound DEF Timeout, DatabaseFails, ProviderFails
<1> QED
  BY <1>1, <1>2, <1>3, <1>4, <1>5, <1>6 DEF Serve

\* The command line jobs change the database only: what a request has read, and
\* what the cache remembers of it, was true of the version it was read from.
LEMMA OperateSound ==
  ASSUME TypeOK, EvidenceInv, Operate
  PROVE  EvidenceInv'
<1>1. ASSUME UNCHANGED <<pc, work, answer, caches>> PROVE EvidenceInv'
  BY <1>1, CacheKept DEF caches, EvidenceInv, RequestsSound, AnswersSound, Answered
<1>2. ASSUME NEW m, Restart(m) PROVE EvidenceInv'
  <2>1. ASSUME NEW s \in Requests PROVE Standing(pc'[s], work'[s])
    <3>1. pc'[s] \in {"new", "done", "lost"}
      BY <1>2 DEF Restart, TypeOK, InFlight, Stages, Ended
    <3> QED
      BY <3>1 DEF Standing, WithRun, WithFinal
  <2> QED
    BY <1>2, <2>1
       DEF Restart, EvidenceInv, RequestsSound, CacheSound, AnswersSound, Answered
<1> QED
  BY <1>1, <1>2 DEF Operate, Activate, BuildCurated, IngestExternal

LEMMA EvidenceInvariant == Spec => [](TypeOK /\ EvidenceInv)
<1>1. Init => EvidenceInv
  BY DEF Init, EvidenceInv, RequestsSound, CacheSound, AnswersSound, Answered, Standing,
         WithRun, WithFinal
<1>2. TypeOK /\ EvidenceInv /\ [Next]_vars => EvidenceInv'
  <2> SUFFICES ASSUME TypeOK, EvidenceInv, [Next]_vars PROVE EvidenceInv'
    OBVIOUS
  <2>1. CASE Next
    BY <2>1, ServeSound, OperateSound DEF Next
  <2>2. CASE UNCHANGED vars
    BY <2>2, CacheKept DEF vars, EvidenceInv, RequestsSound, AnswersSound, Answered
  <2> QED
    BY <2>1, <2>2
<1> QED
  BY <1>1, <1>2, TypeCorrect, PTL DEF Spec

-----------------------------------------------------------------------------
\* Whatever jobs activate, curate or ingest while requests wait for HCX, and
\* whichever request's run the cache returns, every row of an answer comes from
\* the dataset version its request read first.
THEOREM AnswersKeepTheirDataset == Spec => []OneDatasetPerAnswer
<1>1. EvidenceInv => OneDatasetPerAnswer
  BY DEF EvidenceInv, AnswersSound, FinalSound, RowsMatch, OneDatasetPerAnswer
<1> QED
  BY <1>1, EvidenceInvariant, PTL

\* A cached run answers for its key: the rows it selected were curated from the
\* version of the key, pass its filters and carry no BLOCK_ANSWER flag.
THEOREM CacheIsSound == Spec => []CachedRunsMatchKeys
<1>1. EvidenceInv => CachedRunsMatchKeys
  BY DEF EvidenceInv, CacheSound, RunSound, RowsMatch, UidsOf, CachedRunsMatchKeys
<1> QED
  BY <1>1, EvidenceInvariant, PTL

\* An ANSWER has evidence, no other state exposes any, and no blocked product is
\* answered.
THEOREM AnswersHaveEvidence == Spec => []AnswerMeansEvidence
<1>1. EvidenceInv => AnswerMeansEvidence
  BY DEF EvidenceInv, AnswersSound, FinalSound, AnswerMeansEvidence
<1> QED
  BY <1>1, EvidenceInvariant, PTL

\* Every answer text, the regenerated one and the fallback included, passes the
\* guard against the final decision, but for the PRE_ANSWER of an average or a
\* term.
THEOREM TextsAreGuarded == Spec => []DeliveredTextPassesGuard
<1>1. EvidenceInv => DeliveredTextPassesGuard
  BY DEF EvidenceInv, AnswersSound, FinalSound, TextSound, DeliveredTextPassesGuard
<1> QED
  BY <1>1, EvidenceInvariant, PTL

\* An answer about holdings names documented products only, though two
\* retrievers searched apart and evidence may have gone since.
THEOREM HoldingsAreDocumented == Spec => []HoldingAnswersAreDocumented
<1>1. EvidenceInv => HoldingAnswersAreDocumented
  BY DEF EvidenceInv, AnswersSound, FinalSound, Documented, UidsOf,
         HoldingAnswersAreDocumented
<1> QED
  BY <1>1, EvidenceInvariant, PTL

-----------------------------------------------------------------------------
(* The budget of HCX calls. *)

Within(stage, asked, w) ==
  /\ w.calls <= CallsAt(stage, asked)
  /\ stage \in {"parse", "correct"} => asked \notin Ruled

LEMMA CallsAtTyped ==
  ASSUME NEW stage, NEW asked
  PROVE  /\ CallsAt(stage, asked) \in Nat
         /\ CallsAt(stage, asked) <= IF asked \in Ruled THEN 2 ELSE 4
  BY DEF CallsAt

LEMMA ProceedWithin ==
  ASSUME TypeOK, BudgetInv, NEW r \in Requests, NEW to, NEW w,
         Within(to, question[r], w), Proceed(r, to, w), question' = question
  PROVE  BudgetInv'
<1>1. ASSUME NEW s \in Requests PROVE Within(pc'[s], question'[s], work'[s])
  <2>1. CASE s = r
    BY <2>1 DEF TypeOK, Proceed
  <2>2. CASE s # r
    BY <2>2 DEF TypeOK, Proceed, BudgetInv, Within
  <2> QED
    BY <2>1, <2>2
<1> QED
  BY <1>1 DEF BudgetInv, Within

LEMMA LeaveWithin ==
  ASSUME TypeOK, BudgetInv, NEW r \in Requests, Leave(r), question' = question
  PROVE  BudgetInv'
<1>1. ASSUME NEW s \in Requests PROVE Within(pc'[s], question'[s], work'[s])
  <2>1. CASE s = r
    BY <2>1, CallsAtTyped DEF TypeOK, Leave, Within, NoWork
  <2>2. CASE s # r
    BY <2>2 DEF TypeOK, Leave, BudgetInv, Within
  <2> QED
    BY <2>1, <2>2
<1> QED
  BY <1>1 DEF BudgetInv, Within

LEMMA StartCallWithin ==
  ASSUME TypeOK, BudgetInv, NEW r \in Requests, NEW to, NEW w,
         Within(to, question[r], [w EXCEPT !.calls = @ + 1]), StartCall(r, to, w),
         question' = question
  PROVE  BudgetInv'
<1> DEFINE counted == [w EXCEPT !.calls = @ + 1]
<1> HIDE DEF counted
<1>1. CASE Fail(r, "HCX")
  BY <1>1, LeaveWithin DEF Fail
<1>2. CASE Proceed(r, to, counted)
  BY <1>2, ProceedWithin DEF counted
<1> QED
  BY <1>1, <1>2 DEF StartCall, counted

\* A request that moves on without a call stays within its budget, because no
\* stage allows fewer calls than the one before it.
LEMMA MoveWithin ==
  ASSUME TypeOK, BudgetInv, NEW r \in Requests, NEW to, NEW w,
         w.calls = work[r].calls, to \notin {"parse", "correct"},
         CallsAt(pc[r], question[r]) <= CallsAt(to, question[r]),
         Proceed(r, to, w), question' = question
  PROVE  BudgetInv'
<1>1. work[r].calls \in Nat
  BY DEF TypeOK, Work
<1>2. Within(to, question[r], w)
  BY <1>1, CallsAtTyped DEF BudgetInv, Within
<1> QED
  BY <1>2, ProceedWithin

\* Between retrieval and the first text no stage allows more calls than another.
LEMMA ReadingStages ==
  ASSUME NEW asked
  PROVE  \A stage \in {"retrieve", "sql", "relate", "document", "evidence"} :
           CallsAt(stage, asked) = IF asked \in Ruled THEN 0 ELSE 2
  BY DEF CallsAt

LEMMA AcceptWithin ==
  ASSUME TypeOK, BudgetInv, NEW r \in Requests, NEW q \in Questions, Accept(r, q)
  PROVE  BudgetInv'
<1>1. ASSUME NEW s \in Requests PROVE Within(pc'[s], question'[s], work'[s])
  <2>1. CASE s = r
    <3>1. pc[r] = "new" /\ work' = work /\ pc'[r] \in {"context", "done"}
      BY DEF TypeOK, Accept
    <3>2. work[r].calls <= 0
      BY <3>1 DEF BudgetInv, CallsAt
    <3> QED
      BY <2>1, <3>1, <3>2 DEF Within, CallsAt
  <2>2. CASE s # r
    BY <2>2 DEF TypeOK, Accept, BudgetInv, Within
  <2> QED
    BY <2>1, <2>2
<1> QED
  BY <1>1 DEF BudgetInv, Within

LEMMA LoadContextWithin ==
  ASSUME TypeOK, BudgetInv, NEW r \in Requests, LoadContext(r)
  PROVE  BudgetInv'
<1> DEFINE w == [NoWork EXCEPT !.version = active, !.manifest = disk]
<1>0. NoWork.calls = 0
  BY DEF NoWork
<1>1. w \in Work /\ w.calls = 0 /\ question' = question
  BY <1>0, NoWorkTyped DEF LoadContext, TypeOK, Work
<1> HIDE DEF w
<1>2. CASE Fail(r, "CONTEXT")
  BY <1>1, <1>2, LeaveWithin DEF Fail
<1>3. CASE \E v : Proceed(r, "retrieve", [w EXCEPT !.spec = v])
  <2>1. PICK v : Proceed(r, "retrieve", [w EXCEPT !.spec = v])
    BY <1>3
  <2>2. Within("retrieve", question[r], [w EXCEPT !.spec = v])
    BY <1>1, CallsAtTyped DEF Work, Within
  <2> QED
    BY <1>1, <2>1, <2>2, ProceedWithin
<1>4. CASE StartCall(r, "parse", w) /\ question[r] \notin Ruled
  <2>1. Within("parse", question[r], [w EXCEPT !.calls = @ + 1])
    BY <1>1, <1>4 DEF Work, Within, CallsAt
  <2> QED
    BY <1>1, <1>4, <2>1, StartCallWithin
<1> QED
  BY <1>2, <1>3, <1>4 DEF LoadContext, ReadQuestion, w

LEMMA ParseReplyWithin ==
  ASSUME TypeOK, BudgetInv, NEW r \in Requests, ParseReply(r)
  PROVE  BudgetInv'
<1>1. work[r] \in Work /\ question[r] \notin Ruled /\ question' = question
  BY DEF TypeOK, BudgetInv, ParseReply
<1>2. CASE \E v : Proceed(r, "retrieve", [work[r] EXCEPT !.spec = v])
  <2>1. PICK v : Proceed(r, "retrieve", [work[r] EXCEPT !.spec = v])
    BY <1>2
  <2> DEFINE w == [work[r] EXCEPT !.spec = v]
  <2>2. w.calls = work[r].calls
    BY <1>1 DEF Work
  <2>3. CallsAt(pc[r], question[r]) <= CallsAt("retrieve", question[r])
    BY <1>1 DEF ParseReply, CallsAt
  <2>4. Proceed(r, "retrieve", w)
    BY <2>1
  <2> HIDE DEF w
  <2> QED
    BY <1>1, <2>2, <2>3, <2>4, MoveWithin
<1>3. CASE pc[r] = "parse" /\ StartCall(r, "correct", work[r])
  <2>1. work[r].calls \in Nat /\ work[r].calls <= 1
    BY <1>1, <1>3 DEF Work, BudgetInv, CallsAt
  <2>2. Within("correct", question[r], [work[r] EXCEPT !.calls = @ + 1])
    BY <1>1, <2>1 DEF Work, Within, CallsAt
  <2> QED
    BY <1>1, <1>3, <2>2, StartCallWithin
<1>4. CASE Fail(r, "HCX")
  BY <1>1, <1>4, LeaveWithin DEF Fail
<1> QED
  BY <1>2, <1>3, <1>4 DEF ParseReply

\* The steps of retrieval start no call.
LEMMA RetrievalWithin ==
  ASSUME TypeOK, BudgetInv, NEW r \in Requests,
         Retrieve(r) \/ RunSql(r) \/ RunRelation(r) \/ RunDocument(r)
  PROVE  BudgetInv'
<1>1. /\ work[r] \in Work /\ question' = question
      /\ pc[r] \in {"retrieve", "sql", "relate", "document"}
  BY DEF TypeOK, Retrieve, RunSql, RunRelation, RunDocument
<1>2. ASSUME NEW to \in {"sql", "relate", "document", "evidence"}, NEW w,
             w.calls = work[r].calls, Proceed(r, to, w)
      PROVE  BudgetInv'
  BY <1>1, <1>2, ReadingStages, CallsAtTyped, MoveWithin
<1>3. ASSUME NEW code, Fail(r, code) PROVE BudgetInv'
  BY <1>1, <1>3, LeaveWithin DEF Fail
<1>4. ASSUME NEW run, Store(r, run) PROVE BudgetInv'
  <2>1. Take(work[r], run).calls = work[r].calls
    BY <1>1 DEF Work, Take
  <2> QED
    BY <1>2, <1>4, <2>1 DEF Store
<1>5. /\ \A v : Take(work[r], v).calls = work[r].calls
      /\ \A v : [work[r] EXCEPT !.found = v].calls = work[r].calls
  BY <1>1 DEF Work, Take
<1> QED
  BY <1>2, <1>3, <1>4, <1>5 DEF Retrieve, RunSql, RunRelation, RunDocument, Conclude

\* Nor does reading the evidence back.
LEMMA ReadBackWithin ==
  ASSUME TypeOK, BudgetInv, NEW r \in Requests, ReadRow(r) \/ ReadDocument(r)
  PROVE  BudgetInv'
<1>1. work[r] \in Work /\ question' = question /\ pc[r] = "evidence"
  BY DEF TypeOK, ReadRow, ReadDocument
<1>2. ASSUME NEW x, Proceed(r, "evidence", [work[r] EXCEPT !.checks = x]) PROVE BudgetInv'
  <2> DEFINE w == [work[r] EXCEPT !.checks = x]
  <2>1. w.calls = work[r].calls
    BY <1>1 DEF Work
  <2>2. Proceed(r, "evidence", w)
    BY <1>2
  <2> HIDE DEF w
  <2>3. CallsAt(pc[r], question[r]) <= CallsAt("evidence", question[r])
    BY <1>1, CallsAtTyped
  <2> QED
    BY <1>1, <2>1, <2>2, <2>3, MoveWithin
<1>3. CASE Fail(r, "EVIDENCE")
  BY <1>1, <1>3, LeaveWithin DEF Fail
<1> QED
  BY <1>2, <1>3, ReadBackProceeds

LEMMA FinalizeWithin ==
  ASSUME TypeOK, BudgetInv, NEW r \in Requests, Finalize(r)
  PROVE  BudgetInv'
<1> DEFINE w == [work[r] EXCEPT !.final = Finalized(work[r]), !.checks = NoChecks]
<1>1. work[r] \in Work /\ question' = question /\ pc[r] = "evidence"
  BY DEF TypeOK, Finalize
<1>2. StartCall(r, "generate", w)
  BY DEF Finalize
<1>3. [w EXCEPT !.calls = @ + 1].calls = work[r].calls + 1
  BY <1>1 DEF Work
<1> HIDE DEF w
<1>4. work[r].calls \in Nat /\ work[r].calls <= IF question[r] \in Ruled THEN 0 ELSE 2
  BY <1>1 DEF Work, BudgetInv, CallsAt
<1>5. Within("generate", question[r], [w EXCEPT !.calls = @ + 1])
  BY <1>3, <1>4 DEF Within, CallsAt
<1> QED
  BY <1>1, <1>2, <1>5, StartCallWithin

LEMMA AnswerReplyWithin ==
  ASSUME TypeOK, BudgetInv, NEW r \in Requests, NEW text, AnswerReply(r, text)
  PROVE  BudgetInv'
<1>1. work[r] \in Work /\ question' = question /\ pc[r] \in {"generate", "regenerate"}
  BY DEF TypeOK, AnswerReply
<1>2. ASSUME NEW t, Proceed(r, "audit", [work[r] EXCEPT !.text = t]) PROVE BudgetInv'
  <2> DEFINE w == [work[r] EXCEPT !.text = t]
  <2>1. w.calls = work[r].calls
    BY <1>1 DEF Work
  <2>2. CallsAt(pc[r], question[r]) <= CallsAt("audit", question[r])
    BY <1>1 DEF CallsAt
  <2>3. Proceed(r, "audit", w)
    BY <1>2
  <2> HIDE DEF w
  <2> QED
    BY <1>1, <2>1, <2>2, <2>3, MoveWithin
<1>3. CASE pc[r] = "generate" /\ StartCall(r, "regenerate", work[r])
  <2>1. /\ work[r].calls \in Nat
        /\ work[r].calls <= 1 + IF question[r] \in Ruled THEN 0 ELSE 2
    BY <1>1, <1>3 DEF Work, BudgetInv, CallsAt
  <2>2. Within("regenerate", question[r], [work[r] EXCEPT !.calls = @ + 1])
    BY <1>1, <2>1 DEF Work, Within, CallsAt
  <2> QED
    BY <1>1, <1>3, <2>2, StartCallWithin
<1> QED
  BY <1>2, <1>3 DEF AnswerReply

\* The stages after the last text start no call.
LEMMA RecordAuditWithin ==
  ASSUME TypeOK, BudgetInv, NEW r \in Requests, RecordAudit(r)
  PROVE  BudgetInv'
<1>1. pc[r] = "audit" /\ Proceed(r, "respond", work[r]) /\ question' = question
  BY DEF RecordAudit
<1>2. CallsAt("audit", question[r]) = CallsAt("respond", question[r])
  BY DEF CallsAt
<1>3. CallsAt(pc[r], question[r]) <= CallsAt("respond", question[r])
  BY <1>1, <1>2, CallsAtTyped
<1> QED
  BY <1>1, <1>3, MoveWithin

LEMMA ServeWithin ==
  ASSUME TypeOK, BudgetInv, NEW r \in Requests, Serve(r)
  PROVE  BudgetInv'
<1>1. CASE \E q \in Questions : Accept(r, q)
  BY <1>1, AcceptWithin
<1>2. CASE Continue(r)
  <2>1. CASE PoolTimeout(r) \/ Respond(r)
    BY <2>1, LeaveWithin DEF PoolTimeout, Respond, Fail
  <2> QED
    BY <1>2, <2>1, LoadContextWithin, RetrievalWithin, ReadBackWithin, FinalizeWithin,
       RecordAuditWithin DEF Continue
<1>3. CASE ParseReply(r)
  BY <1>3, ParseReplyWithin
<1>4. CASE \E text \in Text : AnswerReply(r, text)
  BY <1>4, AnswerReplyWithin
<1>5. CASE Expire(r)
  BY <1>5 DEF Expire, BudgetInv
<1>6. CASE Timeout(r) \/ DatabaseFails(r) \/ ProviderFails(r)
  BY <1>6, LeaveWithin DEF Timeout, DatabaseFails, ProviderFails, Fail
<1> QED
  BY <1>1, <1>2, <1>3, <1>4, <1>5, <1>6 DEF Serve

LEMMA OperateWithin ==
  ASSUME TypeOK, BudgetInv, Operate
  PROVE  BudgetInv'
<1>1. ASSUME UNCHANGED <<pc, question, work>> PROVE BudgetInv'
  BY <1>1 DEF BudgetInv
<1>2. ASSUME NEW m, Restart(m) PROVE BudgetInv'
  <2>1. ASSUME NEW s \in Requests PROVE Within(pc'[s], question'[s], work'[s])
    <3>1. pc'[s] \in {"new", "done", "lost"} /\ work'[s].calls = 0
      BY <1>2 DEF Restart, TypeOK, InFlight, Stages, Ended, NoWork
    <3> QED
      BY <3>1, CallsAtTyped DEF Within
  <2> QED
    BY <2>1 DEF BudgetInv, Within
<1> QED
  BY <1>1, <1>2 DEF Operate, Activate, BuildCurated, IngestExternal

\* No request starts more than four HCX calls, nor more than two when the rules
\* read its question, whatever HCX answers and however often the guard refuses.
THEOREM CallsStayWithinBudget == Spec => []ProviderCallBudget
<1>1. Init => BudgetInv
  BY CallsAtTyped DEF Init, BudgetInv, NoWork
<1>2. TypeOK /\ BudgetInv /\ [Next]_vars => BudgetInv'
  <2> SUFFICES ASSUME TypeOK, BudgetInv, [Next]_vars PROVE BudgetInv'
    OBVIOUS
  <2>1. CASE Next
    BY <2>1, ServeWithin, OperateWithin DEF Next
  <2>2. CASE UNCHANGED vars
    BY <2>2 DEF vars, BudgetInv
  <2> QED
    BY <2>1, <2>2
<1>3. TypeOK /\ BudgetInv => ProviderCallBudget
  <2> SUFFICES ASSUME TypeOK, BudgetInv, NEW r \in Requests
               PROVE  work[r].calls <= IF question[r] \in Ruled THEN 2 ELSE 4
    BY DEF ProviderCallBudget
  <2>1. work[r].calls \in Nat
    BY DEF TypeOK, Work
  <2> QED
    BY <2>1, CallsAtTyped DEF BudgetInv
<1> QED
  BY <1>1, <1>2, <1>3, TypeCorrect, PTL DEF Spec

-----------------------------------------------------------------------------
(* The audit log. *)

\* A step that adds no row, leaves requests that are done or lost as they are,
\* keeps the decision of one that is about to respond or loses it, and lets a
\* request answer only when it is done then, keeps the log right.
LEMMA AuditKept ==
  ASSUME TypeOK, AuditInv, UNCHANGED audit,
         \A s \in Requests :
           /\ pc[s] = "done" => pc'[s] = "done" /\ answer'[s] = answer[s]
           /\ pc[s] = "lost" => pc'[s] = "lost"
           /\ pc[s] = "respond" =>
                pc'[s] = "lost" \/ (pc'[s] = "respond" /\ work'[s] = work[s])
           /\ answer'[s] # answer[s] => pc'[s] = "done"
  PROVE  AuditInv'
<1>1. ASSUME NEW row \in audit PROVE row.by \in Requests
  BY DEF TypeOK
<1> QED
  BY <1>1 DEF AuditInv, Answered

\* The steps of a request that do not touch the log are steps of a request that
\* has no row yet.
LEMMA MoveAudited ==
  ASSUME TypeOK, AuditInv, NEW r \in Requests, pc[r] \notin {"respond", "done", "lost"},
         UNCHANGED audit,
         \/ \E to, w : Proceed(r, to, w)
         \/ \E code : Fail(r, code)
  PROVE  AuditInv'
<1>1. ASSUME NEW s \in Requests
      PROVE  /\ pc[s] \in {"respond", "done", "lost"} => pc'[s] = pc[s] /\ work'[s] = work[s]
             /\ answer'[s] = answer[s]
  BY DEF TypeOK, Proceed, Fail, Leave
<1> QED
  BY <1>1, AuditKept

LEMMA AcceptAudited ==
  ASSUME TypeOK, AuditInv, NEW r \in Requests, NEW q \in Questions, Accept(r, q)
  PROVE  AuditInv'
<1>1. ASSUME NEW s \in Requests
      PROVE  /\ pc[s] # "new" => pc'[s] = pc[s] /\ answer'[s] = answer[s]
             /\ answer'[s] # answer[s] => pc'[s] = "done"
             /\ work'[s] = work[s]
  BY DEF TypeOK, Accept
<1> QED
  BY <1>1, AuditKept DEF Accept

\* The row that a request writes is the only one of its query id, and says what
\* the answer will say.
LEMMA RecordAuditAudited ==
  ASSUME TypeOK, AuditInv, NEW r \in Requests, RecordAudit(r)
  PROVE  AuditInv'
<1> DEFINE new == [qid |-> work[r].run.qid, by |-> r, state |-> work[r].final.state]
<1>1. /\ pc[r] = "audit" /\ answer' = answer
      /\ audit' = audit \/ /\ \A row \in audit : row.qid # new.qid
                           /\ audit' = audit \cup {new}
  BY DEF RecordAudit, WriteAudit, Proceed
<1>2. new.by = r /\ new.state = work[r].final.state
  OBVIOUS
<1> HIDE DEF new
<1>3. /\ pc'[r] = "respond" /\ work'[r] = work[r]
      /\ \A s \in Requests \ {r} : pc'[s] = pc[s] /\ work'[s] = work[s]
  BY DEF TypeOK, RecordAudit, Proceed
<1>4. ASSUME NEW row \in audit PROVE row.by \in Requests /\ row.by # r
  BY <1>1 DEF TypeOK, AuditInv
<1>5. ASSUME NEW row \in audit'
      PROVE  \/ /\ pc'[row.by] = "done" /\ (Answered(row.by))'
                /\ answer'[row.by].final.state = row.state
             \/ pc'[row.by] = "respond" /\ work'[row.by].final.state = row.state
             \/ pc'[row.by] = "lost"
  <2>1. CASE row \in audit
    BY <1>1, <1>3, <1>4, <2>1 DEF AuditInv, Answered
  <2>2. CASE row = new
    BY <1>2, <1>3, <2>2
  <2> QED
    BY <1>1, <1>5, <2>1, <2>2
<1>6. ASSUME NEW row1 \in audit', NEW row2 \in audit', row1.qid = row2.qid
      PROVE  row1 = row2
  BY <1>1, <1>6 DEF AuditInv
<1>7. ASSUME NEW s \in Requests, (Answered(s))' PROVE pc'[s] = "done"
  BY <1>1, <1>3, <1>7 DEF AuditInv, Answered
<1> QED
  BY <1>5, <1>6, <1>7 DEF AuditInv

\* The answer given is the one that the row of the request, if there is one, says.
LEMMA RespondAudited ==
  ASSUME TypeOK, AuditInv, NEW r \in Requests, Respond(r)
  PROVE  AuditInv'
<1> DEFINE given == [version |-> work[r].version, spec |-> work[r].spec,
                     final |-> work[r].final, text |-> work[r].text]
<1>1. pc[r] = "respond" /\ answer' = [answer EXCEPT ![r] = given] /\ audit' = audit
  BY DEF Respond
<1>2. given # None
  <2>1. given \in Answer
    BY TypeOKSplit, AtHand DEF Respond, WithSpec, WithFinal, Answer, Work, QuerySpecs
  <2> QED
    BY <2>1, NoneAssumption
<1>3. given.final = work[r].final
  OBVIOUS
<1> HIDE DEF given
<1>4. ASSUME NEW s \in Requests
      PROVE  /\ s # r => pc'[s] = pc[s] /\ answer'[s] = answer[s] /\ work'[s] = work[s]
             /\ s = r => pc'[s] = "done" /\ answer'[s] = given
  BY <1>1 DEF TypeOK, Respond, Leave
<1>5. ASSUME NEW row \in audit
      PROVE  \/ /\ pc'[row.by] = "done" /\ (Answered(row.by))'
                /\ answer'[row.by].final.state = row.state
             \/ pc'[row.by] = "respond" /\ work'[row.by].final.state = row.state
             \/ pc'[row.by] = "lost"
  <2>1. row.by \in Requests
    BY DEF TypeOK
  <2>2. CASE row.by = r
    BY <1>1, <1>2, <1>3, <1>4, <2>1, <2>2 DEF AuditInv, Answered
  <2>3. CASE row.by # r
    BY <1>4, <2>1, <2>3 DEF AuditInv, Answered
  <2> QED
    BY <2>2, <2>3
<1>6. ASSUME NEW s \in Requests, (Answered(s))' PROVE pc'[s] = "done"
  BY <1>4, <1>6 DEF AuditInv, Answered
<1> QED
  BY <1>1, <1>5, <1>6 DEF AuditInv

LEMMA ServeAudited ==
  ASSUME TypeOK, AuditInv, NEW r \in Requests, Serve(r)
  PROVE  AuditInv'
<1>1. CASE \E q \in Questions : Accept(r, q)
  BY <1>1, AcceptAudited
<1>2. CASE Continue(r)
  <2>1. CASE LoadContext(r)
    BY <2>1, MoveAudited DEF LoadContext, ReadQuestion, StartCall
  <2>2. CASE PoolTimeout(r)
    BY <2>2, MoveAudited DEF PoolTimeout
  <2>3. CASE Retrieve(r) \/ RunSql(r) \/ RunRelation(r) \/ RunDocument(r)
    <3>1. /\ (\E to, w : Proceed(r, to, w)) \/ (\E code : Fail(r, code))
          /\ pc[r] \notin {"respond", "done", "lost"} /\ UNCHANGED audit
      BY <2>3 DEF Retrieve, RunSql, RunRelation, RunDocument, Conclude, Store
    <3> QED
      BY <3>1, MoveAudited
  <2>4. CASE ReadRow(r) \/ ReadDocument(r) \/ Finalize(r)
    <3>1. /\ (\E to, w : Proceed(r, to, w)) \/ (\E code : Fail(r, code))
          /\ pc[r] = "evidence" /\ UNCHANGED audit
      BY <2>4 DEF ReadRow, ReadDocument, Finalize, StartCall
    <3> QED
      BY <3>1, MoveAudited
  <2> QED
    BY <1>2, <2>1, <2>2, <2>3, <2>4, RecordAuditAudited, RespondAudited DEF Continue
<1>3. CASE ParseReply(r)
  BY <1>3, MoveAudited DEF ParseReply, StartCall
<1>4. CASE \E text \in Text : AnswerReply(r, text)
  BY <1>4, MoveAudited DEF AnswerReply, StartCall
<1>5. CASE Expire(r)
  BY <1>5, AuditKept DEF Expire
<1>6. CASE Timeout(r) \/ DatabaseFails(r) \/ ProviderFails(r)
  BY <1>6, MoveAudited DEF Timeout, DatabaseFails, ProviderFails, Awaiting
<1> QED
  BY <1>1, <1>2, <1>3, <1>4, <1>5, <1>6 DEF Serve

\* A restart loses the requests in flight, one that has its row included.
LEMMA OperateAudited ==
  ASSUME TypeOK, AuditInv, Operate
  PROVE  AuditInv'
<1>1. ASSUME UNCHANGED <<pc, work, answer, audit>> PROVE AuditInv'
  BY <1>1, AuditKept
<1>2. ASSUME NEW m, Restart(m) PROVE AuditInv'
  <2>1. ASSUME NEW s \in Requests
        PROVE  /\ pc[s] \in {"done", "lost"} => pc'[s] = pc[s]
               /\ pc[s] = "respond" => pc'[s] = "lost"
               /\ answer'[s] = answer[s]
    BY <1>2 DEF Restart, InFlight, Running, Awaiting
  <2>2. \A s \in Requests :
          /\ pc[s] = "done" => pc'[s] = "done" /\ answer'[s] = answer[s]
          /\ pc[s] = "lost" => pc'[s] = "lost"
          /\ pc[s] = "respond" =>
               pc'[s] = "lost" \/ (pc'[s] = "respond" /\ work'[s] = work[s])
          /\ answer'[s] # answer[s] => pc'[s] = "done"
    BY <2>1
  <2>3. UNCHANGED audit
    BY <1>2 DEF Restart
  <2> QED
    BY <2>2, <2>3, AuditKept
<1> QED
  BY <1>1, <1>2 DEF Operate, Activate, BuildCurated, IngestExternal

LEMMA AuditInvariant == Spec => []AuditInv
<1>1. Init => AuditInv
  BY DEF Init, AuditInv, Answered
<1>2. TypeOK /\ AuditInv /\ [Next]_vars => AuditInv'
  <2> SUFFICES ASSUME TypeOK, AuditInv, [Next]_vars PROVE AuditInv'
    OBVIOUS
  <2>1. CASE Next
    BY <2>1, ServeAudited, OperateAudited DEF Next
  <2>2. CASE UNCHANGED vars
    BY <2>2, AuditKept DEF vars
  <2> QED
    BY <2>1, <2>2
<1> QED
  BY <1>1, <1>2, TypeCorrect, PTL DEF Spec

\* What the audit log says was delivered to the request that wrote the row, or is
\* about to be, unless that request was lost with the process after its commit;
\* no query id is logged twice, though runs are shared through the cache.
THEOREM AuditIsTruthful == Spec => []AuditMatchesAnswers
<1>1. AuditInv => AuditMatchesAnswers
  BY DEF AuditInv, AuditMatchesAnswers
<1> QED
  BY <1>1, AuditInvariant, PTL

-----------------------------------------------------------------------------
(***************************************************************************)
(* AnswerService implements AnswerContract: every step of the service is a *)
(* step of the contract, or one that the contract does not see.            *)
(***************************************************************************)

\* What the refinement needs of a state.
RefinementInv == TypeOK /\ EvidenceInv /\ AuditInv

\* The contract's view of a request that is not done has no answer in it.
LEMMA BackingOfUndone ==
  ASSUME RefinementInv, NEW r \in Requests, pc[r] # "done"
  PROVE  BackingOf(r) =
           IF pc[r] \in WithFinal THEN Cited(work[r].final.rows, work[r].final.links)
           ELSE IF pc[r] = "evidence" THEN Cited(work[r].checks.rows, work[r].checks.links)
           ELSE {}
  BY DEF RefinementInv, AuditInv, BackingOf

\* A step that the contract does not see.
LEMMA Stutter ==
  ASSUME Held' = Held,
         \A s \in Requests : StageOf(s)' = StageOf(s) /\ BackingOf(s)' = BackingOf(s)
  PROVE  UNCHANGED Contract!vars
  BY DEF Contract!vars

\* A step that closes some requests without an answer that rests on facts.
LEMMA Closes ==
  ASSUME NEW R \in SUBSET Requests, Held' = Held,
         \A s \in R : StageOf(s) # "closed" /\ StageOf(s)' = "closed" /\ BackingOf(s)' = {},
         \A s \in Requests \ R : StageOf(s)' = StageOf(s) /\ BackingOf(s)' = BackingOf(s)
  PROVE  Contract!Next
<1>1. Contract!Abandon(R)
  BY DEF Contract!Abandon
<1> QED
  BY <1>1 DEF Contract!Next

\* The facts held depend on the database alone.
LEMMA HeldKept ==
  ASSUME UNCHANGED database
  PROVE  Held' = Held
  BY DEF database, Held, CuratedRows, Documents, Library

-----------------------------------------------------------------------------
\* A request that fails is closed.
LEMMA FailCloses ==
  ASSUME RefinementInv, NEW r \in Requests, pc[r] \notin Ended, NEW code, Fail(r, code),
         UNCHANGED database
  PROVE  Contract!Next
<1>1. pc'[r] = "done" /\ answer' = answer /\ ~Answered(r)
  BY DEF RefinementInv, TypeOK, AuditInv, Fail, Leave, Ended
<1>2. StageOf(r) # "closed" /\ StageOf(r)' = "closed" /\ BackingOf(r)' = {}
  BY <1>1 DEF StageOf, BackingOf, Answered, Ended, WithFinal
<1>3. ASSUME NEW s \in Requests \ {r}
      PROVE  StageOf(s)' = StageOf(s) /\ BackingOf(s)' = BackingOf(s)
  BY <1>1 DEF RefinementInv, TypeOK, Fail, Leave, StageOf, BackingOf, Answered
<1> QED
  BY <1>2, <1>3, HeldKept, Closes

\* A request that moves on before or after its read-back is not seen.
LEMMA ProceedStutters ==
  ASSUME RefinementInv, NEW r \in Requests, NEW to, NEW w, Proceed(r, to, w),
         UNCHANGED database, pc[r] \notin Ended \cup {"new", "evidence"},
         to \notin Ended \cup {"new"},
         to = "evidence" => w.checks = NoChecks,
         pc[r] \in WithFinal <=> to \in WithFinal,
         pc[r] \in WithFinal => w.final = work[r].final
  PROVE  UNCHANGED Contract!vars
<1>1. Cited(NoChecks.rows, NoChecks.links) = {}
  BY DEF Cited, NoChecks
<1>2. ASSUME NEW s \in Requests
      PROVE  StageOf(s)' = StageOf(s) /\ BackingOf(s)' = BackingOf(s)
  <2>1. CASE s = r
    <3>1. pc'[s] = to /\ work'[s] = w /\ answer' = answer
      BY <2>1 DEF RefinementInv, TypeOK, Proceed
    <3>2. StageOf(s)' = StageOf(s)
      BY <2>1, <3>1 DEF StageOf
    <3>3. BackingOf(s)' = BackingOf(s)
      BY <1>1, <2>1, <3>1 DEF BackingOf, Answered
    <3> QED
      BY <3>2, <3>3
  <2>2. CASE s # r
    BY <2>2 DEF RefinementInv, TypeOK, Proceed, StageOf, BackingOf, Answered
  <2> QED
    BY <2>1, <2>2
<1> QED
  BY <1>2, HeldKept, Stutter

\* A call is started without a new decision.
LEMMA StartCallRefines ==
  ASSUME RefinementInv, NEW r \in Requests, NEW to, NEW w \in Work, StartCall(r, to, w),
         UNCHANGED database, pc[r] \notin Ended \cup {"new", "evidence"},
         to \notin Ended \cup {"new", "evidence"},
         pc[r] \in WithFinal <=> to \in WithFinal,
         pc[r] \in WithFinal => w.final = work[r].final
  PROVE  [Contract!Next]_(Contract!vars)
<1> DEFINE counted == [w EXCEPT !.calls = @ + 1]
<1>1. counted.final = w.final
  BY DEF Work
<1> HIDE DEF counted
<1>2. CASE Fail(r, "HCX")
  BY <1>2, FailCloses
<1>3. CASE Proceed(r, to, counted)
  BY <1>1, <1>3, ProceedStutters
<1> QED
  BY <1>2, <1>3 DEF StartCall, counted

-----------------------------------------------------------------------------
\* A step of the read-back: a fact is confirmed, or the contract sees nothing.
LEMMA CheckRefines ==
  ASSUME RefinementInv, NEW r \in Requests, pc[r] = "evidence", UNCHANGED database,
         NEW w, Proceed(r, "evidence", w),
         LET before == Cited(work[r].checks.rows, work[r].checks.links)
             after == Cited(w.checks.rows, w.checks.links)
         IN after = before \/ \E fact \in Held : after = before \cup {fact}
  PROVE  [Contract!Next]_(Contract!vars)
<1> DEFINE before == Cited(work[r].checks.rows, work[r].checks.links)
           after == Cited(w.checks.rows, w.checks.links)
<1>1. pc'[r] = "evidence" /\ work'[r] = w /\ answer' = answer /\ ~Answered(r)
  BY DEF RefinementInv, TypeOK, AuditInv, Proceed
<1>2. /\ StageOf(r) = "open" /\ StageOf(r)' = "open"
      /\ BackingOf(r) = before /\ BackingOf(r)' = after
  BY <1>1 DEF StageOf, BackingOf, Answered, Ended, WithFinal
<1>3. ASSUME NEW s \in Requests \ {r}
      PROVE  StageOf(s)' = StageOf(s) /\ BackingOf(s)' = BackingOf(s)
  BY DEF RefinementInv, TypeOK, Proceed, StageOf, BackingOf, Answered
<1>4. after = before \/ \E fact \in Held : after = before \cup {fact}
  OBVIOUS
<1> HIDE DEF before, after
<1>5. CASE after = before
  BY <1>2, <1>3, <1>5, HeldKept, Stutter
<1>6. CASE \E fact \in Held : after = before \cup {fact}
  <2>1. Contract!Confirm(r)
    BY <1>2, <1>3, <1>6, HeldKept DEF Contract!Confirm
  <2> QED
    BY <2>1 DEF Contract!Next
<1> QED
  BY <1>4, <1>5, <1>6

\* A row that is read back is a row that is held.
LEMMA ReadRowRefines ==
  ASSUME RefinementInv, NEW r \in Requests, ReadRow(r)
  PROVE  [Contract!Next]_(Contract!vars)
<1> DEFINE w == work[r]
<1>1. pc[r] = "evidence" /\ UNCHANGED database
  BY DEF ReadRow, database
<1>2. RunSound(w.run, w.spec, w.version) /\ w \in Work /\ w.run \in Run
  BY <1>1 DEF RefinementInv, EvidenceInv, RequestsSound, Standing, WithRun, TypeOK, AtStage
<1>3. w.checks \in Checks
  BY <1>2 DEF Work
<1>4. PICK row \in Unread(w) :
        \/ /\ \E stored \in CuratedRows(w.version) : stored.uid = row.uid
           /\ Proceed(r, "evidence", [w EXCEPT !.checks.rows = @ \cup {row}])
        \/ Proceed(r, "evidence", [w EXCEPT !.checks.dropped = @ \cup {row}])
  BY DEF ReadRow
<1>5. CASE /\ \E stored \in CuratedRows(w.version) : stored.uid = row.uid
           /\ Proceed(r, "evidence", [w EXCEPT !.checks.rows = @ \cup {row}])
  <2> DEFINE after == [w EXCEPT !.checks.rows = @ \cup {row}]
  <2>1. row \in Row /\ row.version = w.version
    BY <1>2 DEF Unread, Run, Decision, RunSound, RowsMatch
  <2>2. PICK stored \in CuratedRows(w.version) : stored.uid = row.uid
    BY <1>5
  <2>3. row = stored /\ w.version \in Versions
    BY <2>1, <2>2 DEF CuratedRows, Row
  <2>4. row \in Held
    BY <2>2, <2>3 DEF Held
  <2>5. after.checks.rows = w.checks.rows \cup {row} /\ after.checks.links = w.checks.links
    BY <1>2, <1>3 DEF Work, Checks
  <2>6. Proceed(r, "evidence", after)
    BY <1>5
  <2> HIDE DEF after
  <2>7. Cited(after.checks.rows, after.checks.links)
          = Cited(w.checks.rows, w.checks.links) \cup {row}
    BY <2>5 DEF Cited
  <2> HIDE DEF w
  <2> QED
    BY <1>1, <2>4, <2>6, <2>7, CheckRefines DEF w
<1>6. CASE Proceed(r, "evidence", [w EXCEPT !.checks.dropped = @ \cup {row}])
  <2> DEFINE after == [w EXCEPT !.checks.dropped = @ \cup {row}]
  <2>1. after.checks.rows = w.checks.rows /\ after.checks.links = w.checks.links
    BY <1>2, <1>3 DEF Work, Checks
  <2>2. Proceed(r, "evidence", after)
    BY <1>6
  <2> HIDE DEF after
  <2> QED
    BY <1>1, <2>1, <2>2, CheckRefines
<1> QED
  BY <1>4, <1>5, <1>6

\* So is the document of a link.
LEMMA ReadDocumentRefines ==
  ASSUME RefinementInv, NEW r \in Requests, ReadDocument(r)
  PROVE  [Contract!Next]_(Contract!vars)
<1> DEFINE w == work[r]
           of(l) == {row \in Kept(w) : row.uid = l.product}
<1>1. pc[r] = "evidence" /\ UNCHANGED database
  BY DEF ReadDocument, database
<1>2. w \in Work /\ w.checks \in Checks
  BY <1>1, ChecksAtHand DEF RefinementInv, TypeOK
<1>3. PICK l \in Due(w) :
        \/ /\ l.doc \in Documents
           /\ Proceed(r, "evidence", [w EXCEPT !.checks.links = @ \cup {l}])
        \/ Proceed(r, "evidence", [w EXCEPT !.checks.dropped = @ \cup of(l)])
        \/ Fail(r, "EVIDENCE")
  BY DEF ReadDocument
<1>4. CASE /\ l.doc \in Documents
           /\ Proceed(r, "evidence", [w EXCEPT !.checks.links = @ \cup {l}])
  <2> DEFINE after == [w EXCEPT !.checks.links = @ \cup {l}]
  <2>1. l.doc \in Held
    BY <1>4 DEF Held
  <2>2. after.checks.rows = w.checks.rows /\ after.checks.links = w.checks.links \cup {l}
    BY <1>2 DEF Work, Checks
  <2>3. Proceed(r, "evidence", after)
    BY <1>4
  <2> HIDE DEF after
  <2>4. Cited(after.checks.rows, after.checks.links)
          = Cited(w.checks.rows, w.checks.links) \cup {l.doc}
    BY <2>2 DEF Cited
  <2> HIDE DEF w
  <2> QED
    BY <1>1, <2>1, <2>3, <2>4, CheckRefines DEF w
<1>5. CASE Proceed(r, "evidence", [w EXCEPT !.checks.dropped = @ \cup of(l)])
  <2> DEFINE after == [w EXCEPT !.checks.dropped = @ \cup of(l)]
  <2>1. after.checks.rows = w.checks.rows /\ after.checks.links = w.checks.links
    BY <1>2 DEF Work, Checks
  <2>2. Proceed(r, "evidence", after)
    BY <1>5
  <2> HIDE DEF after
  <2> QED
    BY <1>1, <2>1, <2>2, CheckRefines
<1>6. CASE Fail(r, "EVIDENCE")
  BY <1>1, <1>6, FailCloses DEF Ended
<1> QED
  BY <1>3, <1>4, <1>5, <1>6

\* When nothing is left to read, whatever the decision rests on was confirmed.
LEMMA FinalizedIsConfirmed ==
  ASSUME NEW w, w.run.preliminary \in Decision,
         w.run.preliminary.selected # {} => w.run.preliminary.state = "PRE_ANSWER",
         Due(w) = {}
  PROVE  LET f == Finalized(w)
         IN  Cited(f.rows, f.links) \subseteq Cited(w.checks.rows, w.checks.links)
<1> DEFINE d == FinalizeDecision(w.run.preliminary, Kept(w))
           links == LinksOf(d.selected, w.run.links)
<1>1. CASE w.run.preliminary.selected # {}
  <2>1. d.selected = w.run.preliminary.selected \cap Kept(w)
    BY <1>1, FinalizeDecisionTyped
  <2> HIDE DEF d
  <2>2. d.selected \subseteq w.checks.rows
    BY <2>1 DEF Kept
  <2>3. LinksOf(Kept(w), w.run.links) \subseteq w.checks.links
    BY <1>1 DEF Due, StandaloneRelation
  <2>4. links \subseteq w.checks.links
    BY <2>1, <2>3 DEF LinksOf, UidsOf
  <2>5. Finalized(w) = [state |-> d.state, rows |-> d.selected, links |-> links]
    BY <1>1 DEF Finalized, d
  <2> HIDE DEF links
  <2>6. Finalized(w).rows = d.selected /\ Finalized(w).links = links
    BY <2>5
  <2> QED
    BY <2>2, <2>4, <2>6 DEF Cited
<1>2. CASE w.run.preliminary.selected = {} /\ StandaloneRelation(w)
  <2>1. Finalized(w).rows = {} /\ Finalized(w).links = w.run.links
    BY <1>2 DEF Finalized
  <2>2. w.run.links \subseteq w.checks.links
    BY <1>2 DEF Due
  <2> QED
    BY <2>1, <2>2 DEF Cited
<1>3. CASE w.run.preliminary.selected = {} /\ ~StandaloneRelation(w)
  <2>1. Finalized(w).rows = {} /\ Finalized(w).links = {}
    BY <1>3 DEF Finalized
  <2> QED
    BY <2>1 DEF Cited
<1> QED
  BY <1>1, <1>2, <1>3

LEMMA FinalizeRefines ==
  ASSUME RefinementInv, NEW r \in Requests, Finalize(r)
  PROVE  [Contract!Next]_(Contract!vars)
<1> DEFINE final == Finalized(work[r])
           w == [work[r] EXCEPT !.final = final, !.checks = NoChecks]
           counted == [w EXCEPT !.calls = @ + 1]
<1>1. /\ pc[r] = "evidence" /\ UNCHANGED database /\ Due(work[r]) = {}
      /\ StartCall(r, "generate", w)
  BY DEF Finalize, database
<1>2. /\ work[r] \in Work /\ work[r].run.preliminary \in Decision
      /\ RunSound(work[r].run, work[r].spec, work[r].version)
  BY <1>1 DEF RefinementInv, EvidenceInv, RequestsSound, Standing, WithRun, TypeOK, AtStage, Run
<1>3. Cited(final.rows, final.links)
        \subseteq Cited(work[r].checks.rows, work[r].checks.links)
  BY <1>1, <1>2, FinalizedIsConfirmed DEF RunSound
<1> HIDE DEF final
<1>4. counted.final = final
  BY <1>2 DEF Work
<1>5. CASE Fail(r, "HCX")
  BY <1>1, <1>5, FailCloses DEF Ended
<1>6. CASE Proceed(r, "generate", counted)
  <2> HIDE DEF counted
  <2>1. pc'[r] = "generate" /\ work'[r] = counted /\ answer' = answer /\ ~Answered(r)
    BY <1>1, <1>6 DEF RefinementInv, TypeOK, AuditInv, Proceed
  <2>2. /\ StageOf(r) = "open" /\ StageOf(r)' = "decided"
        /\ BackingOf(r) = Cited(work[r].checks.rows, work[r].checks.links)
        /\ BackingOf(r)' = Cited(final.rows, final.links)
    BY <1>1, <1>4, <2>1 DEF StageOf, BackingOf, Answered, Ended, WithFinal
  <2>3. ASSUME NEW s \in Requests \ {r}
        PROVE  StageOf(s)' = StageOf(s) /\ BackingOf(s)' = BackingOf(s)
    BY <1>6 DEF RefinementInv, TypeOK, Proceed, StageOf, BackingOf, Answered
  <2>4. Contract!Decide(r)
    BY <1>1, <1>3, <2>2, <2>3, HeldKept DEF Contract!Decide
  <2> QED
    BY <2>4 DEF Contract!Next
<1> QED
  BY <1>1, <1>5, <1>6 DEF StartCall

-----------------------------------------------------------------------------
LEMMA AcceptRefines ==
  ASSUME RefinementInv, NEW r \in Requests, NEW q \in Questions, Accept(r, q)
  PROVE  [Contract!Next]_(Contract!vars)
<1>1. /\ pc[r] = "new" /\ UNCHANGED <<database, work>>
      /\ \A s \in Requests \ {r} : pc'[s] = pc[s] /\ answer'[s] = answer[s]
  BY DEF RefinementInv, TypeOK, Accept
<1>2. ASSUME NEW s \in Requests \ {r}
      PROVE  StageOf(s)' = StageOf(s) /\ BackingOf(s)' = BackingOf(s)
  BY <1>1 DEF StageOf, BackingOf, Answered
<1>3. StageOf(r) = "idle" /\ BackingOf(r) = {}
  BY <1>1, BackingOfUndone DEF StageOf, Ended, WithFinal
<1>4. CASE q \in Blank
  <2>1. pc'[r] = "done"
        /\ answer'[r].final = [state |-> "ASK", rows |-> {}, links |-> {}]
    BY <1>4 DEF RefinementInv, TypeOK, Accept
  <2>2. StageOf(r)' = "closed" /\ BackingOf(r)' = {}
    BY <2>1 DEF StageOf, BackingOf, Cited, Ended, WithFinal
  <2> QED
    BY <1>1, <1>2, <1>3, <2>2, HeldKept, Closes
<1>5. CASE q \notin Blank
  <2>1. pc'[r] = "context" /\ answer' = answer /\ ~Answered(r)
    BY <1>1, <1>5 DEF RefinementInv, TypeOK, AuditInv, Accept
  <2>2. StageOf(r)' = "open" /\ BackingOf(r)' = {}
    BY <2>1 DEF StageOf, BackingOf, Answered, Ended, WithFinal
  <2>3. Contract!Ask(r)
    BY <1>1, <1>2, <1>3, <2>2, HeldKept DEF Contract!Ask
  <2> QED
    BY <2>3 DEF Contract!Next
<1> QED
  BY <1>4, <1>5

\* The answer delivered rests on the facts of the decision.
LEMMA RespondRefines ==
  ASSUME RefinementInv, NEW r \in Requests, Respond(r)
  PROVE  [Contract!Next]_(Contract!vars)
<1> DEFINE given == [version |-> work[r].version, spec |-> work[r].spec,
                     final |-> work[r].final, text |-> work[r].text]
<1>1. /\ pc[r] = "respond" /\ UNCHANGED database
      /\ answer' = [answer EXCEPT ![r] = given] /\ pc' = [pc EXCEPT ![r] = "done"]
      /\ work' = [work EXCEPT ![r] = NoWork]
  BY DEF Respond, Leave, database
<1>2. given # None
  <2>1. given \in Answer
    BY <1>1 DEF RefinementInv, TypeOK, AtStage, WithSpec, WithFinal, Answer, Work, QuerySpecs
  <2> QED
    BY <2>1, NoneAssumption
<1>3. given.final = work[r].final
  OBVIOUS
<1> HIDE DEF given
<1>4. /\ pc'[r] = "done" /\ answer'[r] = given
      /\ \A s \in Requests \ {r} :
           pc'[s] = pc[s] /\ answer'[s] = answer[s] /\ work'[s] = work[s]
  BY <1>1 DEF RefinementInv, TypeOK
<1>5. StageOf(r) = "decided" /\ BackingOf(r) = Cited(work[r].final.rows, work[r].final.links)
  BY <1>1, BackingOfUndone DEF StageOf, Ended, WithFinal
<1>6. StageOf(r)' = "closed" /\ BackingOf(r)' = Cited(work[r].final.rows, work[r].final.links)
  BY <1>2, <1>3, <1>4 DEF StageOf, BackingOf, Answered, Ended
<1>7. ASSUME NEW s \in Requests \ {r}
      PROVE  StageOf(s)' = StageOf(s) /\ BackingOf(s)' = BackingOf(s)
  BY <1>4 DEF StageOf, BackingOf, Answered
<1>8. Contract!Deliver(r)
  BY <1>1, <1>5, <1>6, <1>7, HeldKept DEF Contract!Deliver
<1> QED
  BY <1>8 DEF Contract!Next

\* Everything a request does between taking up the question and the decision,
\* and from the decision to its text, is hidden from the contract.
LEMMA LoadContextRefines ==
  ASSUME RefinementInv, NEW r \in Requests, LoadContext(r)
  PROVE  [Contract!Next]_(Contract!vars)
<1> DEFINE w == [NoWork EXCEPT !.version = active, !.manifest = disk]
<1>1. /\ pc[r] = "context" /\ UNCHANGED database /\ w \in Work
      /\ {"retrieve", "parse", "context"} \cap (Ended \cup WithFinal) = {}
  BY NoWorkTyped DEF LoadContext, database, RefinementInv, TypeOK, Work, Ended, WithFinal
<1> HIDE DEF w
<1>2. CASE Fail(r, "CONTEXT")
  BY <1>1, <1>2, FailCloses
<1>3. CASE \E v : Proceed(r, "retrieve", [w EXCEPT !.spec = v])
  BY <1>1, <1>3, ProceedStutters
<1>4. CASE StartCall(r, "parse", w)
  BY <1>1, <1>4, StartCallRefines
<1> QED
  BY <1>2, <1>3, <1>4 DEF LoadContext, ReadQuestion, w

LEMMA ParseReplyRefines ==
  ASSUME RefinementInv, NEW r \in Requests, ParseReply(r)
  PROVE  [Contract!Next]_(Contract!vars)
<1>1. /\ pc[r] \in {"parse", "correct"} /\ UNCHANGED database /\ work[r] \in Work
      /\ {"retrieve", "parse", "correct"} \cap (Ended \cup WithFinal) = {}
  BY DEF ParseReply, database, RefinementInv, TypeOK, Ended, WithFinal
<1>2. CASE \E v : Proceed(r, "retrieve", [work[r] EXCEPT !.spec = v])
  BY <1>1, <1>2, ProceedStutters
<1>3. CASE StartCall(r, "correct", work[r])
  BY <1>1, <1>3, StartCallRefines
<1>4. CASE Fail(r, "HCX")
  BY <1>1, <1>4, FailCloses
<1> QED
  BY <1>2, <1>3, <1>4 DEF ParseReply

LEMMA RetrievalRefines ==
  ASSUME RefinementInv, NEW r \in Requests,
         Retrieve(r) \/ RunSql(r) \/ RunRelation(r) \/ RunDocument(r)
  PROVE  [Contract!Next]_(Contract!vars)
<1>1. /\ pc[r] \in {"retrieve", "sql", "relate", "document"} /\ UNCHANGED database
      /\ {"retrieve", "sql", "relate", "document", "evidence"}
           \cap (Ended \cup WithFinal) = {}
  BY DEF Retrieve, RunSql, RunRelation, RunDocument, database, Ended, WithFinal
<1>2. \/ \E to \in {"sql", "relate", "document"} : \E w : Proceed(r, to, w)
      \/ \E run : Proceed(r, "evidence", Take(work[r], run))
      \/ \E code : Fail(r, code)
  BY DEF Retrieve, RunSql, RunRelation, RunDocument, Conclude, Store
<1>3. ASSUME NEW to \in {"sql", "relate", "document"}, NEW w, Proceed(r, to, w)
      PROVE  UNCHANGED Contract!vars
  BY <1>1, <1>3, ProceedStutters
<1>4. ASSUME NEW run, Proceed(r, "evidence", Take(work[r], run))
      PROVE  UNCHANGED Contract!vars
  <2> DEFINE w == Take(work[r], run)
  <2>1. w.checks = NoChecks /\ Proceed(r, "evidence", w)
    BY <1>4, TakeTyped DEF RefinementInv, TypeOK
  <2> HIDE DEF w
  <2> QED
    BY <1>1, <2>1, ProceedStutters
<1> QED
  BY <1>1, <1>2, <1>3, <1>4, FailCloses

LEMMA AnswerReplyRefines ==
  ASSUME RefinementInv, NEW r \in Requests, NEW text, AnswerReply(r, text)
  PROVE  [Contract!Next]_(Contract!vars)
<1>1. /\ pc[r] \in {"generate", "regenerate"} /\ UNCHANGED database /\ work[r] \in Work
      /\ {"generate", "regenerate", "audit"} \subseteq WithFinal
      /\ {"generate", "regenerate", "audit"} \cap Ended = {}
  BY DEF AnswerReply, database, RefinementInv, TypeOK, Ended, WithFinal
<1>2. ASSUME NEW t, Proceed(r, "audit", [work[r] EXCEPT !.text = t])
      PROVE  UNCHANGED Contract!vars
  <2> DEFINE w == [work[r] EXCEPT !.text = t]
  <2>1. w.final = work[r].final
    BY <1>1 DEF Work
  <2>2. Proceed(r, "audit", w)
    BY <1>2
  <2>3. /\ pc[r] \notin Ended \cup {"new", "evidence"}
        /\ "audit" \notin Ended \cup {"new"} /\ "audit" # "evidence"
        /\ pc[r] \in WithFinal /\ "audit" \in WithFinal
    BY <1>1
  <2> HIDE DEF w
  <2> QED
    BY <1>1, <2>1, <2>2, <2>3, ProceedStutters
<1>3. CASE StartCall(r, "regenerate", work[r])
  BY <1>1, <1>3, StartCallRefines
<1> QED
  BY <1>2, <1>3 DEF AnswerReply

\* The audit row is none of the contract's business.
LEMMA RecordAuditRefines ==
  ASSUME RefinementInv, NEW r \in Requests, RecordAudit(r)
  PROVE  UNCHANGED Contract!vars
<1>1. pc[r] = "audit" /\ Proceed(r, "respond", work[r]) /\ UNCHANGED database
  BY DEF RecordAudit, database
<1> QED
  BY <1>1, ProceedStutters DEF Ended, WithFinal

LEMMA ServeRefines ==
  ASSUME RefinementInv, NEW r \in Requests, Serve(r)
  PROVE  [Contract!Next]_(Contract!vars)
<1>1. CASE \E q \in Questions : Accept(r, q)
  BY <1>1, AcceptRefines
<1>2. CASE Continue(r)
  <2>1. CASE PoolTimeout(r)
    BY <2>1, FailCloses DEF PoolTimeout, Ended
  <2> QED
    BY <1>2, <2>1, LoadContextRefines, RetrievalRefines, ReadRowRefines,
       ReadDocumentRefines, FinalizeRefines, RecordAuditRefines, RespondRefines DEF Continue
<1>3. CASE ParseReply(r)
  BY <1>3, ParseReplyRefines
<1>4. CASE \E text \in Text : AnswerReply(r, text)
  BY <1>4, AnswerReplyRefines
<1>5. CASE Expire(r)
  <2>1. ASSUME NEW s \in Requests
        PROVE  StageOf(s)' = StageOf(s) /\ BackingOf(s)' = BackingOf(s)
    BY <1>5 DEF Expire, StageOf, BackingOf, Answered
  <2> QED
    BY <1>5, <2>1, HeldKept, Stutter DEF Expire
<1>6. CASE Timeout(r) \/ DatabaseFails(r) \/ ProviderFails(r)
  BY <1>6, FailCloses DEF Timeout, DatabaseFails, ProviderFails, Awaiting, Ended
<1> QED
  BY <1>1, <1>2, <1>3, <1>4, <1>5, <1>6 DEF Serve

\* The jobs change what is held, and what is held are always facts; a restart
\* closes whatever was in flight.
LEMMA OperateRefines ==
  ASSUME RefinementInv, Operate
  PROVE  [Contract!Next]_(Contract!vars)
<1>1. ASSUME UNCHANGED <<pc, work, answer>> PROVE Contract!Next
  <2>1. \A s \in Requests : StageOf(s)' = StageOf(s) /\ BackingOf(s)' = BackingOf(s)
    BY <1>1 DEF StageOf, BackingOf, Answered
  <2>2. Held' \subseteq Row \cup Docs
    <3>1. ASSUME NEW v \in Versions, NEW row \in CuratedRows(v)' PROVE row \in Row
      <4>1. Curated[v] \in SUBSET Uids
        BY DataAssumption
      <4> QED
        BY <4>1 DEF CuratedRows, Row
    <3>2. Library' \subseteq Link
      <4>1. library' \in Manifests \cup {NoManifest}
        BY OperateTyped DEF RefinementInv, TypeOK
      <4> QED
        BY <4>1, DataAssumption DEF Library
    <3>3. Documents' \subseteq Docs
      BY <3>2 DEF Documents, Link
    <3> QED
      BY <3>1, <3>3 DEF Held
  <2>3. Contract!Change
    BY <2>1, <2>2 DEF Contract!Change
  <2> QED
    BY <2>3 DEF Contract!Next
<1>2. ASSUME NEW m, Restart(m) PROVE Contract!Next
  <2>1. \A s \in InFlight : pc[s] # "done" /\ pc'[s] = "lost" /\ ~Answered(s)
    BY <1>2 DEF Restart, RefinementInv, AuditInv, InFlight, Running, Awaiting
  <2>2. \A s \in InFlight : /\ StageOf(s) # "closed" /\ StageOf(s)' = "closed"
                            /\ BackingOf(s)' = {}
    BY <1>2, <2>1
       DEF Restart, InFlight, StageOf, BackingOf, Answered, Running, Awaiting, Ended, WithFinal
  <2>3. ASSUME NEW s \in Requests \ InFlight
        PROVE  StageOf(s)' = StageOf(s) /\ BackingOf(s)' = BackingOf(s)
    <3>1. pc'[s] = pc[s] /\ pc[s] \notin WithFinal \cup {"evidence"}
      BY <1>2 DEF Restart, InFlight, Running, Awaiting, WithFinal
    <3> QED
      BY <1>2, <3>1 DEF Restart, StageOf, BackingOf, Answered
  <2>4. InFlight \in SUBSET Requests /\ UNCHANGED database
    BY <1>2 DEF InFlight, Restart
  <2> QED
    BY <2>2, <2>3, <2>4, HeldKept, Closes
<1> QED
  BY <1>1, <1>2 DEF Operate, Activate, BuildCurated, IngestExternal

\* Whatever is committed between the statements that read the evidence back, and
\* however old the run that named it, an answer rests on curated rows and official
\* documents each of which was found in the database after the question came in,
\* and no request that is answered, failed or lost changes again.  (Each at a moment
\* of its own; that the relations themselves are still on record is not promised.)
THEOREM ServiceImplementsContract == Spec => ImplementsContract
<1>1. Init => Contract!Init
  <2> SUFFICES ASSUME Init PROVE Contract!Init
    OBVIOUS
  <2>1. Held = {}
    BY DEF Init, Held, CuratedRows, Documents, Library
  <2>2. ASSUME NEW r \in Requests PROVE StageOf(r) = "idle" /\ BackingOf(r) = {}
    BY DEF Init, StageOf, BackingOf, Answered, Ended, WithFinal
  <2> QED
    BY <2>1, <2>2 DEF Contract!Init
<1>2. RefinementInv /\ [Next]_vars => [Contract!Next]_(Contract!vars)
  <2> SUFFICES ASSUME RefinementInv, [Next]_vars
               PROVE  [Contract!Next]_(Contract!vars)
    OBVIOUS
  <2>1. CASE Next
    BY <2>1, ServeRefines, OperateRefines DEF Next
  <2>2. CASE UNCHANGED vars
    <3>1. ASSUME NEW s \in Requests
          PROVE  StageOf(s)' = StageOf(s) /\ BackingOf(s)' = BackingOf(s)
      BY <2>2 DEF vars, StageOf, BackingOf, Answered
    <3> QED
      BY <2>2, <3>1, HeldKept, Stutter DEF vars, database
  <2> QED
    BY <2>1, <2>2
<1>3. Spec => []RefinementInv
  BY EvidenceInvariant, AuditInvariant, PTL DEF RefinementInv
<1> QED
  BY <1>1, <1>2, <1>3, PTL DEF Spec, ImplementsContract, Contract!Spec
=============================================================================
