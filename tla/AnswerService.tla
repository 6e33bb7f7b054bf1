--------------------------- MODULE AnswerService ---------------------------
(***************************************************************************)
(* GET /answer as one asyncio process serves it: the request handler, the  *)
(* orchestrator with its two caches, evidence validation, the HCX calls    *)
(* with the output guard, and the audit log; around it the command line    *)
(* jobs that change the database and the deployment that restarts the app. *)
(*                                                                         *)
(* The event loop is one thread.  A request gives it up only while it      *)
(* waits for HCX; database access is synchronous and holds it.  A request  *)
(* whose pc is in Running has the loop, one whose pc is in Awaiting waits  *)
(* for HCX, and the steps of a Running request are cut where the database  *)
(* is read, since the command line jobs commit between any two reads.      *)
(***************************************************************************)
EXTENDS AnswerPolicy

CONSTANTS
  Requests,    \* one GET /answer each
  Questions,   \* whitespace-normalised questions
  Blank,       \* questions the handler rejects: empty or too long
  Ruled,       \* questions the Korean rule parser reads without HCX
  Parse,       \* Parse[q]: the QuerySpecs that reading q may give
  Curated,     \* Curated[v]: the products build_curated derives for v
  LowQuality,  \* products with a BLOCK_ANSWER quality flag
  Manifests,   \* external manifests, by hash
  NoManifest,  \* "none": no manifest file, or nothing ingested
  Links,       \* Links[m]: the relationship evidence manifest m ingests
  Capacity,    \* settings.cache_capacity, of each cache
  PoolSize,    \* connections of the SQLAlchemy pool, overflow included
  None

ASSUME RequestAssumption ==
  /\ Blank \subseteq Questions
  /\ Ruled \subseteq Questions
  /\ Parse \in [Questions -> SUBSET QuerySpecs]
  /\ None \notin QuerySpecs
ASSUME DataAssumption ==
  /\ Versions \subseteq Nat \ {0}   \* in the order of their first ingestion
  /\ Curated \in [Versions -> SUBSET Uids]
  /\ LowQuality \subseteq Uids
  /\ NoManifest \notin Manifests
  /\ Links \in [Manifests -> SUBSET Link]
ASSUME SizeAssumption == Capacity \in Nat \ {0} /\ PoolSize \in Nat \ {0}

NoVersion == 0

VARIABLES
  active,     \* the dataset version whose status is ACTIVE
  built,      \* versions build_curated has finished
  library,    \* the external manifest ingested last
  disk,       \* the manifest file inside the running container
  pc,         \* where each request stands
  question,   \* what each request asks
  work,       \* the local state of each request in progress
  expired,    \* requests whose deadline has passed
  failure,    \* the error code of each request answered with 503
  answer,     \* the answer of each request answered with 200
  specCache,  \* AgentOrchestrator._queryspec_cache
  runCache,   \* AgentOrchestrator._retrieval_cache
  audit       \* request_log

database == <<active, built, library>>
caches   == <<specCache, runCache>>
vars == <<active, built, library, disk, pc, question, work, expired,
          failure, answer, specCache, runCache, audit>>

-----------------------------------------------------------------------------
\* A run is an AgentRunResult.  Its query_id is fresh when a plan was built,
\* which the request that built it stands for, and the hash of the spec if not.
QueryIds == Requests \cup QuerySpecs
Run == [qid : QueryIds, planned : BOOLEAN, preliminary : Decision,
        links : SUBSET Link]

\* The final decision, with the evidence that stands behind it.
Final == [state : DecisionStates, rows : SUBSET Row, links : SUBSET Link]

\* What the guard looks at in a generated text: the decision state it starts
\* with, whether it is free of forbidden phrases and future assertions, and
\* the product identifiers it names.
Text == [prefix : DecisionStates \cup {"NONE"}, clean : BOOLEAN,
         mentions : SUBSET Uids]

\* What reading the evidence of a run back has shown so far: the rows and the
\* documents of links that were found, and the rows that were dropped.
Checks == [rows : SUBSET Row, links : SUBSET Link, dropped : SUBSET Row]
NoChecks == [rows |-> {}, links |-> {}, dropped |-> {}]

Work == [version  : Versions \cup {NoVersion},
         manifest : Manifests \cup {NoManifest},
         spec     : QuerySpecs \cup {None},
         found    : SUBSET Row,
         run      : Run \cup {None},
         checks   : Checks,
         final    : Final \cup {None},
         text     : Text \cup {None},
         calls    : Nat]
NoWork == [version |-> NoVersion, manifest |-> NoManifest, spec |-> None,
           found |-> {}, run |-> None, checks |-> NoChecks, final |-> None,
           text |-> None, calls |-> 0]

\* A 503 says which failure it reports; a 200 carries, beside its text, the
\* decision and the evidence that retrieved_context and think_trace show.
Failures == {"CONTEXT", "DATABASE", "DEADLINE", "EVIDENCE", "HCX", "RETRIEVER"}
Answer == [version : Versions \cup {NoVersion}, spec : QuerySpecs \cup {None},
           final : Final, text : Text]

ASSUME NoneAssumption == None \notin Answer

Running  == {"context", "retrieve", "sql", "relate", "document", "evidence", "audit",
             "respond"}
Awaiting == {"parse", "correct", "generate", "regenerate"}
Ended    == {"done", "lost"}
Stages   == {"new"} \cup Running \cup Awaiting \cup Ended

RunKeys == QuerySpecs \X (Versions \cup {NoVersion}) \X (Manifests \cup {NoManifest})

SpecStore == INSTANCE BoundedCache
  WITH Keys <- Questions, Values <- QuerySpecs, MaxEntries <- Capacity,
       entries <- specCache
RunStore == INSTANCE BoundedCache
  WITH Keys <- RunKeys, Values <- Run, MaxEntries <- Capacity,
       entries <- runCache

\* The stages from which a request has its spec, its run and its final decision.
WithSpec  == {"retrieve", "sql", "relate", "document", "evidence", "generate",
              "regenerate", "audit", "respond"}
WithRun   == {"evidence", "generate", "regenerate", "audit", "respond"}
WithFinal == {"generate", "regenerate", "audit", "respond"}

\* What a request has worked out by the time it stands at a stage.
AtStage(stage, asked, w) ==
  /\ stage \in Running \cup Awaiting => asked \in Questions
  /\ stage \in WithSpec => w.spec \in QuerySpecs
  /\ stage \in WithRun => w.run \in Run
  /\ stage \in WithFinal => w.final \in Final
  /\ stage \in {"audit", "respond"} => w.text \in Text

\* The type of every variable, and what each stage of a request has at hand.
TypeOK ==
  /\ active \in Versions \cup {NoVersion}
  /\ built \subseteq Versions
  /\ library \in Manifests \cup {NoManifest}
  /\ disk \in Manifests \cup {NoManifest}
  /\ pc \in [Requests -> Stages]
  /\ question \in [Requests -> Questions \cup {None}]
  /\ work \in [Requests -> Work]
  /\ expired \subseteq Requests
  /\ failure \in [Requests -> Failures \cup {None}]
  /\ answer \in [Requests -> Answer \cup {None}]
  /\ specCache \subseteq SpecStore!Entry
  /\ runCache \subseteq RunStore!Entry
  /\ audit \subseteq [qid : QueryIds, by : Requests, state : DecisionStates]
  /\ \A r \in Requests : AtStage(pc[r], question[r], work[r])

Init ==
  /\ active = NoVersion /\ built = {} /\ library = NoManifest
  /\ disk \in Manifests \cup {NoManifest}
  /\ pc = [r \in Requests |-> "new"]
  /\ question = [r \in Requests |-> None]
  /\ work = [r \in Requests |-> NoWork]
  /\ expired = {}
  /\ failure = [r \in Requests |-> None]
  /\ answer = [r \in Requests |-> None]
  /\ specCache = {} /\ runCache = {} /\ audit = {}

-----------------------------------------------------------------------------
LoopFree == \A r \in Requests : pc[r] \notin Running

\* Requests whose session holds a pooled connection: from the first statement
\* to session.close(), the time spent waiting for HCX included.
Holders == {r \in Requests : pc[r] \in (Running \cup Awaiting) \ {"context"}}

\* The coroutine returns or raises: its locals and its deadline are gone.
Leave(r) == /\ pc' = [pc EXCEPT ![r] = "done"]
            /\ work' = [work EXCEPT ![r] = NoWork]
            /\ expired' = expired \ {r}

\* A 503: an exception reached the error handlers and the session is closed.
Fail(r, code) == /\ Leave(r)
                 /\ failure' = [failure EXCEPT ![r] = code]
                 /\ UNCHANGED answer

Proceed(r, to, w) == /\ pc' = [pc EXCEPT ![r] = to]
                     /\ work' = [work EXCEPT ![r] = w]
                     /\ UNCHANGED <<expired, failure, answer>>

\* HcxHttpClient.complete refuses to start once the deadline has passed;
\* otherwise the request gives up the event loop and waits.
StartCall(r, to, w) ==
  IF r \in expired THEN Fail(r, "HCX")
  ELSE Proceed(r, to, [w EXCEPT !.calls = @ + 1])

-----------------------------------------------------------------------------
\* The handler: a rejected input is an ASK of its own, without a database.
Accept(r, q) ==
  /\ pc[r] = "new" /\ LoopFree
  /\ question' = [question EXCEPT ![r] = q]
  /\ IF q \in Blank
       THEN /\ pc' = [pc EXCEPT ![r] = "done"]
            /\ answer' = [answer EXCEPT ![r] =
                 [version |-> NoVersion, spec |-> None,
                  final |-> [state |-> "ASK", rows |-> {}, links |-> {}],
                  text |-> [prefix |-> "ASK", clean |-> TRUE, mentions |-> {}]]]
       ELSE /\ pc' = [pc EXCEPT ![r] = "context"]
            /\ UNCHANGED answer
  /\ UNCHANGED <<database, disk, work, expired, failure, caches, audit>>

\* parse_query when the cache has no spec: the rules first, then HCX.
ReadQuestion(r, w) ==
  \/ /\ question[r] \in Ruled
     /\ \E spec \in Parse[question[r]] :
          /\ Proceed(r, "retrieve", [w EXCEPT !.spec = spec])
          /\ specCache' \in SpecStore!Puts(specCache, question[r], spec, Capacity)
  \/ /\ question[r] \notin Ruled
     /\ StartCall(r, "parse", w)
     /\ UNCHANGED specCache

\* execute(): the session takes a connection and reads the active version.
LoadContext(r) ==
  LET w == [NoWork EXCEPT !.version = active, !.manifest = disk]
      hits == SpecStore!Hits(specCache, question[r])
  IN
  /\ pc[r] = "context" /\ Cardinality(Holders) < PoolSize
  /\ \/ active = NoVersion /\ Fail(r, "CONTEXT") /\ UNCHANGED specCache
     \/ /\ active # NoVersion
        /\ \E e \in hits : Proceed(r, "retrieve", [w EXCEPT !.spec = e.value])
        /\ UNCHANGED specCache
     \/ active # NoVersion /\ hits = {} /\ ReadQuestion(r, w)
  /\ UNCHANGED <<database, disk, question, runCache, audit>>

\* No connection is free.  The wait for one blocks the event loop, so no other
\* request can return its own, and the pool gives up after its timeout.
PoolTimeout(r) ==
  /\ pc[r] = "context" /\ Cardinality(Holders) >= PoolSize
  /\ Fail(r, "DATABASE")
  /\ UNCHANGED <<database, disk, question, caches, audit>>

ParseReply_KeepsCorrecting(r) ==
  /\ pc[r] \in {"parse", "correct"} /\ LoopFree
  /\ \/ \E spec \in Parse[question[r]] :
          /\ Proceed(r, "retrieve", [work[r] EXCEPT !.spec = spec])
          /\ specCache' \in SpecStore!Puts(specCache, question[r], spec, Capacity)
     \/ StartCall(r, "correct", work[r]) /\ UNCHANGED specCache
  /\ UNCHANGED <<database, disk, question, runCache, audit>>

\* HCX answers a parse call: with a QuerySpec, or with text the schema refuses,
\* which is corrected once.
ParseReply(r) ==
  /\ pc[r] \in {"parse", "correct"} /\ LoopFree
  /\ \/ \E spec \in Parse[question[r]] :
          /\ Proceed(r, "retrieve", [work[r] EXCEPT !.spec = spec])
          /\ specCache' \in SpecStore!Puts(specCache, question[r], spec, Capacity)
     \/ /\ pc[r] = "parse" /\ StartCall(r, "correct", work[r])
        /\ UNCHANGED specCache
     \/ /\ pc[r] = "correct" /\ Fail(r, "HCX")
        /\ UNCHANGED specCache
  /\ UNCHANGED <<database, disk, question, runCache, audit>>

-----------------------------------------------------------------------------
RunKey_WithoutVersion(w) == <<w.spec, NoVersion, w.manifest>>

\* run_with_spec.  Retrieval is cached under the spec and the two versions the
\* context was loaded with; the tables themselves are read now.
RunKey(w) == <<w.spec, w.version, w.manifest>>

\* A request has its run, made or found, and nothing of it has been read back.
Take(w, run) == [w EXCEPT !.run = run, !.found = {}, !.checks = NoChecks]

Store(r, run) ==
  /\ Proceed(r, "evidence", Take(work[r], run))
  /\ runCache' \in RunStore!Puts(runCache, RunKey(work[r]), run, Capacity)

\* A cached run, a decision that needs no retrieval (its query_id is the hash
\* of the spec), or the first retriever of the plan.
Retrieve(r) ==
  LET w == work[r]
      hits == RunStore!Hits(runCache, RunKey(w))
  IN
  /\ pc[r] = "retrieve"
  /\ \/ /\ \E e \in hits : Proceed(r, "evidence", Take(w, e.value))
        /\ UNCHANGED runCache
     \/ /\ hits = {}
        /\ \E early \in EarlyDecisions(w.spec) :
             Store(r, [qid |-> w.spec, planned |-> FALSE,
                       preliminary |-> early, links |-> {}])
     \/ /\ hits = {} /\ EarlyDecisions(w.spec) = {}
        /\ Proceed(r, IF "SQL" \in SelectRetrievers(w.spec) THEN "sql" ELSE "document", w)
        /\ UNCHANGED runCache
  /\ UNCHANGED <<database, disk, question, specCache, audit>>

\* The last retriever has returned: merge, decide, remember.
Conclude(r, rows, links, documents, aggregate) ==
  Store(r, [qid |-> r, planned |-> TRUE, links |-> links,
            preliminary |-> DecidePreliminary(work[r].spec, rows, links,
                                              documents, aggregate, LowQuality)])

CuratedRows(v) ==
  IF v \in built THEN {[uid |-> u, version |-> v] : u \in Curated[v]} ELSE {}

Selected_OfActiveVersion(w) ==
  {row \in CuratedRows(active) : row.uid \in w.spec.selects}

Selected(w) == {row \in CuratedRows(w.version) : row.uid \in w.spec.selects}

\* SqlRetriever.  A filter field that one of the families lacks passes the
\* validation and fails here.  AVG is null when every value is.
RunSql(r) ==
  LET w == work[r]  rows == Selected(w) IN
  /\ pc[r] = "sql"
  /\ \/ ~w.spec.compiles /\ Fail(r, "RETRIEVER") /\ UNCHANGED runCache
     \/ /\ w.spec.compiles /\ "RELATION" \in SelectRetrievers(w.spec)
        /\ Proceed(r, "relate", [w EXCEPT !.found = rows])
        /\ UNCHANGED runCache
     \/ /\ w.spec.compiles /\ "RELATION" \notin SelectRetrievers(w.spec)
        /\ \E aggregate \in BOOLEAN :
             /\ aggregate => w.spec.metrics /\ rows # {}
             /\ Conclude(r, rows, {}, FALSE, aggregate)
  /\ UNCHANGED <<database, disk, question, specCache, audit>>

\* What external ingestion has loaded now.
Library == IF library = NoManifest THEN {} ELSE Links[library]
Documents == {l.doc : l \in Library}

RelatedLinks(spec) ==
  {l \in Library : IF l.product = NoProduct THEN "COMPANY" \in spec.relations
                                            ELSE "HOLDS" \in spec.relations}

\* RelationRetriever.  It takes RELATION_SEARCH only; the holdings it finds are
\* resolved to curated rows, and when some survive the others are dropped.  What
\* its statements see one by one, and what the limit cuts, is in RelationAnswer:
\* here it is one read, and the limit is not reached.
RunRelation(r) ==
  LET w == work[r]
      links == RelatedLinks(w.spec)
      rows == {row \in Selected(w) : row.uid \in Products(links)}
      kept == IF rows = {} THEN links
              ELSE {l \in links : l.product \in UidsOf(rows) \cup {NoProduct}}
  IN
  /\ pc[r] = "relate"
  /\ \/ /\ w.spec.intent # "RELATION_SEARCH"
        /\ Fail(r, "RETRIEVER") /\ UNCHANGED runCache
     \/ /\ w.spec.intent = "RELATION_SEARCH"
        /\ Conclude(r, MergeCandidates(w.spec, w.found, rows, kept), kept, FALSE, FALSE)
  /\ UNCHANGED <<database, disk, question, specCache, audit>>

\* DocumentRetriever, for EXPLAIN_TERM.  The nearest chunks are always returned,
\* so it finds something whenever there is a query text and a library.  The
\* optional relation retriever after it refuses the intent and is only traced.
RunDocument(r) ==
  LET spec == work[r].spec IN
  /\ pc[r] = "document"
  /\ Conclude(r, {}, {}, Documents # {} /\ (spec.entities \/ spec.relations # {}), FALSE)
  /\ UNCHANGED <<database, disk, question, specCache, audit>>

-----------------------------------------------------------------------------
LinksOf(rows, links) == {l \in links : l.product \in UidsOf(rows)}

\* A relation between companies is answered without a product.
StandaloneRelation(w) ==
  /\ w.run.planned /\ w.run.preliminary.selected = {}
  /\ w.run.preliminary.state = "PRE_ANSWER" /\ w.spec.intent = "RELATION_SEARCH"

\* Bundles come one after the other: those whose row is still to be read, those
\* that are read and not dropped, and the links whose document is due, which are
\* those of the bundle begun last.
Unread(w) == w.run.preliminary.selected \ (w.checks.rows \cup w.checks.dropped)
Kept(w) == w.checks.rows \ w.checks.dropped
Due(w) == (IF StandaloneRelation(w) THEN w.run.links ELSE LinksOf(Kept(w), w.run.links))
          \ w.checks.links

\* _validate_bundle: one SELECT of the curated row by version, uid and key.
ReadRow(r) ==
  LET w == work[r] IN
  /\ pc[r] = "evidence" /\ Due(w) = {}
  /\ \E row \in Unread(w) :
       IF \E stored \in CuratedRows(w.version) : stored.uid = row.uid
       THEN Proceed(r, "evidence", [w EXCEPT !.checks.rows = @ \cup {row}])
       ELSE Proceed(r, "evidence", [w EXCEPT !.checks.dropped = @ \cup {row}])
  /\ UNCHANGED <<database, disk, question, caches, audit>>

ReadDocument_Lenient(r) ==
  LET w == work[r] IN
  /\ pc[r] = "evidence"
  /\ \E l \in Due(w) : Proceed(r, "evidence", [w EXCEPT !.checks.links = @ \cup {l}])
  /\ UNCHANGED <<database, disk, question, caches, audit>>

\* validate_relationship_evidence: one SELECT of a source_document by id and
\* content hash.  Without its document a bundle is dropped, and a relation between
\* companies is an EvidenceIntegrityError.  That the relation itself is still on
\* record is not looked up.
ReadDocument(r) ==
  LET w == work[r] IN
  /\ pc[r] = "evidence"
  /\ \E l \in Due(w) :
       \/ /\ l.doc \in Documents
          /\ Proceed(r, "evidence", [w EXCEPT !.checks.links = @ \cup {l}])
       \/ /\ l.doc \notin Documents /\ ~StandaloneRelation(w)
          /\ Proceed(r, "evidence", [w EXCEPT !.checks.dropped =
                                       @ \cup {row \in Kept(w) : row.uid = l.product}])
       \/ l.doc \notin Documents /\ StandaloneRelation(w) /\ Fail(r, "EVIDENCE")
  /\ UNCHANGED <<database, disk, question, caches, audit>>

\* The decision on what was read back.  A decision with nothing to validate is
\* passed on as it is.
Finalized(w) ==
  LET preliminary == w.run.preliminary
      decision == FinalizeDecision(preliminary, Kept(w))
  IN IF preliminary.selected # {}
     THEN [state |-> decision.state, rows |-> decision.selected,
           links |-> LinksOf(decision.selected, w.run.links)]
     ELSE IF StandaloneRelation(w)
     THEN [state |-> "ANSWER", rows |-> {}, links |-> w.run.links]
     ELSE [state |-> preliminary.state, rows |-> {}, links |-> {}]

\* The first half of _finalize ends: all evidence is read back, the decision made
\* final, and the answer text requested.
Finalize(r) ==
  LET w == work[r] IN
  /\ pc[r] = "evidence" /\ Unread(w) = {} /\ Due(w) = {}
  /\ StartCall(r, "generate", [w EXCEPT !.final = Finalized(w), !.checks = NoChecks])
  /\ UNCHANGED <<database, disk, question, caches, audit>>

\* guard_answer.  Its check of product names in an ASK or ABSTAIN text is left
\* out: only an ANSWER has evidence bundles.
Guard(text, final) ==
  /\ text.prefix = final.state
  /\ text.clean
  /\ text.mentions \subseteq UidsOf(final.rows)

\* _safe_answer_fallback
Fallback(final) ==
  [prefix |-> IF final.state \in {"ANSWER", "ASK"} THEN final.state ELSE "ABSTAIN",
   clean |-> TRUE, mentions |-> {}]

AnswerReply_TrustsRegeneration(r, text) ==
  LET w == work[r] IN
  /\ pc[r] \in {"generate", "regenerate"} /\ LoopFree
  /\ \/ /\ Guard(text, w.final) \/ pc[r] = "regenerate"
        /\ Proceed(r, "audit", [w EXCEPT !.text = text])
     \/ ~Guard(text, w.final) /\ pc[r] = "generate" /\ StartCall(r, "regenerate", w)
  /\ UNCHANGED <<database, disk, question, caches, audit>>

\* HCX answers a generation call: the guard lets the text through, or it is
\* regenerated once, or replaced.
AnswerReply(r, text) ==
  LET w == work[r] IN
  /\ pc[r] \in {"generate", "regenerate"} /\ LoopFree
  /\ \/ Guard(text, w.final) /\ Proceed(r, "audit", [w EXCEPT !.text = text])
     \/ ~Guard(text, w.final) /\ pc[r] = "generate" /\ StartCall(r, "regenerate", w)
     \/ /\ ~Guard(text, w.final) /\ pc[r] = "regenerate"
        /\ Proceed(r, "audit", [w EXCEPT !.text = Fallback(w.final)])
  /\ UNCHANGED <<database, disk, question, caches, audit>>

WriteAudit_Always(r, run, state) ==
  audit' = audit \cup {[qid |-> run.qid, by |-> r, state |-> state]}

\* AuditWriter.write skips a query_id it has; _safe_audit swallows failures.
WriteAudit(r, run, state) ==
  \/ UNCHANGED audit
  \/ /\ \A row \in audit : row.qid # run.qid
     /\ audit' = audit \cup {[qid |-> run.qid, by |-> r, state |-> state]}

\* The second half of _finalize: the audit row is committed.
RecordAudit(r) ==
  LET w == work[r] IN
  /\ pc[r] = "audit"
  /\ WriteAudit(r, w.run, w.final.state)
  /\ Proceed(r, "respond", w)
  /\ UNCHANGED <<database, disk, question, caches>>

\* The session is closed and the 200 goes out.
Respond(r) ==
  LET w == work[r] IN
  /\ pc[r] = "respond"
  /\ answer' = [answer EXCEPT ![r] =
       [version |-> w.version, spec |-> w.spec, final |-> w.final,
        text |-> w.text]]
  /\ Leave(r)
  /\ UNCHANGED <<database, disk, question, failure, caches, audit>>

-----------------------------------------------------------------------------
\* A statement fails.  (A failing audit statement is in WriteAudit.)  Inside a
\* retriever the code reports it as a RetrieverFailure; the model keeps the cause.
DatabaseFails(r) ==
  /\ pc[r] \in {"context", "sql", "relate", "document", "evidence"}
  /\ Fail(r, "DATABASE")
  /\ UNCHANGED <<database, disk, question, caches, audit>>

\* HCX rejects a call, or cannot be reached after the client's retries.
ProviderFails(r) ==
  /\ pc[r] \in Awaiting /\ LoopFree
  /\ Fail(r, "HCX")
  /\ UNCHANGED <<database, disk, question, caches, audit>>

\* run_with_deadline: the clock reaches the deadline at any moment, but the
\* cancellation is delivered by the event loop and only to a waiting request.
Expire(r) ==
  /\ pc[r] \in Running \cup Awaiting /\ r \notin expired
  /\ expired' = expired \cup {r}
  /\ UNCHANGED <<database, disk, pc, question, work, failure, answer, caches, audit>>

Timeout_WhileParsing(r) ==
  /\ pc[r] \in {"parse", "correct"} /\ r \in expired /\ LoopFree
  /\ Fail(r, "DEADLINE")
  /\ UNCHANGED <<database, disk, question, caches, audit>>

Timeout(r) ==
  /\ pc[r] \in Awaiting /\ r \in expired /\ LoopFree
  /\ Fail(r, "DEADLINE")
  /\ UNCHANGED <<database, disk, question, caches, audit>>

-----------------------------------------------------------------------------
\* The command line jobs.  Those that load a dataset come one after another;
\* module DatasetLifecycle looks inside.
Datasets == INSTANCE DatasetCatalog

Activate(v) ==
  /\ Datasets!Activate(v)
  /\ UNCHANGED <<library, disk, pc, question, work, expired, failure, answer,
                 caches, audit>>

BuildCurated(v) ==
  /\ Datasets!BuildCurated(v)
  /\ UNCHANGED <<library, disk, pc, question, work, expired, failure, answer,
                 caches, audit>>

\* ingest_external replaces every external table by the image's manifest.
IngestExternal(m) ==
  /\ m # library
  /\ library' = m
  /\ UNCHANGED <<active, built, disk, pc, question, work, expired, failure,
                 answer, caches, audit>>

\* The app container is replaced, by a crash or by a deployment whose image may
\* hold another manifest.  Requests in flight are lost and the caches empty.
InFlight == {r \in Requests : pc[r] \in Running \cup Awaiting}

Restart(m) ==
  /\ disk' = m
  /\ pc' = [r \in Requests |-> IF r \in InFlight THEN "lost" ELSE pc[r]]
  /\ work' = [r \in Requests |-> NoWork]
  /\ expired' = {}
  /\ specCache' = {} /\ runCache' = {}
  /\ UNCHANGED <<database, question, failure, answer, audit>>

-----------------------------------------------------------------------------
\* What a request does while it holds the event loop, failures left aside.
Continue(r) ==
  \/ LoadContext(r) \/ PoolTimeout(r) \/ Retrieve(r) \/ RunSql(r)
  \/ RunRelation(r) \/ RunDocument(r) \/ ReadRow(r) \/ ReadDocument(r)
  \/ Finalize(r) \/ RecordAudit(r) \/ Respond(r)

Serve(r) ==
  \/ \E q \in Questions : Accept(r, q)
  \/ Continue(r)
  \/ ParseReply(r)
  \/ \E text \in Text : AnswerReply(r, text)
  \/ Expire(r) \/ Timeout(r)
  \/ DatabaseFails(r) \/ ProviderFails(r)

Operate ==
  \/ \E v \in Versions : Activate(v) \/ BuildCurated(v)
  \/ \E m \in Manifests : IngestExternal(m)
  \/ \E m \in Manifests \cup {NoManifest} : Restart(m)

Next == (\E r \in Requests : Serve(r)) \/ Operate

\* The process runs what it can and the clock advances; HCX owes nothing.
Fairness == \A r \in Requests :
  WF_vars(Continue(r)) /\ WF_vars(Expire(r)) /\ WF_vars(Timeout(r))

Spec == Init /\ [][Next]_vars
FairSpec == Spec /\ Fairness

-----------------------------------------------------------------------------
Answered(r) == answer[r] # None

\* The answer text that reaches the caller has passed the guard against the
\* final decision, whichever of the three texts it is: the first, the
\* regenerated one or the fallback of _finalize.  The one exception: an average
\* or a term is delivered in the state PRE_ANSWER, whose fallback says ABSTAIN.
DeliveredTextPassesGuard ==
  \A r \in Requests : Answered(r) =>
    \/ Guard(answer[r].text, answer[r].final)
    \/ /\ answer[r].final.state = "PRE_ANSWER"
       /\ answer[r].spec.intent \in {"AGGREGATE", "EXPLAIN_TERM"}

\* ANSWER means evidence, and nothing else carries any: an ASK or ABSTAIN never
\* exposes a candidate, and no product with a BLOCK_ANSWER flag is answered,
\* from the cache or not.
AnswerMeansEvidence ==
  \A r \in Requests : Answered(r) =>
    LET final == answer[r].final IN
    /\ final.state = "ANSWER" <=> final.rows \cup final.links # {}
    /\ UidsOf(final.rows) \cap LowQuality = {}

\* An answer mixes no dataset versions: every row comes from the version that
\* the request read before it waited for HCX, though another may have been
\* activated since, and though the rows may come from another request's run.
OneDatasetPerAnswer ==
  \A r \in Requests : Answered(r) =>
    \A row \in answer[r].final.rows : row.version = answer[r].version

\* Every product in the answer to a question about holdings has its document in
\* that answer, though the SQL and the relation retriever searched apart and
\* either may have found more.  (Next to a relation between companies the merger
\* keeps products that have none.)
HoldingAnswersAreDocumented ==
  \A r \in Requests :
    (Answered(r) /\ answer[r].spec # None /\ answer[r].spec.relations = {"HOLDS"}) =>
      UidsOf(answer[r].final.rows) \subseteq Products(answer[r].final.links)

\* Whatever a cached run selected was curated from the version of its key,
\* passes the filters of its key and carries no BLOCK_ANSWER flag.
CachedRunsMatchKeys ==
  \A e \in runCache : \A row \in e.value.preliminary.selected :
    /\ row.version = e.key[2]
    /\ row.uid \in Curated[e.key[2]] \cap e.key[1].selects
    /\ row.uid \notin LowQuality

\* A request never pays for more than four HCX calls (parse, one correction,
\* one answer, one regeneration), nor for more than two when the rules read it.
ProviderCallBudget ==
  \A r \in Requests :
    work[r].calls <= IF question[r] \in Ruled THEN 2 ELSE 4

\* The audit log has one row per query id, and each is the decision of a request
\* that is answered with it or about to be; the one exception is a request that
\* was lost with the process between the commit of its row and its 200.  A request
\* that failed has no row, whatever it failed of.
AuditMatchesAnswers ==
  /\ \A row \in audit :
       \/ Answered(row.by) /\ answer[row.by].final.state = row.state
       \/ pc[row.by] = "respond" /\ work[row.by].final.state = row.state
       \/ pc[row.by] = "lost"
  /\ \A row1, row2 \in audit : row1.qid = row2.qid => row1 = row2

\* Every request that is taken up is answered, fails or is lost with the
\* process, though HCX may never reply and the pool may run dry.
EveryRequestEnds ==
  \A r \in Requests : (pc[r] = "context") ~> (pc[r] \in Ended)

\* The service implements AnswerContract: the row of every product and the document
\* of every link of an answer were found in the database, each by a SELECT of its
\* own, after the question came in, however old the run that named them.  (Relations
\* are not looked up again: one may be answered after it was withdrawn, while its
\* document is on record.)
Held == (UNION {CuratedRows(v) : v \in Versions}) \cup Documents

StageOf(r) == IF pc[r] = "new" THEN "idle"
              ELSE IF pc[r] \in Ended THEN "closed"
              ELSE IF pc[r] \in WithFinal THEN "decided" ELSE "open"

Cited(rows, links) == rows \cup {l.doc : l \in links}
BackingOf(r) ==
  IF Answered(r) THEN Cited(answer[r].final.rows, answer[r].final.links)
  ELSE IF pc[r] \in WithFinal THEN Cited(work[r].final.rows, work[r].final.links)
  ELSE IF pc[r] = "evidence" THEN Cited(work[r].checks.rows, work[r].checks.links)
  ELSE {}

Contract == INSTANCE AnswerContract WITH
  Facts   <- Row \cup Docs,
  held    <- Held,
  stage   <- [r \in Requests |-> StageOf(r)],
  backing <- [r \in Requests |-> BackingOf(r)]

ImplementsContract == Contract!Spec

\* What the documents say and the code does not do (the run claim_final_states):
\* the states of a 200 are ANSWER, ASK and ABSTAIN (docs/api.md), a PRE_ANSWER is
\* confirmed or withdrawn before it is delivered.
FinalStatesOnly ==
  \A r \in Requests :
    Answered(r) => answer[r].final.state \in {"ANSWER", "ASK", "ABSTAIN"}
=============================================================================
