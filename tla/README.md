# Verification of Product Finder

TLA+ modules, TLC configurations and TLAPS proofs about Product Finder, the
FastAPI service that answers `GET /answer` from curated product tables, a library
of official documents and HyperCLOVA X (HCX). Paths below are relative to the
repository root. `PROJECT.json` maps every definition to the lines it models.

    cd tla
    tlc -workers 2 -config MCHcxClient.cfg MCHcxClient    # one run
    tlapm AnswerSafety_proofs.tla                         # the proofs of one module

## 1. Inventory

### Components, their state and their operations

| component | state | operations | interacts with |
|---|---|---|---|
| Answer API, `app/api/answer.py`, `app/core/deadline.py` | per request: session and connection, deadline | accept, load context, respond 200 or map an exception to 503 | orchestrator, evidence, pool |
| Caches, `app/core/cache.py` | two `OrderedDict`s, by spec and by run | get, put, clear | orchestrator |
| Agent, `app/agent` | none of its own beside the two caches | parse, select retrievers, retrieve, merge, preliminary and final decision | provider, retrievers, caches |
| Korean rules, `app/query/korean_rule_parser.py` | none: an ordered list of rules | parse a question without HCX | agent |
| QuerySpec validation, `app/query` | the field registry, read once | validate, ground | agent; trusted by retrieval |
| Retrieval, `app/retrieval`, `app/data/repositories.py` | none | SQL per family, relation, document; rank and cut | PostgreSQL |
| Evidence and guard, `app/evidence` | `request_log` | read evidence back, finalise, guard, regenerate, fall back, audit | PostgreSQL, provider |
| HCX client, `app/llm/client.py` | per call: attempt, timers | post, retry, give up | HCX, deadline |
| Dataset jobs, `app/data/ingestion.py`, `app/curated/builder.py` | `dataset_version`, raw and curated tables | `ingest_manifest`, `build_curated` | each other, the service, through PostgreSQL |
| Mappers and quality rules, `app/curated` | none: functions of a raw row | map, assess, flag, validate | `build_curated`; trusted by ranking |
| External job, `app/external/ingestion.py` | document, entity, holding and relation tables | `ingest_external` | the same |
| Readiness, `app/api/readiness.py` | the last snapshot and its age | check, refresh | PostgreSQL, settings, the event loop |
| Migrations, evaluation, collection of external data, Excel reading | see `PROJECT.json` | | |

The service is one process with one asyncio event loop (`--workers 1`). A request
gives up the loop only while it waits for HCX; database access is synchronous and
holds it. The jobs are other processes. They share nothing with the service but
PostgreSQL (READ COMMITTED) and, for the external manifest, a file in the image.

### What is hard

* **Interleaving at HCX.** A request reads the active version, waits up to two
  minutes for HCX, and retrieves afterwards, maybe from another version's tables,
  maybe from a run another request cached in between.
* **Statements of two transactions.** Nothing keeps two ingests, two builds or two
  external ingests apart; READ COMMITTED lets each statement see what the other
  has committed since the last.
* **Statements of one reader.** The target of a relation question is resolved, its
  relations and their documents are read, and a cached run is read back, each in a
  statement of its own that may see another library than the one before.
* **Cuts and joins of lists.** Ranking, quality filter, limit, family merge and
  relation merge are each simple and wrong in another order.
* **Order of rules.** The first phrase found in a question writes the whole spec, and
  phrases contain each other. The mappers fill columns by place in a list.
* **Time.** Deadline, read timeout, retry delays and the margin interact, on a loop
  that other requests and readiness probes hold, probes even while they wait for a
  connection that only the loop could free.
* **Trust between checks.** The SQL side indexes into clauses that validation has
  looked at: whatever it overlooked becomes a 503.

### What makes each part correct

The row of every product of an answer, and the document of every relation, was found in the
database by a SELECT of its own between question and decision (`ImplementsContract`; the
relations themselves are read once and may have been withdrawn since), all rows of one dataset version (`OneDatasetPerAnswer`),
none flagged, none of them in an ASK or ABSTAIN (`AnswerMeansEvidence`), each with
its document when the question is about holdings (`HoldingAnswersAreDocumented`).
Its text passed the guard (`DeliveredTextPassesGuard`), cost at most four HCX calls
(`ProviderCallBudget`), and a row of the audit log tells its state, or that of a request
that was lost with the process before its 200 (`AuditMatchesAnswers`). Every
request ends (`EveryRequestEnds`). Dataset jobs never leave the service without a
dataset or products, never change what a label stands for and never deadlock; an
external library is always one snapshot; the facts that answer one clause of a relation
question are of one snapshot, and no document of the answer was gone all the while
(`RunsStandTogether`); if nothing was committed meanwhile the answer is what the snapshot
holds, within the limit (`QuietAnswersAreExact`). A batch is the top
of what the Excel sheet says (`TopOfTheSheet`), and what is left out has a recorded reason (`LossesAreOnRecord`).
The most specific rule reads a question (`MostSpecificRuleWins`), what must be
refused is (`RefusalsHold`), and a spec that validation let through can be executed
(`AcceptedSpecsRun`). Ready means serving (`ReadyMeansServing`), and not ready does
not last (`ReadyAgain`). `PROJECT.json` lists each hazard at
its line with the properties that cover it, or why none does.

## 2. Modules

| module | models | abstract specification it implements |
|---|---|---|
| `AnswerPolicy` | the decisions of `app/agent` as operators | |
| `AnswerService` | `GET /answer` end to end, jobs and restarts around it | `AnswerContract` |
| `LruCache` | `BoundedVersionedCache` with its recency order | `BoundedCache` |
| `DatasetLifecycle` | `ingest_manifest`, `build_curated`, statement by statement | `DatasetCatalog` |
| `ExternalLibrary` | `ingest_external`, statement by statement | |
| `RelationAnswer` | one relation question SELECT by SELECT, on top of `ExternalLibrary` | |
| `HcxClient` | one HCX call with retries, under the deadline | `ProviderCall` |
| `ServiceProbes` | `GET /health/ready` beside that call, settings and bootstrap jobs | |
| `Curation` | cells, quality flags, product columns and issues of a raw row | |
| `Ranking` | `build_curated` over a sheet, then from filtered rows to the merged list | |
| `QueryValidation` | validation, and what compiles and runs a spec after it | |
| `KoreanRules` | the rules that write a spec without HCX, in front of `QueryValidation` | |
| `AnswerService_proofs`, `AnswerSafety_proofs` | proofs about `AnswerService`: its type; its safety and its refinement of `AnswerContract` | |
| `DatasetLifecycle_proofs`, `LruCache_proofs`, `Ranking_proofs` | proofs about the module each is named after | |
| `RelationAnswer_proofs` | proofs about `ExternalLibrary` and its reader | |
| `ServiceProbes_proofs` | proofs about `HcxClient`, alone and beside the probes | |
| `QueryValidation_proofs` | proofs about `QueryValidation` and `KoreanRules` | |

Composition: `AnswerService` extends `AnswerPolicy`, uses the operators of
`BoundedCache` for both caches (so any eviction order is covered; `LruCache`
implements it), and takes its dataset jobs from `DatasetCatalog`, which
`DatasetLifecycle` implements. One wait for HCX of `AnswerService` is one call of
`ProviderCall`, which `HcxClient` implements with all its posts and pauses. That the
external library is replaced as a whole, an `IngestExternal` of `AnswerService`, is
what `ExternalLibrary` shows (`OneSnapshot`); `RelationAnswer` puts a reader beside its
ingests and cuts it where `AnswerService` does not. `ServiceProbes` puts probes beside
the request of `HcxClient`, which stands still while a probe has the event loop.
`Ranking` extends `Curation` and `KoreanRules` extends `QueryValidation`: they look
inside what `AnswerService` keeps as `selects` and `compiles`/`fields` of a spec.

### AnswerService: state and actions

`pc[r]` is where the coroutine of request `r` stands. In `Running` it holds the event
loop, in `Awaiting` it waits for HCX; `LoopFree` guards whatever needs the loop.
`work[r]` holds its locals, `answer[r]` or `failure[r]` what was returned.

| action | code |
|---|---|
| `Accept` | `answer.py`: blank or long input is an ASK without a database |
| `LoadContext`, `PoolTimeout` | `execute()` reads the active version; no free connection |
| `ReadQuestion`, `ParseReply` | spec cache, Korean rules, `parse_query` with one correction |
| `Retrieve`, `RunSql`, `RunRelation`, `RunDocument`, `Conclude` | `run_with_spec`: run cache, early decision, plan, retrievers, merge, `decide_preliminary` |
| `ReadRow`, `ReadDocument` | `EvidenceManager.validate`, one SELECT of a curated row or a `source_document` each |
| `Finalize` | `finalize_decision`, and the request for the first text |
| `AnswerReply` | guard, one regeneration, `_safe_answer_fallback` |
| `RecordAudit`, `Respond` | `_safe_audit` up to its commit; the 200 |
| `DatabaseFails`, `ProviderFails`, `Expire`, `Timeout` | the exceptions and `run_with_deadline` |
| `Activate`, `BuildCurated`, `IngestExternal`, `Restart` | jobs, crash and deployment |

A running request is cut where it reads the database, because jobs commit between
any two reads. Two abstractions here are coarser than the code: the statements of
one retriever are one step, so a job that commits between two statements of one
retriever is not seen (for relation questions it is in `RelationAnswer`; the rows of a
built version do not change, so for SQL it makes no difference); and a spec `selects`
fewer products than its limit, so no list is cut (cuts are in `Ranking` and
`RelationAnswer`). The read-back is as fine as the code: rows and documents one by one,
`checks` of a request being what has been found so far, and jobs commit in between. Row values, texts and traces are not modelled;
a text is the three things the guard looks at. The `PRE_ANSWER` path of the Mock
provider and the startup capability check are left out.

### DatasetLifecycle, ExternalLibrary: transactions

A transaction is its sequence of statements. `job[j]` keeps what it has written and
not committed, other jobs see only what is committed, and a statement that meets a
row or key another transaction holds waits for that one to end. An ingest that would
replace a label that was active once always fails: `session.delete` of the old version
leaves its `ingestion_run` without the version it must have. `order` and `overlapped`
are history. In `ExternalLibrary` a table holds the manifests whose rows are in it;
two manifests are assumed to share a `document_id`, and the library to have been
loaded once before. (On an empty library, two manifests without any id in common
could both commit; bootstrap loads one.)

### RelationAnswer: one reader

`reader` is one request after another: `Ask` finds nothing cached; `ResolveAlias`,
`ResolveCanonical` and `ReadFacts` are the SELECTs of one clause, after which `Proceed`
turns to the next one of `relationship_filters`; `Conclude` joins the evidences with the
products that pass the other clauses (`Found`, `Kept`), cuts both to the limit, merges them
with what SQL found by itself (`Merged`) and keeps what the bundles will show (`Shown`);
`CheckDocument` reads one document back and drops its product, `NameManifest` reads the
manifest that the trace names, `Reuse` asks the same question of the cached run again.
`Ingest` is any statement of an ingest of `ExternalLibrary`. `quiet` and `gone` are history.
A spelling may be an alias or a name, of one entity or of two, by manifest. A question's
`selects` holds, family by family, the products that pass its clauses other than relations; none
of them is blocked. What a cut keeps depends on columns that are not in this module: it
keeps any part of the size of the limit (`Cuts`).

### HcxClient: time

Ticks of 0.05 s in proportion, not to scale: Margin 1, Backoff 2, 4, 8, ReadTimeout 5,
Deadline 14. `Lag` bounds how late the loop runs a coroutine that could run. httpx
counts its read timeout from the last byte, which is `Trickle`.

### ServiceProbes

A probe goes through its checks one statement at a time and keeps the event loop from
the first to the last: `Request` needs `~Running`. A statement fails when PostgreSQL
does, and when the pool has waited in vain because the request holds the last
connection. The bootstrap jobs commit between any two checks. `asyncio.Lock` has no
state in the model, since nothing between its acquire and release gives up the loop.
`Settings` are those that the process may be started with; what their validator
demands of the evaluation is `SettingsAssumption`.

### Curation and Ranking

A product is its place in source_key order, a cell one of a dozen strings that the
rules tell apart: empty, zeros of two spellings, numbers, an outlier, text, a date,
the sentinel, eight digits that are no date. `Build` maps every row of the sheet
(`MapRow`) or fails as a whole; the plan, the sheet and the holdings are chosen in
`Init`. `TopOfTheSheet` is stated on the cells, with a column table of its own that
knows nothing of places in lists. A date ranks by what `Decimal` makes of its column: a
bond keeps the cell as text, whose eight digits are a number, a fund has a DATE, which is
none (`Column`, `MetricValue`). `CHECK_DEADLOCK FALSE` in the runs of `Ranking`,
`QueryValidation` and `LruCache`, since a search, a spec and a bounded history of
calls end. (The service, the jobs and the probes never do: deadlock is checked
there.)

### QueryValidation and KoreanRules

A filter value is the sequence of the kinds of its items; the ontology is five
functions of a field: its type, its operators, the families it is mapped for, those
whose curated table has a column for it and those for which the column map names a
column that is not there. The last three differ in the repository, see section 5.

A question is the set of phrases found in it. `Inside` says which phrases contain
which, so that a question with the longer has the shorter too; `Rules` is the list in
the order in which the parser asks. Names, regions and amounts only fill filter
values and are left out.

## 3. Runs

| run | bounds | properties |
|---|---|---|
| `lru_cache` | 4 keys, 2 values, 2 entries, 6 calls: keys enough to evict twice and come back | bounded, unambiguous, evicts by recency, never returns an overwritten value, implements `BoundedCache` |
| `answer_serving` | 2 requests, 9 questions, one per kind of path (found by filter, by rule, vague, blank, relation, term, average, uncompilable, refused by a retriever) | guard, budget, audit |
| `answer_versions` | 2 requests, 2 questions that may mean the same, 2 versions, caches of 1 | `AnswerMeansEvidence`, `OneDatasetPerAnswer`, `CachedRunsMatchKeys` |
| `answer_relations` | 2 requests, 2 manifests, a product without a document | `HoldingAnswersAreDocumented`, `ImplementsContract` |
| `answer_progress` | 2 requests, 1 connection | `EveryRequestEnds` |
| `dataset_jobs` | 2 jobs, 3 labels, 4 manifests of which two share a label | see section 2 |
| `external_library` | 2 jobs, 3 manifests, so that one process may ingest twice while the other waits; one reader that asks any number of times, of one who holds a first target with what belongs to a second (two clauses, limit 1, two families), or of what belongs to the first (one clause, limit 2, no products); the first target is clear in one manifest, known by name only in another and ambiguous in the third, the second is unknown in one; more holders than the limit | `OneSnapshot`, `QuietAnswersAreExact`, `RunsStandTogether`, `EveryIngestEnds` |
| `hcx_call` | 2 retries (the most that settings allow), every start time and answer; every settings, a cache of one tick, the last free connection | budget, no wasted delay, ends, implements `ProviderCall`; `ReadyMeansServing`, `ReadyAgain` |
| `ranking` | 6 products of 4 families, 3 bonds; up to 2 sorts, with and without priorities, by two numbers and the date (one that is no number, and eight digits that are, of two days); every kind of cell in every sortable column of one product; 2 clauses | `TopOfTheSheet`, `LossesAreOnRecord`, `FamiliesTakeTurns`, `CandidatesKeepEvidence` |
| `query_validation` | questions of up to 3 of the parser's phrases (and those inside them), with TOP 0, 5, 50 or none; specs of every intent with at most one clause of each kind, values of up to 2 items, one field of each sort there is | `AcceptedSpecsRun`, `RulesAskForWhatExists`, `RefusalsHold`, `MostSpecificRuleWins` |
| `claim_final_states`, `claim_metrics` | | violated, section 5 |

Two requests are enough for the service: they interact through the two caches, the
pool, the loop and the audit log, and each of these relates one request to one
earlier request; a third adds only older states of the same kind. Versions, manifests
and products are just as many as it takes for one to be replaced, missing or flagged.
Three phrases are enough for the rules: no rule has more words, and a conflict is
between two rules of which one is a single phrase. Three bonds are enough for a row that is
dominated by one and cut off by another. One reader is enough for `RelationAnswer`: readers
change nothing that another reads but the cache, and `Reuse` is a hit of any age.
Requests are symmetric in the safety runs; the liveness run uses no symmetry.

All type invariants are proved (section 4); the runs repeat only those of `Ranking` and
`QueryValidation`, whose inputs are the richest.

Every property has a mutant in `PROJECT.json`, a plausible fault of the code under
which TLC finds it violated: the definition is replaced by the one named after it
(`RunKey_WithoutVersion` for `RunKey`), which stands beside it and is used nowhere else.

### Fairness, and why the code justifies it

* `AnswerService`: weak fairness of `Continue` (a coroutine that holds the loop runs
  on), `Expire` (the clock) and `Timeout` (`asyncio.timeout` fires on a free loop).
  None for HCX, the jobs, or new requests. So a request ends by its deadline alone.
* `DatasetLifecycle`, `ExternalLibrary`: weak fairness of the statements that need no
  lock, strong fairness of those that may wait for one: PostgreSQL wakes a waiter when
  the holder ends, in the order of the queue. None for starting or killing a job.
* `RelationAnswer` keeps that of `ExternalLibrary`; none for readers, about which no liveness is
  claimed.
* `HcxClient`: weak fairness of the clock and of what timers wake. None for HCX.
* `ServiceProbes`: weak fairness of the clock and of a probe's own steps (a probe that has
  the loop runs on, and somebody goes on asking, which is what a readiness endpoint is
  for); strong fairness of the request's timers, which probes interrupt again and again,
  but asyncio runs what is due in turn. `ReadyAgain` holds under `Steady`: from some time on
  statements fail only for want of a connection, PostgreSQL itself answers.

## 4. Proofs

Of `AnswerService`, for any requests, questions, specs, versions, products, manifests,
links, capacity and pool size, under the assumptions named in `AnswerPolicy` and
`AnswerService` and nothing else:

* `TypeCorrect`: `Spec => []TypeOK`. `TypeOK` is inductive as it stands, because it says for each
  stage what the request has worked out by then (`AtStage`): a spec from `retrieve` on, a run
  from `evidence` on, a final decision while a text is generated, a text when it is audited. It
  is split into what a request's own steps touch (`RequestsOK`) and the rest
  (`EnvironmentOK`); there is a lemma for each way to move on (`ProceedTyped`, `FailTyped`,
  `StartCallTyped`, `LeaveTyped`) and one for each action.
* `AnswersKeepTheirDataset`, `CacheIsSound`, `AnswersHaveEvidence`, `TextsAreGuarded`,
  `HoldingsAreDocumented`: five properties of answers and of the run cache. None is inductive: an
  answer is right because of a decision taken stages before, on a run that another request may
  have cached, under a version that has been replaced since. `EvidenceInv` says what each of
  these must already guarantee. `RunSound(run, spec, v)` is what a run owes to the spec and
  version it is cached under (its rows match both, are not blocked and are documented; without
  rows it is an average, a term, or a relation with links), `FinalSound` what a final decision
  owes, `TextSound` what a text owes; `Standing` demands them of a request from the stage where
  it has them. Lemmas about `AnswerPolicy` (`ConcludedRunSound`, `MergeSound`,
  `FinalRowsSound`, ...) carry one over to the next, and each action preserves the whole.
* `CallsStayWithinBudget`: `BudgetInv` bounds the calls by the stage (`CallsAt`), which grows along
  every path without a call and by one with it.
* `AuditIsTruthful`: `AuditInv` follows the writer of a row, from its commit (`RecordAudit`) to its 200
  or its end with the process, which leaves the row of a request that nobody saw answered. It adds
  that only requests that are done have an answer, so what a row says cannot change after.
* `ServiceImplementsContract`: `Spec => ImplementsContract`. The facts of the contract are rows
  and documents, not relations, which the code does not look up again. `ReadRow` and
  `ReadDocument` are its `Confirm` of one fact that is held at that moment (`ReadRowRefines`, which
  needs `RunSound` for the version of the row); `Finalize` is its `Decide`, whose facts are
  among those confirmed (`FinalizedIsConfirmed`), held still or not; `Respond` is
  `Deliver`; failures, rejected questions and restarts are `Abandon`; the jobs are `Change`;
  all else stutters.

With them every safety property that the runs check of `AnswerService` holds for every value of
the constants.

Of `DatasetLifecycle`, for any jobs and manifests and finitely many labels (a label is a column of
128 characters):

* `TypeCorrect`, `LabelsKeepTheirManifest`, `NeverWithoutActive`. The type is not inductive: a commit
  writes the row of its label with the manifest of its job. `JobsInv` adds what a job at work knows:
  from `load` on its label is not committed and no other job loads it (the unique key), and
  the rows it deactivates are committed. So a commit adds a label and deactivates others
  (`CommitVersions`), and no other step changes a version (`OnlyCommitsChangeVersions`).
* `AtMostOneActive`. `SerialInv`: as long as no two ingests have overlapped there is at most one at
  work, and the rows it deactivates are the ACTIVE ones, all of them, until it commits.
* `ProductsAreKept`. A build deletes the products of its label and derives them again in one
  transaction, so what is committed only grows.
* `JobsImplementCatalog`. `CatalogInv` adds to the above that the history `order` holds each
  committed label once and that its last is the ACTIVE one (`LastActive`), so that a commit makes a
  new version the catalog's active one and sets the old one aside, in one step (`CommitRefines`).
  A derivation that commits is the catalog's build (`DeriveRefines`); all else stutters.

Of `HcxClient`, for any deadline, timeouts, retries, delays, margin and lag:

* `TypeCorrect`, `PostsStayWithinBudget`: `AttemptInv` counts one post per attempt, and allows a
  pause only before an attempt that is left, and only one that is over, late as the loop may be,
  before the deadline.
* `DelaysAreNotWasted`: from the last of these, a pause ends in a post. It needs `Lag <= Margin`, which
  the property says: on a loop that is later than the margin the delay may be wasted.
* `ClientImplementsProviderCall`: the posts and pauses of a call are one wait of `ProviderCall`, and
  what ends it there ends it here.

Of `ServiceProbes`, for any settings, connections and cache time:

* `CallsBesideProbes`. With probes, jobs and the pool beside it a call is still a call of
  `HcxClient` (`ProbesRunCalls`), so what is proved above holds there too.
* `ReadyIsServing`. A check that has passed stays true, because the bootstrap jobs only go forward
  and settings do not change: so the conjunction of checks made at different times holds when the
  last is made, and ever after, however stale the snapshot.

Of `ExternalLibrary`, for any jobs and manifests, given one snapshot at the start:

* `TypeCorrect`, `AlwaysOneSnapshot`. `OneSnapshot` alone is not inductive, because a commit
  replaces what the transaction deleted and a DELETE that waited deletes only what it saw when it
  started. `LibraryInv` says what an owner knows, the job that has deleted the documents: it has
  all of them, so no other job can have any (`OneOwner`); what refers to them it deleted before,
  or PostgreSQL would have refused; and the record of the run it deletes after cannot change,
  since whoever wants to commit needs the documents. Only an owner commits, and it replaces
  everything.

Of `RelationAnswer`, for any number of ingests, and any facts, spellings and questions:

* `OneSnapshotUnderReaders`: a reader's steps leave the library alone.
* `AnswersStandTogether`. `ReaderInv` has for each stage what the reader has found by then. One SELECT
  reads the facts of a clause, so what has been read of it is of one snapshot and about the one entity
  that the statements before have found (`MeansOne`, `ReadSoFar`); this holds for each clause alone
  (`AllStand`), and for whatever part of it the cuts and the merge leave (`PartStands`). `gone` are
  documents of the facts that have not been there at any time since the request began; so they are not
  there now, no look-up finds one, and the rows that have been looked up and kept rest on none of them
  (`LookedUp`).
* `QuietAnswersExact`. `QuietKnows`: while no ingest has committed, there is one manifest m of which
  all that was read is true, stage by stage (`Undisturbed(m)`): who the target is, what is held of
  the clauses before the one at hand (`Before`), and, once concluded, that what is shown is exact
  (`Exact`: `ConcludedExact` goes through merge and cuts). At a commit it stops to claim anything; at
  the end it is the property.

Of `LruCache`, for any keys, values and capacity:

* `TypeCorrect`, `StaysBounded`, `HitsAreCurrent`. `CacheInv` says that each key has one entry
  and each entry the value last put under its key; the lemmas about sequences say what taking
  an entry out and appending one do to that (`LeaveOut`, ...).
* `EvictionIsByRecency`. The code never compares times: `RecencyInv` says that the list is sorted
  by the last touch of its keys, and that every touched key outside was last touched before those inside.
* `ImplementsCache`: the entries of the list, taken as a set, are the partial map of
  `BoundedCache`; the key that `popitem(last=False)` drops is one that it may drop.

Of `Ranking`, for sheets of any number of rows, any plans of the type `Plan` (what validation lets
through) and any holdings:

* `RankingTypeCorrect`, `CandidatesAlwaysKeepEvidence`. `RankInv`: the
  plan, the sheet and the holdings stay what they were (`DataOK`), the products are those
  that the mapper makes of the sheet (`RowsOK`), each batch is what `Query` returns for its family
  (`BatchesOK`), and each later stage what its operator makes of the stages before (`StagesOK`).
  The rest is about the operators: a list that is sorted, filtered, deduplicated and cut has
  no product that it was not given (`OnlyIs`, `ReadOffIs`, `ConcatIs`, ...).
* `BatchesAreTop`, the longest proof. Sorting by counting those before (`Ordered`) lists a set
  exactly and in order if the order is strict and total (`RanksList`), which the comparison of
  sort keys is (ties by place in the sheet). The Pareto frontier, the filters and the cut are
  then compared with what the property says of cells, for which `MapRow` must give each column the
  cell of its own name.
* `FamiliesAlwaysTakeTurns`. `RoundRobinIs` says where the k-th candidate of the i-th family stands;
  a prefix of the merged list ends in some round, and has every earlier round (`TurnsPrefix`).
* `LossesAlwaysOnRecord`. A product that a ranking leaves out for its value has none in that column, or a
  flagged zero; either way the build has recorded an issue of the cell (`GapsAreOnRecord`).

Of `QueryValidation` and `KoreanRules`, for any registry (`RegistryAssumption`), any specs that HCX may
write and questions of any number of phrases:

* `TypeCorrect`, `AcceptedSpecsAlwaysRun`, `RuledSpecsAlwaysRun`. `Handled`: a spec that is being
  compiled has no issue, and a clause without issue compiles and executes in each family
  (`CleanClauseRuns`, `CleanSpecRuns`), dates and columns that the map misnames aside.
* `RefusalsAlwaysHold`. The guards whose words must be refused are among the first ten rules, so
  the first rule that matches is one of those ten (`GuardsTake`); each of them is decided, or looks
  up a name (`GuardsDecide`).
* `RulesAlwaysAskForWhatExists`. Each of the 47 rules is sound (`SoundRule`): its spec is
  decided before it runs, or every clause runs in every family. Shown list by list and
  carried over their concatenation (`ConcatSound`). What the rules need of the registry and of the
  tables is `RuleAssumption` and `ColumnAssumption`, which TLC evaluates on the repository's.
* `MostSpecificAlwaysWins`. Nearly every rule has a word of its own, which no rule further down asks
  for, not even within a longer phrase: `Order` numbers the words so (`RulesRanked`,
  `PhrasesComeFirst`), and a rule further down that asked for all words of this one would need it
  (`NoneMoreSpecific`). The two rules across families share theirs and are told apart by "bond".

The proofs about lists are about functions on 1 .. n: `Only` and `Concat` in `Ranking` are
written without recursion, since the provers have no induction over data.

With them every invariant, every action property and every refinement that a passing run checks
is proved for every value of the constants. Not proved, only model-checked: `EveryRequestEnds`,
`EveryJobEnds`, `EveryIngestEnds`, `EveryCallEnds` and `ReadyAgain`, because liveness under fairness is out of the
provers' reach. The two claims of section 5 are false, and shown to be by TLC.

## 5. Where the code differs from its documents

**claim_final_states.** `docs/api.md:21` names ANSWER, ASK and ABSTAIN as the states of a 200.
An AGGREGATE question whose average was computed, or an EXPLAIN_TERM with documents, has
a PRE_ANSWER without candidates. `_finalize` validates only decisions with candidates and
relations between companies, so this one is passed on, generated, guarded against the
state PRE_ANSWER and delivered. Its fallback text would say ABSTAIN.

**claim_metrics.** `docs/data_policy.md:13` keeps INVALID_FOR_DECISION values out of ranking.
With two sorts without priorities, `ProductRepository.query` first keeps the Pareto frontier of
all rows, then drops rows with flagged zeros. A row whose flagged zero is best in one sort
and ties in the other dominates every row, and is then dropped: the family returns nothing.

Seen while modelling, not stated as properties:

* a field of the registry and of the HCX prompt (`queryspec_system_v1.txt:7`, credit_grade)
  without a curated column passes validation and ends as a 503; `AcceptedSpecsRun` excepts it;
* two dataset ingests that overlap leave two ACTIVE versions (`OneActive` excepts it);
* a filter field that one of two families lacks, or a relationship filter with another
  intent than RELATION_SEARCH, passes validation and ends as a 503;
* a relation question answered by relations between companies keeps SQL candidates that
  have no relation (`app/agent/merger.py:39`);
* relation candidates are listed in the order of a Python set of strings, which differs
  between processes (`app/agent/merger.py:42`);
* evidences and candidates of a relation question are cut to the limit independently, and a product
  that has the relation may be lost with its evidence (`relation_retriever.py:103`). With more holders
  than the limit the two parts can be disjoint; unless SQL names one of the products whose
  evidence is left, the question is an ABSTAIN although relations were found;
* a manifest deployed before its ingestion leaves runs of the old tables cached under its
  hash (`app/api/answer.py:72`); what is delivered is still read back;
* a deadline that passes after the last HCX reply does not stop the 200;
* a process that dies between the commit of the audit row and its 200 leaves the row of a request
  that was never answered (`AuditMatchesAnswers` admits it);
* the audit row always counts one LLM call (`app/evidence/audit.py`, `answer_service.py:210`);
* the text of a date filter is read by PostgreSQL first (`app/query/validator.py:324`), an average of a
  text metric by `Decimal` (`app/data/repositories.py:157`): a 503 if either cannot;
* the guard looks for identifiers in an ANSWER text, not for product names (`app/evidence/answer_guard.py:20`);
* two first requests may both build an executor (`app/api/answer.py:84`), and one's caches are lost.

Of the rules, the mappers and the quality flags:

* `TOP 50` in a question that the last rule takes is a ValidationError out of `parse_query`, a
  503 without HCX (`korean_rule_parser.py:375`; `RulesAskForWhatExists` excepts it);
* `expense_ratio` and `base_index` name columns for ETF_GLOBAL that `ProductEtfGlobal` lacks
  (`column_map.py:43`): an AttributeError, not the ColumnResolutionError that is expected, and a 503;
* a rule answers the part of a question that it has words for: a threshold beside a ranking
  phrase is dropped, and of several product names the leftmost is looked up;
* every bond carries INVALID_FOR_DECISION, because its buyable_quantity always does and a row carries the
  flags of all its metrics: any zero of a bond is dropped from rankings, no zero of an ETF or fund is
  (`docs/data_policy.md:14` speaks of the metric);
* no mapper sets JOIN_CONTAMINATION, the only BLOCK_ANSWER flag; a value with an EXCLUDE_METRIC flag
  other than INVALID_FOR_DECISION still ranks; the `quality_exclusions` of the registry are not read;
* the policy blocks after the list was cut, so a plan that shows more metrics than it sorts by may
  answer with fewer products than there are. No property says so: of plans that show only what
  they sort by, the opposite would follow from the one flag that both rules read.

Of the external library:

* the clauses of one relation question are read one after the other: when an ingest commits between
  two of them, the facts of one are of the old snapshot and those of the other of the new
  (`RunsStandTogether` is about each clause);
* relations are not looked up when evidence is read back, only rows and documents: a relation that a new
  manifest withdraws survives in cached runs while its document stays;
* the trace and the audit row may name another manifest than the facts came from, when an ingest
  commits in between (`QuietAnswersAreExact` is about answers without one);
* a cached answer about companies whose document was withdrawn is a 503 at each repetition,
  until the run is evicted or the process restarted; EXPLAIN_TERM answers are never read back.

Of readiness:

* it is ready when a version is active, built or not; outside the evaluation it is ready with a key
  and unconfirmed credit, while every question for HCX is refused;
* each of three checks may wait for the pool for 30 s, and the loop with it: up to 90 s for all
  requests. Compose asks `/health/live` only (`deploy/docker-compose.yml:32`);
* the warm-up smoke has no deadline and is paid for at every restart;
* migrations commit statement by statement (`alembic/env.py:48`): an upgrade that dies midway cannot
  be repeated.

## 6. Not modelled

The text of products, answers and traces; entity names and the values of filters, which
no control flow depends on beyond what the models keep; the reading of workbooks, source keys and
UIDs, whose outcome is success or failure ahead of a transaction, or a fact about the
delivered files; row counts of the validators, which are constants of that data; the payloads of
HCX and the capability smoke at startup, which runs before anything is served; the Mock
provider, for development; logging; migrations, which run once before everything else; the
evaluation harness, which asks the service from outside and keeps nothing of its state; offline
collection and normalisation of external documents, which turns files into files.

## 7. Plan

1. Done: the service and its policy, both caches, dataset jobs, HCX client, readiness, external
   job and a reader beside it, rules, validation, mappers and ranking; proved are all safety
   properties and all refinements that the runs check.
2. Next to prove: that what `Curation` says of a cell determines the issues of a row in general
   (`LossesAlwaysOnRecord` needs it for rankings only); safety that follows from the refinements,
   stated of the composition (`DatasetCatalog` under `AnswerService`).
3. Next to model, if the code grows that way: two workers, whose caches and loops would no longer be
   one; a cache key made of the ingested manifest.
