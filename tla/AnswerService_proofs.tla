------------------------ MODULE AnswerService_proofs ------------------------
(***************************************************************************)
(* Proofs about AnswerService, for any requests, questions, versions,      *)
(* manifests, cache capacity and pool size.                                *)
(***************************************************************************)
EXTENDS AnswerService, TLAPS

-----------------------------------------------------------------------------
(* The decisions of AnswerPolicy. *)

\* A decision that needs no retrieval is a decision without candidates, and
\* never an ANSWER or a PRE_ANSWER.
LEMMA EarlyDecisionsTyped ==
  ASSUME NEW spec \in QuerySpecs, NEW early \in EarlyDecisions(spec)
  PROVE  early \in Decision /\ early.selected = {} /\ early.state \in {"ASK", "ABSTAIN"}
<1>1. early \in {Decide("ABSTAIN"), Decide("ASK")}
  BY DEF EarlyDecisions
<1> QED
  BY <1>1 DEF Decide, Decision, DecisionStates

\* The preliminary decision is a decision: to abstain, or to answer from the
\* eligible rows or from what is not a row.
LEMMA DecidePreliminaryTyped ==
  ASSUME NEW spec \in QuerySpecs, NEW rows \in SUBSET Row, NEW links,
         NEW documents, NEW aggregate, NEW blocked
  PROVE  DecidePreliminary(spec, rows, links, documents, aggregate, blocked) \in Decision
<1> DEFINE eligible == {row \in rows : row.uid \notin blocked}
<1>1. eligible \in SUBSET Row
  OBVIOUS
<1>2. DecidePreliminary(spec, rows, links, documents, aggregate, blocked)
        \in {Decide("ABSTAIN"), Decide("PRE_ANSWER"),
             [state |-> "PRE_ANSWER", selected |-> eligible]}
  BY DEF DecidePreliminary, Decide
<1> HIDE DEF eligible
<1>3. {Decide("ABSTAIN"), Decide("PRE_ANSWER"),
       [state |-> "PRE_ANSWER", selected |-> eligible]} \subseteq Decision
  BY <1>1 DEF Decide, Decision, DecisionStates
<1> QED
  BY <1>2, <1>3

\* The final decision keeps only rows that were selected and are still valid,
\* and makes a PRE_ANSWER an ANSWER just when some are left.
LEMMA FinalizeDecisionTyped ==
  ASSUME NEW preliminary \in Decision, NEW valid
  PROVE  LET d == FinalizeDecision(preliminary, valid)
         IN  /\ d \in Decision
             /\ preliminary.state = "PRE_ANSWER" =>
                  /\ d.selected = preliminary.selected \cap valid
                  /\ d.state = IF d.selected = {} THEN "ABSTAIN" ELSE "ANSWER"
  BY DEF FinalizeDecision, Decide, Decision, DecisionStates

\* Merging invents no candidate.
LEMMA MergeCandidatesTyped ==
  ASSUME NEW spec, NEW sqlRows, NEW relationRows, NEW links
  PROVE  MergeCandidates(spec, sqlRows, relationRows, links)
           \subseteq sqlRows \cup relationRows
  BY DEF MergeCandidates

-----------------------------------------------------------------------------
(* The two caches. *)

\* Storing an entry leaves nothing in a cache but that entry and older ones.
LEMMA PutsAdds ==
  ASSUME NEW cache, NEW k, NEW v, NEW max, NEW new \in SpecStore!Puts(cache, k, v, max)
  PROVE  new \subseteq cache \cup {[key |-> k, value |-> v]}
  BY DEF SpecStore!Puts, SpecStore!Hits

\* The same for the cache of runs.
LEMMA RunPutsAdds ==
  ASSUME NEW cache, NEW k, NEW v, NEW max, NEW new \in RunStore!Puts(cache, k, v, max)
  PROVE  new \subseteq cache \cup {[key |-> k, value |-> v]}
  BY DEF RunStore!Puts, RunStore!Hits

-----------------------------------------------------------------------------
(* Type correctness.  TypeOK is split by what an action touches: the       *)
(* requests, and everything else.                                          *)

RequestsOK ==
  /\ pc \in [Requests -> Stages]
  /\ question \in [Requests -> Questions \cup {None}]
  /\ work \in [Requests -> Work]
  /\ expired \subseteq Requests
  /\ failure \in [Requests -> Failures \cup {None}]
  /\ answer \in [Requests -> Answer \cup {None}]
  /\ \A r \in Requests : AtStage(pc[r], question[r], work[r])

LEMMA NoWorkTyped == NoWork \in Work
  BY DEF NoWork, Work, NoVersion, NoChecks, Checks

\* A request that takes up a run has read nothing of it back.
LEMMA TakeTyped ==
  ASSUME NEW w \in Work, NEW run
  PROVE  LET t == Take(w, run)
         IN  /\ t.run = run /\ t.spec = w.spec /\ t.version = w.version
             /\ t.checks = NoChecks
             /\ run \in Run => t \in Work
  BY DEF Take, Work, NoChecks, Checks

\* Moving on with typed work keeps every request typed.
LEMMA ProceedTyped ==
  ASSUME RequestsOK, NEW r \in Requests, NEW to \in Stages, NEW w \in Work,
         AtStage(to, question[r], w), Proceed(r, to, w), question' = question
  PROVE  RequestsOK'
<1>1. pc' \in [Requests -> Stages] /\ work' \in [Requests -> Work]
  BY DEF RequestsOK, Proceed
<1>2. ASSUME NEW s \in Requests PROVE AtStage(pc'[s], question'[s], work'[s])
  <2>1. CASE s = r
    BY <2>1 DEF RequestsOK, Proceed
  <2>2. CASE s # r
    BY <2>2 DEF RequestsOK, Proceed
  <2> QED
    BY <2>1, <2>2
<1> QED
  BY <1>1, <1>2 DEF RequestsOK, Proceed

\* A request that leaves stands at no stage that needs anything.
LEMMA LeaveTyped ==
  ASSUME RequestsOK, NEW r \in Requests, Leave(r), question' = question
  PROVE  /\ pc' \in [Requests -> Stages]
         /\ work' \in [Requests -> Work]
         /\ expired' \subseteq Requests
         /\ \A s \in Requests : AtStage(pc'[s], question'[s], work'[s])
<1>1. pc' \in [Requests -> Stages] /\ work' \in [Requests -> Work]
  BY NoWorkTyped DEF RequestsOK, Leave, Stages, Ended
<1>2. ASSUME NEW s \in Requests PROVE AtStage(pc'[s], question'[s], work'[s])
  <2>1. CASE s = r
    BY <2>1 DEF RequestsOK, Leave, AtStage, Running, Awaiting, WithSpec, WithRun, WithFinal
  <2>2. CASE s # r
    BY <2>2 DEF RequestsOK, Leave
  <2> QED
    BY <2>1, <2>2
<1> QED
  BY <1>1, <1>2 DEF RequestsOK, Leave

LEMMA FailTyped ==
  ASSUME RequestsOK, NEW r \in Requests, NEW code \in Failures, Fail(r, code),
         question' = question
  PROVE  RequestsOK'
<1>1. Leave(r)
  BY DEF Fail
<1> QED
  BY <1>1, LeaveTyped DEF RequestsOK, Fail

\* A call to HCX is counted, or refused because the deadline has passed.
LEMMA StartCallTyped ==
  ASSUME RequestsOK, NEW r \in Requests, NEW to \in Stages, NEW w \in Work,
         AtStage(to, question[r], w), StartCall(r, to, w), question' = question
  PROVE  RequestsOK'
<1> DEFINE counted == [w EXCEPT !.calls = @ + 1]
<1>1. counted \in Work /\ AtStage(to, question[r], counted)
  BY DEF Work, AtStage
<1>2. CASE r \in expired
  BY <1>2, FailTyped DEF StartCall, Failures
<1>3. CASE r \notin expired
  BY <1>1, <1>3, ProceedTyped DEF StartCall
<1> QED
  BY <1>2, <1>3

-----------------------------------------------------------------------------
(* Type correctness, action by action. *)

EnvironmentOK ==
  /\ active \in Versions \cup {NoVersion}
  /\ built \subseteq Versions
  /\ library \in Manifests \cup {NoManifest}
  /\ disk \in Manifests \cup {NoManifest}
  /\ specCache \subseteq SpecStore!Entry
  /\ runCache \subseteq RunStore!Entry
  /\ audit \subseteq [qid : QueryIds, by : Requests, state : DecisionStates]

LEMMA TypeOKSplit == TypeOK <=> RequestsOK /\ EnvironmentOK
  BY DEF TypeOK, RequestsOK, EnvironmentOK

\* A step of a request leaves the database alone.
LEMMA StepTyped ==
  ASSUME EnvironmentOK, RequestsOK', UNCHANGED <<database, disk, audit>>,
         specCache' \subseteq SpecStore!Entry, runCache' \subseteq RunStore!Entry
  PROVE  TypeOK'
  BY DEF EnvironmentOK, RequestsOK, TypeOK, database

LEMMA SpecCacheTyped ==
  ASSUME specCache \subseteq SpecStore!Entry, NEW q \in Questions, NEW spec \in QuerySpecs,
         specCache' \in SpecStore!Puts(specCache, q, spec, Capacity)
  PROVE  specCache' \subseteq SpecStore!Entry
<1>1. specCache' \subseteq specCache \cup {[key |-> q, value |-> spec]}
  BY PutsAdds
<1> QED
  BY <1>1 DEF SpecStore!Entry

LEMMA RunCacheTyped ==
  ASSUME runCache \subseteq RunStore!Entry, NEW key \in RunKeys, NEW run \in Run,
         runCache' \in RunStore!Puts(runCache, key, run, Capacity)
  PROVE  runCache' \subseteq RunStore!Entry
<1>1. runCache' \subseteq runCache \cup {[key |-> key, value |-> run]}
  BY RunPutsAdds
<1> QED
  BY <1>1 DEF RunStore!Entry

\* What a request has at hand at its stage.
LEMMA AtHand ==
  ASSUME RequestsOK, NEW r \in Requests
  PROVE  /\ pc[r] \in Stages /\ work[r] \in Work
         /\ pc[r] \in Running \cup Awaiting => question[r] \in Questions
         /\ pc[r] \in WithSpec => work[r].spec \in QuerySpecs
         /\ pc[r] \in WithRun => work[r].run \in Run
         /\ pc[r] \in WithFinal => work[r].final \in Final
         /\ pc[r] \in {"audit", "respond"} => work[r].text \in Text
  BY DEF RequestsOK, AtStage

LEMMA AcceptTyped ==
  ASSUME TypeOK, NEW r \in Requests, NEW q \in Questions, Accept(r, q)
  PROVE  TypeOK'
<1> USE DEF Stages, Running, Awaiting, Ended
<1>1. question' \in [Requests -> Questions \cup {None}]
  BY DEF TypeOK, Accept
<1>2. pc' \in [Requests -> Stages] /\ answer' \in [Requests -> Answer \cup {None}]
  <2>1. CASE q \in Blank
    <3>1. [version |-> NoVersion, spec |-> None,
           final |-> [state |-> "ASK", rows |-> {}, links |-> {}],
           text |-> [prefix |-> "ASK", clean |-> TRUE, mentions |-> {}]] \in Answer
      BY DEF Answer, Final, Text, DecisionStates
    <3> QED
      BY <2>1, <3>1 DEF TypeOK, Accept
  <2>2. CASE q \notin Blank
    BY <2>2 DEF TypeOK, Accept
  <2> QED
    BY <2>1, <2>2
<1>3. ASSUME NEW s \in Requests PROVE AtStage(pc'[s], question'[s], work'[s])
  <2>1. CASE s = r
    BY <2>1 DEF TypeOK, Accept, AtStage, WithSpec, WithRun, WithFinal
  <2>2. CASE s # r
    BY <2>2 DEF TypeOK, Accept
  <2> QED
    BY <2>1, <2>2
<1> QED
  BY <1>1, <1>2, <1>3 DEF TypeOK, Accept, database, caches

\* A spec has been read: it is stored, and the request goes on to retrieval.
LEMMA ReadTyped ==
  ASSUME TypeOK, NEW r \in Requests, NEW w \in Work, question[r] \in Questions,
         NEW spec \in QuerySpecs, Proceed(r, "retrieve", [w EXCEPT !.spec = spec]),
         question' = question
  PROVE  RequestsOK'
<1>1. RequestsOK
  BY TypeOKSplit
<1>2. /\ [w EXCEPT !.spec = spec] \in Work
      /\ AtStage("retrieve", question[r], [w EXCEPT !.spec = spec])
  BY DEF Work, AtStage, WithRun, WithFinal
<1> QED
  BY <1>1, <1>2, ProceedTyped DEF Stages, Running

LEMMA LoadContextTyped ==
  ASSUME TypeOK, NEW r \in Requests, LoadContext(r)
  PROVE  TypeOK'
<1> DEFINE w == [NoWork EXCEPT !.version = active, !.manifest = disk]
<1>0. RequestsOK /\ EnvironmentOK /\ question' = question
  BY TypeOKSplit DEF LoadContext
<1>1. w \in Work /\ question[r] \in Questions
  BY <1>0, AtHand, NoWorkTyped DEF EnvironmentOK, Work, LoadContext, Running
<1> HIDE DEF w
<1>2. CASE active = NoVersion /\ Fail(r, "CONTEXT") /\ UNCHANGED specCache
  <2>1. RequestsOK'
    BY <1>0, <1>2, FailTyped DEF Failures
  <2> QED
    BY <1>0, <1>2, <2>1, StepTyped DEF EnvironmentOK, LoadContext
<1>3. CASE /\ \E e \in SpecStore!Hits(specCache, question[r]) :
                Proceed(r, "retrieve", [w EXCEPT !.spec = e.value])
           /\ UNCHANGED specCache
  <2>1. PICK e \in SpecStore!Hits(specCache, question[r]) :
                Proceed(r, "retrieve", [w EXCEPT !.spec = e.value])
    BY <1>3
  <2>2. e.value \in QuerySpecs
    BY <1>0 DEF EnvironmentOK, SpecStore!Hits, SpecStore!Entry
  <2>3. RequestsOK'
    BY <1>0, <1>1, <2>1, <2>2, ReadTyped
  <2> QED
    BY <1>0, <1>3, <2>3, StepTyped DEF EnvironmentOK, LoadContext
<1>4. CASE ReadQuestion(r, w)
  <2>1. CASE /\ question[r] \in Ruled
             /\ \E spec \in Parse[question[r]] :
                  /\ Proceed(r, "retrieve", [w EXCEPT !.spec = spec])
                  /\ specCache' \in SpecStore!Puts(specCache, question[r], spec, Capacity)
    <3>1. PICK spec \in Parse[question[r]] :
            /\ Proceed(r, "retrieve", [w EXCEPT !.spec = spec])
            /\ specCache' \in SpecStore!Puts(specCache, question[r], spec, Capacity)
      BY <2>1
    <3>2. spec \in QuerySpecs
      BY <1>1, RequestAssumption
    <3>3. RequestsOK'
      BY <1>0, <1>1, <3>1, <3>2, ReadTyped
    <3>4. specCache' \subseteq SpecStore!Entry
      BY <1>0, <1>1, <3>1, <3>2, SpecCacheTyped DEF EnvironmentOK
    <3> QED
      BY <1>0, <3>3, <3>4, StepTyped DEF EnvironmentOK, LoadContext
  <2>2. CASE StartCall(r, "parse", w) /\ UNCHANGED specCache
    <3>1. AtStage("parse", question[r], w) /\ "parse" \in Stages
      BY <1>1 DEF AtStage, WithSpec, WithRun, WithFinal, Stages, Awaiting
    <3>2. RequestsOK'
      BY <1>0, <1>1, <2>2, <3>1, StartCallTyped
    <3> QED
      BY <1>0, <2>2, <3>2, StepTyped DEF EnvironmentOK, LoadContext
  <2> QED
    BY <1>4, <2>1, <2>2 DEF ReadQuestion
<1> QED
  BY <1>2, <1>3, <1>4 DEF LoadContext, w

LEMMA ParseReplyTyped ==
  ASSUME TypeOK, NEW r \in Requests, ParseReply(r)
  PROVE  TypeOK'
<1>0. RequestsOK /\ EnvironmentOK /\ question' = question
  BY TypeOKSplit DEF ParseReply
<1>1. work[r] \in Work /\ question[r] \in Questions
  BY <1>0, AtHand DEF ParseReply, Awaiting
<1>2. CASE \E spec \in Parse[question[r]] :
             /\ Proceed(r, "retrieve", [work[r] EXCEPT !.spec = spec])
             /\ specCache' \in SpecStore!Puts(specCache, question[r], spec, Capacity)
  <2>1. PICK spec \in Parse[question[r]] :
          /\ Proceed(r, "retrieve", [work[r] EXCEPT !.spec = spec])
          /\ specCache' \in SpecStore!Puts(specCache, question[r], spec, Capacity)
    BY <1>2
  <2>2. spec \in QuerySpecs
    BY <1>1, RequestAssumption
  <2>3. RequestsOK'
    BY <1>0, <1>1, <2>1, <2>2, ReadTyped
  <2>4. specCache' \subseteq SpecStore!Entry
    BY <1>0, <1>1, <2>1, <2>2, SpecCacheTyped DEF EnvironmentOK
  <2> QED
    BY <1>0, <2>3, <2>4, StepTyped DEF EnvironmentOK, ParseReply
<1>3. CASE StartCall(r, "correct", work[r]) /\ UNCHANGED specCache
  <2>1. AtStage("correct", question[r], work[r]) /\ "correct" \in Stages
    BY <1>1 DEF AtStage, WithSpec, WithRun, WithFinal, Stages, Awaiting
  <2>2. RequestsOK'
    BY <1>0, <1>1, <1>3, <2>1, StartCallTyped
  <2> QED
    BY <1>0, <1>3, <2>2, StepTyped DEF EnvironmentOK, ParseReply
<1>4. CASE Fail(r, "HCX") /\ UNCHANGED specCache
  <2>1. RequestsOK'
    BY <1>0, <1>4, FailTyped DEF Failures
  <2> QED
    BY <1>0, <1>4, <2>1, StepTyped DEF EnvironmentOK, ParseReply
<1> QED
  BY <1>2, <1>3, <1>4 DEF ParseReply

\* A run is stored under a key of the request that has it now.
LEMMA StoreTyped ==
  ASSUME TypeOK, NEW r \in Requests, pc[r] \in WithSpec, NEW run \in Run, Store(r, run),
         UNCHANGED <<database, disk, question, specCache, audit>>
  PROVE  TypeOK'
<1> DEFINE w == Take(work[r], run)
<1>0. RequestsOK /\ EnvironmentOK
  BY TypeOKSplit
<1>1. work[r] \in Work /\ work[r].spec \in QuerySpecs /\ question[r] \in Questions
  BY <1>0, AtHand DEF WithSpec, Running, Awaiting
<1>2. w \in Work /\ AtStage("evidence", question[r], w)
  <2>1. w \in Work /\ w.run = run /\ w.spec = work[r].spec
    BY <1>1, TakeTyped
  <2> HIDE DEF w
  <2> QED
    BY <1>1, <2>1 DEF AtStage, WithSpec, WithRun, WithFinal
<1>3. RunKey(work[r]) \in RunKeys
  BY <1>1 DEF RunKey, RunKeys, Work
<1>4. RequestsOK'
  BY <1>0, <1>2, ProceedTyped DEF Store, Stages, Running
<1>5. runCache' \subseteq RunStore!Entry
  BY <1>0, <1>3, RunCacheTyped DEF Store, EnvironmentOK
<1> QED
  BY <1>0, <1>4, <1>5, StepTyped DEF EnvironmentOK

LEMMA RetrieveTyped ==
  ASSUME TypeOK, NEW r \in Requests, Retrieve(r)
  PROVE  TypeOK'
<1>0. RequestsOK /\ EnvironmentOK
  BY TypeOKSplit
<1>1. work[r] \in Work /\ work[r].spec \in QuerySpecs /\ question[r] \in Questions
  BY <1>0, AtHand DEF Retrieve, WithSpec, Running
<1>2. CASE /\ \E e \in RunStore!Hits(runCache, RunKey(work[r])) :
                Proceed(r, "evidence", Take(work[r], e.value))
           /\ UNCHANGED runCache
  <2>1. PICK e \in RunStore!Hits(runCache, RunKey(work[r])) :
                Proceed(r, "evidence", Take(work[r], e.value))
    BY <1>2
  <2>2. e.value \in Run
    BY <1>0 DEF EnvironmentOK, RunStore!Hits, RunStore!Entry
  <2> DEFINE w == Take(work[r], e.value)
  <2>3. w \in Work /\ AtStage("evidence", question[r], w)
    <3>1. w \in Work /\ w.run = e.value /\ w.spec = work[r].spec
      BY <1>1, <2>2, TakeTyped
    <3> HIDE DEF w
    <3> QED
      BY <1>1, <2>2, <3>1 DEF AtStage, WithSpec, WithRun, WithFinal
  <2>4. RequestsOK'
    BY <1>0, <2>1, <2>3, ProceedTyped DEF Retrieve, Stages, Running
  <2> QED
    BY <1>0, <1>2, <2>4, StepTyped DEF EnvironmentOK, Retrieve
<1>3. CASE \E early \in EarlyDecisions(work[r].spec) :
             Store(r, [qid |-> work[r].spec, planned |-> FALSE,
                       preliminary |-> early, links |-> {}])
  <2>1. PICK early \in EarlyDecisions(work[r].spec) :
             Store(r, [qid |-> work[r].spec, planned |-> FALSE,
                       preliminary |-> early, links |-> {}])
    BY <1>3
  <2>2. [qid |-> work[r].spec, planned |-> FALSE, preliminary |-> early, links |-> {}]
          \in Run
    BY <1>1, EarlyDecisionsTyped DEF Run, QueryIds
  <2> QED
    BY <2>1, <2>2, StoreTyped DEF Retrieve, WithSpec
<1>4. CASE /\ Proceed(r, IF "SQL" \in SelectRetrievers(work[r].spec)
                           THEN "sql" ELSE "document", work[r])
           /\ UNCHANGED runCache
  <2> DEFINE to == IF "SQL" \in SelectRetrievers(work[r].spec) THEN "sql" ELSE "document"
  <2>1. to \in Stages /\ AtStage(to, question[r], work[r])
    BY <1>1 DEF AtStage, WithSpec, WithRun, WithFinal, Stages, Running
  <2>2. RequestsOK'
    BY <1>0, <1>1, <1>4, <2>1, ProceedTyped DEF Retrieve
  <2> QED
    BY <1>0, <1>4, <2>2, StepTyped DEF EnvironmentOK, Retrieve
<1> QED
  BY <1>2, <1>3, <1>4 DEF Retrieve

\* What a planned run concludes is a run, whatever rows and links were found.
LEMMA ConcludeTyped ==
  ASSUME TypeOK, NEW r \in Requests, pc[r] \in WithSpec, NEW rows \in SUBSET Row,
         NEW links \in SUBSET Link, NEW documents \in BOOLEAN, NEW aggregate \in BOOLEAN,
         Conclude(r, rows, links, documents, aggregate),
         UNCHANGED <<database, disk, question, specCache, audit>>
  PROVE  TypeOK'
<1> DEFINE D(spec) == DecidePreliminary(spec, rows, links, documents, aggregate, LowQuality)
           run == [qid |-> r, planned |-> TRUE, links |-> links,
                   preliminary |-> D(work[r].spec)]
<1>1. work[r].spec \in QuerySpecs
  BY TypeOKSplit, AtHand
<1>2. \A spec \in QuerySpecs : D(spec) \in Decision
  BY DecidePreliminaryTyped
<1>3. D(work[r].spec) \in Decision
  <2> HIDE DEF D
  <2> QED
    BY <1>1, <1>2
<1>4. run \in Run
  BY <1>3 DEF Run, QueryIds
<1>5. Store(r, run)
  BY DEF Conclude
<1> QED
  BY <1>4, <1>5, StoreTyped

LEMMA SelectedTyped ==
  ASSUME TypeOK, NEW w \in Work
  PROVE  Selected(w) \subseteq Row
<1>1. built \subseteq Versions
  BY DEF TypeOK
<1>2. ASSUME NEW v \in Versions, NEW u \in Curated[v]
      PROVE  [uid |-> u, version |-> v] \in Row
  <2>1. Curated[v] \in SUBSET Uids
    BY DataAssumption
  <2> QED
    BY <2>1 DEF Row
<1> QED
  BY <1>1, <1>2 DEF Selected, CuratedRows

LEMMA LibraryTyped ==
  ASSUME TypeOK
  PROVE  Library \subseteq Link
  BY DataAssumption DEF TypeOK, Library

LEMMA RunSqlTyped ==
  ASSUME TypeOK, NEW r \in Requests, RunSql(r)
  PROVE  TypeOK'
<1> DEFINE rows == Selected(work[r])
<1>0. RequestsOK /\ EnvironmentOK
  BY TypeOKSplit
<1>1. work[r] \in Work /\ work[r].spec \in QuerySpecs /\ question[r] \in Questions
  BY <1>0, AtHand DEF RunSql, WithSpec, Running
<1>2. rows \in SUBSET Row
  BY <1>1, SelectedTyped
<1> HIDE DEF rows
<1>3. CASE Fail(r, "RETRIEVER") /\ UNCHANGED runCache
  <2>1. RequestsOK'
    BY <1>0, <1>3, FailTyped DEF Failures, RunSql
  <2> QED
    BY <1>0, <1>3, <2>1, StepTyped DEF EnvironmentOK, RunSql
<1>4. CASE Proceed(r, "relate", [work[r] EXCEPT !.found = rows]) /\ UNCHANGED runCache
  <2> DEFINE w == [work[r] EXCEPT !.found = rows]
  <2>1. w \in Work /\ AtStage("relate", question[r], w)
    BY <1>1, <1>2 DEF Work, AtStage, WithSpec, WithRun, WithFinal
  <2>2. RequestsOK'
    BY <1>0, <1>4, <2>1, ProceedTyped DEF Stages, Running, RunSql
  <2> QED
    BY <1>0, <1>4, <2>2, StepTyped DEF EnvironmentOK, RunSql
<1>5. CASE \E aggregate \in BOOLEAN : Conclude(r, rows, {}, FALSE, aggregate)
  BY <1>2, <1>5, ConcludeTyped DEF RunSql, WithSpec
<1> QED
  BY <1>3, <1>4, <1>5 DEF RunSql, rows

LEMMA RunRelationTyped ==
  ASSUME TypeOK, NEW r \in Requests, RunRelation(r)
  PROVE  TypeOK'
<1>0. RequestsOK /\ EnvironmentOK
  BY TypeOKSplit
<1>1. work[r] \in Work /\ Library \subseteq Link
  BY <1>0, AtHand, LibraryTyped
<1>2. CASE Fail(r, "RETRIEVER") /\ UNCHANGED runCache
  <2>1. RequestsOK'
    BY <1>0, <1>2, FailTyped DEF Failures, RunRelation
  <2> QED
    BY <1>0, <1>2, <2>1, StepTyped DEF EnvironmentOK, RunRelation
<1>3. CASE \E rows \in SUBSET Selected(work[r]), kept \in SUBSET Library :
             Conclude(r, MergeCandidates(work[r].spec, work[r].found, rows, kept),
                      kept, FALSE, FALSE)
  <2>1. PICK rows \in SUBSET Selected(work[r]), kept \in SUBSET Library :
             Conclude(r, MergeCandidates(work[r].spec, work[r].found, rows, kept),
                      kept, FALSE, FALSE)
    BY <1>3
  <2>2. rows \subseteq Row /\ work[r].found \subseteq Row
    BY <1>1, SelectedTyped DEF Work
  <2>3. MergeCandidates(work[r].spec, work[r].found, rows, kept) \in SUBSET Row
    BY <2>2, MergeCandidatesTyped
  <2> QED
    BY <1>1, <2>1, <2>3, ConcludeTyped DEF RunRelation, WithSpec
<1>4. RelatedLinks(work[r].spec) \subseteq Library
  BY DEF RelatedLinks
<1> QED
  BY <1>2, <1>3, <1>4 DEF RunRelation

LEMMA RunDocumentTyped ==
  ASSUME TypeOK, NEW r \in Requests, RunDocument(r)
  PROVE  TypeOK'
<1> DEFINE found == Documents # {} /\ (work[r].spec.entities \/ work[r].spec.relations # {})
<1>1. found \in BOOLEAN
  OBVIOUS
<1>2. Conclude(r, {}, {}, found, FALSE)
  BY DEF RunDocument
<1> QED
  BY <1>1, <1>2, ConcludeTyped DEF RunDocument, WithSpec

\* A step of the read-back notes what it has found, and nothing else.
LEMMA CheckTyped ==
  ASSUME TypeOK, NEW r \in Requests, pc[r] = "evidence", NEW checks \in Checks,
         Proceed(r, "evidence", [work[r] EXCEPT !.checks = checks]),
         UNCHANGED <<database, disk, question, caches, audit>>
  PROVE  TypeOK'
<1> DEFINE w == [work[r] EXCEPT !.checks = checks]
<1>0. RequestsOK /\ EnvironmentOK
  BY TypeOKSplit
<1>1. /\ work[r] \in Work /\ work[r].spec \in QuerySpecs /\ work[r].run \in Run
      /\ question[r] \in Questions
  BY <1>0, AtHand DEF WithSpec, WithRun, Running
<1>2. w \in Work /\ AtStage("evidence", question[r], w)
  BY <1>1 DEF Work, AtStage, WithFinal
<1>3. RequestsOK'
  BY <1>0, <1>2, ProceedTyped DEF Stages, Running
<1> QED
  BY <1>0, <1>3, StepTyped DEF EnvironmentOK, caches

\* What there is to read back, and what a read notes.
LEMMA ChecksAtHand ==
  ASSUME TypeOK, NEW r \in Requests, pc[r] = "evidence"
  PROVE  /\ work[r].checks \in Checks /\ work[r].run \in Run
         /\ Unread(work[r]) \subseteq Row /\ Kept(work[r]) \subseteq Row
         /\ Due(work[r]) \subseteq Link
<1>1. work[r] \in Work /\ work[r].run \in Run
  BY TypeOKSplit, AtHand DEF WithRun
<1>2. work[r].checks \in Checks
  BY <1>1 DEF Work
<1>3. work[r].run.preliminary \in Decision /\ work[r].run.links \subseteq Link
  BY <1>1 DEF Run
<1> QED
  BY <1>1, <1>2, <1>3 DEF Unread, Kept, Due, LinksOf, Checks, Decision

\* A SELECT of the read-back changes what is noted, or ends the request.
LEMMA ReadBackProceeds ==
  ASSUME TypeOK, NEW r \in Requests, ReadRow(r) \/ ReadDocument(r)
  PROVE  \/ \E x : Proceed(r, "evidence", [work[r] EXCEPT !.checks = x])
         \/ Fail(r, "EVIDENCE")
<1> DEFINE c == work[r].checks
<1>1. work[r] \in Work
  BY DEF TypeOK
<1>2. \A s : /\ [work[r] EXCEPT !.checks.rows = @ \cup s]
                = [work[r] EXCEPT !.checks = [c EXCEPT !.rows = @ \cup s]]
             /\ [work[r] EXCEPT !.checks.links = @ \cup s]
                = [work[r] EXCEPT !.checks = [c EXCEPT !.links = @ \cup s]]
             /\ [work[r] EXCEPT !.checks.dropped = @ \cup s]
                = [work[r] EXCEPT !.checks = [c EXCEPT !.dropped = @ \cup s]]
  BY <1>1 DEF Work
<1> HIDE DEF c
<1>3. \/ \E s : Proceed(r, "evidence", [work[r] EXCEPT !.checks.rows = @ \cup s])
      \/ \E s : Proceed(r, "evidence", [work[r] EXCEPT !.checks.links = @ \cup s])
      \/ \E s : Proceed(r, "evidence", [work[r] EXCEPT !.checks.dropped = @ \cup s])
      \/ Fail(r, "EVIDENCE")
  BY DEF ReadRow, ReadDocument
<1> QED
  BY <1>2, <1>3

LEMMA ReadRowTyped ==
  ASSUME TypeOK, NEW r \in Requests, ReadRow(r)
  PROVE  TypeOK'
<1> DEFINE c == work[r].checks
<1>1. /\ pc[r] = "evidence" /\ work[r] \in Work
      /\ UNCHANGED <<database, disk, question, caches, audit>>
  BY TypeOKSplit, AtHand DEF ReadRow
<1>2. c \in Checks /\ Unread(work[r]) \subseteq Row
  BY <1>1, ChecksAtHand
<1>3. PICK row \in Unread(work[r]) :
        \/ Proceed(r, "evidence", [work[r] EXCEPT !.checks.rows = @ \cup {row}])
        \/ Proceed(r, "evidence", [work[r] EXCEPT !.checks.dropped = @ \cup {row}])
  BY DEF ReadRow
<1>4. /\ [c EXCEPT !.rows = @ \cup {row}] \in Checks
      /\ [c EXCEPT !.dropped = @ \cup {row}] \in Checks
  BY <1>2 DEF Checks
<1>5. /\ [work[r] EXCEPT !.checks.rows = @ \cup {row}]
           = [work[r] EXCEPT !.checks = [c EXCEPT !.rows = @ \cup {row}]]
      /\ [work[r] EXCEPT !.checks.dropped = @ \cup {row}]
           = [work[r] EXCEPT !.checks = [c EXCEPT !.dropped = @ \cup {row}]]
  BY <1>1 DEF Work
<1> HIDE DEF c
<1> QED
  BY <1>1, <1>3, <1>4, <1>5, CheckTyped

LEMMA ReadDocumentTyped ==
  ASSUME TypeOK, NEW r \in Requests, ReadDocument(r)
  PROVE  TypeOK'
<1> DEFINE c == work[r].checks
           of(l) == {row \in Kept(work[r]) : row.uid = l.product}
<1>1. /\ pc[r] = "evidence" /\ work[r] \in Work
      /\ UNCHANGED <<database, disk, question, caches, audit>>
  BY TypeOKSplit, AtHand DEF ReadDocument
<1>2. c \in Checks /\ Due(work[r]) \subseteq Link /\ Kept(work[r]) \subseteq Row
  BY <1>1, ChecksAtHand
<1>3. PICK l \in Due(work[r]) :
        \/ Proceed(r, "evidence", [work[r] EXCEPT !.checks.links = @ \cup {l}])
        \/ Proceed(r, "evidence", [work[r] EXCEPT !.checks.dropped = @ \cup of(l)])
        \/ Fail(r, "EVIDENCE")
  BY DEF ReadDocument
<1>4. /\ [c EXCEPT !.links = @ \cup {l}] \in Checks
      /\ [c EXCEPT !.dropped = @ \cup of(l)] \in Checks
  BY <1>2 DEF Checks
<1>5. /\ [work[r] EXCEPT !.checks.links = @ \cup {l}]
           = [work[r] EXCEPT !.checks = [c EXCEPT !.links = @ \cup {l}]]
      /\ [work[r] EXCEPT !.checks.dropped = @ \cup of(l)]
           = [work[r] EXCEPT !.checks = [c EXCEPT !.dropped = @ \cup of(l)]]
  BY <1>1 DEF Work
<1>6. CASE Fail(r, "EVIDENCE")
  <2>1. RequestsOK /\ EnvironmentOK
    BY TypeOKSplit
  <2>2. RequestsOK'
    BY <1>1, <1>6, <2>1, FailTyped DEF Failures
  <2> QED
    BY <1>1, <2>1, <2>2, StepTyped DEF EnvironmentOK, caches
<1> HIDE DEF c, of
<1> QED
  BY <1>1, <1>3, <1>4, <1>5, <1>6, CheckTyped

\* The final decision is one, whatever was read back.
LEMMA FinalizedTyped ==
  ASSUME NEW w \in Work, w.run \in Run
  PROVE  Finalized(w) \in Final
<1> DEFINE d == FinalizeDecision(w.run.preliminary, Kept(w))
<1>1. w.run.preliminary \in Decision /\ w.run.links \subseteq Link
  BY DEF Run
<1>2. d \in Decision
  BY <1>1, FinalizeDecisionTyped
<1> HIDE DEF d
<1>3. LinksOf(d.selected, w.run.links) \subseteq Link
  BY <1>1 DEF LinksOf
<1>4. [state |-> d.state, rows |-> d.selected,
       links |-> LinksOf(d.selected, w.run.links)] \in Final
  BY <1>2, <1>3 DEF Final, Decision
<1>5. [state |-> "ANSWER", rows |-> {}, links |-> w.run.links] \in Final
  BY <1>1 DEF Final, DecisionStates
<1>6. [state |-> w.run.preliminary.state, rows |-> {}, links |-> {}] \in Final
  BY <1>1 DEF Final, Decision
<1> QED
  BY <1>4, <1>5, <1>6 DEF Finalized, d

LEMMA FinalizeTyped ==
  ASSUME TypeOK, NEW r \in Requests, Finalize(r)
  PROVE  TypeOK'
<1> DEFINE final == Finalized(work[r])
           w == [work[r] EXCEPT !.final = final, !.checks = NoChecks]
<1>0. RequestsOK /\ EnvironmentOK
  BY TypeOKSplit
<1>1. /\ work[r] \in Work /\ work[r].spec \in QuerySpecs /\ work[r].run \in Run
      /\ question[r] \in Questions
  BY <1>0, AtHand DEF Finalize, WithSpec, WithRun, Running
<1>2. final \in Final
  BY <1>1, FinalizedTyped
<1>3. StartCall(r, "generate", w) /\ question' = question
  BY DEF Finalize
<1> HIDE DEF final
<1>4. w \in Work /\ AtStage("generate", question[r], w)
  BY <1>1, <1>2 DEF Work, AtStage, NoChecks, Checks
<1> HIDE DEF w
<1>5. RequestsOK'
  BY <1>0, <1>3, <1>4, StartCallTyped DEF Stages, Awaiting
<1> QED
  BY <1>0, <1>5, StepTyped DEF EnvironmentOK, caches, Finalize

LEMMA FallbackTyped ==
  ASSUME NEW final \in Final
  PROVE  Fallback(final) \in Text
  BY DEF Fallback, Text, DecisionStates

LEMMA AnswerReplyTyped ==
  ASSUME TypeOK, NEW r \in Requests, NEW text \in Text, AnswerReply(r, text)
  PROVE  TypeOK'
<1>0. RequestsOK /\ EnvironmentOK
  BY TypeOKSplit
<1>1. /\ work[r] \in Work /\ work[r].spec \in QuerySpecs /\ work[r].run \in Run
      /\ work[r].final \in Final /\ question[r] \in Questions
  BY <1>0, AtHand DEF AnswerReply, WithSpec, WithRun, WithFinal, Awaiting
<1>2. CASE \E t \in Text : Proceed(r, "audit", [work[r] EXCEPT !.text = t])
  <2>1. PICK t \in Text : Proceed(r, "audit", [work[r] EXCEPT !.text = t])
    BY <1>2
  <2> DEFINE w == [work[r] EXCEPT !.text = t]
  <2>2. w \in Work /\ AtStage("audit", question[r], w)
    BY <1>1 DEF Work, AtStage
  <2>3. RequestsOK'
    BY <1>0, <2>1, <2>2, ProceedTyped DEF Stages, Running, AnswerReply
  <2> QED
    BY <1>0, <2>3, StepTyped DEF EnvironmentOK, caches, AnswerReply
<1>3. CASE StartCall(r, "regenerate", work[r])
  <2>1. AtStage("regenerate", question[r], work[r])
    BY <1>1 DEF AtStage
  <2>2. RequestsOK'
    BY <1>0, <1>1, <1>3, <2>1, StartCallTyped DEF Stages, Awaiting, AnswerReply
  <2> QED
    BY <1>0, <2>2, StepTyped DEF EnvironmentOK, caches, AnswerReply
<1>4. Fallback(work[r].final) \in Text
  BY <1>1, FallbackTyped
<1> QED
  BY <1>2, <1>3, <1>4 DEF AnswerReply

LEMMA RecordAuditTyped ==
  ASSUME TypeOK, NEW r \in Requests, RecordAudit(r)
  PROVE  TypeOK'
<1>0. RequestsOK /\ EnvironmentOK
  BY TypeOKSplit
<1>1. /\ work[r] \in Work /\ work[r].spec \in QuerySpecs /\ work[r].run \in Run
      /\ work[r].final \in Final /\ work[r].text \in Text /\ question[r] \in Questions
  BY <1>0, AtHand DEF RecordAudit, WithSpec, WithRun, WithFinal, Running
<1>2. AtStage("respond", question[r], work[r])
  BY <1>1 DEF AtStage
<1>3. RequestsOK'
  BY <1>0, <1>1, <1>2, ProceedTyped DEF Stages, Running, RecordAudit
<1>4. [qid |-> work[r].run.qid, by |-> r, state |-> work[r].final.state]
        \in [qid : QueryIds, by : Requests, state : DecisionStates]
  BY <1>1 DEF Run, Final
<1>5. audit' \subseteq [qid : QueryIds, by : Requests, state : DecisionStates]
  BY <1>0, <1>4 DEF EnvironmentOK, WriteAudit, RecordAudit
<1> QED
  BY <1>0, <1>3, <1>5 DEF EnvironmentOK, RequestsOK, TypeOK, RecordAudit, database, caches

LEMMA RespondTyped ==
  ASSUME TypeOK, NEW r \in Requests, Respond(r)
  PROVE  TypeOK'
<1> DEFINE given == [version |-> work[r].version, spec |-> work[r].spec,
                     final |-> work[r].final, text |-> work[r].text]
<1>0. RequestsOK /\ EnvironmentOK
  BY TypeOKSplit
<1>1. /\ work[r] \in Work /\ work[r].spec \in QuerySpecs
      /\ work[r].final \in Final /\ work[r].text \in Text
  BY <1>0, AtHand DEF Respond, WithSpec, WithFinal
<1>2. given \in Answer
  BY <1>1 DEF Answer, Work, QuerySpecs
<1>3. answer' \in [Requests -> Answer \cup {None}]
  BY <1>0, <1>2 DEF RequestsOK, Respond
<1>4. RequestsOK'
  BY <1>0, <1>3, LeaveTyped DEF RequestsOK, Respond
<1> QED
  BY <1>0, <1>4 DEF EnvironmentOK, RequestsOK, TypeOK, Respond, database, caches

\* A step that only makes a request fail, whatever the reason.
LEMMA FailureTyped ==
  ASSUME TypeOK, NEW r \in Requests, NEW code \in Failures, Fail(r, code),
         UNCHANGED <<database, disk, question, caches, audit>>
  PROVE  TypeOK'
<1>1. RequestsOK /\ EnvironmentOK
  BY TypeOKSplit
<1>2. RequestsOK'
  BY <1>1, FailTyped
<1> QED
  BY <1>1, <1>2, StepTyped DEF EnvironmentOK, caches

\* Every step a request takes keeps the type.
LEMMA ServeTyped ==
  ASSUME TypeOK, NEW r \in Requests, Serve(r)
  PROVE  TypeOK'
<1>1. CASE \E q \in Questions : Accept(r, q)
  BY <1>1, AcceptTyped
<1>2. CASE Continue(r)
  <2>1. CASE PoolTimeout(r)
    BY <2>1, FailureTyped DEF PoolTimeout, Failures
  <2> QED
    BY <1>2, <2>1, LoadContextTyped, RetrieveTyped, RunSqlTyped, RunRelationTyped,
       RunDocumentTyped, ReadRowTyped, ReadDocumentTyped, FinalizeTyped, RecordAuditTyped,
       RespondTyped DEF Continue
<1>3. CASE ParseReply(r)
  BY <1>3, ParseReplyTyped
<1>4. CASE \E text \in Text : AnswerReply(r, text)
  BY <1>4, AnswerReplyTyped
<1>5. CASE Expire(r)
  BY <1>5 DEF Expire, TypeOK, database, caches
<1>6. CASE Timeout(r)
  BY <1>6, FailureTyped DEF Timeout, Failures
<1>7. CASE DatabaseFails(r)
  BY <1>7, FailureTyped DEF DatabaseFails, Failures
<1>8. CASE ProviderFails(r)
  BY <1>8, FailureTyped DEF ProviderFails, Failures
<1> QED
  BY <1>1, <1>2, <1>3, <1>4, <1>5, <1>6, <1>7, <1>8 DEF Serve

\* So does every command line job, and a restart.
LEMMA OperateTyped ==
  ASSUME TypeOK, Operate
  PROVE  TypeOK'
<1>1. ASSUME NEW v \in Versions, Activate(v) PROVE TypeOK'
  BY <1>1 DEF Activate, Datasets!Activate, TypeOK, caches
<1>2. ASSUME NEW v \in Versions, BuildCurated(v) PROVE TypeOK'
  BY <1>2 DEF BuildCurated, Datasets!BuildCurated, TypeOK, caches
<1>3. ASSUME NEW m \in Manifests, IngestExternal(m) PROVE TypeOK'
  BY <1>3 DEF IngestExternal, TypeOK, caches
<1>4. ASSUME NEW m \in Manifests \cup {NoManifest}, Restart(m) PROVE TypeOK'
  <2>1. pc' \in [Requests -> Stages] /\ work' \in [Requests -> Work]
    BY <1>4, NoWorkTyped DEF Restart, TypeOK, Stages, Ended
  <2>2. ASSUME NEW s \in Requests PROVE AtStage(pc'[s], question'[s], work'[s])
    <3>1. pc'[s] \in {"new", "done", "lost"}
      BY <1>4 DEF Restart, TypeOK, InFlight, Stages, Ended
    <3> QED
      BY <3>1 DEF AtStage, Running, Awaiting, WithSpec, WithRun, WithFinal
  <2> QED
    BY <1>4, <2>1, <2>2 DEF Restart, TypeOK, database
<1> QED
  BY <1>1, <1>2, <1>3, <1>4 DEF Operate

LEMMA InitTyped == Init => TypeOK
<1> SUFFICES ASSUME Init PROVE TypeOK
  OBVIOUS
<1>1. ASSUME NEW s \in Requests PROVE AtStage(pc[s], question[s], work[s])
  BY DEF Init, AtStage, Running, Awaiting, WithSpec, WithRun, WithFinal
<1> QED
  BY <1>1, NoWorkTyped DEF Init, TypeOK, NoVersion, Stages

\* Whatever the requests, the questions and the jobs, every variable keeps its
\* type, and no stage of a request reads what the request has not worked out:
\* none retrieves without a spec, finalizes without a run, asks for a text
\* without a decision or responds without a text.
THEOREM TypeCorrect == Spec => []TypeOK
<1>1. Init => TypeOK
  BY InitTyped
<1>2. TypeOK /\ [Next]_vars => TypeOK'
  <2> SUFFICES ASSUME TypeOK, [Next]_vars PROVE TypeOK'
    OBVIOUS
  <2>1. CASE Next
    BY <2>1, ServeTyped, OperateTyped DEF Next
  <2>2. CASE UNCHANGED vars
    BY <2>2 DEF vars, TypeOK, database
  <2> QED
    BY <2>1, <2>2
<1> QED
  BY <1>1, <1>2, PTL DEF Spec
=============================================================================
