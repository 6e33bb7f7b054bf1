---------------------------- MODULE ServiceProbes ----------------------------
(***************************************************************************)
(* GET /health/ready beside a request that waits for HCX: ReadinessService *)
(* with its snapshot, which is served until it is readiness_cache_seconds  *)
(* old, and the checks that make a new one.  The checks are synchronous: a *)
(* probe keeps the event loop from its first check to its last, waiting    *)
(* for a pooled connection included, while the jobs go on committing.      *)
(* asyncio.Lock is never contended for that reason and has no state here;  *)
(* nor has the check of the field registry, a file of the image.           *)
(***************************************************************************)
EXTENDS HcxClient

CONSTANTS
  Settings,   \* the settings the process may be started with
  Free,       \* pooled connections that other requests leave to this one and probes
  CacheTicks  \* readiness_cache_seconds

ASSUME SettingsAssumption ==
  /\ Settings \subseteq [evaluation : BOOLEAN, key : BOOLEAN, credit : BOOLEAN]
  /\ \A s \in Settings : s.evaluation => s.key /\ s.credit  \* the validator of Settings
ASSUME ProbeAssumption == {Free, CacheTicks} \subseteq Nat \ {0}

VARIABLES
  settings,
  database,  \* "empty", "migrated" or "loaded": the bootstrap jobs, one by one
  probe,     \* "idle", "asked", or the next check of the probe in progress
  passed,    \* all of its checks so far
  snapshot,  \* the ready of ReadinessService._snapshot, "none" before the first
  age        \* ticks since _checked_monotonic

around == <<settings, database>>
probing == <<probe, passed, snapshot, age>>
probeVars == <<vars, around, probing>>

Running == probe \in {"database", "migration", "dataset", "provider"}

\* The session of the request keeps its connection while HCX is waited for.
Waiting == pc \in {"posting", "sleeping"}
ConnectionFree == ~Waiting \/ Free > 1

-----------------------------------------------------------------------------
\* Mutant: the first snapshot is kept.
Fresh_Once == snapshot # "none"

\* _is_fresh
Fresh == snapshot # "none" /\ age < CacheTicks

Ask == /\ probe = "idle" /\ probe' = "asked"
       /\ UNCHANGED <<vars, around, passed, snapshot, age>>

\* check(): the snapshot at hand, or a new one.
Check ==
  /\ probe = "asked"
  /\ probe' = IF Fresh THEN "idle" ELSE "database"
  /\ passed' = TRUE
  /\ UNCHANGED <<vars, around, snapshot, age>>

\* get_llm_provider and healthcheck look at the key and call nobody.
HealthCheck == settings.key

\* What the statement of a check finds.
Finds == [check \in {"database", "migration", "dataset"} |->
  \/ check = "database"
  \/ check = "migration" /\ database # "empty"
  \/ database = "loaded"]

\* Mutant: a version of any status will do, and any head.
Statement_AnyRow(check) == {TRUE, FALSE}

\* A check fails too when PostgreSQL does, and when the pool has waited in vain.
Statement(check) == IF ConnectionFree THEN {Finds[check], FALSE} ELSE {FALSE}

NextCheck == [database |-> "migration", migration |-> "dataset", dataset |-> "provider"]

\* _refresh, check by check: one that fails does not stop those after it.
Query(ok) ==
  /\ probe \in DOMAIN NextCheck
  /\ ok \in Statement(probe)
  /\ probe' = NextCheck[probe] /\ passed' = (passed /\ ok)
  /\ UNCHANGED <<vars, around, snapshot, age>>

Remember ==
  /\ probe = "provider"
  /\ probe' = "idle" /\ age' = 0
  /\ snapshot' = IF passed /\ HealthCheck THEN "ready" ELSE "not ready"
  /\ UNCHANGED <<vars, around, passed>>

Grow == /\ snapshot # "none" /\ age < CacheTicks
        /\ age' = age + 1
        /\ UNCHANGED <<vars, around, probe, passed, snapshot>>

-----------------------------------------------------------------------------
\* alembic upgrade head, then ingest_excel: an active version stays.
Bootstrap ==
  /\ database' = CASE database = "empty" -> "migrated" [] OTHER -> "loaded"
  /\ UNCHANGED <<vars, settings, probing>>

\* _require_api_key and _ensure_billing_authorized, for billing in credit only.
Authorized == settings.key /\ settings.credit

\* The request, which stands still while a probe has the event loop.
Request(step) ==
  /\ ~Running /\ step
  /\ pc = "idle" => (outcome' = "CONFIGURATION" <=> ~Authorized)
  /\ UNCHANGED <<around, probing>>

ProbesInit ==
  /\ Init
  /\ settings \in Settings /\ database = "empty"
  /\ probe = "idle" /\ passed = TRUE /\ snapshot = "none" /\ age = 0

ProbesNext ==
  \/ Request(Call \/ Respond \/ Trickle \/ GiveUp \/ Wake \/ Cancel)
  \/ Tick /\ UNCHANGED <<around, probing>>
  \/ Ask \/ Check \/ Query(TRUE) \/ Query(FALSE) \/ Remember \/ Grow \/ Bootstrap

\* asyncio runs what is due in turn, and somebody goes on asking; PostgreSQL does
\* not fail whenever it is asked.
ProbesFairness ==
  /\ WF_probeVars(Tick /\ UNCHANGED <<around, probing>>)
  /\ SF_probeVars(Request(GiveUp)) /\ SF_probeVars(Request(Wake)) /\ SF_probeVars(Request(Cancel))
  /\ WF_probeVars(Ask) /\ WF_probeVars(Check) /\ WF_probeVars(Query(TRUE) \/ Query(FALSE))
  /\ WF_probeVars(Remember) /\ WF_probeVars(Grow)

ProbesSpec == ProbesInit /\ [][ProbesNext]_probeVars /\ ProbesFairness

-----------------------------------------------------------------------------
\* Ready means that questions are not refused for want of a dataset, however old
\* the snapshot, and in the evaluation that none is for want of a key or of
\* confirmed credit.  (Elsewhere the credit is not looked at.)
ReadyMeansServing ==
  snapshot = "ready" =>
    /\ database = "loaded"
    /\ settings.evaluation => outcome # "CONFIGURATION"

\* Not ready does not last: with the dataset loaded and a key, a process whose
\* database answers says again and again that it is ready, though a request that
\* waits for HCX may hold the last connection and the probe that waits for it the
\* event loop.
Steady == <>[][Query(FALSE) => ~ConnectionFree]_probeVars
ReadyAgain ==
  (Steady /\ <>(database = "loaded") /\ settings.key) => []<>(snapshot = "ready")
=============================================================================
