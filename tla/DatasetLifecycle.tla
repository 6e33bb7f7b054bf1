-------------------------- MODULE DatasetLifecycle --------------------------
(***************************************************************************)
(* The command line jobs that load a dataset: ingest_manifest of           *)
(* app/data/ingestion.py and build_curated of app/curated/builder.py, each *)
(* one transaction of its own session.  PostgreSQL runs them READ          *)
(* COMMITTED: a statement sees what was committed when it started, a write *)
(* waits for the transaction that holds the row, and a unique key waits    *)
(* for whoever inserted or deleted it.  A job is one process; nothing      *)
(* keeps two of them from running at the same time.                        *)
(*                                                                         *)
(* Rows are keyed by the label of their version, which is unique: no row   *)
(* of dataset_version is ever deleted, so a label stands for one id.       *)
(***************************************************************************)
EXTENDS Naturals, Sequences, FiniteSets

CONSTANTS
  Jobs,       \* command line processes that may run at the same time
  Labels,     \* dataset_version labels
  Manifests,  \* source manifests, by hash
  LabelOf,    \* LabelOf[m]: the label manifest m declares
  None

ASSUME ManifestAssumption == /\ LabelOf \in [Manifests -> Labels]
                             /\ None \notin Manifests

ASSUME LabelAssumption == IsFiniteSet(Labels)  \* a column of 128 characters

VARIABLES
  versions,  \* committed rows of dataset_version, by label
  curated,   \* labels with a committed curation_run and the products it derived
  job,       \* where each job stands, with the rows it has locked or will
  order,     \* labels in the order of their activation (history)
  overlapped \* two ingests have run at the same time (history)

vars == <<versions, curated, job, order, overlapped>>

Statuses == {"ACTIVE", "VALIDATED"}  \* no LOADING row is ever committed
Version == [manifest : Manifests, status : Statuses]

ASSUME NoneAssumption == None \notin Version

\* An ingest goes from validate to commit, a build from clear to derive.
Ingesting == {"validate", "insert", "load", "deactivate", "commit"}
Curating  == {"clear", "claim", "derive"}
Job == [at : {"idle"} \cup Ingesting \cup Curating, manifest : Manifests \cup {None},
        label : Labels \cup {None}, rows : SUBSET Labels]
Idle == [at |-> "idle", manifest |-> None, label |-> None, rows |-> {}]

HasStatus(l, status) == versions[l] # None /\ versions[l].status = status
Active == {l \in Labels : HasStatus(l, "ACTIVE")}

Init == /\ versions = [l \in Labels |-> None]
        /\ curated = {}
        /\ job = [j \in Jobs |-> Idle]
        /\ order = <<>> /\ overlapped = FALSE

GoTo(j, at, rows) ==
  /\ job' = [job EXCEPT ![j].at = at, ![j].rows = rows]
  /\ UNCHANGED <<versions, curated, order, overlapped>>

\* The process ends and whatever it has not committed is rolled back: it had
\* nothing to do, raised an exception, or was killed.
Exit(j) == job' = [job EXCEPT ![j] = Idle] /\ UNCHANGED <<versions, curated, order, overlapped>>

-----------------------------------------------------------------------------
\* ingest_manifest: nothing to do when this very manifest is the active one.
StartIngest(j, m) ==
  /\ job[j].at = "idle"
  /\ versions[LabelOf[m]] # [manifest |-> m, status |-> "ACTIVE"]
  /\ job' = [job EXCEPT ![j] = [at |-> "validate", manifest |-> m,
                                label |-> LabelOf[m], rows |-> {}]]
  /\ overlapped' = (overlapped \/ \E k \in Jobs : job[k].at \in Ingesting)
  /\ UNCHANGED <<versions, curated, order>>

Prepare_ReplacesStale(j) ==
  /\ job[j].at = "validate"
  /\ versions' = IF HasStatus(job[j].label, "VALIDATED")
                   THEN [versions EXCEPT ![job[j].label] = None] ELSE versions
  /\ job' = [job EXCEPT ![j].at = "insert"]
  /\ UNCHANGED <<curated, order, overlapped>>

\* The source files are checked, then a row of the label that is not ACTIVE is
\* deleted.  Such a row was active once: its ingestion_run and raw rows refer to
\* it and the delete fails.
Prepare(j) ==
  /\ job[j].at = "validate"
  /\ \/ ~HasStatus(job[j].label, "VALIDATED") /\ GoTo(j, "insert", {})
     \/ Exit(j)

\* Jobs other than j that have inserted the row of a label.
Inserting(j, l) ==
  {k \in Jobs \ {j} : job[k].label = l /\ job[k].at \in {"load", "deactivate", "commit"}}

\* The LOADING row is inserted: a label is unique, committed or not.
Insert(j) ==
  /\ job[j].at = "insert"
  /\ Inserting(j, job[j].label) = {}
  /\ IF versions[job[j].label] = None THEN GoTo(j, "load", {}) ELSE Exit(j)

\* The raw rows are loaded and counted; then the UPDATE that deactivates the
\* other versions starts, on the rows that are ACTIVE at this moment.
Load(j) ==
  /\ job[j].at = "load"
  /\ GoTo(j, "deactivate", Active) \/ Exit(j)

Deactivate_Commits(j) ==
  /\ job[j].at = "deactivate"
  /\ versions' = [l \in Labels |-> IF l \in job[j].rows
                    THEN [versions[l] EXCEPT !.status = "VALIDATED"] ELSE versions[l]]
  /\ job' = [job EXCEPT ![j].at = "commit", ![j].rows = {}]
  /\ UNCHANGED <<curated, order, overlapped>>

Deactivate_LocksTable(j) ==
  /\ job[j].at = "deactivate"
  /\ \A k \in Jobs \ {j} : job[k].at \notin {"load", "deactivate", "commit"}
  /\ GoTo(j, "commit", job[j].rows \cap Active)

\* The UPDATE waits for each row another job has updated, looks at it again and
\* passes over it when it is no longer ACTIVE.  It does not look for new ones.
Deactivate(j) ==
  /\ job[j].at = "deactivate"
  /\ \A k \in Jobs \ {j} : job[k].at = "commit" => job[k].rows \cap job[j].rows = {}
  /\ GoTo(j, "commit", job[j].rows \cap Active)

Commit_LeavesOthersActive(j) ==
  /\ job[j].at = "commit"
  /\ versions' = [versions EXCEPT ![job[j].label] =
                    [manifest |-> job[j].manifest, status |-> "ACTIVE"]]
  /\ order' = Append(order, job[j].label)
  /\ job' = [job EXCEPT ![j] = Idle]
  /\ UNCHANGED <<curated, overlapped>>

\* The rows it has updated and its own become visible together.
Commit(j) ==
  /\ job[j].at = "commit"
  /\ versions' = [l \in Labels |->
       IF l = job[j].label THEN [manifest |-> job[j].manifest, status |-> "ACTIVE"]
       ELSE IF l \in job[j].rows THEN [versions[l] EXCEPT !.status = "VALIDATED"]
       ELSE versions[l]]
  /\ order' = Append(order, job[j].label)
  /\ job' = [job EXCEPT ![j] = Idle]
  /\ UNCHANGED <<curated, overlapped>>

-----------------------------------------------------------------------------
\* build_curated: the version must be active, and not curated before.
StartCurate(j, l) ==
  /\ job[j].at = "idle"
  /\ l \in Active \ curated
  /\ job' = [job EXCEPT ![j] = [at |-> "clear", manifest |-> None,
                                label |-> l, rows |-> {}]]
  /\ UNCHANGED <<versions, curated, order, overlapped>>

\* Jobs other than j that hold the curation_run of a label, deleted or inserted.
Rebuilding(j, l) ==
  {k \in Jobs \ {j} : /\ job[k].label = l
                      /\ \/ job[k].at = "derive"
                         \/ job[k].at = "claim" /\ job[k].rows = {l}}

Clear_Commits(j) ==
  /\ job[j].at = "clear"
  /\ curated' = curated \ {job[j].label}
  /\ job' = [job EXCEPT ![j].at = "claim"]
  /\ UNCHANGED <<versions, order, overlapped>>

\* What an earlier build of the version has committed meanwhile is deleted.
Clear(j) ==
  /\ job[j].at = "clear"
  /\ job[j].label \in curated => Rebuilding(j, job[j].label) = {}
  /\ GoTo(j, "claim", {job[j].label} \cap curated)

\* The curation_run is inserted: unique for its version.
Claim(j) ==
  /\ job[j].at = "claim"
  /\ Rebuilding(j, job[j].label) = {}
  /\ IF job[j].label \in curated \ job[j].rows THEN Exit(j)
     ELSE GoTo(j, "derive", job[j].rows)

\* The products are derived and counted, and the run commits.
Derive(j) ==
  /\ job[j].at = "derive"
  /\ \/ /\ curated' = curated \cup {job[j].label}
        /\ job' = [job EXCEPT ![j] = Idle]
        /\ UNCHANGED <<versions, order, overlapped>>
     \/ Exit(j)

-----------------------------------------------------------------------------
Step(j) == Prepare(j) \/ Load(j) \/ Commit(j) \/ Derive(j)
Wait(j) == Insert(j) \/ Deactivate(j) \/ Clear(j) \/ Claim(j)

Start(j) == \/ \E m \in Manifests : StartIngest(j, m)
            \/ \E l \in Labels : StartCurate(j, l)

Kill(j) == job[j].at # "idle" /\ Exit(j)

Next == \E j \in Jobs : Start(j) \/ Step(j) \/ Wait(j) \/ Kill(j)

Spec == Init /\ [][Next]_vars

\* A process runs on, and PostgreSQL serves a lock in the order it was asked
\* for.  Nobody has to start a job, or to kill one.
Fairness == \A j \in Jobs : WF_vars(Step(j)) /\ SF_vars(Wait(j))

FairSpec == Spec /\ Fairness

-----------------------------------------------------------------------------
TypeOK ==
  /\ versions \in [Labels -> Version \cup {None}]
  /\ curated \subseteq Labels
  /\ job \in [Jobs -> Job]
  /\ order \in Seq(Labels) /\ overlapped \in BOOLEAN

\* As long as no two ingests overlap, whatever builds run beside them, at most one
\* version is ACTIVE: what _load_active_context takes for granted.
OneActive == ~overlapped => Cardinality(Active) <= 1

\* Once a dataset has been active there is always an active one, however many
\* ingests run, fail or are killed: /answer never loses its dataset.
NeverDark == [][Active # {} => Active' # {}]_vars

\* The caches key by label.  They may, because a label keeps the manifest it was
\* first committed with, and a version that was superseded stays superseded.
LabelsAreFinal ==
  [][\A l \in Labels : versions[l] # None =>
       /\ versions'[l] # None /\ versions'[l].manifest = versions[l].manifest
       /\ versions[l].status = "VALIDATED" => versions'[l].status = "VALIDATED"]_vars

\* Products once derived are there at every moment after, though build_curated
\* deletes before it derives and two builds of a version may overlap.
CuratedStays == [][curated \subseteq curated']_vars

\* No job waits forever for another: the order in which an ingest takes the
\* label and the rows of the other versions leaves no circle.
EveryJobEnds == \A j \in Jobs : (job[j].at # "idle") ~> (job[j].at = "idle")

\* The jobs are the catalog that AnswerService runs against, as long as no two
\* ingests overlap.
Position(l) == CHOOSE i \in DOMAIN order : order[i] = l

Catalog == INSTANCE DatasetCatalog WITH
  Versions <- 1 .. Cardinality(Labels),
  active   <- IF Active = {} THEN 0 ELSE Position(CHOOSE l \in Active : TRUE),
  built    <- {i \in DOMAIN order : order[i] \in curated}

ImplementsCatalog ==
  Catalog!Init /\ [][overlapped' \/ Catalog!Next]_(Catalog!vars)
=============================================================================
