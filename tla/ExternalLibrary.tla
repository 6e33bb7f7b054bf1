-------------------------- MODULE ExternalLibrary --------------------------
(***************************************************************************)
(* ingest_external of app/external/ingestion.py as any number of command   *)
(* line processes run it: one READ COMMITTED transaction that empties the  *)
(* library, table by table, and loads the snapshot of a manifest.          *)
(*                                                                         *)
(* A DELETE acts on the rows committed when it started.  It waits for a    *)
(* transaction that is deleting one of them, then leaves alone what that   *)
(* one deleted, and never sees what it inserted.  What keeps two ingests   *)
(* from mixing their snapshots is therefore not the deletes but the        *)
(* foreign keys to source_document and its unique document_id.             *)
(*                                                                         *)
(* Any two manifests have a document_id in common: they are snapshots of   *)
(* one library.                                                            *)
(***************************************************************************)
EXTENDS Naturals, Sequences, FiniteSets

CONSTANTS
  Jobs,       \* processes that may ingest at the same time
  Manifests,  \* by hash
  None

ASSUME LibraryAssumption == None \notin Manifests /\ Manifests # {}

VARIABLES
  tables,  \* tables[t]: the manifests whose rows table t holds, committed
  job

vars == <<tables, job>>

\* In the order in which they are emptied.  "fact" stands for product_holding,
\* entity_relation, entity_alias and entity.
Order == <<"chunk", "fact", "document", "run">>
Tables == {Order[i] : i \in DOMAIN Order}

Nothing == [t \in Tables |-> {}]
Idle == [at |-> "idle", manifest |-> None, next |-> 1, seen |-> {}, deleted |-> Nothing]

\* Some snapshot has been ingested before.
Init == /\ \E m \in Manifests : tables = [t \in Tables |-> {m}]
        /\ job = [j \in Jobs |-> Idle]

\* The transaction ends without a trace.
Exit(j) == job' = [job EXCEPT ![j] = Idle] /\ UNCHANGED tables

Commit(j) ==
  /\ tables' = [t \in Tables |-> (tables[t] \ job[j].deleted[t]) \cup {job[j].manifest}]
  /\ job' = [job EXCEPT ![j] = Idle]

-----------------------------------------------------------------------------
\* A manifest with a successful run is not ingested again.
Start(j, m) ==
  /\ job[j].at = "idle" /\ m \notin tables["run"]
  /\ job' = [job EXCEPT ![j] = [Idle EXCEPT !.at = "delete", !.manifest = m]]
  /\ UNCHANGED tables

Table(j) == Order[job[j].next]

\* The next DELETE takes its snapshot.
StartDelete(j) ==
  /\ job[j].at = "delete"
  /\ job' = [job EXCEPT ![j].at = "deleting", ![j].seen = tables[Table(j)]]
  /\ UNCHANGED tables

\* Mutant: it waits for whoever is deleting from the same table.
Held_ByReaders(j) ==
  \E k \in Jobs \ {j} : /\ job[k].at = "deleting" /\ Table(k) = Table(j)
                        /\ job[k].seen \cap job[j].seen # {}

\* Another transaction is deleting one of the rows.
Held(j) == \E k \in Jobs \ {j} : job[k].deleted[Table(j)] \cap job[j].seen # {}

\* Mutant: no foreign keys.
Referenced_Unchecked(j, documents) == FALSE

\* A row that is there now refers to one of the documents.
Referenced(j, documents) ==
  \E t \in {"chunk", "fact"} : (tables[t] \ job[j].deleted[t]) \cap documents # {}

\* The DELETE removes the rows of its snapshot that are still there, or fails on
\* a foreign key and takes the transaction with it.
FinishDelete(j) ==
  LET gone == job[j].seen \cap tables[Table(j)] IN
  /\ job[j].at = "deleting" /\ ~Held(j)
  /\ IF Table(j) = "document" /\ Referenced(j, gone)
     THEN Exit(j)
     ELSE /\ job' = [job EXCEPT ![j].at = IF job[j].next = Len(Order) THEN "load" ELSE "delete",
                                ![j].next = IF @ = Len(Order) THEN @ ELSE @ + 1,
                                ![j].seen = {},
                                ![j].deleted[Table(j)] = gone]
          /\ UNCHANGED tables

\* A row of the run, or a document, is still there that the job inserts again.
Duplicate(j) ==
  \/ tables["document"] \ job[j].deleted["document"] # {}
  \/ job[j].manifest \in tables["run"] \ job[j].deleted["run"]

\* Every row of the snapshot is inserted and the transaction commits, or a unique
\* constraint refuses one.
Load(j) ==
  /\ job[j].at = "load"
  /\ Duplicate(j) => Exit(j)
  /\ ~Duplicate(j) => Commit(j)

\* A file is unreadable, a row refused, or the process killed.
Fail(j) == job[j].at # "idle" /\ Exit(j)

Next == \E j \in Jobs : \/ StartDelete(j) \/ FinishDelete(j) \/ Load(j) \/ Fail(j)
                        \/ \E m \in Manifests : Start(j, m)

Spec == Init /\ [][Next]_vars

\* A process runs on, and PostgreSQL wakes who waits for a row when the holder of
\* it ends; nobody has to start an ingest, and none has to fail.
Fairness == \A j \in Jobs : /\ WF_vars(StartDelete(j) \/ Load(j))
                            /\ SF_vars(FinishDelete(j))

FairSpec == Spec /\ Fairness

-----------------------------------------------------------------------------
TypeOK ==
  /\ tables \in [Tables -> SUBSET Manifests]
  /\ job \in [Jobs -> [at : {"idle", "delete", "deleting", "load"},
                       manifest : Manifests \cup {None}, next : DOMAIN Order,
                       seen : SUBSET Manifests, deleted : [Tables -> SUBSET Manifests]]]

\* Whoever ingests what at the same time, and whoever of them fails, the library
\* is one snapshot, whole, and the run on record is its own: what AnswerService
\* takes for granted of an ingest and the retrieval cache of a manifest hash.
OneSnapshot == \E m \in Manifests : \A t \in Tables : tables[t] = {m}

\* An ingest waits for another one, never two for each other.
EveryIngestEnds == \A j \in Jobs : (job[j].at # "idle") ~> (job[j].at = "idle")

=============================================================================
