--------------------------- MODULE DatasetCatalog ---------------------------
(***************************************************************************)
(* The dataset versions as the app sees them, whatever the command line    *)
(* jobs do inside their transactions: versions are numbered in the order   *)
(* in which they were activated, no number comes back, and a version once  *)
(* curated stays curated.  AnswerService runs against this module, and     *)
(* DatasetLifecycle implements it while no two ingests overlap.            *)
(***************************************************************************)
EXTENDS Naturals

CONSTANT Versions

VARIABLES active,   \* the version whose status is ACTIVE; 0 if there is none
          built     \* versions that build_curated has finished

vars == <<active, built>>

Init == active = 0 /\ built = {}

\* ingest_manifest commits a version it has loaded; its rows are not curated yet.
Activate(v) ==
  /\ v > active
  /\ \A u \in Versions : u < v => u <= active
  /\ active' = v
  /\ UNCHANGED built

\* build_curated derives the products of a version it found active, once; by the
\* time it commits, another version may be active.
BuildCurated(v) ==
  /\ v <= active /\ v \notin built
  /\ built' = built \cup {v}
  /\ UNCHANGED active

Next == \E v \in Versions : Activate(v) \/ BuildCurated(v)

Spec == Init /\ [][Next]_vars
=============================================================================
