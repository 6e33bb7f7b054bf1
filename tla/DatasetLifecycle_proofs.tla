----------------------- MODULE DatasetLifecycle_proofs -----------------------
(***************************************************************************)
(* Proofs about DatasetLifecycle, for any jobs, labels and manifests.      *)
(***************************************************************************)
EXTENDS DatasetLifecycle, FiniteSetTheorems, SequenceTheorems, TLAPS

Loading == {"load", "deactivate", "commit"}

\* What a job at work knows.  While it loads a label nobody has committed that
\* label, and nobody else loads it; the rows it deactivates are committed ones.
JobOK(j) ==
  /\ job[j].at \in Ingesting => job[j].manifest \in Manifests
  /\ job[j].at # "idle" => job[j].label \in Labels
  /\ job[j].at \in Loading => versions[job[j].label] = None
  /\ job[j].at \in {"deactivate", "commit"} => \A l \in job[j].rows : versions[l] # None

JobsInv ==
  /\ \A j \in Jobs : JobOK(j)
  /\ \A j, k \in Jobs : /\ job[j].at \in Loading /\ job[k].at \in Loading
                        /\ job[j].label = job[k].label
                        => j = k

\* While no two ingests overlap, the one there is knows every ACTIVE version.
SerialInv ==
  ~overlapped =>
    /\ \A j, k \in Jobs : job[j].at \in Ingesting /\ job[k].at \in Ingesting => j = k
    /\ \A j \in Jobs : job[j].at \in {"deactivate", "commit"} => job[j].rows = Active
    /\ \A l1, l2 \in Active : l1 = l2

-----------------------------------------------------------------------------
\* Every step but a commit leaves the committed versions alone.
LEMMA OnlyCommitsChangeVersions ==
  ASSUME [Next]_vars
  PROVE  versions' = versions \/ \E j \in Jobs : Commit(j)
  BY DEF Next, Start, StartIngest, StartCurate, Step, Wait, Kill, Prepare, Insert, Load,
         Deactivate, Clear, Claim, Derive, Exit, GoTo, vars

LEMMA GoToTyped ==
  ASSUME TypeOK, NEW j \in Jobs, NEW at \in Ingesting \cup Curating,
         NEW rows \in SUBSET Labels, GoTo(j, at, rows)
  PROVE  TypeOK'
  BY DEF TypeOK, GoTo, Job

LEMMA ExitTyped ==
  ASSUME TypeOK, NEW j \in Jobs, Exit(j)
  PROVE  TypeOK'
  BY DEF TypeOK, Exit, Job, Idle

\* What a commit makes visible: its own label, and that of the rows it deactivated.
LEMMA CommitVersions ==
  ASSUME TypeOK, JobsInv, NEW j \in Jobs, Commit(j), NEW l \in Labels
  PROVE  /\ versions'[l] \in Version \cup {None}
         /\ l = job[j].label =>
              versions[l] = None /\ versions'[l] # None /\ versions'[l].status = "ACTIVE"
         /\ l # job[j].label /\ l \in job[j].rows =>
              /\ versions[l] # None /\ versions'[l] # None
              /\ versions'[l].manifest = versions[l].manifest
              /\ versions'[l].status = "VALIDATED"
         /\ l # job[j].label /\ l \notin job[j].rows => versions'[l] = versions[l]
<1>0. versions' = [k \in Labels |->
        IF k = job[j].label THEN [manifest |-> job[j].manifest, status |-> "ACTIVE"]
        ELSE IF k \in job[j].rows THEN [versions[k] EXCEPT !.status = "VALIDATED"]
        ELSE versions[k]]
  BY DEF Commit
<1>1. job[j].at = "commit" /\ job[j].manifest \in Manifests
  BY DEF Commit, JobsInv, JobOK, Ingesting
<1>2. CASE l = job[j].label
  <2>1. versions'[l] \in Version /\ versions'[l].status = "ACTIVE"
    BY <1>0, <1>1, <1>2 DEF Version, Statuses
  <2> QED
    BY <1>1, <1>2, <2>1, NoneAssumption DEF JobsInv, JobOK, Loading
<1>3. CASE l # job[j].label /\ l \in job[j].rows
  <2>1. versions[l] \in Version
    BY <1>1, <1>3 DEF JobsInv, JobOK, TypeOK
  <2>2. /\ versions'[l] \in Version /\ versions'[l].status = "VALIDATED"
        /\ versions'[l].manifest = versions[l].manifest
    BY <1>0, <1>3, <2>1 DEF Version, Statuses
  <2> QED
    BY <1>3, <2>1, <2>2, NoneAssumption
<1>4. CASE l # job[j].label /\ l \notin job[j].rows
  BY <1>0, <1>4 DEF TypeOK
<1> QED
  BY <1>2, <1>3, <1>4

LEMMA CommitTyped ==
  ASSUME TypeOK, JobsInv, NEW j \in Jobs, Commit(j)
  PROVE  TypeOK'
<1>1. versions' \in [Labels -> Version \cup {None}]
  BY CommitVersions DEF Commit
<1>2. Idle \in Job /\ job[j].label \in Labels
  BY DEF Idle, Job, Commit, JobsInv, JobOK
<1>3. job' \in [Jobs -> Job] /\ order' \in Seq(Labels)
  BY <1>2 DEF Commit, TypeOK
<1> QED
  BY <1>1, <1>3 DEF TypeOK, Commit

LEMMA StepTyped ==
  ASSUME TypeOK, JobsInv, [Next]_vars
  PROVE  TypeOK'
<1>1. ASSUME NEW j \in Jobs, Start(j) PROVE TypeOK'
  <2>1. ASSUME NEW m \in Manifests, StartIngest(j, m) PROVE TypeOK'
    BY <2>1, ManifestAssumption DEF StartIngest, TypeOK, Job, Ingesting
  <2>2. ASSUME NEW l \in Labels, StartCurate(j, l) PROVE TypeOK'
    BY <2>2 DEF StartCurate, TypeOK, Job, Curating
  <2> QED
    BY <1>1, <2>1, <2>2 DEF Start
<1>2. ASSUME NEW j \in Jobs, Step(j) \/ Wait(j) \/ Kill(j) PROVE TypeOK'
  <2>1. /\ Active \subseteq Labels /\ job[j].rows \subseteq Labels
        /\ job[j].label \in Labels \/ job[j].at = "idle"
    BY DEF TypeOK, Job, Active, JobsInv, JobOK
  <2>2. ASSUME NEW at \in Ingesting \cup Curating, NEW rows \in SUBSET Labels,
               GoTo(j, at, rows)
        PROVE  TypeOK'
    BY <2>2, GoToTyped
  <2>3. CASE Prepare(j) \/ Insert(j) \/ Load(j) \/ Deactivate(j)
    BY <2>1, <2>2, <2>3, ExitTyped
       DEF Prepare, Insert, Load, Deactivate, Ingesting
  <2>4. CASE Clear(j) \/ Claim(j) \/ Kill(j)
    BY <2>1, <2>2, <2>4, ExitTyped DEF Clear, Claim, Kill, Curating
  <2>5. CASE Derive(j)
    <3>1. job[j].label \in Labels
      BY <2>1, <2>5 DEF Derive
    <3>2. CASE Exit(j)
      BY <3>2, ExitTyped
    <3>3. CASE /\ curated' = curated \cup {job[j].label}
               /\ job' = [job EXCEPT ![j] = Idle]
               /\ UNCHANGED <<versions, order, overlapped>>
      <4>1. Idle \in Job
        BY DEF Idle, Job
      <4> QED
        BY <3>1, <3>3, <4>1 DEF TypeOK
    <3> QED
      BY <2>5, <3>2, <3>3 DEF Derive
  <2> QED
    BY <1>2, <2>3, <2>4, <2>5, CommitTyped DEF Step, Wait
<1>3. CASE UNCHANGED vars
  BY <1>3 DEF vars, TypeOK
<1> QED
  BY <1>1, <1>2, <1>3 DEF Next

-----------------------------------------------------------------------------
(* The jobs.  A step of one job leaves what the others know alone.         *)

\* A step that changes neither the versions nor any job but j, and leaves j with
\* a label of its own, or idle.
LEMMA MoveInv ==
  ASSUME TypeOK, JobsInv, NEW j \in Jobs, NEW new, versions' = versions,
         job' = [job EXCEPT ![j] = new], JobOK(j)',
         new.at \in Loading => \A k \in Jobs \ {j} :
                                 job[k].at \in Loading => job[k].label # new.label
  PROVE  JobsInv'
<1>1. job'[j] = new /\ \A k \in Jobs \ {j} : job'[k] = job[k]
  BY DEF TypeOK
<1>2. ASSUME NEW k \in Jobs PROVE JobOK(k)'
  <2>1. CASE k # j
    BY <1>1, <2>1 DEF JobsInv, JobOK
  <2> QED
    BY <2>1
<1> QED
  BY <1>1, <1>2 DEF JobsInv

LEMMA ExitInv ==
  ASSUME TypeOK, JobsInv, NEW j \in Jobs, Exit(j)
  PROVE  JobsInv'
<1>1. job'[j] = Idle /\ Idle.at = "idle"
  BY DEF TypeOK, Exit, Idle
<1>2. JobOK(j)'
  BY <1>1 DEF JobOK, Ingesting, Loading
<1> QED
  BY <1>1, <1>2, MoveInv DEF Exit, Loading

\* A label that a job commits was not committed, and is loaded by no other job.
LEMMA CommitInv ==
  ASSUME TypeOK, JobsInv, NEW j \in Jobs, Commit(j)
  PROVE  JobsInv'
<1>1. /\ job'[j] = Idle /\ Idle.at = "idle" /\ \A k \in Jobs \ {j} : job'[k] = job[k]
      /\ job[j].at = "commit" /\ job[j].label \in Labels
  BY DEF TypeOK, JobsInv, JobOK, Commit, Idle
<1>2. \A l \in Labels : /\ versions[l] # None => versions'[l] # None
                        /\ l # job[j].label /\ versions[l] = None => versions'[l] = None
  BY CommitVersions
<1>3. ASSUME NEW k \in Jobs PROVE JobOK(k)'
  <2>1. CASE k = j
    BY <1>1, <2>1 DEF JobOK, Ingesting, Loading
  <2>2. CASE k # j
    <3>1. job'[k] = job[k] /\ JobOK(k) /\ job[k].rows \subseteq Labels
      BY <1>1, <2>2 DEF JobsInv, TypeOK, Job
    <3>2. job[k].at \in Loading => job[k].label # job[j].label /\ job[k].label \in Labels
      BY <1>1, <2>2 DEF JobsInv, JobOK, Loading
    <3> QED
      BY <1>2, <3>1, <3>2 DEF JobOK
  <2> QED
    BY <2>1, <2>2
<1>4. \A k1, k2 \in Jobs : /\ job'[k1].at \in Loading /\ job'[k2].at \in Loading
                           /\ job'[k1].label = job'[k2].label
                           => k1 = k2
  BY <1>1 DEF JobsInv, Loading
<1> QED
  BY <1>3, <1>4 DEF JobsInv

LEMMA IngestStepInv ==
  ASSUME TypeOK, JobsInv, NEW j \in Jobs,
         Prepare(j) \/ Insert(j) \/ Load(j) \/ Deactivate(j)
  PROVE  JobsInv'
<1>1. job[j].label \in Labels /\ job[j].manifest \in Manifests
  BY DEF JobsInv, JobOK, Ingesting, Prepare, Insert, Load, Deactivate
<1>2. CASE Exit(j)
  BY <1>2, ExitInv
<1>3. CASE Prepare(j) /\ GoTo(j, "insert", {})
  <2> DEFINE new == [job[j] EXCEPT !.at = "insert", !.rows = {}]
  <2>1. job' = [job EXCEPT ![j] = new] /\ versions' = versions
    BY <1>3 DEF GoTo
  <2>2. new.at = "insert" /\ new.label = job[j].label /\ new.manifest = job[j].manifest
    BY DEF TypeOK, Job
  <2> HIDE DEF new
  <2>3. job'[j] = new
    BY <2>1 DEF TypeOK
  <2>4. JobOK(j)'
    BY <1>1, <2>2, <2>3 DEF JobOK, Loading
  <2> QED
    BY <2>1, <2>2, <2>4, MoveInv DEF Loading
<1>4. CASE /\ Inserting(j, job[j].label) = {} /\ versions[job[j].label] = None
           /\ GoTo(j, "load", {})
  <2> DEFINE new == [job[j] EXCEPT !.at = "load", !.rows = {}]
  <2>1. job' = [job EXCEPT ![j] = new] /\ versions' = versions
    BY <1>4 DEF GoTo
  <2>2. new.at = "load" /\ new.label = job[j].label /\ new.manifest = job[j].manifest
    BY DEF TypeOK, Job
  <2> HIDE DEF new
  <2>3. job'[j] = new
    BY <2>1 DEF TypeOK
  <2>4. JobOK(j)'
    BY <1>1, <1>4, <2>1, <2>2, <2>3 DEF JobOK, Loading
  <2>5. \A k \in Jobs \ {j} : job[k].at \in Loading => job[k].label # new.label
    BY <1>4, <2>2 DEF Inserting, Loading
  <2> QED
    BY <2>1, <2>4, <2>5, MoveInv
<1>5. ASSUME job[j].at \in Loading, NEW to \in Loading, NEW rows \in SUBSET Active,
             GoTo(j, to, rows)
      PROVE  JobsInv'
  <2> DEFINE new == [job[j] EXCEPT !.at = to, !.rows = rows]
  <2>1. job' = [job EXCEPT ![j] = new] /\ versions' = versions
    BY <1>5 DEF GoTo
  <2>2. /\ new.at = to /\ new.label = job[j].label /\ new.manifest = job[j].manifest
        /\ new.rows = rows
    BY DEF TypeOK, Job
  <2> HIDE DEF new
  <2>3. job'[j] = new
    BY <2>1 DEF TypeOK
  <2>4. \A l \in rows : versions[l] # None
    BY DEF Active, HasStatus
  <2>5. versions[job[j].label] = None
    BY <1>5 DEF JobsInv, JobOK
  <2>6. JobOK(j)'
    BY <1>1, <2>1, <2>2, <2>3, <2>4, <2>5 DEF JobOK
  <2>7. \A k \in Jobs \ {j} : job[k].at \in Loading => job[k].label # new.label
    BY <1>5, <2>2 DEF JobsInv
  <2> QED
    BY <2>1, <2>6, <2>7, MoveInv
<1> QED
  BY <1>2, <1>3, <1>4, <1>5 DEF Prepare, Insert, Load, Deactivate, Loading

LEMMA StartInv ==
  ASSUME TypeOK, JobsInv, NEW j \in Jobs, Start(j)
  PROVE  JobsInv'
<1>1. ASSUME NEW m \in Manifests, StartIngest(j, m) PROVE JobsInv'
  <2> DEFINE new == [at |-> "validate", manifest |-> m, label |-> LabelOf[m], rows |-> {}]
  <2>1. job' = [job EXCEPT ![j] = new] /\ versions' = versions
    BY <1>1 DEF StartIngest
  <2>2. new.at = "validate" /\ new.label \in Labels /\ new.manifest \in Manifests
    BY ManifestAssumption
  <2> HIDE DEF new
  <2>3. job'[j] = new
    BY <2>1 DEF TypeOK
  <2>4. JobOK(j)'
    BY <2>2, <2>3 DEF JobOK, Loading
  <2> QED
    BY <2>1, <2>2, <2>4, MoveInv DEF Loading
<1>2. ASSUME NEW l \in Labels, StartCurate(j, l) PROVE JobsInv'
  <2> DEFINE new == [at |-> "clear", manifest |-> None, label |-> l, rows |-> {}]
  <2>1. job' = [job EXCEPT ![j] = new] /\ versions' = versions
    BY <1>2 DEF StartCurate
  <2>2. new.at = "clear" /\ new.label \in Labels
    OBVIOUS
  <2> HIDE DEF new
  <2>3. job'[j] = new
    BY <2>1 DEF TypeOK
  <2>4. JobOK(j)'
    BY <2>2, <2>3 DEF JobOK, Ingesting, Loading
  <2> QED
    BY <2>1, <2>2, <2>4, MoveInv DEF Loading
<1> QED
  BY <1>1, <1>2 DEF Start

\* A build never loads a version.
LEMMA CurateStepInv ==
  ASSUME TypeOK, JobsInv, NEW j \in Jobs, Clear(j) \/ Claim(j) \/ Derive(j) \/ Kill(j)
  PROVE  JobsInv'
<1>1. job[j].label \in Labels
  BY DEF JobsInv, JobOK, Clear, Claim, Derive, Kill
<1>2. CASE Exit(j)
  BY <1>2, ExitInv
<1>3. ASSUME NEW to \in Curating, NEW rows, GoTo(j, to, rows) PROVE JobsInv'
  <2> DEFINE new == [job[j] EXCEPT !.at = to, !.rows = rows]
  <2>1. job' = [job EXCEPT ![j] = new] /\ versions' = versions
    BY <1>3 DEF GoTo
  <2>2. new.at = to /\ new.label = job[j].label
    BY DEF TypeOK, Job
  <2> HIDE DEF new
  <2>3. job'[j] = new
    BY <2>1 DEF TypeOK
  <2>4. JobOK(j)' /\ new.at \notin Loading
    BY <1>1, <2>2, <2>3 DEF JobOK, Ingesting, Curating, Loading
  <2> QED
    BY <2>1, <2>4, MoveInv
<1>4. CASE job' = [job EXCEPT ![j] = Idle] /\ versions' = versions
  <2>1. job'[j] = Idle /\ Idle.at = "idle"
    BY <1>4 DEF TypeOK, Idle
  <2>2. JobOK(j)'
    BY <2>1 DEF JobOK, Ingesting, Loading
  <2> QED
    BY <1>4, <2>1, <2>2, MoveInv DEF Loading
<1> QED
  BY <1>2, <1>3, <1>4 DEF Clear, Claim, Derive, Kill, Curating

LEMMA StepInv ==
  ASSUME TypeOK, JobsInv, [Next]_vars
  PROVE  JobsInv'
<1>1. CASE UNCHANGED vars
  BY <1>1 DEF vars, JobsInv, JobOK
<1>2. ASSUME NEW j \in Jobs, Start(j) \/ Step(j) \/ Wait(j) \/ Kill(j) PROVE JobsInv'
  BY <1>2, StartInv, IngestStepInv, CurateStepInv, CommitInv DEF Step, Wait
<1> QED
  BY <1>1, <1>2 DEF Next

LEMMA TypedInit == Init => TypeOK /\ JobsInv
<1> SUFFICES ASSUME Init PROVE TypeOK /\ JobsInv
  OBVIOUS
<1>1. Idle \in Job /\ Idle.at = "idle" /\ \A j \in Jobs : job[j] = Idle
  BY DEF Init, Idle, Job
<1>2. versions \in [Labels -> Version \cup {None}] /\ job \in [Jobs -> Job]
  BY <1>1 DEF Init
<1>3. curated \subseteq Labels /\ order = <<>> /\ overlapped \in BOOLEAN
  BY DEF Init
<1>4. order \in Seq(Labels)
  BY <1>3
<1>5. TypeOK
  BY <1>2, <1>3, <1>4 DEF TypeOK
<1>6. JobsInv
  BY <1>1 DEF JobsInv, JobOK, Ingesting, Loading
<1> QED
  BY <1>5, <1>6

LEMMA Invariant == Spec => [](TypeOK /\ JobsInv)
<1>1. TypeOK /\ JobsInv /\ [Next]_vars => (TypeOK /\ JobsInv)'
  BY StepTyped, StepInv
<1> QED
  BY <1>1, TypedInit, PTL DEF Spec

\* Every job stays at a step of its own with the rows and the label it took.
THEOREM TypeCorrect == Spec => []TypeOK
  BY Invariant, PTL

-----------------------------------------------------------------------------
(* What the steps of the jobs never do to the committed versions.          *)

\* A commit activates a version in the transaction that deactivates the others,
\* and the other steps leave the table alone: there is no moment without one.
THEOREM NeverWithoutActive == Spec => NeverDark
<1>1. ASSUME TypeOK, JobsInv, [Next]_vars PROVE Active # {} => Active' # {}
  <2>1. ASSUME NEW j \in Jobs, Commit(j) PROVE Active' # {}
    <3>1. job[j].label \in Labels
      BY <1>1, <2>1 DEF JobsInv, JobOK, Commit
    <3>2. versions'[job[j].label] # None /\ versions'[job[j].label].status = "ACTIVE"
      BY <1>1, <2>1, <3>1, CommitVersions
    <3> QED
      BY <3>1, <3>2 DEF Active, HasStatus
  <2>2. CASE versions' = versions
    BY <2>2 DEF Active, HasStatus
  <2> QED
    BY <1>1, <2>1, <2>2, OnlyCommitsChangeVersions
<1> QED
  BY <1>1, Invariant, PTL DEF Spec, NeverDark

\* Only a label that is not committed can be loaded, and a job deactivates
\* versions without touching their manifest.
THEOREM LabelsKeepTheirManifest == Spec => LabelsAreFinal
<1> DEFINE Final == \A l \in Labels : versions[l] # None =>
       /\ versions'[l] # None /\ versions'[l].manifest = versions[l].manifest
       /\ versions[l].status = "VALIDATED" => versions'[l].status = "VALIDATED"
<1>1. ASSUME TypeOK, JobsInv, [Next]_vars PROVE Final
  <2>1. ASSUME NEW j \in Jobs, Commit(j) PROVE Final
    BY <1>1, <2>1, CommitVersions
  <2>2. CASE versions' = versions
    BY <2>2
  <2> QED
    BY <1>1, <2>1, <2>2, OnlyCommitsChangeVersions
<1>2. Spec => [][Final]_vars
  BY <1>1, Invariant, PTL DEF Spec
<1> QED
  BY <1>2 DEF LabelsAreFinal

-----------------------------------------------------------------------------
(* One ingest at a time.                                                   *)

\* A job that does not commit changes nothing the others know; it starts to
\* ingest alone, and deactivates what is ACTIVE.
LEMMA AloneInv ==
  ASSUME TypeOK, JobsInv, SerialInv, NEW j \in Jobs, versions' = versions,
         \A k \in Jobs \ {j} : job'[k] = job[k],
         overlapped' = overlapped,
         job'[j].at \in Ingesting => job[j].at \in Ingesting,
         job'[j].at \in {"deactivate", "commit"} => job'[j].rows = Active
  PROVE  SerialInv'
<1> SUFFICES ASSUME ~overlapped PROVE SerialInv'
  BY DEF SerialInv
<1>1. Active' = Active
  BY DEF Active, HasStatus
<1>2. \A k1, k2 \in Jobs : job'[k1].at \in Ingesting /\ job'[k2].at \in Ingesting => k1 = k2
  BY DEF SerialInv
<1>3. \A k \in Jobs : job'[k].at \in {"deactivate", "commit"} => job'[k].rows = Active
  BY DEF SerialInv
<1> QED
  BY <1>1, <1>2, <1>3 DEF SerialInv

\* The version a lone ingest commits is the only one it leaves ACTIVE.
LEMMA CommitSerial ==
  ASSUME TypeOK, JobsInv, SerialInv, NEW j \in Jobs, Commit(j)
  PROVE  SerialInv'
<1> SUFFICES ASSUME ~overlapped PROVE SerialInv'
  BY DEF SerialInv, Commit
<1>1. job[j].at = "commit" /\ job[j].rows = Active
  BY DEF Commit, SerialInv
<1>2. \A k \in Jobs : job'[k].at \notin Ingesting
  <2>1. job'[j] = Idle /\ Idle.at = "idle" /\ \A k \in Jobs \ {j} : job'[k] = job[k]
    BY DEF TypeOK, Commit, Idle
  <2>2. \A k \in Jobs \ {j} : job[k].at \notin Ingesting
    BY <1>1 DEF SerialInv, Ingesting
  <2> QED
    BY <2>1, <2>2 DEF Ingesting
<1>3. ASSUME NEW l \in Active' PROVE l = job[j].label
  <2>1. l \in Labels /\ versions'[l] # None /\ versions'[l].status = "ACTIVE"
    BY DEF Active, HasStatus
  <2>2. l \in job[j].rows => l = job[j].label
    BY <2>1, CommitVersions
  <2>3. l # job[j].label /\ l \notin job[j].rows => l \in Active
    BY <2>1, CommitVersions DEF Active, HasStatus
  <2> QED
    BY <1>1, <2>2, <2>3
<1> QED
  BY <1>2, <1>3 DEF SerialInv, Ingesting

LEMMA StepSerial ==
  ASSUME TypeOK, JobsInv, SerialInv, [Next]_vars
  PROVE  SerialInv'
<1>1. CASE UNCHANGED vars
  <2>1. Active' = Active
    BY <1>1 DEF vars, Active, HasStatus
  <2> QED
    BY <1>1, <2>1 DEF vars, SerialInv
<1>2. ASSUME NEW j \in Jobs, NEW m \in Manifests, StartIngest(j, m) PROVE SerialInv'
  <2> SUFFICES ASSUME ~overlapped' PROVE SerialInv'
    BY DEF SerialInv
  <2>1. ~overlapped /\ \A k \in Jobs : job[k].at \notin Ingesting
    BY <1>2 DEF StartIngest, TypeOK
  <2>2. Active' = Active
    BY <1>2 DEF StartIngest, Active, HasStatus
  <2>3. job'[j].at = "validate" /\ \A k \in Jobs \ {j} : job'[k] = job[k]
    BY <1>2 DEF StartIngest, TypeOK
  <2> QED
    BY <2>1, <2>2, <2>3 DEF SerialInv, Ingesting
<1>3. ASSUME NEW j \in Jobs, NEW l \in Labels, StartCurate(j, l) PROVE SerialInv'
  <2>1. job'[j].at = "clear" /\ \A k \in Jobs \ {j} : job'[k] = job[k]
    BY <1>3 DEF StartCurate, TypeOK
  <2> QED
    BY <1>3, <2>1, AloneInv DEF StartCurate, Ingesting
<1>4. ASSUME NEW j \in Jobs, Step(j) \/ Wait(j) \/ Kill(j), ~Commit(j) PROVE SerialInv'
  <2>1. CASE Exit(j)
    <3>1. job'[j].at = "idle" /\ \A k \in Jobs \ {j} : job'[k] = job[k]
      BY <2>1 DEF Exit, TypeOK, Idle
    <3> QED
      BY <2>1, <3>1, AloneInv DEF Exit, Ingesting
  <2>2. ASSUME NEW at, NEW rows, GoTo(j, at, rows), at \in Ingesting => job[j].at \in Ingesting,
               at \in {"deactivate", "commit"} => rows = Active \/ overlapped
        PROVE  SerialInv'
    <3>1. job'[j].at = at /\ job'[j].rows = rows /\ \A k \in Jobs \ {j} : job'[k] = job[k]
      BY <2>2 DEF GoTo, TypeOK, Job
    <3>2. CASE overlapped
      BY <2>2, <3>2 DEF GoTo, SerialInv
    <3>3. CASE ~overlapped
      BY <2>2, <3>1, <3>3, AloneInv DEF GoTo
    <3> QED
      BY <3>2, <3>3
  <2>3. CASE Prepare(j) \/ Insert(j)
    BY <2>1, <2>2, <2>3 DEF Prepare, Insert, Ingesting
  <2>4. CASE Load(j)
    BY <2>1, <2>2, <2>4 DEF Load, Ingesting
  <2>5. CASE Deactivate(j)
    <3>1. job[j].rows \cap Active = Active \/ overlapped
      BY <2>5 DEF Deactivate, SerialInv
    <3> QED
      BY <2>2, <2>5, <3>1 DEF Deactivate, Ingesting
  <2>6. CASE Clear(j) \/ Claim(j) \/ Kill(j)
    BY <2>1, <2>2, <2>6 DEF Clear, Claim, Kill, Ingesting
  <2>7. CASE Derive(j)
    <3>1. CASE /\ curated' = curated \cup {job[j].label}
               /\ job' = [job EXCEPT ![j] = Idle]
               /\ UNCHANGED <<versions, order, overlapped>>
      <4>1. job'[j].at = "idle" /\ \A k \in Jobs \ {j} : job'[k] = job[k]
        BY <3>1 DEF TypeOK, Idle
      <4> QED
        BY <3>1, <4>1, AloneInv DEF Ingesting
    <3> QED
      BY <2>1, <2>7, <3>1 DEF Derive
  <2> QED
    BY <1>4, <2>3, <2>4, <2>5, <2>6, <2>7 DEF Step, Wait
<1> QED
  BY <1>1, <1>2, <1>3, <1>4, CommitSerial DEF Next, Start, Step, Wait

\* A lone ingest reads the versions that are ACTIVE and deactivates all of them
\* in the transaction that commits its own: two are never ACTIVE.
THEOREM AtMostOneActive == Spec => []OneActive
<1>1. ASSUME Init PROVE SerialInv
  <2>1. Active = {} /\ \A j \in Jobs : job[j].at = "idle"
    BY <1>1 DEF Init, Active, HasStatus, Idle
  <2> QED
    BY <2>1 DEF SerialInv, Ingesting
<1>2. TypeOK /\ JobsInv /\ SerialInv /\ [Next]_vars => SerialInv'
  BY StepSerial
<1>3. ASSUME SerialInv PROVE OneActive
  <2> SUFFICES ASSUME ~overlapped PROVE Cardinality(Active) <= 1
    BY DEF OneActive
  <2>1. CASE Active = {}
    BY <2>1, FS_EmptySet
  <2>2. ASSUME NEW l \in Active PROVE Cardinality(Active) <= 1
    <3>1. Active = {l}
      BY <1>3 DEF SerialInv
    <3> QED
      BY <3>1, FS_Singleton
  <2> QED
    BY <2>1, <2>2
<1> QED
  BY <1>1, <1>2, <1>3, Invariant, PTL DEF Spec

-----------------------------------------------------------------------------
(* The catalog that the jobs implement.                                    *)

\* The committed labels, each once, in the order of their activation; and what is
\* curated, or is about to be, was committed.
OrderInv ==
  /\ \A i, k \in DOMAIN order : order[i] = order[k] => i = k
  /\ \A l \in Labels : versions[l] # None <=> \E i \in DOMAIN order : order[i] = l
  /\ \A l \in curated : versions[l] # None
  /\ \A j \in Jobs : job[j].at \in Curating => versions[job[j].label] # None

\* While no two ingests overlap, the version activated last is the active one.
LastActive ==
  ~overlapped => Active = IF order = <<>> THEN {} ELSE {order[Len(order)]}

CatalogInv == TypeOK /\ JobsInv /\ SerialInv /\ OrderInv /\ LastActive

LEMMA CatalogInit == Init => OrderInv /\ LastActive
<1> SUFFICES ASSUME Init PROVE OrderInv /\ LastActive
  OBVIOUS
<1>1. /\ order = <<>> /\ curated = {} /\ \A l \in Labels : versions[l] = None
      /\ \A j \in Jobs : job[j].at = "idle"
  BY DEF Init, Idle
<1>2. DOMAIN order = {}
  BY <1>1
<1>3. Active = {}
  BY <1>1 DEF Active, HasStatus
<1> QED
  BY <1>1, <1>2, <1>3 DEF OrderInv, LastActive, Curating

\* A step of a job that does not commit versions keeps the order; what it curates,
\* or starts to, is committed.
LEMMA OrderKept ==
  ASSUME CatalogInv, [Next]_vars, versions' = versions
  PROVE  /\ order' = order
         /\ \A j \in Jobs : job'[j].at \in Curating =>
              versions[job'[j].label] # None
         /\ curated' = curated
            \/ \E l \in Labels : versions[l] # None /\ curated' = curated \cup {l}
<1> USE DEF CatalogInv
<1>1. CASE UNCHANGED vars
  BY <1>1 DEF vars, OrderInv
<1>2. ASSUME NEW j \in Jobs, Start(j) \/ Step(j) \/ Wait(j) \/ Kill(j), ~Commit(j)
      PROVE  /\ order' = order
             /\ \A k \in Jobs : job'[k].at \in Curating =>
                  versions[job'[k].label] # None
             /\ curated' = curated
                \/ \E l \in Labels : versions[l] # None /\ curated' = curated \cup {l}
  <2>1. \A k \in Jobs \ {j} : job'[k] = job[k]
    BY <1>2 DEF Start, StartIngest, StartCurate, Step, Wait, Kill, Prepare, Insert, Load,
                Deactivate, Clear, Claim, Derive, Exit, GoTo, TypeOK
  <2>2. /\ order' = order
        /\ curated' = curated \/ (Derive(j) /\ curated' = curated \cup {job[j].label})
    BY <1>2 DEF Start, StartIngest, StartCurate, Step, Wait, Kill, Prepare, Insert, Load,
                Deactivate, Clear, Claim, Derive, Exit, GoTo
  <2>3. Derive(j) => job[j].label \in Labels /\ versions[job[j].label] # None
    BY DEF Derive, JobsInv, JobOK, OrderInv, Curating
  <2>4. ASSUME job'[j].at \in Curating PROVE versions[job'[j].label] # None
    <3>1. ASSUME NEW l \in Labels, StartCurate(j, l) PROVE job'[j].label = l /\ versions[l] # None
      BY <3>1 DEF StartCurate, Active, HasStatus, TypeOK
    <3>2. ASSUME NEW at, NEW rows, GoTo(j, at, rows)
          PROVE  job'[j].at = at /\ job'[j].label = job[j].label
      BY <3>2 DEF GoTo, TypeOK, Job
    <3>3. ASSUME NEW m \in Manifests, StartIngest(j, m) PROVE FALSE
      BY <2>4, <3>3 DEF StartIngest, TypeOK, Curating
    <3>4. ASSUME Exit(j) PROVE FALSE
      BY <2>4, <3>4 DEF Exit, TypeOK, Idle, Curating
    <3>5. CASE Clear(j) \/ Claim(j)
      <4>1. versions[job[j].label] # None
        BY <3>5 DEF Clear, Claim, OrderInv, Curating
      <4> QED
        BY <3>2, <3>4, <3>5, <4>1 DEF Clear, Claim
    <3>6. CASE Prepare(j) \/ Insert(j) \/ Load(j) \/ Deactivate(j)
      BY <2>4, <3>2, <3>4, <3>6 DEF Prepare, Insert, Load, Deactivate, Curating
    <3>7. CASE Derive(j)
      <4>1. job' = [job EXCEPT ![j] = Idle]
        BY <3>7 DEF Derive, Exit
      <4> QED
        BY <2>4, <4>1 DEF TypeOK, Idle, Curating
    <3> QED
      BY <1>2, <3>1, <3>3, <3>4, <3>5, <3>6, <3>7 DEF Start, Step, Wait, Kill
  <2> QED
    BY <2>1, <2>2, <2>3, <2>4 DEF OrderInv
<1>3. ASSUME NEW j \in Jobs, Commit(j) PROVE FALSE
  <2>1. job[j].label \in Labels
    BY <1>3 DEF Commit, JobsInv, JobOK
  <2> QED
    BY <1>3, <2>1, CommitVersions
<1> QED
  BY <1>1, <1>2, <1>3 DEF Next
\* What a commit appends was in no earlier place.
LEMMA CommitAppends ==
  ASSUME CatalogInv, NEW j \in Jobs, Commit(j)
  PROVE  /\ job[j].label \in Labels /\ versions[job[j].label] = None
         /\ Len(order) \in Nat /\ DOMAIN order = 1 .. Len(order)
         /\ Len(order') = Len(order) + 1 /\ DOMAIN order' = 1 .. Len(order) + 1
         /\ \A i \in DOMAIN order : order'[i] = order[i] /\ order[i] # job[j].label
         /\ order'[Len(order) + 1] = job[j].label
<1> USE DEF CatalogInv
<1>1. /\ job[j].label \in Labels /\ versions[job[j].label] = None
      /\ order' = Append(order, job[j].label) /\ order \in Seq(Labels)
  BY DEF Commit, JobsInv, JobOK, Loading, TypeOK
<1>2. /\ Len(order) \in Nat /\ DOMAIN order = 1 .. Len(order)
      /\ Len(order') = Len(order) + 1 /\ DOMAIN order' = 1 .. Len(order) + 1
      /\ \A i \in DOMAIN order : order'[i] = order[i]
      /\ order'[Len(order) + 1] = job[j].label
  BY <1>1
<1>3. \A i \in DOMAIN order : order[i] # job[j].label
  BY <1>1 DEF OrderInv
<1> QED
  BY <1>1, <1>2, <1>3

LEMMA CommitOrder ==
  ASSUME CatalogInv, NEW j \in Jobs, Commit(j)
  PROVE  OrderInv'
<1> USE DEF CatalogInv
<1> DEFINE label == job[j].label
           n == Len(order)
<1>1. /\ label \in Labels /\ versions[label] = None
      /\ n \in Nat /\ DOMAIN order = 1 .. n /\ DOMAIN order' = 1 .. n + 1
      /\ \A i \in DOMAIN order : order'[i] = order[i] /\ order[i] # label
      /\ order'[n + 1] = label
  BY CommitAppends
<1>2. /\ \A k \in Jobs \ {j} : job'[k] = job[k]
      /\ job'[j].at = "idle" /\ curated' = curated
  BY DEF Commit, TypeOK, Idle
<1>3. \A l \in Labels : versions'[l] # None <=> versions[l] # None \/ l = label
  BY CommitVersions
<1> HIDE DEF label, n
<1>4. \A i, k \in DOMAIN order' : order'[i] = order'[k] => i = k
  <2> SUFFICES ASSUME NEW i \in 1 .. n + 1, NEW k \in 1 .. n + 1, order'[i] = order'[k]
               PROVE  i = k
    BY <1>1
  <2>1. CASE i \in 1 .. n /\ k \in 1 .. n
    BY <1>1, <2>1 DEF OrderInv
  <2>2. CASE i = n + 1 \/ k = n + 1
    BY <1>1, <2>2
  <2> QED
    BY <1>1, <2>1, <2>2
<1>5. ASSUME NEW l \in Labels
      PROVE  versions'[l] # None <=> \E i \in DOMAIN order' : order'[i] = l
  <2>1. (\E i \in 1 .. n + 1 : order'[i] = l) <=> (\E i \in 1 .. n : order[i] = l) \/ l = label
    <3>1. \A i \in 1 .. n + 1 : i \in 1 .. n \/ i = n + 1
      BY <1>1
    <3>2. n + 1 \in 1 .. n + 1 /\ \A i \in 1 .. n : i \in 1 .. n + 1
      BY <1>1
    <3> QED
      BY <1>1, <3>1, <3>2
  <2> QED
    BY <1>1, <1>3, <2>1 DEF OrderInv
<1>6. \A l \in curated' : versions'[l] # None
  BY <1>2, <1>3 DEF OrderInv, TypeOK
<1>7. ASSUME NEW k \in Jobs, job'[k].at \in Curating PROVE versions'[job'[k].label] # None
  <2>1. k # j /\ job'[k] = job[k]
    BY <1>2, <1>7 DEF Curating
  <2>2. job[k].label \in Labels /\ versions[job[k].label] # None
    BY <1>7, <2>1 DEF OrderInv, JobsInv, JobOK, Curating
  <2> QED
    BY <1>3, <2>1, <2>2
<1> QED
  BY <1>4, <1>5, <1>6, <1>7 DEF OrderInv

LEMMA CatalogStep ==
  ASSUME CatalogInv, [Next]_vars
  PROVE  CatalogInv'
<1> USE DEF CatalogInv
<1>1. TypeOK' /\ JobsInv' /\ SerialInv'
  BY StepTyped, StepInv, StepSerial
<1>2. overlapped => overlapped'
  BY DEF Next, Start, StartIngest, StartCurate, Step, Wait, Kill, Prepare, Insert, Load,
         Deactivate, Commit, Clear, Claim, Derive, Exit, GoTo, vars, TypeOK
<1>3. CASE versions' = versions
  <2>1. Active' = Active
    BY <1>3 DEF Active, HasStatus
  <2>2. OrderInv'
    <3>1. \A l \in curated' : versions'[l] # None
      BY <1>3, OrderKept DEF OrderInv
    <3> QED
      BY <1>3, <3>1, OrderKept DEF OrderInv
  <2>3. LastActive'
    BY <1>2, <1>3, <2>1, OrderKept DEF LastActive
  <2> QED
    BY <1>1, <2>2, <2>3
<1>4. ASSUME NEW j \in Jobs, Commit(j) PROVE CatalogInv'
  <2>1. /\ job[j].label \in Labels /\ order' # <<>> /\ order'[Len(order')] = job[j].label
    BY <1>4, CommitAppends
  <2>2. job[j].label \in Active'
    BY <1>4, <2>1, CommitVersions DEF Active, HasStatus
  <2>3. LastActive'
    BY <1>1, <2>1, <2>2 DEF LastActive, SerialInv
  <2> QED
    BY <1>1, <1>4, <2>3, CommitOrder
<1> QED
  BY <1>3, <1>4, OnlyCommitsChangeVersions

LEMMA CatalogInvariant == Spec => []CatalogInv
<1>1. Init => SerialInv
  <2>1. Init => Active = {} /\ \A j \in Jobs : job[j].at = "idle"
    BY DEF Init, Active, HasStatus, Idle
  <2> QED
    BY <2>1 DEF SerialInv, Ingesting
<1>2. Init => CatalogInv
  BY <1>1, CatalogInit, TypedInit DEF CatalogInv
<1> QED
  BY <1>2, CatalogStep, PTL DEF Spec

\* The catalog counts versions up to the number of labels there can be.
LEMMA LabelsSuffice ==
  ASSUME OrderInv, TypeOK
  PROVE  Len(order) \in Nat /\ Cardinality(Labels) \in Nat /\ Len(order) <= Cardinality(Labels)
<1>1. /\ Len(order) \in Nat /\ DOMAIN order = 1 .. Len(order)
      /\ order \in [1 .. Len(order) -> Labels]
  BY LenProperties DEF TypeOK
<1>2. order \in Injection(1 .. Len(order), Labels)
  BY <1>1 DEF OrderInv, Injection, IsInjective
<1>3. Cardinality(1 .. Len(order)) <= Cardinality(Labels)
  BY <1>2, LabelAssumption, FS_Injection
<1>4. Cardinality(1 .. Len(order)) = Len(order)
  BY <1>1, FS_Interval
<1>5. Cardinality(Labels) \in Nat
  BY LabelAssumption, FS_CardinalityType
<1> QED
  BY <1>1, <1>3, <1>4, <1>5
-----------------------------------------------------------------------------
(* The refinement: the version that the catalog has active is the last one *)
(* activated, and the versions it has built are those of curated labels.   *)

ActiveVersion == IF Active = {} THEN 0 ELSE Position(CHOOSE l \in Active : TRUE)
Built == {i \in DOMAIN order : order[i] \in curated}

LEMMA ActiveIsLast ==
  ASSUME TypeOK, OrderInv, LastActive, ~overlapped
  PROVE  ActiveVersion = Len(order)
<1>1. Len(order) \in Nat /\ DOMAIN order = 1 .. Len(order)
  BY LenProperties DEF TypeOK
<1>2. CASE order = <<>>
  BY <1>2 DEF LastActive, ActiveVersion
<1>3. CASE order # <<>>
  <2> DEFINE last == order[Len(order)]
  <2>1. Len(order) \in DOMAIN order
    BY <1>1, <1>3, EmptySeq DEF TypeOK
  <2>2. Active = {last}
    BY <1>3 DEF LastActive
  <2>3. (CHOOSE l \in Active : TRUE) = last
    BY <2>2
  <2>4. Position(last) = Len(order)
    <3>1. \A i \in DOMAIN order : order[i] = last <=> i = Len(order)
      BY <2>1 DEF OrderInv
    <3> QED
      BY <2>1, <3>1 DEF Position
  <2> QED
    BY <2>2, <2>3, <2>4 DEF ActiveVersion
<1> QED
  BY <1>2, <1>3

\* What the two lemmas say of a state, and so of the next one.
Counted ==
  /\ ~overlapped => ActiveVersion = Len(order)
  /\ Len(order) <= Cardinality(Labels)

LEMMA CatalogCounts == CatalogInv => Counted
  BY ActiveIsLast, LabelsSuffice DEF CatalogInv, Counted

\* A commit activates the next version.
LEMMA CommitRefines ==
  ASSUME CatalogInv, CatalogInv', ~overlapped, ~overlapped', NEW j \in Jobs, Commit(j)
  PROVE  Catalog!Next
<1> DEFINE n == Len(order)
<1>1. /\ n \in Nat /\ DOMAIN order = 1 .. n
      /\ Len(order') = n + 1 /\ DOMAIN order' = 1 .. n + 1
      /\ \A i \in DOMAIN order : order'[i] = order[i]
      /\ order'[n + 1] = job[j].label
      /\ versions[job[j].label] = None
  BY CommitAppends
<1>2. ActiveVersion = n
  BY ActiveIsLast DEF CatalogInv
<1>3. Counted'
  BY CatalogCounts, PTL
<1>4. Built' = Built
  <2>1. curated' = curated /\ job[j].label \notin curated
    BY <1>1 DEF Commit, CatalogInv, OrderInv
  <2>2. \A i \in 1 .. n + 1 : order'[i] \in curated <=> i \in 1 .. n /\ order[i] \in curated
    BY <1>1, <2>1
  <2> QED
    BY <1>1, <2>1, <2>2 DEF Built
<1>5. n + 1 \in 1 .. Cardinality(Labels) /\ ActiveVersion' = n + 1
  BY <1>1, <1>3, LabelsSuffice DEF CatalogInv, Counted
<1>6. Catalog!Activate(n + 1)
  <2>1. n + 1 > n /\ \A u \in 1 .. Cardinality(Labels) : u < n + 1 => u <= n
    BY <1>1, LabelsSuffice DEF CatalogInv
  <2>2. /\ n + 1 > ActiveVersion
        /\ \A u \in 1 .. Cardinality(Labels) : u < n + 1 => u <= ActiveVersion
    BY <1>2, <2>1
  <2> HIDE DEF n
  <2> QED
    BY <1>4, <1>5, <2>2 DEF Catalog!Activate, ActiveVersion, Built
<1> QED
  BY <1>5, <1>6 DEF Catalog!Next

\* A build that commits adds the version of its label, unless one that overlapped
\* it has; by then another version may be active.
LEMMA DeriveRefines ==
  ASSUME CatalogInv, ~overlapped, order' = order, ActiveVersion' = ActiveVersion,
         NEW l \in Labels, versions[l] # None, curated' = curated \cup {l}
  PROVE  Catalog!Next \/ UNCHANGED <<ActiveVersion, Built>>
<1>1. PICK v \in DOMAIN order : order[v] = l
  BY DEF CatalogInv, OrderInv
<1>2. Built' = Built \cup {v}
  BY <1>1 DEF Built, CatalogInv, OrderInv
<1>3. ActiveVersion = Len(order)
  BY ActiveIsLast DEF CatalogInv
<1>4. v \in 1 .. Cardinality(Labels) /\ v <= ActiveVersion
  <2>1. Len(order) \in Nat /\ Cardinality(Labels) \in Nat /\ Len(order) <= Cardinality(Labels)
    BY LabelsSuffice DEF CatalogInv
  <2>2. DOMAIN order = 1 .. Len(order)
    BY LenProperties DEF CatalogInv, TypeOK
  <2> QED
    BY <1>1, <1>3, <2>1, <2>2
<1>5. CASE v \in Built
  BY <1>2, <1>5
<1>6. CASE v \notin Built
  <2>1. Catalog!BuildCurated(v)
    BY <1>2, <1>4, <1>6 DEF Catalog!BuildCurated, ActiveVersion, Built
  <2> QED
    BY <1>4, <2>1 DEF Catalog!Next
<1> QED
  BY <1>5, <1>6

LEMMA StepRefines ==
  ASSUME CatalogInv, CatalogInv', [Next]_vars
  PROVE  [overlapped' \/ Catalog!Next]_(<<ActiveVersion, Built>>)
<1> SUFFICES ASSUME ~overlapped'
             PROVE  Catalog!Next \/ UNCHANGED <<ActiveVersion, Built>>
  OBVIOUS
<1>1. ~overlapped
  BY DEF Next, Start, StartIngest, StartCurate, Step, Wait, Kill, Prepare, Insert, Load,
         Deactivate, Commit, Clear, Claim, Derive, Exit, GoTo, vars, CatalogInv, TypeOK
<1>2. CASE versions' = versions
  <2>1. order' = order
    BY <1>2, OrderKept
  <2>2. Active' = Active
    BY <1>2 DEF Active, HasStatus
  <2>3. ActiveVersion' = ActiveVersion
    BY <2>1, <2>2 DEF ActiveVersion, Position
  <2>4. CASE curated' = curated
    BY <2>1, <2>3, <2>4 DEF Built
  <2> QED
    BY <1>1, <1>2, <2>1, <2>3, <2>4, OrderKept, DeriveRefines
<1>3. ASSUME NEW j \in Jobs, Commit(j) PROVE Catalog!Next
  BY <1>1, <1>3, CommitRefines
<1> QED
  BY <1>2, <1>3, OnlyCommitsChangeVersions

\* ingest_manifest and build_curated, transaction by transaction, are the catalog
\* that AnswerService runs against, for any number of jobs, labels and manifests,
\* failures and kills included, as long as no two ingests overlap.
THEOREM JobsImplementCatalog == Spec => ImplementsCatalog
<1>1. Init => Catalog!Init
  <2>1. Init => Active = {} /\ curated = {}
    BY DEF Init, Active, HasStatus
  <2> QED
    BY <2>1 DEF Catalog!Init
<1>2. CatalogInv /\ CatalogInv' /\ [Next]_vars => [overlapped' \/ Catalog!Next]_(Catalog!vars)
  BY StepRefines DEF Catalog!vars, ActiveVersion, Built
<1> QED
  BY <1>1, <1>2, CatalogInvariant, PTL DEF Spec, ImplementsCatalog

\* A build deletes what an earlier one has committed before it derives its own, and
\* may be killed in between: the products of a label, once there, are there at every
\* moment after (build_curated of app/curated/builder.py).
THEOREM ProductsAreKept == Spec => CuratedStays
<1>1. CatalogInv /\ [Next]_vars => curated \subseteq curated'
  <2> SUFFICES ASSUME CatalogInv, [Next]_vars PROVE curated \subseteq curated'
    OBVIOUS
  <2>1. CASE versions' = versions
    BY <2>1, OrderKept
  <2>2. ASSUME NEW j \in Jobs, Commit(j) PROVE curated \subseteq curated'
    BY <2>2 DEF Commit
  <2> QED
    BY <2>1, <2>2, OnlyCommitsChangeVersions
<1> QED
  BY <1>1, CatalogInvariant, PTL DEF Spec, CuratedStays
=============================================================================
