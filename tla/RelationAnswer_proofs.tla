------------------------ MODULE RelationAnswer_proofs ------------------------
(***************************************************************************)
(* Proofs about ExternalLibrary and RelationAnswer, for any number of      *)
(* ingests of any manifests and for any facts, questions and documents:    *)
(* the library is one snapshot at every commit, an answer that no ingest   *)
(* disturbs is exact, and one that ingests overtake still has each of its  *)
(* clauses answered by one snapshot.                                       *)
(***************************************************************************)
EXTENDS RelationAnswer, FiniteSetTheorems, SequenceTheorems, TLAPS

Deleted(j, t) == job[j].deleted[t]

\* What a job that has deleted the documents knows: they are all of those there
\* are, what refers to them it has deleted before, and the record of the run, which
\* it looks at later, cannot change under its hands.
Owner(j) ==
  /\ Deleted(j, "document") = tables["document"]
  /\ tables["chunk"] \subseteq Deleted(j, "chunk")
  /\ tables["fact"] \subseteq Deleted(j, "fact")
  /\ job[j].next = 4
  /\ job[j].at = "deleting" => job[j].seen = tables["run"]
  /\ job[j].at = "load" => tables["run"] \subseteq Deleted(j, "run")

Owns(j) == Deleted(j, "document") # {}

OwnersKnow == \A j \in Jobs : Owns(j) => Owner(j)

\* Whoever deletes a document waits for the one who has.
OneOwner == \A j, k \in Jobs : Owns(j) /\ Owns(k) => j = k

\* A job that has begun has a manifest.
BusyWithOne == \A j \in Jobs : job[j].at # "idle" => job[j].manifest \in Manifests

LibraryInv == TypeOK /\ BusyWithOne /\ OneSnapshot /\ OwnersKnow /\ OneOwner

LEMMA TablesAre ==
  /\ Tables = {"chunk", "fact", "document", "run"}
  /\ DOMAIN Order = 1 .. 4 /\ Len(Order) = 4
  /\ Order[1] = "chunk" /\ Order[2] = "fact" /\ Order[3] = "document" /\ Order[4] = "run"
  BY DEF Tables, Order

LEMMA InitInv == Init => LibraryInv
<1> SUFFICES ASSUME Init PROVE LibraryInv
  OBVIOUS
<1>1. PICK m \in Manifests : tables = [t \in Tables |-> {m}]
  BY DEF Init
<1>2. \A j \in Jobs : job[j] = Idle
  BY DEF Init
<1>3. Nothing \in [Tables -> SUBSET Manifests] /\ Nothing["document"] = {}
  BY TablesAre DEF Nothing
<1>4. TypeOK
  BY <1>1, <1>3, TablesAre DEF Init, TypeOK, Idle
<1>5. OneSnapshot
  BY <1>1 DEF OneSnapshot
<1>6. \A j \in Jobs : ~Owns(j)
  BY <1>2, <1>3 DEF Owns, Deleted, Idle
<1>7. BusyWithOne
  BY <1>2 DEF BusyWithOne, Idle
<1> QED
  BY <1>4, <1>5, <1>6, <1>7 DEF LibraryInv, OwnersKnow, OneOwner

\* The tables stay and so does what each job has deleted and knows, but for job j,
\* which owns nothing after the step.
LEMMA QuietStep ==
  ASSUME LibraryInv, NEW j \in Jobs, NEW to, tables' = tables,
         job' = [job EXCEPT ![j] = to], to.deleted["document"] = {},
         to.at # "idle" => to.manifest \in Manifests
  PROVE  BusyWithOne' /\ OneSnapshot' /\ OwnersKnow' /\ OneOwner'
<1> USE DEF LibraryInv
<1>1. OneSnapshot'
  BY DEF OneSnapshot
<1>2. \A k \in Jobs : k # j => job'[k] = job[k]
  BY DEF TypeOK
<1>3. job'[j] = to
  BY DEF TypeOK
<1>4. \A k \in Jobs : Owns(k)' => k # j /\ Owns(k)
  BY <1>2, <1>3 DEF Owns, Deleted
<1>5. \A k \in Jobs : k # j /\ Owner(k) => Owner(k)'
  BY <1>2 DEF Owner, Deleted
<1>6. BusyWithOne'
  BY <1>2, <1>3 DEF BusyWithOne
<1> QED
  BY <1>1, <1>4, <1>5, <1>6 DEF OwnersKnow, OneOwner

LEMMA IdleFacts ==
  /\ Idle \in [at : {"idle", "delete", "deleting", "load"},
               manifest : Manifests \cup {None}, next : DOMAIN Order,
               seen : SUBSET Manifests, deleted : [Tables -> SUBSET Manifests]]
  /\ Idle.deleted["document"] = {} /\ Idle.at = "idle"
  BY TablesAre DEF Idle, Nothing

LEMMA ExitInv ==
  ASSUME LibraryInv, NEW j \in Jobs, Exit(j)
  PROVE  LibraryInv'
<1>1. TypeOK'
  BY IdleFacts DEF LibraryInv, TypeOK, Exit
<1> QED
  BY <1>1, IdleFacts, QuietStep DEF Exit, LibraryInv

LEMMA StartInv ==
  ASSUME LibraryInv, NEW j \in Jobs, NEW m \in Manifests, Start(j, m)
  PROVE  LibraryInv'
<1> DEFINE to == [Idle EXCEPT !.at = "delete", !.manifest = m]
<1>1. /\ to \in [at : {"idle", "delete", "deleting", "load"},
                 manifest : Manifests \cup {None}, next : DOMAIN Order,
                 seen : SUBSET Manifests, deleted : [Tables -> SUBSET Manifests]]
      /\ to.deleted["document"] = {} /\ to.manifest = m
  BY IdleFacts DEF Idle
<1>2. job' = [job EXCEPT ![j] = to] /\ tables' = tables
  BY DEF Start
<1> HIDE DEF to
<1>3. TypeOK'
  BY <1>1, <1>2 DEF LibraryInv, TypeOK
<1> QED
  BY <1>1, <1>2, <1>3, QuietStep DEF LibraryInv

LEMMA StartDeleteInv ==
  ASSUME LibraryInv, NEW j \in Jobs, StartDelete(j)
  PROVE  LibraryInv'
<1> USE DEF LibraryInv
<1>1. Table(j) \in Tables
  BY TablesAre DEF Table, TypeOK
<1>2. TypeOK'
  BY <1>1 DEF TypeOK, StartDelete
<1>3. OneSnapshot'
  BY DEF OneSnapshot, StartDelete
<1>4. \A k \in Jobs : /\ job'[k].deleted = job[k].deleted /\ job'[k].next = job[k].next
                      /\ k # j => job'[k] = job[k]
  BY DEF TypeOK, StartDelete
<1>5. job'[j].at = "deleting" /\ job'[j].seen = tables[Table(j)]
  BY DEF TypeOK, StartDelete
<1>6. tables' = tables
  BY DEF StartDelete
<1>7. \A k \in Jobs : Owns(k)' <=> Owns(k)
  BY <1>4 DEF Owns, Deleted
<1>8. ASSUME NEW k \in Jobs, Owner(k) PROVE Owner(k)'
  <2>1. CASE k # j
    BY <2>1, <1>4, <1>6, <1>8 DEF Owner, Deleted
  <2>2. CASE k = j
    <3>1. Table(j) = "run"
      BY <2>2, <1>8, TablesAre DEF Owner, Table
    <3> QED
      BY <2>2, <3>1, <1>4, <1>5, <1>6, <1>8 DEF Owner, Deleted
  <2> QED
    BY <2>1, <2>2
<1>9. BusyWithOne'
  BY DEF BusyWithOne, TypeOK, StartDelete
<1> QED
  BY <1>2, <1>3, <1>7, <1>8, <1>9 DEF OwnersKnow, OneOwner

LEMMA FinishDeleteInv ==
  ASSUME LibraryInv, NEW j \in Jobs, FinishDelete(j)
  PROVE  LibraryInv'
<1> USE DEF LibraryInv
<1> DEFINE t == Table(j)
           gone == job[j].seen \cap tables[t]
<1>1. CASE t = "document" /\ Referenced(j, gone)
  BY <1>1, ExitInv DEF FinishDelete
<1>2. CASE ~(t = "document" /\ Referenced(j, gone))
  <2>1. /\ job' = [job EXCEPT ![j].at = IF job[j].next = Len(Order) THEN "load" ELSE "delete",
                              ![j].next = IF @ = Len(Order) THEN @ ELSE @ + 1,
                              ![j].seen = {},
                              ![j].deleted[t] = gone]
        /\ tables' = tables
        /\ job[j].at = "deleting" /\ ~Held(j)
    BY <1>2 DEF FinishDelete
  <2>2. t \in Tables /\ gone \subseteq Manifests
    BY TablesAre DEF Table, TypeOK
  <2> HIDE DEF gone, t
  <2>3. \A k \in Jobs : k # j => job'[k] = job[k]
    BY <2>1 DEF TypeOK
  <2>4. /\ job'[j].at = IF job[j].next = Len(Order) THEN "load" ELSE "delete"
        /\ job'[j].next = IF job[j].next = Len(Order) THEN job[j].next ELSE job[j].next + 1
        /\ job'[j].seen = {}
        /\ job'[j].deleted = [job[j].deleted EXCEPT ![t] = gone]
        /\ job'[j].manifest = job[j].manifest
    BY <2>1 DEF TypeOK
  <2>5. TypeOK'
    <3> DEFINE at == IF job[j].next = Len(Order) THEN "load" ELSE "delete"
               next == IF job[j].next = Len(Order) THEN job[j].next ELSE job[j].next + 1
               deleted == [job[j].deleted EXCEPT ![t] = gone]
               to == [job[j] EXCEPT !.at = at, !.next = next, !.seen = {}, !.deleted = deleted]
               Type == [at : {"idle", "delete", "deleting", "load"},
                        manifest : Manifests \cup {None}, next : DOMAIN Order,
                        seen : SUBSET Manifests, deleted : [Tables -> SUBSET Manifests]]
    <3>1. deleted \in [Tables -> SUBSET Manifests]
      BY <2>2 DEF TypeOK
    <3>2. next \in DOMAIN Order
      BY TablesAre DEF TypeOK
    <3>3. at \in {"delete", "load"}
      OBVIOUS
    <3>4. job' = [job EXCEPT ![j] = to]
      BY <2>1 DEF TypeOK
    <3>5. job \in [Jobs -> Type]
      BY DEF TypeOK
    <3> HIDE DEF at, next, deleted
    <3>6. to \in Type
      BY <3>1, <3>2, <3>3, <3>5
    <3> HIDE DEF to, Type
    <3>7. job' \in [Jobs -> Type]
      BY <3>4, <3>5, <3>6
    <3> QED
      BY <2>1, <3>7 DEF TypeOK, Type
  <2>6. OneSnapshot'
    BY <2>1 DEF OneSnapshot
  <2>7. \A k \in Jobs : k # j => (Owns(k)' <=> Owns(k)) /\ (Owner(k) => Owner(k)')
    BY <2>1, <2>3 DEF Owns, Owner, Deleted
  <2>8. \A u \in Tables : Deleted(j, u)' = IF u = t THEN gone ELSE Deleted(j, u)
    BY <2>2, <2>4 DEF TypeOK, Deleted
  <2>9. PICK c \in Manifests : \A u \in Tables : tables[u] = {c}
    BY DEF OneSnapshot
  <2>10. t = "document" /\ gone # {} => \A k \in Jobs : k # j => ~Owns(k)
    <3> SUFFICES ASSUME t = "document", gone # {}, NEW k \in Jobs, k # j, Owns(k)
                 PROVE  FALSE
      OBVIOUS
    <3>1. gone = {c} /\ c \in job[j].seen
      BY <2>9, TablesAre DEF gone
    <3>2. Deleted(k, "document") = {c}
      BY <2>9, TablesAre DEF OwnersKnow, Owner
    <3>3. Held(j)
      BY <3>1, <3>2 DEF Held, Deleted, t
    <3> QED
      BY <3>3, <2>1
  <2>11. ASSUME Owns(j)' PROVE Owner(j)'
    <3>1. CASE t = "document"
      <4>1. Deleted(j, "document")' = {c}
        BY <3>1, <2>8, <2>9, <2>11, TablesAre DEF Owns, gone
      <4>2. gone = {c}
        BY <4>1, <3>1, <2>8, TablesAre
      <4>3. ~Referenced(j, {c})
        BY <4>2, <3>1, <1>2 DEF gone, t
      <4>4. c \in Deleted(j, "chunk") /\ c \in Deleted(j, "fact")
        BY <4>3, <2>9, TablesAre DEF Referenced, Deleted
      <4>5. job[j].next = 3
        BY <3>1, TablesAre DEF TypeOK, Table, t
      <4>6. /\ Deleted(j, "chunk")' = Deleted(j, "chunk")
            /\ Deleted(j, "fact")' = Deleted(j, "fact")
        BY <3>1, <2>8, TablesAre
      <4>7. /\ tables'["document"] = {c} /\ tables'["chunk"] = {c} /\ tables'["fact"] = {c}
        BY <2>1, <2>9, TablesAre
      <4>8. job'[j].next = 4 /\ job'[j].at = "delete"
        BY <4>5, <2>4, TablesAre
      <4> QED
        BY <4>1, <4>4, <4>6, <4>7, <4>8 DEF Owner
    <3>2. CASE t # "document"
      <4>1. Owner(j)
        BY <3>2, <2>8, <2>11, TablesAre DEF Owns, OwnersKnow
      <4>2. t = "run" /\ gone = tables["run"]
        BY <4>1, <2>1, TablesAre DEF Owner, Table, t, gone
      <4> QED
        BY <4>1, <4>2, <2>1, <2>4, <2>8, TablesAre DEF Owner
    <3> QED
      BY <3>1, <3>2
  <2>12. Owns(j)' => \A k \in Jobs : k # j => ~Owns(k)
    <3>1. Owns(j)' => Owns(j) \/ (t = "document" /\ gone # {})
      BY <2>8, TablesAre DEF Owns
    <3> QED
      BY <3>1, <2>10 DEF OneOwner
  <2>13. BusyWithOne'
    BY <2>1, <2>3, <2>4 DEF BusyWithOne
  <2> QED
    BY <2>5, <2>6, <2>7, <2>11, <2>12, <2>13 DEF OwnersKnow, OneOwner
<1> QED
  BY <1>1, <1>2

LEMMA LoadInv ==
  ASSUME LibraryInv, NEW j \in Jobs, Load(j)
  PROVE  LibraryInv'
<1> USE DEF LibraryInv
<1>1. CASE Duplicate(j)
  BY <1>1, ExitInv DEF Load
<1>2. CASE ~Duplicate(j)
  <2>1. Commit(j) /\ job[j].at = "load"
    BY <1>2 DEF Load
  <2>2. PICK c \in Manifests : \A u \in Tables : tables[u] = {c}
    BY DEF OneSnapshot
  <2>3. Owns(j)
    BY <1>2, <2>2, TablesAre DEF Duplicate, Owns, Deleted
  <2>4. Owner(j)
    BY <2>3 DEF OwnersKnow
  <2>5. \A u \in Tables : c \in job[j].deleted[u]
    BY <2>1, <2>2, <2>4, TablesAre DEF Owner, Deleted
  <2>6. \A u \in Tables : tables'[u] = {job[j].manifest}
    BY <2>1, <2>2, <2>5 DEF Commit
  <2>7. job[j].manifest \in Manifests
    BY <2>1 DEF BusyWithOne
  <2>8. TypeOK'
    <3>1. \A u \in Tables : (tables[u] \ job[j].deleted[u]) \cup {job[j].manifest} \subseteq Manifests
      BY <2>7 DEF TypeOK
    <3>2. tables' \in [Tables -> SUBSET Manifests]
      BY <2>1, <3>1 DEF Commit
    <3> QED
      BY <2>1, <3>2, IdleFacts DEF TypeOK, Commit
  <2>9. \A k \in Jobs : k # j => job'[k] = job[k]
    BY <2>1 DEF Commit, TypeOK
  <2>10. job'[j] = Idle
    BY <2>1 DEF Commit, TypeOK
  <2>11. \A k \in Jobs : ~Owns(k)'
    <3>1. \A k \in Jobs : k # j => ~Owns(k)
      BY <2>3 DEF OneOwner
    <3> QED
      BY <3>1, <2>9, <2>10, IdleFacts DEF Owns, Deleted
  <2>12. BusyWithOne'
    BY <2>9, <2>10 DEF BusyWithOne, Idle
  <2>13. OneSnapshot'
    BY <2>6, <2>7 DEF OneSnapshot
  <2> QED
    BY <2>8, <2>11, <2>12, <2>13 DEF OwnersKnow, OneOwner
<1> QED
  BY <1>1, <1>2

LEMMA StepInv == LibraryInv /\ [Next]_vars => LibraryInv'
<1> SUFFICES ASSUME LibraryInv, [Next]_vars PROVE LibraryInv'
  OBVIOUS
<1>1. ASSUME NEW j \in Jobs, Fail(j) PROVE LibraryInv'
  BY <1>1, ExitInv DEF Fail
<1>2. CASE UNCHANGED vars
  BY <1>2 DEF vars, LibraryInv, TypeOK, BusyWithOne, OneSnapshot, OwnersKnow, OneOwner,
              Owns, Owner, Deleted
<1> QED
  BY <1>1, <1>2, StartInv, StartDeleteInv, FinishDeleteInv, LoadInv DEF Next

\* Whatever ingests of app/external/ingestion.py overlap: a job that has deleted any
\* document has deleted all that are committed, and all chunks and facts that go with
\* them, before it; there is at most one such job; and the library is one snapshot.
THEOREM LibraryIsSound == Spec => []LibraryInv
  BY InitInv, StepInv, PTL DEF Spec

\* The tables hold manifests, and every job is at one of its statements.
THEOREM TypeCorrect == Spec => []TypeOK
<1>1. LibraryInv => TypeOK
  BY DEF LibraryInv
<1> QED
  BY <1>1, LibraryIsSound, PTL

\* Whatever ingests overlap and whichever of them fail, every commit leaves the
\* library with one manifest's rows in all its tables: ingest_external of
\* app/external/ingestion.py never mixes two snapshots.
THEOREM AlwaysOneSnapshot == Spec => []OneSnapshot
<1>1. LibraryInv => OneSnapshot
  BY DEF LibraryInv
<1> QED
  BY <1>1, LibraryIsSound, PTL

-----------------------------------------------------------------------------
(***************************************************************************)
(* The reader of RelationAnswer.  The library's invariant says what each   *)
(* of its statements sees; its own says what it has seen so far.           *)
(***************************************************************************)

AllFacts == UNION {Facts[m] : m \in Manifests}
AllEntities == UNION {Alias[t][m] \cup Canonical[t][m] : t \in Targets, m \in Manifests}
AllProducts == UNION {UNION q.selects : q \in Questions}
Evidences == Nat \X AllFacts

Reader ==
  [at : {"idle", "alias", "canonical", "facts", "conclude", "check", "ended"},
   question : Questions \cup {None},
   clause : Nat,
   entities : SUBSET AllEntities,
   evidences : SUBSET Evidences,
   facts : SUBSET Evidences,
   selected : SUBSET AllProducts,
   rows : SUBSET AllProducts,
   unread : SUBSET Evidences,
   manifest : Manifests \cup {None},
   outcome : {None, "answered", "abstained", "failed"},
   quiet : BOOLEAN,
   gone : SUBSET DocsOf(AllFacts)]

ReaderTypeOK == reader \in Reader

\* A request that has begun has a question, and is at one of its clauses.
AsksSomething ==
  reader.at # "idle" => reader.question \in Questions /\ reader.clause \in DOMAIN reader.question.clauses

Looping == reader.at \in {"alias", "canonical", "facts"}

\* The target means one entity by the time its facts are read.
MeansOne ==
  reader.at = "facts" =>
    \E m \in Manifests : \E x \in Named(m, Clause.target) : reader.entities = {x}

\* What has been read so far is of the clauses before.
ReadSoFar ==
  /\ AllStand(reader.question, reader.evidences)
  /\ Looping => \A e \in reader.evidences : e[1] < reader.clause

\* The history's documents are not there, and what has been looked up was.
LookedUp ==
  /\ reader.gone \cap Documents = {}
  /\ reader.at = "idle" => reader.gone = {}
  /\ reader.at \in {"idle", "conclude"} \/ Looping => reader.facts = {}
  /\ reader.outcome = "answered" => reader.at = "ended"
  /\ reader.at = "check" =>
       \A e \in reader.facts :
         e[2].product \in reader.rows \cup {NoProduct} =>
           e[2].doc \notin reader.gone \/ e \in reader.unread

Replies(rows, facts) == rows # {} \/ \E e \in facts : e[2].product = NoProduct

\* What the products and facts shown are to what snapshot m holds.
Exact(m, q, rows, facts) ==
  LET held == HeldBy(m, q)
      products == ProductsOf(held)
      found == products \cap UNION q.selects
      fits == Cardinality(Kept(held, found)) <= q.limit
  IN /\ facts \subseteq held /\ Cardinality(facts) <= q.limit
     /\ rows \subseteq UNION q.selects /\ Cardinality(rows) <= q.limit
     /\ held = {} => ~Replies(rows, facts)
     /\ fits /\ products # {} =>
          /\ rows = found
          /\ facts = OfProducts(held, found)
          /\ Replies(rows, facts) <=> found # {}
     /\ fits /\ products = {} =>
          /\ UNION q.selects = {} => facts = held
          /\ Replies(rows, facts) <=> held # {}

\* What is held of the clauses before clause c.
Before(m, q, c) == {e \in HeldBy(m, q) : e[1] < c}

\* What a request that no ingest has disturbed knows of the one snapshot m.
Undisturbed(m) ==
  LET q == reader.question
  IN /\ \A t \in Tables : tables[t] = {m}
     /\ reader.at = "canonical" => Alias[Clause.target][m] = {}
     /\ reader.at = "facts" => reader.entities = Meaning(m, Clause.target)
     /\ Looping => reader.evidences = Before(m, q, reader.clause)
     /\ reader.at = "conclude" => reader.evidences = HeldBy(m, q)
     /\ reader.at \in {"check", "ended"} =>
          Exact(m, q, reader.rows, reader.facts) /\ reader.unread \subseteq reader.facts
     /\ reader.at = "ended" => reader.manifest = m /\ reader.outcome = Answers

QuietKnows == reader.at # "idle" /\ reader.quiet => \E m \in Manifests : Undisturbed(m)

ReaderInv ==
  /\ ReaderTypeOK /\ AsksSomething /\ MeansOne /\ ReadSoFar /\ LookedUp /\ QuietKnows
  /\ FactsOfOneSnapshot /\ DocumentsStillStand

-----------------------------------------------------------------------------
\* The numbers of a question's clauses, and their targets.
LEMMA ClausesAre ==
  ASSUME NEW q \in Questions
  PROVE  /\ Len(q.clauses) \in Nat /\ DOMAIN q.clauses = 1 .. Len(q.clauses)
         /\ 1 \in DOMAIN q.clauses
         /\ \A c \in DOMAIN q.clauses : q.clauses[c].target \in Targets
         /\ q.limit \in Nat /\ q.limit >= 1
         /\ IsFiniteSet(UNION q.selects) /\ NoProduct \notin UNION q.selects
<1>1. q.clauses \in Seq([relation : Relations, target : Targets]) /\ q.clauses # <<>>
  BY RelationAssumption
<1>2. q.limit \in 1 .. 10 /\ IsFiniteSet(UNION q.selects) /\ NoProduct \notin UNION q.selects
  BY RelationAssumption
<1> DEFINE Clauses == [relation : Relations, target : Targets]
<1>3. \A c \in Clauses : c.target \in Targets
  OBVIOUS
<1> HIDE DEF Clauses
<1>4. Len(q.clauses) \in Nat /\ DOMAIN q.clauses = 1 .. Len(q.clauses)
  BY <1>1, LenProperties DEF Clauses
<1>5. \A c \in DOMAIN q.clauses : q.clauses[c] \in Clauses
  BY <1>1, <1>4, ElementOfSeq DEF Clauses
<1>6. Len(q.clauses) # 0
  BY <1>1, EmptySeq DEF Clauses
<1> QED
  BY <1>2, <1>3, <1>4, <1>5, <1>6

\* What a SELECT returns when its table holds the rows of one manifest.
LEMMA CommittedOne ==
  ASSUME NEW m, NEW t, tables[t] = {m}, NEW content
  PROVE  Committed(t, content) = content[m]
  BY DEF Committed

\* The rows of a library that is one snapshot, and their documents, belong together.
LEMMA SnapshotRead ==
  ASSUME NEW m \in Manifests, \A t \in Tables : tables[t] = {m}, NEW entities
  PROVE  /\ Documents = DocsOf(Facts[m])
         /\ Asked(entities) = {f \in Facts[m] :
              /\ f.usable /\ f.relation = Clause.relation /\ f.about \cap entities # {}
              /\ f.product \in reader.question.searched \cup {NoProduct}}
<1>1. Committed("document", Facts) = Facts[m] /\ Committed("fact", Facts) = Facts[m]
  BY CommittedOne, TablesAre
<1>2. \A f \in Facts[m] : f.doc \in DocsOf(Facts[m])
  BY DEF DocsOf
<1> QED
  BY <1>1, <1>2 DEF Documents, Asked, Usable

\* A resolution means at most one entity, and what it means is one of those found.
LEMMA MeantOne ==
  ASSUME NEW found
  PROVE  /\ Meant(found) = {x \in found : found = {x}}
         /\ Meant(found) # {} => \E x \in found : found = {x} /\ Meant(found) = {x}
<1>1. CASE \E x \in found : found = {x}
  BY <1>1 DEF Meant
<1>2. CASE ~\E x \in found : found = {x}
  BY <1>2 DEF Meant
<1> QED
  BY <1>1, <1>2

\* A cut leaves part of a list, no more than its size, and all of what fits.
LEMMA CutIs ==
  ASSUME NEW S, NEW n \in Nat, NEW T \in Cuts(S, n)
  PROVE  T \subseteq S /\ Cardinality(T) <= n /\ (Cardinality(S) <= n => T = S)
<1>1. CASE Cardinality(S) <= n
  BY <1>1 DEF Cuts
<1>2. CASE ~(Cardinality(S) <= n)
  BY <1>2 DEF Cuts
<1> QED
  BY <1>1, <1>2

\* Part of what stands stands.
LEMMA PartStands ==
  ASSUME NEW q, NEW S, NEW T \in SUBSET S, AllStand(q, S)
  PROVE  AllStand(q, T)
<1> SUFFICES ASSUME NEW c \in {e[1] : e \in T} PROVE Stands(q, T, c)
  BY DEF AllStand
<1>1. Stands(q, S, c)
  BY DEF AllStand
<1> QED
  BY <1>1 DEF Stands

\* A snapshot holds finitely many answers to a question.
LEMMA HeldIsFinite ==
  ASSUME NEW m \in Manifests, NEW q \in Questions
  PROVE  IsFiniteSet(HeldBy(m, q))
<1>1. IsFiniteSet(DOMAIN q.clauses)
  <2>1. 1 \in Int /\ Len(q.clauses) \in Int /\ DOMAIN q.clauses = 1 .. Len(q.clauses)
    BY ClausesAre
  <2> QED
    BY <2>1, FS_Interval
<1>2. IsFiniteSet(Facts[m])
  BY RelationAssumption
<1>3. IsFiniteSet((DOMAIN q.clauses) \X Facts[m])
  BY <1>1, <1>2, FS_Product
<1>4. HeldBy(m, q) \subseteq (DOMAIN q.clauses) \X Facts[m]
  BY DEF HeldBy
<1> QED
  BY <1>3, <1>4, FS_Subset

LEMMA ReaderInit == AllInit => ReaderInv
<1> SUFFICES ASSUME AllInit PROVE ReaderInv
  OBVIOUS
<1>1. reader = NoRead
  BY DEF AllInit
<1>2. ReaderTypeOK
  BY <1>1 DEF ReaderTypeOK, Reader, NoRead
<1>3. /\ reader.at = "idle" /\ reader.facts = {} /\ reader.gone = {} /\ reader.outcome = None
      /\ reader.evidences = {}
  BY <1>1 DEF NoRead
<1>4. ReadSoFar
  BY <1>3 DEF ReadSoFar, AllStand
<1> QED
  BY <1>2, <1>3, <1>4, RelationAssumption
     DEF ReaderInv, AsksSomething, MeansOne, Looping, LookedUp, QuietKnows, FactsOfOneSnapshot,
         AllStand, DocumentsStillStand

LEMMA AskInv ==
  ASSUME LibraryInv, ReaderInv, NEW q \in Questions, Ask(q)
  PROVE  ReaderInv'
<1>1. /\ tables' = tables
      /\ reader' = [NoRead EXCEPT !.question = q, !.at = "alias"]
  BY DEF Ask, Enter, NoRead
<1>2. /\ reader'.at = "alias" /\ reader'.question = q /\ reader'.facts = {}
      /\ reader'.gone = {} /\ reader'.outcome = None /\ reader'.clause = 1
      /\ reader'.evidences = {}
  BY <1>1 DEF NoRead
<1>3. ReaderTypeOK'
  BY <1>1 DEF ReaderTypeOK, Reader, NoRead
<1>4. PICK m \in Manifests : \A t \in Tables : tables[t] = {m}
  BY DEF LibraryInv, OneSnapshot
<1>5. 1 \in DOMAIN q.clauses
  BY ClausesAre
<1>6. Before(m, q, 1) = {}
  <2>1. \A e \in HeldBy(m, q) : e[1] \in DOMAIN q.clauses
    BY DEF HeldBy
  <2>2. DOMAIN q.clauses = 1 .. Len(q.clauses) /\ Len(q.clauses) \in Nat
    BY ClausesAre
  <2>3. \A c \in DOMAIN q.clauses : ~(c < 1)
    BY <2>2
  <2> QED
    BY <2>1, <2>3 DEF Before
<1>7. QuietKnows'
  BY <1>1, <1>2, <1>4, <1>6 DEF QuietKnows, Undisturbed, Looping
<1>8. LookedUp' /\ DocumentsStillStand' /\ FactsOfOneSnapshot'
  BY <1>2, RelationAssumption DEF LookedUp, DocumentsStillStand, FactsOfOneSnapshot, AllStand
<1>9. ReadSoFar'
  BY <1>2 DEF ReadSoFar, AllStand
<1> QED
  BY <1>2, <1>3, <1>5, <1>7, <1>8, <1>9 DEF ReaderInv, AsksSomething, MeansOne

LEMMA ReuseInv ==
  ASSUME LibraryInv, ReaderInv, Reuse
  PROVE  ReaderInv'
<1> USE DEF ReaderInv
<1> DEFINE gone == {e[2].doc : e \in reader.facts} \ Documents
<1>1. /\ tables' = tables /\ reader.at = "ended"
      /\ reader' = [reader EXCEPT !.rows = reader.selected, !.unread = reader.facts,
                                  !.manifest = None, !.outcome = None, !.quiet = FALSE,
                                  !.gone = gone, !.at = "check"]
  BY DEF Reuse, Enter, ReaderTypeOK, Reader
<1>2. /\ reader'.at = "check" /\ reader'.question = reader.question
      /\ reader'.clause = reader.clause /\ reader'.evidences = reader.evidences
      /\ reader'.facts = reader.facts /\ reader'.unread = reader.facts
      /\ reader'.gone = gone
      /\ reader'.outcome = None /\ reader'.quiet = FALSE
  BY <1>1 DEF ReaderTypeOK, Reader
<1>3. ReaderTypeOK'
  <2>1. gone \subseteq DocsOf(AllFacts)
    BY DEF ReaderTypeOK, Reader, DocsOf, Evidences
  <2> HIDE DEF gone
  <2> QED
    BY <1>1, <2>1 DEF ReaderTypeOK, Reader
<1>4. Documents' = Documents
  BY <1>1 DEF Documents, Committed
<1>5. gone \cap Documents = {}
  OBVIOUS
<1> HIDE DEF gone
<1>6. LookedUp' /\ DocumentsStillStand'
  BY <1>2, <1>4, <1>5, RelationAssumption DEF LookedUp, DocumentsStillStand, Looping
<1>7. ReadSoFar' /\ AsksSomething' /\ MeansOne' /\ FactsOfOneSnapshot'
  BY <1>1, <1>2 DEF ReadSoFar, AsksSomething, MeansOne, FactsOfOneSnapshot, Looping
<1> QED
  BY <1>2, <1>3, <1>6, <1>7 DEF QuietKnows

\* The loop goes on with what it has read of this clause, or ends with all.
LEMMA ProceedInv ==
  ASSUME LibraryInv, ReaderInv, Looping, NEW evidences \in SUBSET Evidences,
         Proceed([reader EXCEPT !.evidences = evidences]),
         AllStand(reader.question, evidences),
         \A e \in evidences : e[1] <= reader.clause,
         NEW m \in Manifests, \A t \in Tables : tables[t] = {m},
         reader.quiet => evidences = {e \in HeldBy(m, reader.question) : e[1] <= reader.clause}
  PROVE  ReaderInv'
<1> DEFINE q == reader.question
           more == reader.clause < Len(q.clauses)
           at == IF more THEN "alias" ELSE "conclude"
           clause == IF more THEN reader.clause + 1 ELSE reader.clause
<1> USE DEF ReaderInv
<1>1. q \in Questions /\ reader.clause \in DOMAIN q.clauses /\ reader.at # "idle"
  BY DEF AsksSomething, Looping
<1>2. Len(q.clauses) \in Nat /\ DOMAIN q.clauses = 1 .. Len(q.clauses)
  BY <1>1, ClausesAre
<1>3. clause \in DOMAIN q.clauses /\ clause \in Nat
  BY <1>1, <1>2
<1>4. more => \A n \in Nat : n <= reader.clause <=> n < clause
  BY <1>1, <1>2
<1>5. ~more => \A n \in DOMAIN q.clauses : n <= reader.clause
  BY <1>1, <1>2
<1>6. at \in {"alias", "conclude"} /\ (at = "alias" <=> more)
  OBVIOUS
<1>7. /\ tables' = tables
      /\ reader' = [reader EXCEPT !.evidences = evidences, !.entities = {}, !.clause = clause,
                                  !.at = at]
  BY DEF Proceed, Enter, ReaderTypeOK, Reader
<1> HIDE DEF clause, at, more
<1>8. /\ reader'.at = at /\ reader'.question = q /\ reader'.clause = clause
      /\ reader'.evidences = evidences /\ reader'.facts = reader.facts
      /\ reader'.gone = reader.gone /\ reader'.outcome = reader.outcome
      /\ reader'.quiet = reader.quiet
  BY <1>7 DEF ReaderTypeOK, Reader
<1> HIDE DEF q
<1>9. ReaderTypeOK'
  BY <1>3, <1>6, <1>7 DEF ReaderTypeOK, Reader
<1>10. Documents' = Documents
  BY <1>7 DEF Documents, Committed
<1>11. reader.facts = {} /\ reader.outcome # "answered"
  BY DEF LookedUp, Looping
<1>12. LookedUp' /\ DocumentsStillStand' /\ FactsOfOneSnapshot'
  BY <1>1, <1>6, <1>8, <1>10, <1>11
     DEF LookedUp, DocumentsStillStand, FactsOfOneSnapshot, AllStand
<1>13. \A e \in evidences : e[1] \in Nat
  BY DEF Evidences
<1>14. ReadSoFar'
  <2>1. AllStand(reader'.question, reader'.evidences)
    BY <1>8 DEF q
  <2>2. Looping' => more
    BY <1>6, <1>8 DEF Looping
  <2>3. more => \A e \in evidences : e[1] < clause
    BY <1>4, <1>13
  <2> QED
    BY <1>8, <2>1, <2>2, <2>3 DEF ReadSoFar
<1>15. ASSUME reader.quiet PROVE Undisturbed(m)'
  <2>1. \A e \in HeldBy(m, q) : e[1] \in DOMAIN q.clauses /\ e[1] \in Nat
    BY <1>2 DEF HeldBy
  <2>2. evidences = {e \in HeldBy(m, q) : e[1] <= reader.clause}
    BY <1>15 DEF q
  <2>3. at = "alias" => evidences = Before(m, q, clause)
    BY <1>4, <1>6, <2>1, <2>2 DEF Before
  <2>4. at = "conclude" => evidences = HeldBy(m, q)
    BY <1>5, <1>6, <2>1, <2>2
  <2> QED
    BY <1>6, <1>7, <1>8, <2>3, <2>4 DEF Undisturbed, Looping
<1>16. AsksSomething' /\ MeansOne'
  BY <1>1, <1>3, <1>6, <1>8 DEF AsksSomething, MeansOne
<1> QED
  BY <1>8, <1>9, <1>12, <1>14, <1>15, <1>16 DEF QuietKnows

\* A clause whose target means nothing adds nothing.
LEMMA SkipInv ==
  ASSUME LibraryInv, ReaderInv, Looping, Proceed(reader),
         NEW m \in Manifests, \A t \in Tables : tables[t] = {m},
         reader.quiet => Meaning(m, Clause.target) = {}
  PROVE  ReaderInv'
<1> DEFINE evidences == reader.evidences
<1> USE DEF ReaderInv
<1>1. reader = [reader EXCEPT !.evidences = evidences] /\ evidences \in SUBSET Evidences
  BY DEF ReaderTypeOK, Reader
<1>2. AllStand(reader.question, evidences) /\ \A e \in evidences : e[1] < reader.clause
  BY DEF ReadSoFar
<1>3. reader.question \in Questions /\ reader.clause \in DOMAIN reader.question.clauses
  BY DEF AsksSomething, Looping
<1>4. /\ DOMAIN reader.question.clauses = 1 .. Len(reader.question.clauses)
      /\ Len(reader.question.clauses) \in Nat
  BY <1>3, ClausesAre
<1>5. \A e \in evidences : e[1] <= reader.clause
  <2>1. \A e \in evidences : e[1] \in Nat
    BY <1>1 DEF Evidences
  <2> QED
    BY <1>2, <1>3, <1>4, <2>1
<1>6. ASSUME reader.quiet
      PROVE  evidences = {e \in HeldBy(m, reader.question) : e[1] <= reader.clause}
  <2>1. PICK n \in Manifests : Undisturbed(n)
    BY <1>6 DEF QuietKnows, Looping
  <2>2. n = m
    BY <2>1, TablesAre DEF Undisturbed
  <2>3. evidences = Before(m, reader.question, reader.clause)
    BY <2>1, <2>2 DEF Undisturbed
  <2>4. \A e \in HeldBy(m, reader.question) :
          /\ e[1] \in DOMAIN reader.question.clauses
          /\ Meaning(m, reader.question.clauses[e[1]].target) # {}
    BY DEF HeldBy
  <2>5. \A e \in HeldBy(m, reader.question) : e[1] # reader.clause
    BY <1>6, <2>4 DEF Clause
  <2>6. \A e \in HeldBy(m, reader.question) : e[1] < reader.clause <=> e[1] <= reader.clause
    BY <1>3, <1>4, <2>4, <2>5
  <2> QED
    BY <2>3, <2>6 DEF Before
<1>7. Proceed([reader EXCEPT !.evidences = evidences])
  BY <1>1
<1> HIDE DEF evidences
<1> QED
  BY <1>1, <1>2, <1>5, <1>6, <1>7, ProceedInv

LEMMA ResolveInv ==
  ASSUME LibraryInv, ReaderInv, ResolveAlias \/ ResolveCanonical
  PROVE  ReaderInv'
<1> DEFINE t == Clause.target
           alias == Committed("fact", Alias[t])
           canonical == Committed("fact", Canonical[t])
           found == IF reader.at = "alias" THEN alias ELSE canonical
<1> USE DEF ReaderInv
<1>1. reader.at \in {"alias", "canonical"} /\ Looping
  BY DEF ResolveAlias, ResolveCanonical, Looping
<1>2. PICK m \in Manifests : \A u \in Tables : tables[u] = {m}
  BY DEF LibraryInv, OneSnapshot
<1>3. alias = Alias[t][m] /\ canonical = Canonical[t][m]
  BY <1>2, CommittedOne, TablesAre
<1>4. reader.question \in Questions /\ reader.clause \in DOMAIN reader.question.clauses
  BY <1>1 DEF AsksSomething
<1>5. t \in Targets
  BY <1>4, ClausesAre DEF Clause
<1>6. reader.quiet /\ reader.at = "canonical" => Alias[t][m] = {}
  <2> SUFFICES ASSUME reader.quiet, reader.at = "canonical" PROVE Alias[t][m] = {}
    OBVIOUS
  <2>1. PICK n \in Manifests : Undisturbed(n)
    BY DEF QuietKnows
  <2>2. n = m
    BY <1>2, <2>1, TablesAre DEF Undisturbed
  <2> QED
    BY <2>1, <2>2 DEF Undisturbed
<1>7. CASE reader.at = "alias" /\ alias = {}
  <2>1. /\ tables' = tables /\ reader' = [reader EXCEPT !.at = "canonical"]
        /\ reader'.at = "canonical" /\ reader'.question = reader.question
        /\ reader'.clause = reader.clause /\ reader'.evidences = reader.evidences
        /\ reader'.facts = reader.facts /\ reader'.gone = reader.gone
        /\ reader'.outcome = reader.outcome /\ reader'.quiet = reader.quiet
    BY <1>7 DEF ResolveAlias, ResolveCanonical, Enter, ReaderTypeOK, Reader
  <2>2. ReaderTypeOK' /\ Looping'
    BY <2>1 DEF ReaderTypeOK, Reader, Looping
  <2>3. Documents' = Documents
    BY <2>1 DEF Documents, Committed
  <2>4. ASSUME reader.quiet PROVE Undisturbed(m)'
    <3>1. PICK n \in Manifests : Undisturbed(n)
      BY <1>1, <2>4 DEF QuietKnows, Looping
    <3>2. n = m
      BY <1>2, <3>1, TablesAre DEF Undisturbed
    <3>3. reader.evidences = Before(m, reader.question, reader.clause)
      BY <1>1, <3>1, <3>2 DEF Undisturbed
    <3>4. Clause' = Clause
      BY <2>1 DEF Clause
    <3> QED
      BY <1>2, <1>3, <1>7, <2>1, <3>3, <3>4 DEF Undisturbed
  <2>5. LookedUp' /\ DocumentsStillStand' /\ FactsOfOneSnapshot' /\ ReadSoFar'
    BY <1>1, <2>1, <2>2, <2>3
       DEF LookedUp, DocumentsStillStand, FactsOfOneSnapshot, ReadSoFar, Looping
  <2> QED
    BY <1>4, <2>1, <2>2, <2>4, <2>5 DEF AsksSomething, MeansOne, QuietKnows
<1>8. CASE ~(reader.at = "alias" /\ alias = {}) /\ Meant(found) = {}
  <2>1. Proceed(reader)
    BY <1>8 DEF ResolveAlias, ResolveCanonical, Resolve
  <2>2. ASSUME reader.quiet PROVE Meaning(m, t) = {}
    <3>1. found = IF Alias[t][m] # {} THEN Alias[t][m] ELSE Canonical[t][m]
      BY <1>1, <1>3, <1>6, <1>8, <2>2
    <3>2. Meant(found) = {x \in found : found = {x}}
      BY MeantOne
    <3> HIDE DEF found
    <3> QED
      BY <1>8, <3>1, <3>2 DEF Meaning
  <2> QED
    BY <1>1, <1>2, <2>1, <2>2, SkipInv
<1>9. CASE ~(reader.at = "alias" /\ alias = {}) /\ Meant(found) # {}
  <2>1. PICK x \in found : found = {x} /\ Meant(found) = {x}
    BY <1>9, MeantOne
  <2>2. /\ tables' = tables
        /\ reader' = [reader EXCEPT !.entities = {x}, !.at = "facts"]
    <3>1. Enter("facts", [reader EXCEPT !.entities = Meant(found)])
      BY <1>9 DEF ResolveAlias, ResolveCanonical, Resolve
    <3> QED
      BY <2>1, <3>1 DEF Enter, ReaderTypeOK, Reader
  <2>3. /\ reader'.at = "facts" /\ reader'.question = reader.question /\ reader'.entities = {x}
        /\ reader'.clause = reader.clause /\ reader'.evidences = reader.evidences
        /\ reader'.facts = reader.facts /\ reader'.gone = reader.gone
        /\ reader'.outcome = reader.outcome /\ reader'.quiet = reader.quiet
    BY <2>2 DEF ReaderTypeOK, Reader
  <2>4. \/ found = Alias[t][m] /\ Alias[t][m] # {}
        \/ found = Canonical[t][m]
    BY <1>3, <1>9
  <2>5. x \in Named(m, t)
    BY <2>1, <2>4 DEF Named, Meaning
  <2>6. {x} \in SUBSET AllEntities
    <3> DEFINE Names == {Alias[u][n] \cup Canonical[u][n] : u \in Targets, n \in Manifests}
               names == Alias[t][m] \cup Canonical[t][m]
    <3>1. x \in names
      BY <2>1, <2>4
    <3>2. names \in Names
      BY <1>5
    <3>3. AllEntities = UNION Names
      BY DEF AllEntities
    <3> HIDE DEF Names, names
    <3> QED
      BY <3>1, <3>2, <3>3
  <2>7. ReaderTypeOK' /\ Looping'
    BY <2>2, <2>3, <2>6 DEF ReaderTypeOK, Reader, Looping
  <2>8. Documents' = Documents
    BY <2>2 DEF Documents, Committed
  <2>9. Clause' = Clause
    BY <2>3 DEF Clause
  <2>10. ASSUME reader.quiet PROVE Undisturbed(m)'
    <3>1. PICK n \in Manifests : Undisturbed(n)
      BY <1>1, <2>10 DEF QuietKnows, Looping
    <3>2. n = m
      BY <1>2, <3>1, TablesAre DEF Undisturbed
    <3>3. reader.evidences = Before(m, reader.question, reader.clause)
      BY <1>1, <3>1, <3>2 DEF Undisturbed
    <3>4. found = IF Alias[t][m] # {} THEN Alias[t][m] ELSE Canonical[t][m]
      BY <1>1, <1>3, <1>6, <1>9, <2>10
    <3> HIDE DEF found
    <3>5. Meaning(m, t) = {y \in found : found = {y}}
      BY <3>4 DEF Meaning
    <3>6. Meaning(m, t) = {x}
      BY <2>1, <3>5
    <3> QED
      BY <1>2, <2>2, <2>3, <2>9, <3>3, <3>6 DEF Undisturbed
  <2>11. LookedUp' /\ DocumentsStillStand' /\ FactsOfOneSnapshot' /\ ReadSoFar'
    BY <1>1, <2>3, <2>7, <2>8
       DEF LookedUp, DocumentsStillStand, FactsOfOneSnapshot, ReadSoFar, Looping
  <2>12. MeansOne' /\ AsksSomething'
    BY <1>4, <2>3, <2>5, <2>9 DEF MeansOne, AsksSomething
  <2> QED
    BY <2>3, <2>7, <2>10, <2>11, <2>12 DEF QuietKnows
<1> QED
  BY <1>7, <1>8, <1>9

LEMMA ReadFactsInv ==
  ASSUME LibraryInv, ReaderInv, ReadFacts
  PROVE  ReaderInv'
<1> DEFINE q == reader.question
           c == reader.clause
           asked == Asked(reader.entities)
           evidences == reader.evidences \cup ({c} \X asked)
<1> USE DEF ReaderInv
<1>1. reader.at = "facts" /\ Looping /\ Proceed([reader EXCEPT !.evidences = evidences])
  BY DEF ReadFacts, Looping
<1>2. PICK m \in Manifests : \A t \in Tables : tables[t] = {m}
  BY DEF LibraryInv, OneSnapshot
<1>3. asked = {f \in Facts[m] :
                 /\ f.usable /\ f.relation = Clause.relation /\ f.about \cap reader.entities # {}
                 /\ f.product \in q.searched \cup {NoProduct}}
  BY <1>2, SnapshotRead
<1>4. q \in Questions /\ c \in DOMAIN q.clauses
  BY <1>1 DEF AsksSomething
<1>5. DOMAIN q.clauses = 1 .. Len(q.clauses) /\ Len(q.clauses) \in Nat
  BY <1>4, ClausesAre
<1>6. reader.evidences \in SUBSET Evidences /\ \A e \in reader.evidences : e[1] \in Nat /\ e[1] < c
  BY <1>1 DEF ReaderTypeOK, Reader, ReadSoFar, Evidences
<1>7. PICK n \in Manifests : \E x \in Named(n, Clause.target) : reader.entities = {x}
  BY <1>1 DEF MeansOne
<1> PICK x \in Named(n, Clause.target) : reader.entities = {x}
  BY <1>7
<1>8. \A f \in asked : x \in f.about /\ f \in Facts[m]
  BY <1>3
<1>9. {c} \X asked \subseteq Evidences
  <2>1. c \in Nat
    BY <1>4, <1>5
  <2>2. asked \subseteq AllFacts
    BY <1>8 DEF AllFacts
  <2> QED
    BY <2>1, <2>2 DEF Evidences
<1> HIDE DEF asked
<1>10. \A e \in {c} \X asked : e[1] = c /\ e[2] \in asked
  OBVIOUS
<1>11. evidences \in SUBSET Evidences /\ \A e \in evidences : e[1] <= c
  BY <1>4, <1>5, <1>6, <1>9, <1>10
<1>12. \A e \in evidences : \/ e[1] # c /\ e \in reader.evidences
                            \/ e[1] = c /\ e[2] \in asked
  BY <1>4, <1>5, <1>6, <1>10
<1>13. AllStand(q, evidences)
  <2> SUFFICES ASSUME NEW d \in {e[1] : e \in evidences} PROVE Stands(q, evidences, d)
    BY DEF AllStand
  <2>1. CASE d = c
    <3>1. \A e \in evidences : e[1] = c => e[2] \in Facts[m] /\ x \in e[2].about
      BY <1>8, <1>12
    <3> QED
      BY <2>1, <3>1 DEF Stands, Clause
  <2>2. CASE d # c
    <3>1. d \in {e[1] : e \in reader.evidences}
      BY <2>2, <1>12
    <3>2. Stands(q, reader.evidences, d)
      BY <3>1 DEF ReadSoFar, AllStand
    <3>3. \A e \in evidences : e[1] = d => e \in reader.evidences
      BY <2>2, <1>12
    <3> HIDE DEF evidences
    <3> QED
      BY <3>2, <3>3 DEF Stands
  <2> QED
    BY <2>1, <2>2
<1>14. ASSUME reader.quiet PROVE evidences = {e \in HeldBy(m, q) : e[1] <= c}
  <2>1. PICK k \in Manifests : Undisturbed(k)
    BY <1>1, <1>14 DEF QuietKnows
  <2>2. k = m
    BY <1>2, <2>1, TablesAre DEF Undisturbed
  <2>3. reader.evidences = Before(m, q, c) /\ reader.entities = Meaning(m, Clause.target)
    BY <1>1, <2>1, <2>2 DEF Undisturbed
  <2>4. {c} \X asked = {e \in HeldBy(m, q) : e[1] = c}
    <3>1. \A f : f \in asked <=>
                   /\ f \in Facts[m] /\ f.usable /\ f.relation = q.clauses[c].relation
                   /\ f.about \cap Meaning(m, q.clauses[c].target) # {}
                   /\ f.product \in q.searched \cup {NoProduct}
      BY <1>3, <2>3 DEF asked, Clause
    <3>2. \A f : <<c, f>> \in HeldBy(m, q) <=> f \in asked
      BY <1>4, <3>1 DEF HeldBy
    <3>3. \A e \in HeldBy(m, q) : e = <<e[1], e[2]>>
      BY DEF HeldBy
    <3> QED
      BY <3>2, <3>3
  <2>5. \A e \in HeldBy(m, q) : e[1] \in Nat
    BY <1>5 DEF HeldBy
  <2>6. \A e \in HeldBy(m, q) : e[1] <= c <=> e[1] < c \/ e[1] = c
    BY <1>4, <1>5, <2>5
  <2> QED
    BY <2>3, <2>4, <2>6 DEF Before
<1> HIDE DEF evidences
<1> QED
  BY <1>1, <1>2, <1>11, <1>13, <1>14, ProceedInv

\* No more products than evidences that name them.
LEMMA NamedByFew ==
  ASSUME NEW S, IsFiniteSet(S), NEW P, \A p \in P : \E e \in S : e[2].product = p
  PROVE  Cardinality(P) <= Cardinality(S)
<1> DEFINE T == {e[2].product : e \in S}
           f == [e \in S |-> e[2].product]
<1>1. f \in Surjection(S, T)
  BY DEF Surjection
<1>2. IsFiniteSet(T) /\ Cardinality(T) <= Cardinality(S)
  <2> HIDE DEF f, T
  <2> QED
    BY <1>1, FS_Surjection
<1>3. P \subseteq T
  OBVIOUS
<1> HIDE DEF T, f
<1>4. Cardinality(P) <= Cardinality(T) /\ IsFiniteSet(P)
  BY <1>2, <1>3, FS_Subset
<1>5. Cardinality(P) \in Nat /\ Cardinality(T) \in Nat /\ Cardinality(S) \in Nat
  BY <1>2, <1>4, FS_CardinalityType
<1> QED
  BY <1>2, <1>4, <1>5

\* A part of a finite set that fits, fits.
LEMMA PartFits ==
  ASSUME NEW S, IsFiniteSet(S), NEW T \in SUBSET S, NEW n \in Nat, Cardinality(S) <= n
  PROVE  Cardinality(T) <= n
<1>1. IsFiniteSet(T) /\ Cardinality(T) <= Cardinality(S)
  BY FS_Subset
<1>2. Cardinality(T) \in Nat /\ Cardinality(S) \in Nat
  BY <1>1, FS_CardinalityType
<1> QED
  BY <1>1, <1>2

\* When a limit lets every evidence through, no family's holders are cut.
LEMMA AllFound ==
  ASSUME NEW m \in Manifests, NEW q \in Questions,
         NEW found \in Found(q, ProductsOf(HeldBy(m, q))),
         Cardinality(Kept(HeldBy(m, q), ProductsOf(HeldBy(m, q)) \cap UNION q.selects)) <= q.limit
  PROVE  found = ProductsOf(HeldBy(m, q)) \cap UNION q.selects
<1> DEFINE held == HeldBy(m, q)
           products == ProductsOf(held)
           all == products \cap UNION q.selects
           kept == Kept(held, all)
<1>1. found \subseteq all
  BY DEF Found
<1>2. CASE all = {}
  BY <1>1, <1>2
<1>3. CASE all # {}
  <2>1. kept \subseteq held /\ \A p \in all : \E e \in kept : e[2].product = p
    BY <1>3 DEF Kept, OfProducts, ProductsOf
  <2>2. IsFiniteSet(kept)
    BY <2>1, HeldIsFinite, FS_Subset
  <2>3. Cardinality(kept) <= q.limit /\ q.limit \in Nat
    BY ClausesAre
  <2> HIDE DEF kept
  <2>4. IsFiniteSet(all)
    BY ClausesAre, FS_Subset
  <2> HIDE DEF all
  <2>5. Cardinality(all) <= Cardinality(kept)
    BY <2>1, <2>2, NamedByFew
  <2>6. Cardinality(all) \in Nat /\ Cardinality(kept) \in Nat
    BY <2>2, <2>4, FS_CardinalityType
  <2>7. Cardinality(all) <= q.limit
    BY <2>3, <2>5, <2>6
  <2>8. ASSUME NEW F \in q.selects PROVE found \cap F = products \cap F
    <3>1. products \cap F \subseteq all
      BY DEF all
    <3>2. Cardinality(products \cap F) <= q.limit
      BY <2>3, <2>4, <2>7, <3>1, PartFits
    <3>3. found \cap F \in Cuts(products \cap F, q.limit)
      BY DEF Found
    <3> QED
      BY <2>3, <3>2, <3>3, CutIs
  <2> QED
    BY <1>1, <2>8 DEF all
<1> QED
  BY <1>2, <1>3

\* What the run shows of a snapshot is exact, whatever the limits cut.
LEMMA ConcludedExact ==
  ASSUME NEW m \in Manifests, NEW q \in Questions,
         NEW found \in Found(q, ProductsOf(HeldBy(m, q))),
         NEW evidences \in Cuts(Kept(HeldBy(m, q), found), q.limit),
         NEW candidates \in Cuts(found, q.limit), NEW sql \in Cuts(UNION q.selects, q.limit),
         NEW selected, selected = Selected(evidences, candidates, sql)
  PROVE  Exact(m, q, selected, Shown(evidences, selected))
<1> DEFINE held == HeldBy(m, q)
           products == ProductsOf(held)
           all == products \cap UNION q.selects
           facts == Shown(evidences, selected)
           fits == Cardinality(Kept(held, all)) <= q.limit
<1>1. /\ q.limit \in Nat /\ IsFiniteSet(UNION q.selects) /\ NoProduct \notin UNION q.selects
      /\ IsFiniteSet(held)
  BY ClausesAre, HeldIsFinite
<1>2. found \subseteq all
  BY DEF Found
<1>3. /\ evidences \subseteq Kept(held, found) /\ Cardinality(evidences) <= q.limit
      /\ Cardinality(Kept(held, found)) <= q.limit => evidences = Kept(held, found)
  BY <1>1, CutIs
<1>4. Kept(held, found) \subseteq held
  BY DEF Kept, OfProducts
<1>5. /\ candidates \subseteq found /\ Cardinality(candidates) <= q.limit
      /\ Cardinality(found) <= q.limit => candidates = found
  BY <1>1, CutIs
<1>6. sql \subseteq UNION q.selects /\ Cardinality(sql) <= q.limit
  BY <1>1, CutIs
<1> USE DEF Selected
<1>7. selected \subseteq candidates \/ selected \subseteq sql
  BY DEF Merged
<1>8. facts \subseteq evidences
  BY DEF Shown, OfProducts
<1>9. IsFiniteSet(evidences) /\ IsFiniteSet(found) /\ IsFiniteSet(candidates) /\ IsFiniteSet(sql)
  <2>1. IsFiniteSet(found)
    BY <1>1, <1>2, FS_Subset
  <2>2. IsFiniteSet(evidences)
    BY <1>1, <1>3, <1>4, FS_Subset
  <2> QED
    BY <1>1, <1>5, <1>6, <2>1, <2>2, FS_Subset
<1>10. facts \subseteq held /\ Cardinality(facts) <= q.limit
  BY <1>1, <1>3, <1>4, <1>8, <1>9, PartFits
<1>11. selected \subseteq UNION q.selects /\ Cardinality(selected) <= q.limit
  BY <1>1, <1>2, <1>5, <1>6, <1>7, <1>9, PartFits
<1>12. held = {} => selected = {} /\ facts = {}
  BY <1>3, <1>4, <1>8
<1>13. ASSUME fits, products # {}
       PROVE  selected = all /\ facts = OfProducts(held, all) /\ (Replies(selected, facts) <=> all # {})
  <2>1. found = all
    BY <1>13, AllFound
  <2>2. evidences = Kept(held, all)
    BY <1>3, <1>13, <2>1
  <2>3. CASE all = {}
    <3>1. evidences = held /\ candidates = {}
      BY <1>5, <2>1, <2>2, <2>3 DEF Kept
    <3>2. Merged(products, {}, sql) = {}
      BY <1>6, <1>13, <2>3 DEF Merged
    <3>3. selected = {}
      BY <3>1, <3>2
    <3>4. facts = {}
      BY <1>13, <3>1, <3>3 DEF Shown, OfProducts
    <3> QED
      BY <2>3, <3>3, <3>4 DEF OfProducts, Replies
  <2>4. CASE all # {}
    <3>1. evidences = OfProducts(held, all \cup {NoProduct})
      BY <2>2, <2>4 DEF Kept
    <3>2. ProductsOf(evidences) = all
      <4>1. ProductsOf(evidences) \subseteq all
        BY <3>1 DEF ProductsOf, OfProducts
      <4>2. ASSUME NEW p \in all PROVE p \in ProductsOf(evidences)
        <5>1. PICK e \in held : e[2].product = p /\ p # NoProduct
          BY DEF ProductsOf
        <5> QED
          BY <3>1, <5>1 DEF ProductsOf, OfProducts
      <4> QED
        BY <4>1, <4>2
    <3>3. Cardinality(found) <= q.limit
      <4>1. \A p \in all : \E e \in evidences : e[2].product = p
        BY <3>2 DEF ProductsOf
      <4>2. Cardinality(found) <= Cardinality(evidences)
        BY <1>9, <2>1, <4>1, NamedByFew
      <4>3. Cardinality(found) \in Nat /\ Cardinality(evidences) \in Nat
        BY <1>9, FS_CardinalityType
      <4> QED
        BY <1>1, <1>3, <4>2, <4>3
    <3>4. candidates = all
      BY <1>5, <2>1, <3>3
    <3>5. evidences # {}
      BY <2>4, <3>2 DEF ProductsOf
    <3>6. selected = all
      BY <2>4, <3>2, <3>4, <3>5 DEF Merged
    <3>7. facts = OfProducts(evidences, all)
      BY <2>4, <3>6 DEF Shown
    <3>8. facts = OfProducts(held, all)
      BY <3>1, <3>7 DEF OfProducts
    <3> QED
      BY <2>4, <3>6, <3>8 DEF Replies
  <2> QED
    BY <2>3, <2>4
<1>14. ASSUME fits, products = {}
       PROVE  (UNION q.selects = {} => facts = held) /\ (Replies(selected, facts) <=> held # {})
  <2>1. found = {} /\ candidates = {} /\ Kept(held, all) = held /\ Kept(held, found) = held
    BY <1>2, <1>5, <1>14 DEF Kept
  <2>2. evidences = held
    BY <1>3, <1>14, <2>1
  <2>3. \A e \in held : e[2].product = NoProduct
    BY <1>14 DEF ProductsOf
  <2>4. held # {} => selected = sql
    BY <1>14, <2>1, <2>2 DEF Merged
  <2>5. selected = {} => facts = held
    BY <1>14, <2>2 DEF Shown
  <2>6. UNION q.selects = {} => selected = {}
    BY <1>11
  <2>7. held # {} => Replies(selected, facts)
    BY <2>3, <2>5 DEF Replies
  <2> QED
    BY <1>12, <2>5, <2>6, <2>7 DEF Replies
<1>15. held = {} => ~Replies(selected, facts)
  BY <1>12 DEF Replies
<1> HIDE DEF facts
<1> QED
  BY <1>10, <1>11, <1>13, <1>14, <1>15 DEF Exact, facts

LEMMA ConcludeInv ==
  ASSUME LibraryInv, ReaderInv, Conclude
  PROVE  ReaderInv'
<1> DEFINE q == reader.question
<1> USE DEF ReaderInv
<1>1. PICK found \in Found(q, ProductsOf(reader.evidences)) :
        \E evidences \in Cuts(Kept(reader.evidences, found), q.limit),
           candidates \in Cuts(found, q.limit), sql \in Cuts(UNION q.selects, q.limit) :
          LET selected == Selected(evidences, candidates, sql)
              shown == Shown(evidences, selected)
          IN Enter("check", [reader EXCEPT !.clause = 1, !.evidences = {},
                                           !.facts = shown, !.unread = shown,
                                           !.selected = selected, !.rows = selected])
  BY DEF Conclude
<1>2. PICK evidences \in Cuts(Kept(reader.evidences, found), q.limit),
           candidates \in Cuts(found, q.limit), sql \in Cuts(UNION q.selects, q.limit) :
          LET selected == Selected(evidences, candidates, sql)
              shown == Shown(evidences, selected)
          IN Enter("check", [reader EXCEPT !.clause = 1, !.evidences = {},
                                           !.facts = shown, !.unread = shown,
                                           !.selected = selected, !.rows = selected])
  BY <1>1
<1> DEFINE selected == Selected(evidences, candidates, sql)
           shown == Shown(evidences, selected)
<1>3. Enter("check", [reader EXCEPT !.clause = 1, !.evidences = {}, !.facts = shown,
                                    !.unread = shown, !.selected = selected, !.rows = selected])
  BY <1>2
<1>4. reader.at = "conclude"
  BY DEF Conclude
<1>5. q \in Questions /\ reader.clause \in DOMAIN q.clauses
  BY <1>4 DEF AsksSomething
<1>6. q.limit \in Nat /\ 1 \in DOMAIN q.clauses
  BY <1>5, ClausesAre
<1>7. shown \subseteq reader.evidences
  <2>1. shown \subseteq evidences
    BY DEF Shown, OfProducts
  <2>2. evidences \subseteq Kept(reader.evidences, found)
    BY <1>6, CutIs
  <2>3. Kept(reader.evidences, found) \subseteq reader.evidences
    BY DEF Kept, OfProducts
  <2> QED
    BY <2>1, <2>2, <2>3
<1>8. selected \subseteq UNION q.selects
  <2>1. candidates \subseteq found /\ sql \subseteq UNION q.selects
    BY <1>6, CutIs
  <2>2. found \subseteq UNION q.selects
    BY DEF Found
  <2>3. selected \subseteq candidates \/ selected \subseteq sql
    BY DEF Selected, Merged
  <2> QED
    BY <2>1, <2>2, <2>3
<1>9. selected \subseteq AllProducts
  BY <1>5, <1>8 DEF AllProducts
<1>10. \A m \in Manifests :
         reader.evidences = HeldBy(m, q) => Exact(m, q, selected, shown)
  <2> SUFFICES ASSUME NEW m \in Manifests, reader.evidences = HeldBy(m, q)
               PROVE  Exact(m, q, selected, shown)
    OBVIOUS
  <2>1. /\ found \in Found(q, ProductsOf(HeldBy(m, q)))
        /\ evidences \in Cuts(Kept(HeldBy(m, q), found), q.limit)
    OBVIOUS
  <2> QED
    BY <1>5, <2>1, ConcludedExact
<1> HIDE DEF selected, shown
<1>11. /\ tables' = tables
       /\ reader' = [reader EXCEPT !.clause = 1, !.evidences = {}, !.facts = shown,
                                   !.unread = shown, !.selected = selected, !.rows = selected,
                                   !.at = "check"]
  BY <1>3 DEF Enter, ReaderTypeOK, Reader
<1>12. /\ reader'.at = "check" /\ reader'.question = q /\ reader'.clause = 1
       /\ reader'.evidences = {} /\ reader'.facts = shown /\ reader'.unread = shown
       /\ reader'.rows = selected /\ reader'.gone = reader.gone
       /\ reader'.outcome = reader.outcome /\ reader'.quiet = reader.quiet
  BY <1>11 DEF ReaderTypeOK, Reader
<1> HIDE DEF q
<1>13. ReaderTypeOK'
  <2>1. shown \in SUBSET Evidences
    BY <1>7 DEF ReaderTypeOK, Reader
  <2> QED
    BY <1>9, <1>11, <2>1 DEF ReaderTypeOK, Reader
<1>14. Documents' = Documents
  BY <1>11 DEF Documents, Committed
<1>15. LookedUp' /\ DocumentsStillStand'
  BY <1>4, <1>12, <1>14 DEF LookedUp, DocumentsStillStand, Looping
<1>16. AllStand(q, shown)
  BY <1>7, PartStands DEF ReadSoFar, q
<1>17. FactsOfOneSnapshot'
  BY <1>12, <1>16 DEF FactsOfOneSnapshot
<1>18. ReadSoFar' /\ AsksSomething' /\ MeansOne'
  BY <1>5, <1>6, <1>12 DEF ReadSoFar, AllStand, AsksSomething, MeansOne, Looping
<1>19. ASSUME reader.quiet PROVE QuietKnows'
  <2>1. PICK m \in Manifests : Undisturbed(m)
    BY <1>4, <1>19 DEF QuietKnows
  <2>2. Exact(m, q, selected, shown) /\ \A t \in Tables : tables[t] = {m}
    BY <1>4, <1>10, <2>1 DEF Undisturbed, q
  <2>3. Undisturbed(m)'
    BY <1>11, <1>12, <2>2 DEF Undisturbed, Looping
  <2> QED
    BY <2>3 DEF QuietKnows
<1> QED
  BY <1>12, <1>13, <1>15, <1>17, <1>18, <1>19 DEF QuietKnows

\* A document that is found again has not been gone; one that is not takes its
\* product with it, or the request, and no ingest can have spared the snapshot.
LEMMA CheckDocumentInv ==
  ASSUME LibraryInv, ReaderInv, CheckDocument
  PROVE  ReaderInv'
<1> USE DEF ReaderInv
<1>1. PICK e \in reader.unread :
        IF e[2].doc \in Documents
        THEN Enter("check", [reader EXCEPT !.unread = @ \ {e}])
        ELSE IF e[2].product = NoProduct
        THEN Enter("ended", [reader EXCEPT !.unread = {}, !.outcome = "failed"])
        ELSE Enter("check", [reader EXCEPT !.rows = @ \ {e[2].product},
                                           !.unread = {d \in @ : d[2].product # e[2].product}])
  BY DEF CheckDocument
<1>2. /\ tables' = tables /\ reader.at = "check" /\ reader.outcome # "answered"
      /\ reader'.facts = reader.facts /\ reader'.gone = reader.gone
      /\ reader'.question = reader.question /\ reader'.quiet = reader.quiet
      /\ reader'.clause = reader.clause /\ reader'.evidences = reader.evidences
      /\ reader'.at \in {"check", "ended"} /\ reader'.outcome # "answered"
  <2>1. /\ tables' = tables
        /\ \/ reader' = [reader EXCEPT !.unread = @ \ {e}, !.at = "check"]
           \/ reader' = [reader EXCEPT !.unread = {}, !.outcome = "failed", !.at = "ended"]
           \/ reader' = [reader EXCEPT !.rows = @ \ {e[2].product},
                                       !.unread = {d \in @ : d[2].product # e[2].product},
                                       !.at = "check"]
    BY <1>1 DEF Enter, ReaderTypeOK, Reader
  <2>2. reader.at = "check" /\ reader.outcome # "answered"
    BY DEF CheckDocument, LookedUp
  <2>3. CASE reader' = [reader EXCEPT !.unread = @ \ {e}, !.at = "check"]
    BY <2>1, <2>2, <2>3 DEF ReaderTypeOK, Reader
  <2>4. CASE reader' = [reader EXCEPT !.unread = {}, !.outcome = "failed", !.at = "ended"]
    BY <2>1, <2>2, <2>4 DEF ReaderTypeOK, Reader
  <2>5. CASE reader' = [reader EXCEPT !.rows = @ \ {e[2].product},
                                      !.unread = {d \in @ : d[2].product # e[2].product},
                                      !.at = "check"]
    BY <2>1, <2>2, <2>5 DEF ReaderTypeOK, Reader
  <2> QED
    BY <2>1, <2>3, <2>4, <2>5
<1>3. Documents' = Documents
  BY <1>2 DEF Documents, Committed
<1>4. reader.quiet => e[2].doc \in Documents
  <2> SUFFICES ASSUME reader.quiet PROVE e[2].doc \in Documents
    OBVIOUS
  <2>1. PICK m \in Manifests : Undisturbed(m)
    BY <1>2 DEF QuietKnows
  <2>2. e \in HeldBy(m, reader.question)
    BY <1>2, <2>1 DEF Undisturbed, Exact
  <2>3. e[2] \in Facts[m]
    BY <2>2 DEF HeldBy
  <2> QED
    BY <2>1, <2>3, SnapshotRead DEF Undisturbed, DocsOf
<1>5. CASE e[2].doc \in Documents
  <2>1. /\ reader' = [reader EXCEPT !.unread = @ \ {e}, !.at = "check"]
        /\ reader'.unread = reader.unread \ {e} /\ reader'.rows = reader.rows
        /\ reader'.at = "check"
    BY <1>1, <1>5 DEF Enter, ReaderTypeOK, Reader
  <2>2. ReaderTypeOK'
    BY <2>1 DEF ReaderTypeOK, Reader
  <2>3. e[2].doc \notin reader.gone
    BY <1>5 DEF LookedUp, Looping
  <2>4. LookedUp'
    BY <1>2, <1>3, <2>1, <2>3 DEF LookedUp, Looping
  <2>5. ASSUME NEW m \in Manifests, reader.quiet, Undisturbed(m) PROVE Undisturbed(m)'
    BY <1>2, <2>1, <2>5 DEF Undisturbed, Looping, Clause
  <2>6. QuietKnows'
    BY <1>2, <2>1, <2>5 DEF QuietKnows
  <2> QED
    BY <1>2, <2>1, <2>2, <2>4, <2>6
       DEF AsksSomething, MeansOne, ReadSoFar, Looping, FactsOfOneSnapshot, DocumentsStillStand
<1>6. CASE e[2].doc \notin Documents /\ e[2].product = NoProduct
  <2>1. /\ reader' = [reader EXCEPT !.unread = {}, !.outcome = "failed", !.at = "ended"]
        /\ reader'.at = "ended"
    BY <1>1, <1>6 DEF Enter, ReaderTypeOK, Reader
  <2>2. ReaderTypeOK'
    BY <2>1 DEF ReaderTypeOK, Reader
  <2>3. LookedUp' /\ QuietKnows'
    BY <1>2, <1>3, <1>4, <1>6, <2>1 DEF LookedUp, Looping, QuietKnows
  <2> QED
    BY <1>2, <2>1, <2>2, <2>3
       DEF AsksSomething, MeansOne, ReadSoFar, Looping, FactsOfOneSnapshot, DocumentsStillStand
<1>7. CASE e[2].doc \notin Documents /\ e[2].product # NoProduct
  <2>1. /\ reader' = [reader EXCEPT !.rows = @ \ {e[2].product},
                                    !.unread = {d \in @ : d[2].product # e[2].product}, !.at = "check"]
        /\ reader'.unread = {d \in reader.unread : d[2].product # e[2].product}
        /\ reader'.rows = reader.rows \ {e[2].product}
        /\ reader'.at = "check"
    BY <1>1, <1>7 DEF Enter, ReaderTypeOK, Reader
  <2>2. ReaderTypeOK'
    <3>1. {d \in reader.unread : d[2].product # e[2].product} \subseteq reader.unread
      OBVIOUS
    <3> QED
      BY <2>1, <3>1 DEF ReaderTypeOK, Reader
  <2>3. LookedUp'
    BY <1>2, <1>3, <1>7, <2>1 DEF LookedUp, Looping
  <2> QED
    BY <1>2, <1>4, <1>7, <2>1, <2>2, <2>3
       DEF AsksSomething, MeansOne, ReadSoFar, Looping, QuietKnows, FactsOfOneSnapshot, DocumentsStillStand
<1> QED
  BY <1>5, <1>6, <1>7

LEMMA NameManifestInv ==
  ASSUME LibraryInv, ReaderInv, NameManifest
  PROVE  ReaderInv'
<1> USE DEF ReaderInv
<1>1. PICK m \in tables["run"] :
        Enter("ended", [reader EXCEPT !.manifest = m, !.outcome = Answers])
  BY DEF NameManifest
<1>2. Answers \in {"answered", "abstained"} /\ m \in Manifests
  BY TablesAre DEF Answers, LibraryInv, TypeOK
<1>3. /\ tables' = tables /\ reader.at = "check" /\ reader.unread = {}
      /\ reader' = [reader EXCEPT !.manifest = m, !.outcome = Answers, !.at = "ended"]
  BY <1>1 DEF NameManifest, Enter, ReaderTypeOK, Reader
<1>4. /\ reader'.at = "ended" /\ reader'.manifest = m /\ reader'.outcome = Answers
      /\ reader'.facts = reader.facts /\ reader'.rows = reader.rows
      /\ reader'.gone = reader.gone /\ reader'.unread = {}
      /\ reader'.question = reader.question /\ reader'.quiet = reader.quiet
      /\ reader'.clause = reader.clause /\ reader'.evidences = reader.evidences
  BY <1>3 DEF ReaderTypeOK, Reader
<1>5. ReaderTypeOK'
  BY <1>2, <1>3 DEF ReaderTypeOK, Reader
<1>6. Documents' = Documents
  BY <1>3 DEF Documents, Committed
<1>7. LookedUp' /\ DocumentsStillStand'
  BY <1>3, <1>4, <1>6 DEF LookedUp, Looping, DocumentsStillStand
<1>8. ASSUME NEW n \in Manifests, reader.quiet, Undisturbed(n) PROVE Undisturbed(n)'
  <2>1. m = n
    BY <1>8, TablesAre DEF Undisturbed, Looping, Clause
  <2>2. Answers' = Answers
    BY <1>4 DEF Answers
  <2> QED
    BY <1>3, <1>4, <1>8, <2>1, <2>2 DEF Undisturbed, Looping, Clause
<1> QED
  BY <1>3, <1>4, <1>5, <1>7, <1>8
     DEF AsksSomething, MeansOne, ReadSoFar, Looping, QuietKnows, FactsOfOneSnapshot

LEMMA IngestInv ==
  ASSUME LibraryInv, ReaderInv, Ingest
  PROVE  ReaderInv'
<1> USE DEF ReaderInv
<1>1. CASE reader' = reader /\ reader.at = "idle"
  BY <1>1 DEF ReaderTypeOK, AsksSomething, MeansOne, ReadSoFar, Looping, LookedUp,
              QuietKnows, FactsOfOneSnapshot, DocumentsStillStand
<1>2. CASE reader' = reader /\ tables' = tables
  <2>1. Documents' = Documents
    BY <1>2 DEF Documents, Committed
  <2>2. \A m \in Manifests : Undisturbed(m)' <=> Undisturbed(m)
    BY <1>2 DEF Undisturbed, Answers, Clause, Looping
  <2> QED
    BY <1>2, <2>1, <2>2 DEF ReaderTypeOK, AsksSomething, MeansOne, Clause, ReadSoFar,
       Looping, LookedUp, QuietKnows, FactsOfOneSnapshot, DocumentsStillStand
<1>3. CASE /\ reader.at # "idle"
           /\ reader' = [reader EXCEPT !.quiet = FALSE, !.gone = @ \ Documents']
  <2>1. /\ reader'.at = reader.at /\ reader'.question = reader.question
        /\ reader'.entities = reader.entities /\ reader'.facts = reader.facts
        /\ reader'.clause = reader.clause /\ reader'.evidences = reader.evidences
        /\ reader'.rows = reader.rows /\ reader'.unread = reader.unread
        /\ reader'.outcome = reader.outcome /\ reader'.quiet = FALSE
        /\ reader'.gone = reader.gone \ Documents'
    BY <1>3 DEF ReaderTypeOK, Reader
  <2>2. ReaderTypeOK'
    BY <1>3 DEF ReaderTypeOK, Reader
  <2>3. LookedUp'
    BY <1>3, <2>1 DEF LookedUp, Looping
  <2> QED
    BY <2>1, <2>2, <2>3 
       DEF AsksSomething, MeansOne, Clause, ReadSoFar, Looping, QuietKnows,
           FactsOfOneSnapshot, DocumentsStillStand
<1> QED
  BY <1>1, <1>2, <1>3 DEF Ingest

\* A statement of a request is a stutter of the library, one of an ingest a step of it.
LEMMA LibraryStep == [AllNext]_allVars => [Next]_vars
<1> SUFFICES ASSUME [AllNext]_allVars PROVE [Next]_vars
  OBVIOUS
<1>1. CASE Ingest
  BY <1>1 DEF Ingest, Next
<1>2. CASE Read \/ Reuse \/ \E q \in Questions : Ask(q)
  BY <1>2 DEF Read, Reuse, Ask, ResolveAlias, ResolveCanonical, Resolve,
              Proceed, ReadFacts, Conclude, CheckDocument, NameManifest, Enter, vars
<1> QED
  BY <1>1, <1>2 DEF AllNext, allVars, vars

LEMMA ReaderStep == LibraryInv /\ ReaderInv /\ [AllNext]_allVars => ReaderInv'
<1> SUFFICES ASSUME LibraryInv, ReaderInv, [AllNext]_allVars PROVE ReaderInv'
  OBVIOUS
<1>1. CASE UNCHANGED allVars
  <2>1. reader' = reader /\ tables' = tables
    BY <1>1 DEF allVars
  <2>2. Documents' = Documents
    BY <2>1 DEF Documents, Committed
  <2>3. \A m \in Manifests : Undisturbed(m)' <=> Undisturbed(m)
    BY <2>1 DEF Undisturbed, Answers, Clause, Looping
  <2> QED
    BY <2>1, <2>2, <2>3
       DEF ReaderInv, ReaderTypeOK, AsksSomething, MeansOne, Clause, ReadSoFar, Looping, LookedUp,
           QuietKnows, FactsOfOneSnapshot, DocumentsStillStand
<1> QED
  BY <1>1, AskInv, ReuseInv, ResolveInv, ReadFactsInv, ConcludeInv, CheckDocumentInv,
     NameManifestInv, IngestInv DEF AllNext, Read

\* With a reader beside it, and for the reader of app/retrieval/relation_retriever.py:
\* the evidences read so far are of earlier clauses, each clause's of one snapshot about
\* one entity; they are all that the snapshot holds of these clauses if no ingest has
\* committed; and no document found again has been gone all the time.
THEOREM AnswersAreSound == AllSpec => [](LibraryInv /\ ReaderInv)
<1>1. AllInit => LibraryInv /\ ReaderInv
  BY InitInv, ReaderInit DEF AllInit
<1>2. (LibraryInv /\ ReaderInv) /\ [AllNext]_allVars => (LibraryInv /\ ReaderInv)'
  BY LibraryStep, ReaderStep, StepInv
<1> QED
  BY <1>1, <1>2, PTL DEF AllSpec

\* With requests reading between any two of its statements, ingest_external of
\* app/external/ingestion.py still leaves one whole snapshot at every commit.
THEOREM OneSnapshotUnderReaders == AllSpec => []OneSnapshot
<1>1. LibraryInv => OneSnapshot
  BY DEF LibraryInv
<1> QED
  BY <1>1, AnswersAreSound, PTL

\* However many ingests commit while a relation question is read and read back
\* (retrieve_sync of app/retrieval/relation_retriever.py, EvidenceManager of
\* app/evidence/manager.py), the facts that answer one clause are facts of one snapshot
\* about one entity, and each document that the answer names was in the library at some
\* moment since its request began.
THEOREM AnswersStandTogether == AllSpec => []RunsStandTogether
<1>1. ReaderInv => RunsStandTogether
  BY DEF ReaderInv, RunsStandTogether
<1> QED
  BY <1>1, AnswersAreSound, PTL

\* However many clauses a relation question has and however many statements make its
\* run and read it back (RelationRetriever.retrieve_sync of app/retrieval/
\* relation_retriever.py, EvidenceManager of app/evidence/manager.py): if no ingest has
\* committed meanwhile, the answer is what one snapshot holds, cut to the limit, and all
\* of it where the limit lets it through.
THEOREM QuietAnswersExact == AllSpec => []QuietAnswersAreExact
<1>1. ReaderInv => QuietAnswersAreExact
  <2> SUFFICES ASSUME ReaderInv, reader.at = "ended", reader.quiet
               PROVE  QuietAnswersAreExact
    BY DEF QuietAnswersAreExact
  <2>1. PICK m \in Manifests : Undisturbed(m)
    BY DEF ReaderInv, QuietKnows
  <2>2. /\ \A t \in Tables : tables[t] = {m}
        /\ Exact(m, reader.question, reader.rows, reader.facts)
        /\ reader.manifest = m /\ reader.outcome = Answers
    BY <2>1 DEF Undisturbed
  <2>3. reader.outcome = IF Replies(reader.rows, reader.facts) THEN "answered" ELSE "abstained"
    BY <2>2 DEF Answers, Replies
  <2> QED
    BY <2>2, <2>3 DEF QuietAnswersAreExact, Exact
<1> QED
  BY <1>1, AnswersAreSound, PTL
=============================================================================
