--------------------------- MODULE PipelineProofs ---------------------------
(***************************************************************************)
(* What Pipeline promises for every set of sessions and subjects and every *)
(* bound: its types, the atomic checkpoint of an extraction, and that the  *)
(* watermark never runs ahead of the file.                                 *)
(***************************************************************************)
EXTENDS Pipeline, FiniteSetTheorems, TLAPS

\* The bounds and limits are numbers.
LEMMA BoundTypes ==
    /\ MaxTurns \in Nat /\ MaxFails \in Nat /\ MaxCrashes \in Nat /\ MaxUserOps \in Nat
    /\ BatchSize \in Nat \ {0}
    /\ Limits \subseteq Nat
BY PipelineAssumption

\* The size of a set of subjects is a number.
LEMMA SubjectCount ==
    ASSUME NEW C \in SUBSET Subjects
    PROVE  Cardinality(C) \in Nat
BY PipelineAssumption, FS_Subset, FS_CardinalityType

\* The size of a set of sessions is a number.
LEMMA SessionCount ==
    ASSUME NEW B \in SUBSET Sessions
    PROVE  Cardinality(B) \in Nat
BY PipelineAssumption, FS_Subset, FS_CardinalityType

\* The upsert of an index row never lowers the watermark and never invents one.
LEMMA UpsertEffect ==
    ASSUME TypeOK, NEW u \in Subjects, NEW id \in Nat
    PROVE  /\ Upserted(u, id) \in Nat
           /\ Upserted(u, id) >= row[u]
           /\ Upserted(u, id) = row[u] \/ Upserted(u, id) = id
<1>1. row[u] \in Nat \cup {-1}
  BY DEF TypeOK, NoRow
<1> QED
  BY <1>1 DEF Upserted

\* TypeOK in the initial state.
LEMMA InitTypes == Init => TypeOK
<1> SUFFICES ASSUME Init PROVE TypeOK
  OBVIOUS
<1>1. NoFold \in [ids : SUBSET Nat, max : Nat]
  BY DEF NoFold
<1>2. fold \in [Subjects -> [ids : SUBSET Nat, max : Nat]]
  BY <1>1 DEF Init
<1>3. /\ fails \in 0..MaxFails /\ crashes \in 0..MaxCrashes /\ userOps \in 0..MaxUserOps
      /\ turns \in [Sessions -> 0..MaxTurns] /\ seen \in [Sessions -> 0..MaxTurns]
      /\ covered \in [Sessions -> 0..MaxTurns]
  BY BoundTypes DEF Init
<1>4. /\ work \in [Sessions -> {"none", "listed", "waiting", "calling", "saving", "failed"}]
      /\ synth \in [Subjects -> {"none", "waiting", "calling", "renamed"}]
      /\ edit \in [Subjects -> {"none", "read", "renamed", "removed"}]
      /\ row \in [Subjects -> Nat \cup {NoRow}]
      /\ body \in [Subjects -> SUBSET Nat] /\ base \in [Subjects -> SUBSET Nat]
      /\ cand \in [Sessions -> SUBSET Subjects]
  BY DEF Init
<1>5. /\ \A s \in Sessions : work[s] # "none" => phase = "extract"
      /\ \A u \in Subjects : synth[u] # "none" => phase = "synth"
  BY DEF Init
<1>6. /\ extracted \subseteq Sessions /\ files \subseteq Subjects
      /\ facts \subseteq Fact /\ nextId \in Nat \ {0}
  BY DEF Init
<1>7. room \in Nat \cup {NoLimit}
  BY DEF Init
<1>8. phase \in {"idle", "extract", "plan", "synth"} /\ ctxDone \in BOOLEAN
  BY DEF Init
<1> QED
  BY <1>2, <1>3, <1>4, <1>5, <1>6, <1>7, <1>8 DEF TypeOK

\* A step of the pipeline or of a user keeps TypeOK.
LEMMA TypeStep == TypeOK /\ [Next \/ UserNext]_vars => TypeOK'
<1> SUFFICES ASSUME TypeOK, [Next \/ UserNext]_vars PROVE TypeOK'
  OBVIOUS
<1> USE BoundTypes
<1>1. ASSUME NEW s \in Sessions, NEW n \in 1..MaxTurns, Ingest(s, n) PROVE TypeOK'
  BY <1>1 DEF Ingest, TypeOK, fileVars, passVars, userVars
<1>2. ASSUME NEW limit \in Limits, StartPass(limit) PROVE TypeOK'
  BY <1>2 DEF StartPass, TypeOK, dbVars, fileVars, userVars
<1>3. CASE ListBatch
  <2>1. CASE phase' \in {"idle", "plan"} /\ UNCHANGED <<work, room>>
    BY <1>3, <2>1 DEF ListBatch, Quiet, TypeOK, dbVars, fileVars, userVars
  <2>2. ASSUME NEW B \in SUBSET Unextracted,
               Cardinality(B) = Want \/ Cardinality(B) < Want,
               room' = IF room = NoLimit THEN NoLimit ELSE room - Cardinality(B)
        PROVE  room' \in Nat \cup {NoLimit}
    <3>1. Cardinality(B) \in Nat
      BY SessionCount DEF Unextracted
    <3>2. room \in Nat \cup {NoLimit} /\ BatchSize \in Nat
      BY DEF TypeOK
    <3>3. CASE room # NoLimit
      <4>1. Want <= room
        BY <3>2, <3>3 DEF Want
      <4> QED BY <2>2, <3>1, <3>2, <3>3, <4>1 DEF Want
    <3> QED BY <2>2, <3>2, <3>3
  <2>3. ASSUME NEW B \in SUBSET Unextracted,
               Cardinality(B) = Want \/ Cardinality(B) < Want,
               room' = IF room = NoLimit THEN NoLimit ELSE room - Cardinality(B),
               work' = [s \in Sessions |-> IF s \in B THEN "listed" ELSE "none"],
               phase' = phase
        PROVE  TypeOK'
    BY <1>3, <2>2, <2>3 DEF ListBatch, TypeOK, dbVars, fileVars, userVars
  <2> QED
    BY <1>3, <2>1, <2>3 DEF ListBatch
<1>4. ASSUME NEW s \in Sessions, ReadTurns(s) PROVE TypeOK'
  BY <1>4 DEF ReadTurns, TypeOK, dbVars, fileVars, userVars
<1>5. ASSUME NEW s \in Sessions, StartExtract(s) PROVE TypeOK'
  BY <1>5 DEF StartExtract, TypeOK, dbVars, fileVars, userVars
<1>6. ASSUME NEW s \in Sessions, NEW C \in SUBSET Subjects, ModelAnswers(s, C) PROVE TypeOK'
  BY <1>6 DEF ModelAnswers, TypeOK, userVars
<1>7. ASSUME NEW s \in Sessions, SaveFacts(s) PROVE TypeOK'
  <2>1. Cardinality(cand[s]) \in Nat
    BY SubjectCount DEF TypeOK
  <2> QED
    BY <1>7, <2>1 DEF SaveFacts, TypeOK, Fact, fileVars, userVars
<1>8. ASSUME NEW s \in Sessions, ExtractFails(s) PROVE TypeOK'
  BY <1>8 DEF ExtractFails, TypeOK, dbVars, fileVars, userVars
<1>9. ASSUME NEW s \in Sessions, DropSession(s) PROVE TypeOK'
  BY <1>9 DEF DropSession, TypeOK, fileVars, userVars
<1>10. ASSUME NEW s \in Sessions, DropFails(s) PROVE TypeOK'
  BY <1>10 DEF DropFails, TypeOK, dbVars, fileVars, userVars
<1>11. CASE PlanSynth
  BY <1>11 DEF PlanSynth, TypeOK, dbVars, fileVars, userVars
<1>12. ASSUME NEW u \in Subjects, ReadFacts(u) PROVE TypeOK'
  BY <1>12 DEF ReadFacts, Ids, FactsFor, Fact, TypeOK, dbVars, fileVars, userVars
<1>13. ASSUME NEW u \in Subjects, WriteBody(u) PROVE TypeOK'
  BY <1>13 DEF WriteBody, Synthesized, TypeOK, dbVars, userVars
<1>14. ASSUME NEW u \in Subjects, WriteRow(u) PROVE TypeOK'
  <2>1. Upserted(u, fold[u].max) \in Nat
    BY UpsertEffect DEF TypeOK
  <2> QED
    BY <1>14, <2>1 DEF WriteRow, NoFold, TypeOK, fileVars, userVars
<1>15. ASSUME NEW u \in Subjects, SynthFails(u) PROVE TypeOK'
  BY <1>15 DEF SynthFails, NoFold, TypeOK, dbVars, fileVars, userVars
<1>16. CASE EndPass
  BY <1>16 DEF EndPass, TypeOK, dbVars, fileVars, userVars
<1>17. CASE ContextEnds
  BY <1>17 DEF ContextEnds, TypeOK, dbVars, fileVars, userVars
<1>18. CASE Crash
  <2>1. NoFold \in [ids : SUBSET Nat, max : Nat]
    BY DEF NoFold
  <2>2. fold' \in [Subjects -> [ids : SUBSET Nat, max : Nat]]
    BY <1>18, <2>1 DEF Crash
  <2>3. /\ work' \in [Sessions -> {"none", "listed", "waiting", "calling", "saving", "failed"}]
        /\ seen' \in [Sessions -> 0..MaxTurns]
        /\ cand' \in [Sessions -> SUBSET Subjects]
        /\ synth' \in [Subjects -> {"none", "waiting", "calling", "renamed"}]
        /\ edit' \in [Subjects -> {"none", "read", "renamed", "removed"}]
        /\ base' \in [Subjects -> SUBSET Nat]
        /\ \A s \in Sessions : work'[s] = "none"
        /\ \A u \in Subjects : synth'[u] = "none"
    BY <1>18 DEF Crash
  <2>4. room' \in Nat \cup {NoLimit}
    BY <1>18 DEF Crash
  <2>5. phase' \in {"idle", "extract", "plan", "synth"} /\ ctxDone' \in BOOLEAN
    BY <1>18 DEF Crash
  <2>6. crashes' \in 0..MaxCrashes
    BY <1>18 DEF Crash, TypeOK
  <2>7. UNCHANGED <<dbVars, fileVars, fails, userOps, covered>>
    BY <1>18 DEF Crash
  <2> QED
    BY <2>2, <2>3, <2>4, <2>5, <2>6, <2>7 DEF TypeOK, dbVars, fileVars
<1>19. ASSUME NEW u \in Subjects, EditRead(u) PROVE TypeOK'
  BY <1>19 DEF EditRead, TypeOK, dbVars, fileVars, passVars
<1>20. ASSUME NEW u \in Subjects, EditWrite(u) PROVE TypeOK'
  BY <1>20 DEF EditWrite, TypeOK, dbVars, passVars
<1>21. ASSUME NEW u \in Subjects, EditRow(u) PROVE TypeOK'
  <2>1. Upserted(u, 0) \in Nat
    BY UpsertEffect
  <2> QED
    BY <1>21, <2>1 DEF EditRow, TypeOK, fileVars, passVars
<1>22. ASSUME NEW u \in Subjects, DeleteFile(u) PROVE TypeOK'
  BY <1>22 DEF DeleteFile, TypeOK, dbVars, passVars
<1>23. ASSUME NEW u \in Subjects, DeleteRow(u) PROVE TypeOK'
  BY <1>23 DEF DeleteRow, TypeOK, fileVars, passVars
<1>24. CASE UNCHANGED vars
  BY <1>24 DEF vars, TypeOK, dbVars, fileVars, passVars, userVars
<1> QED
  BY <1>1, <1>2, <1>3, <1>4, <1>5, <1>6, <1>7, <1>8, <1>9, <1>10, <1>11, <1>12, <1>13,
     <1>14, <1>15, <1>16, <1>17, <1>18, <1>19, <1>20, <1>21, <1>22, <1>23, <1>24
  DEF Next, UserNext, SessionStep, SubjectStep

\* TypeOK holds of the pipeline, user requests included.
THEOREM TypeCorrect == EditSpec => []TypeOK
BY InitTypes, TypeStep, PTL DEF EditSpec
-----------------------------------------------------------------------------
\* A step keeps the checkpoint of an extraction: only SaveFacts and DropSession
\* write the table of facts, and both mark the session in the same transaction.
LEMMA CheckpointStep ==
    TypeOK /\ FactsCheckpointed /\ [Next \/ UserNext]_vars => FactsCheckpointed'
<1> SUFFICES ASSUME TypeOK, FactsCheckpointed, [Next \/ UserNext]_vars
             PROVE  FactsCheckpointed'
  OBVIOUS
<1>1. ASSUME NEW s \in Sessions, SaveFacts(s) PROVE FactsCheckpointed'
  <2>1. PICK ids \in [cand[s] -> nextId..(nextId + Cardinality(cand[s]) - 1)] :
          /\ facts' = {f \in facts : f.session # s}
                        \cup {[id |-> ids[u], session |-> s, subject |-> u] : u \in cand[s]}
          /\ extracted' = extracted \cup {s}
    BY <1>1 DEF SaveFacts
  <2>2. \A f \in facts' :
          \/ f \in facts /\ f.session # s
          \/ \E u \in cand[s] : f = [id |-> ids[u], session |-> s, subject |-> u]
    BY <2>1
  <2>3. ASSUME NEW f \in facts' PROVE f.session \in extracted'
    BY <2>1, <2>2 DEF FactsCheckpointed
  <2>4. ASSUME NEW f \in facts', NEW g \in facts',
               f.session = g.session, f.subject = g.subject
        PROVE  f = g
    <3>1. CASE f.session = s
      <4>1. PICK u \in cand[s] : f = [id |-> ids[u], session |-> s, subject |-> u]
        BY <2>2, <3>1
      <4>2. PICK v \in cand[s] : g = [id |-> ids[v], session |-> s, subject |-> v]
        BY <2>2, <2>4, <3>1
      <4> QED BY <2>4, <4>1, <4>2
    <3>2. CASE f.session # s
      <4>1. f \in facts /\ g \in facts
        BY <2>2, <2>4, <3>2
      <4> QED BY <2>4, <4>1 DEF FactsCheckpointed
    <3> QED BY <3>1, <3>2
  <2> QED BY <2>3, <2>4 DEF FactsCheckpointed
<1>2. ASSUME NEW s \in Sessions, DropSession(s) PROVE FactsCheckpointed'
  BY <1>2 DEF DropSession, FactsCheckpointed
<1>3. CASE facts' = facts /\ extracted' = extracted
  BY <1>3 DEF FactsCheckpointed
<1>4. \/ \E s \in Sessions : SaveFacts(s) \/ DropSession(s)
      \/ facts' = facts /\ extracted' = extracted
  BY DEF Next, UserNext, SessionStep, SubjectStep, vars, dbVars,
         Ingest, StartPass, ListBatch, ReadTurns, StartExtract, ModelAnswers,
         ExtractFails, DropFails, PlanSynth, ReadFacts, WriteBody, WriteRow, SynthFails,
         EndPass, ContextEnds, Crash, EditRead, EditWrite, EditRow, DeleteFile, DeleteRow
<1> QED
  BY <1>1, <1>2, <1>3, <1>4

\* A session's facts and its extracted mark are there together, once per subject,
\* whatever crashes, fails or is edited.
THEOREM CheckpointHolds == EditSpec => []FactsCheckpointed
<1>1. Init => FactsCheckpointed
  BY DEF Init, FactsCheckpointed
<1> QED
  BY <1>1, TypeCorrect, CheckpointStep, PTL DEF EditSpec
-----------------------------------------------------------------------------
\* No step but a deletion lowers a watermark.
LEMMA WatermarkStep ==
    ASSUME TypeOK, [Next \/ UserNext]_vars, NEW u \in Subjects
    PROVE  row'[u] >= row[u] \/ (row'[u] = NoRow /\ edit[u] = "removed")
<1>0. row \in [Subjects -> Nat \cup {-1}]
  BY DEF TypeOK, NoRow
<1>1. ASSUME NEW s \in Sessions, NEW C \in SUBSET Subjects, ModelAnswers(s, C)
      PROVE  row'[u] >= row[u]
  BY <1>0, <1>1 DEF ModelAnswers, NoRow
<1>2. ASSUME NEW v \in Subjects, NEW id \in Nat, row' = [row EXCEPT ![v] = Upserted(v, id)]
      PROVE  row'[u] >= row[u]
  BY <1>0, <1>2, UpsertEffect
<1>3. ASSUME NEW v \in Subjects, WriteRow(v) PROVE row'[u] >= row[u]
  <2>1. fold[v].max \in Nat
    BY DEF TypeOK
  <2> QED BY <1>2, <1>3, <2>1 DEF WriteRow
<1>4. ASSUME NEW v \in Subjects, EditRow(v) PROVE row'[u] >= row[u]
  BY <1>2, <1>4 DEF EditRow
<1>5. ASSUME NEW v \in Subjects, DeleteRow(v)
      PROVE  row'[u] >= row[u] \/ (row'[u] = NoRow /\ edit[u] = "removed")
  BY <1>0, <1>5 DEF DeleteRow
<1>6. CASE row' = row
  BY <1>0, <1>6
<1>7. \/ \E s \in Sessions, C \in SUBSET Subjects : ModelAnswers(s, C)
      \/ \E v \in Subjects : WriteRow(v) \/ EditRow(v) \/ DeleteRow(v)
      \/ row' = row
  BY DEF Next, UserNext, SessionStep, SubjectStep, vars, dbVars,
         Ingest, StartPass, ListBatch, ReadTurns, StartExtract, SaveFacts, ExtractFails,
         DropSession, DropFails, PlanSynth, ReadFacts, WriteBody, SynthFails, EndPass,
         ContextEnds, Crash, EditRead, EditWrite, DeleteFile
<1> QED
  BY <1>1, <1>3, <1>4, <1>5, <1>6, <1>7

\* The watermark of a subject falls only when the subject is deleted, whatever
\* edits, failures and crashes happen meanwhile.
THEOREM WatermarkMonotoneHolds == EditSpec => WatermarkMonotone
<1>1. TypeOK /\ [Next \/ UserNext]_vars
        => [\A u \in Subjects :
              row'[u] >= row[u] \/ (row'[u] = NoRow /\ edit[u] = "removed")]_vars
  BY WatermarkStep
<1> QED
  BY <1>1, TypeCorrect, PTL DEF EditSpec, WatermarkMonotone
-----------------------------------------------------------------------------
\* The strengthening that makes WatermarkCovered inductive.  Ids are handed out
\* once, so a new fact is above every watermark.  No fact is written while a
\* subject is synthesized, so what it read is all there is; between the rename
\* and the upsert the file already holds it.
IdsOrdered ==
    /\ \A f \in facts : f.id \in 1..(nextId - 1)
    /\ \A u \in Subjects : row[u] < nextId /\ fold[u].max < nextId

FoldComplete ==
    \A u \in Subjects : \A f \in FactsFor(u) :
        /\ synth[u] \in {"calling", "renamed"} => f.id \in fold[u].ids
        /\ synth[u] = "renamed" => u \in files /\ f.id \in body[u]

IInv == TypeOK /\ IdsOrdered /\ FoldComplete /\ WatermarkCovered

\* IInv in the initial state.
LEMMA InitInv == Init => IInv
<1> SUFFICES ASSUME Init PROVE IInv
  OBVIOUS
<1>1. TypeOK
  BY InitTypes
<1>2. IdsOrdered
  BY DEF Init, IdsOrdered, NoRow, NoFold
<1>3. FoldComplete /\ WatermarkCovered
  BY DEF Init, FoldComplete, WatermarkCovered, FactsFor
<1> QED
  BY <1>1, <1>2, <1>3 DEF IInv

\* The facts of SaveFacts get ids no watermark has reached.
LEMMA SaveStep ==
    ASSUME IInv, NEW s \in Sessions, SaveFacts(s)
    PROVE  IdsOrdered' /\ FoldComplete' /\ WatermarkCovered'
<1> DEFINE n == Cardinality(cand[s])
<1>1. n \in Nat
  BY SubjectCount DEF IInv, TypeOK
<1>2. PICK ids \in [cand[s] -> nextId..(nextId + n - 1)] :
        /\ facts' = {f \in facts : f.session # s}
                      \cup {[id |-> ids[u], session |-> s, subject |-> u] : u \in cand[s]}
        /\ nextId' = nextId + n
  BY DEF SaveFacts
<1>3. /\ work[s] = "saving"
      /\ UNCHANGED <<row, files, body, synth, fold>>
  BY DEF SaveFacts, fileVars
<1>4. nextId \in Nat \ {0}
  BY DEF IInv, TypeOK
<1>5. \A f \in facts' : f \in facts \/ f.id \in nextId..(nextId + n - 1)
  BY <1>2
<1>6. IdsOrdered'
  <2>1. \A f \in facts' : f.id \in 1..(nextId' - 1)
    BY <1>1, <1>2, <1>4, <1>5 DEF IInv, IdsOrdered
  <2>2. ASSUME NEW u \in Subjects PROVE row'[u] < nextId' /\ fold'[u].max < nextId'
    <3>1. row[u] < nextId /\ fold[u].max < nextId
      BY DEF IInv, IdsOrdered
    <3>2. row[u] \in Nat \cup {-1} /\ fold[u].max \in Nat
      BY DEF IInv, TypeOK, NoRow
    <3> QED BY <1>1, <1>2, <1>3, <1>4, <3>1, <3>2
  <2> QED BY <2>1, <2>2 DEF IdsOrdered
<1>7. FoldComplete'
  <2>1. \A u \in Subjects : synth[u] = "none"
    BY <1>3 DEF IInv, TypeOK
  <2> QED BY <1>3, <2>1 DEF FoldComplete
<1>8. WatermarkCovered'
  <2> SUFFICES ASSUME NEW u \in Subjects, NEW f \in facts', f.subject = u,
                      f.id <= Watermark(u)
               PROVE  u \in files /\ f.id \in body[u]
    BY <1>3 DEF WatermarkCovered, FactsFor, Watermark
  <2>1. Watermark(u) < nextId /\ Watermark(u) \in Nat
    BY <1>4 DEF Watermark, IInv, TypeOK, IdsOrdered, NoRow
  <2>2. f \in facts
    BY <1>1, <1>4, <1>5, <2>1
  <2> QED BY <2>2 DEF IInv, WatermarkCovered, FactsFor
<1> QED
  BY <1>6, <1>7, <1>8

\* A placeholder is given only to a subject without a file, and so without a
\* watermark that could cover a fact.
LEMMA PlaceholderStep ==
    ASSUME IInv, NEW s \in Sessions, NEW C \in SUBSET Subjects, ModelAnswers(s, C)
    PROVE  IdsOrdered' /\ FoldComplete' /\ WatermarkCovered'
<1> DEFINE new == {u \in C : row[u] = NoRow /\ u \notin files}
<1>1. PICK indexed \in SUBSET new :
        /\ files' = files \cup new
        /\ body' = [u \in Subjects |-> IF u \in new THEN {} ELSE body[u]]
        /\ row' = [u \in Subjects |-> IF u \in indexed THEN 0 ELSE row[u]]
  BY DEF ModelAnswers
<1>2. UNCHANGED <<facts, nextId, synth, fold>> /\ work[s] = "calling"
  BY DEF ModelAnswers
<1>3. \A u \in Subjects : synth[u] = "none"
  BY <1>2 DEF IInv, TypeOK
<1>4. nextId \in Nat \ {0} /\ row \in [Subjects -> Nat \cup {-1}]
  BY DEF IInv, TypeOK, NoRow
<1>5. IdsOrdered'
  BY <1>1, <1>2, <1>4 DEF IInv, IdsOrdered
<1>6. FoldComplete'
  BY <1>2, <1>3 DEF FoldComplete
<1>7. WatermarkCovered'
  <2> SUFFICES ASSUME NEW u \in Subjects, NEW f \in FactsFor(u), f.id <= Watermark(u)'
               PROVE  u \in files' /\ f.id \in body'[u]
    BY <1>2 DEF WatermarkCovered, FactsFor
  <2>1. f.id \in Nat /\ f.id >= 1
    BY <1>4 DEF IInv, IdsOrdered, FactsFor
  <2>2. u \notin new
    BY <1>1, <1>4, <2>1 DEF Watermark, NoRow
  <2>3. Watermark(u)' = Watermark(u)
    BY <1>1, <2>2 DEF Watermark
  <2> QED BY <1>1, <2>2, <2>3 DEF IInv, WatermarkCovered
<1> QED
  BY <1>5, <1>6, <1>7

\* A subject reads every fact it has.
LEMMA ReadStep ==
    ASSUME IInv, NEW v \in Subjects, ReadFacts(v)
    PROVE  IdsOrdered' /\ FoldComplete' /\ WatermarkCovered'
<1>1. PICK m \in Ids(FactsFor(v)) :
        /\ fold' = [fold EXCEPT ![v] = [ids |-> Ids(FactsFor(v)), max |-> m]]
        /\ synth' = [synth EXCEPT ![v] = "calling"]
  BY DEF ReadFacts
<1>2. UNCHANGED <<facts, nextId, row, files, body>>
  BY DEF ReadFacts, dbVars, fileVars
<1>3. /\ fold \in [Subjects -> [ids : SUBSET Nat, max : Nat]]
      /\ synth \in [Subjects -> {"none", "waiting", "calling", "renamed"}]
      /\ nextId \in Nat
  BY DEF IInv, TypeOK
<1>4. m < nextId
  BY <1>3 DEF IInv, IdsOrdered, Ids, FactsFor
<1>5. IdsOrdered'
  BY <1>1, <1>2, <1>3, <1>4 DEF IInv, IdsOrdered
<1>6. FoldComplete'
  BY <1>1, <1>2, <1>3 DEF IInv, FoldComplete, FactsFor, Ids
<1>7. WatermarkCovered'
  BY <1>2 DEF IInv, WatermarkCovered, FactsFor, Watermark
<1> QED
  BY <1>5, <1>6, <1>7

\* The file of a subject takes what it read, and its row follows the file.
LEMMA FoldStep ==
    ASSUME IInv, NEW v \in Subjects, WriteBody(v) \/ WriteRow(v)
    PROVE  IdsOrdered' /\ FoldComplete' /\ WatermarkCovered'
<1>1. /\ synth \in [Subjects -> {"none", "waiting", "calling", "renamed"}]
      /\ fold \in [Subjects -> [ids : SUBSET Nat, max : Nat]]
      /\ body \in [Subjects -> SUBSET Nat]
      /\ row \in [Subjects -> Nat \cup {-1}]
      /\ nextId \in Nat \ {0}
  BY DEF IInv, TypeOK, NoRow
<1>2. CASE WriteBody(v)
  <2>1. /\ files' = files \cup {v}
        /\ body' = [body EXCEPT ![v] = fold[v].ids]
        /\ synth' = [synth EXCEPT ![v] = "renamed"]
        /\ synth[v] = "calling"
        /\ UNCHANGED <<facts, nextId, row, fold>>
    BY <1>2 DEF WriteBody, Synthesized, dbVars
  <2>2. IdsOrdered'
    BY <2>1 DEF IInv, IdsOrdered
  <2>3. FoldComplete'
    BY <1>1, <2>1 DEF IInv, FoldComplete, FactsFor
  <2>4. WatermarkCovered'
    BY <1>1, <2>1 DEF IInv, WatermarkCovered, FoldComplete, FactsFor, Watermark
  <2> QED BY <2>2, <2>3, <2>4
<1>3. CASE WriteRow(v)
  <2>1. /\ row' = [row EXCEPT ![v] = Upserted(v, fold[v].max)]
        /\ synth' = [synth EXCEPT ![v] = "none"]
        /\ fold' = [fold EXCEPT ![v] = NoFold]
        /\ synth[v] = "renamed"
        /\ UNCHANGED <<facts, nextId, files, body>>
    BY <1>3 DEF WriteRow, fileVars
  <2>2. \/ Upserted(v, fold[v].max) = row[v]
        \/ Upserted(v, fold[v].max) = fold[v].max
    BY <1>1, UpsertEffect DEF IInv
  <2>3. IdsOrdered'
    BY <1>1, <2>1, <2>2 DEF IInv, IdsOrdered, NoFold
  <2>4. FoldComplete'
    BY <1>1, <2>1 DEF IInv, FoldComplete, FactsFor
  <2>5. WatermarkCovered'
    <3> SUFFICES ASSUME NEW u \in Subjects, NEW f \in FactsFor(u), f.id <= Watermark(u)'
                 PROVE  u \in files /\ f.id \in body[u]
      BY <2>1 DEF WatermarkCovered, FactsFor
    <3>1. CASE u = v
      BY <2>1, <3>1 DEF IInv, FoldComplete
    <3>2. CASE u # v
      BY <1>1, <2>1, <3>2 DEF IInv, WatermarkCovered, Watermark
    <3> QED BY <3>1, <3>2
  <2> QED BY <2>3, <2>4, <2>5
<1> QED
  BY <1>2, <1>3

\* A step of the pipeline keeps IInv.
LEMMA InvStep == IInv /\ [Next]_vars => IInv'
<1> SUFFICES ASSUME IInv, [Next]_vars PROVE IInv'
  OBVIOUS
<1>0. TypeOK'
  BY TypeStep DEF IInv
<1>1. ASSUME NEW s \in Sessions, DropSession(s)
      PROVE  IdsOrdered' /\ FoldComplete' /\ WatermarkCovered'
  <2>1. /\ facts' \subseteq facts
        /\ UNCHANGED <<nextId, row, files, body, synth, fold>>
    BY <1>1 DEF DropSession, fileVars
  <2> QED
    BY <2>1 DEF IInv, IdsOrdered, FoldComplete, WatermarkCovered, FactsFor, Watermark
<1>2. ASSUME UNCHANGED <<facts, nextId, row, files, body>>,
             \A u \in Subjects : /\ fold'[u] \in {fold[u], NoFold}
                                 /\ synth'[u] \in {"calling", "renamed"}
                                      => synth'[u] = synth[u] /\ fold'[u] = fold[u]
      PROVE  IdsOrdered' /\ FoldComplete' /\ WatermarkCovered'
  <2>1. NoFold.max = 0 /\ nextId \in Nat \ {0}
    BY DEF NoFold, IInv, TypeOK
  <2>2. IdsOrdered'
    BY <1>2, <2>1 DEF IInv, IdsOrdered
  <2>3. FoldComplete'
    BY <1>2 DEF IInv, FoldComplete, FactsFor
  <2>4. WatermarkCovered'
    BY <1>2 DEF IInv, WatermarkCovered, FactsFor, Watermark
  <2> QED BY <2>2, <2>3, <2>4
<1>3. ASSUME NEW u \in Subjects, SynthFails(u) PROVE IInv'
  BY <1>0, <1>2, <1>3 DEF SynthFails, dbVars, fileVars, IInv, TypeOK
<1>4. CASE PlanSynth
  BY <1>0, <1>2, <1>4 DEF PlanSynth, dbVars, fileVars, IInv, TypeOK
<1>5. CASE Crash
  BY <1>0, <1>2, <1>5 DEF Crash, dbVars, fileVars, IInv, TypeOK
<1>6. CASE UNCHANGED <<facts, nextId, row, files, body, fold, synth>>
  BY <1>0, <1>2, <1>6 DEF IInv
<1>7. \/ \E s \in Sessions : SaveFacts(s) \/ DropSession(s)
      \/ \E s \in Sessions, C \in SUBSET Subjects : ModelAnswers(s, C)
      \/ \E u \in Subjects : ReadFacts(u) \/ WriteBody(u) \/ WriteRow(u) \/ SynthFails(u)
      \/ PlanSynth
      \/ Crash
      \/ UNCHANGED <<facts, nextId, row, files, body, fold, synth>>
  BY DEF Next, SessionStep, SubjectStep, vars, dbVars, fileVars, passVars,
         Ingest, StartPass, ListBatch, ReadTurns, StartExtract, ExtractFails, DropFails,
         EndPass, ContextEnds
<1> QED
  BY <1>0, <1>1, <1>3, <1>4, <1>5, <1>6, <1>7, SaveStep, PlaceholderStep, ReadStep, FoldStep
  DEF IInv

\* Every fact at or below the watermark of its subject is in the subject's file,
\* through crashes between the rename and the upsert, failures and uploads.
THEOREM WatermarkCoveredHolds == Spec => []WatermarkCovered
<1>1. IInv => WatermarkCovered
  BY DEF IInv
<1> QED
  BY <1>1, InitInv, InvStep, PTL DEF Spec
-----------------------------------------------------------------------------
\* The strengthening that makes PassLeavesClean inductive.  While subjects are
\* synthesized no fact is written, so a subject is either done, or what its
\* goroutine has read reaches to its last fact.  The context of a pass ends only
\* by a failure.
CleanInv ==
    /\ ctxDone => fails # 0
    /\ fails = 0 /\ phase = "synth" =>
         \A u \in Subjects : \A f \in FactsFor(u) :
            /\ synth[u] = "none" => f.id <= Watermark(u)
            /\ synth[u] \in {"calling", "renamed"} => f.id <= fold[u].max

\* While subjects are synthesized, the pipeline writes no fact and no row but that
\* of a subject whose body is in place.
LEMMA SynthQuiet ==
    ASSUME TypeOK, [Next]_vars, phase = "synth"
    PROVE  /\ facts' = facts
           /\ row' = row \/ \E u \in Subjects : WriteRow(u)
<1>1. \A s \in Sessions : work[s] = "none"
  BY DEF TypeOK
<1>2. \A s \in Sessions, C \in SUBSET Subjects :
         ~(ModelAnswers(s, C) \/ SaveFacts(s) \/ DropSession(s))
  BY <1>1 DEF ModelAnswers, SaveFacts, DropSession
<1>3. \/ \E u \in Subjects : WriteRow(u)
      \/ facts' = facts /\ row' = row
  BY <1>2 DEF Next, SessionStep, SubjectStep, vars, dbVars,
         Ingest, StartPass, ListBatch, ReadTurns, StartExtract,
         ExtractFails, DropFails, PlanSynth, ReadFacts, WriteBody,
         SynthFails, EndPass, ContextEnds, Crash
<1> QED
  BY <1>3 DEF WriteRow

\* A failure is never forgotten.
LEMMA FailsStep ==
    ASSUME TypeOK, [Next]_vars
    PROVE  /\ fails \in Nat
           /\ fails' = fails \/ fails' = fails + 1
           /\ ctxDone' => ctxDone \/ fails' = fails + 1
<1>1. fails \in Nat
  BY BoundTypes DEF TypeOK
<1>2. \A s \in Sessions, C \in SUBSET Subjects : ModelAnswers(s, C) =>
          (fails' = fails \/ fails' = fails + 1) /\ ctxDone' = ctxDone
  BY DEF ModelAnswers
<1>3. \/ \E s \in Sessions, C \in SUBSET Subjects : ModelAnswers(s, C)
      \/ /\ fails' = fails \/ fails' = fails + 1
         /\ ctxDone' => ctxDone \/ fails' = fails + 1
  BY DEF Next, SessionStep, SubjectStep, vars, dbVars, passVars,
         Ingest, StartPass, ListBatch, ReadTurns, StartExtract, SaveFacts,
         ExtractFails, DropSession, DropFails, PlanSynth, ReadFacts, WriteBody, WriteRow,
         SynthFails, EndPass, ContextEnds, Crash
<1> QED
  BY <1>1, <1>2, <1>3

LEMMA CleanStep == TypeOK /\ CleanInv /\ [Next]_vars => CleanInv'
<1> SUFFICES ASSUME TypeOK, CleanInv, [Next]_vars PROVE CleanInv'
  OBVIOUS
<1>1. ctxDone' => fails' # 0
  BY FailsStep DEF CleanInv
<1>2. ASSUME fails' = 0, phase' = "synth", NEW u \in Subjects, NEW f \in FactsFor(u)'
      PROVE  /\ synth'[u] = "none" => f.id <= Watermark(u)'
             /\ synth'[u] \in {"calling", "renamed"} => f.id <= fold'[u].max
  <2>0. fails = 0 /\ ~ctxDone
    BY <1>2, FailsStep DEF CleanInv
  <2>1. CASE phase = "synth"
    <3>1. facts' = facts
      BY <2>1, SynthQuiet
    <3>2. f \in FactsFor(u) /\ f.id \in Nat
      BY <3>1, <1>2 DEF FactsFor, TypeOK, Fact
    <3>3. /\ synth[u] = "none" => f.id <= Watermark(u)
          /\ synth[u] \in {"calling", "renamed"} => f.id <= fold[u].max
      BY <2>0, <2>1, <3>2 DEF CleanInv
    <3>4. ASSUME NEW v \in Subjects, ReadFacts(v)
          PROVE  /\ synth'[u] = "none" => f.id <= Watermark(u)'
                 /\ synth'[u] \in {"calling", "renamed"} => f.id <= fold'[u].max
      <4>1. PICK m \in Ids(FactsFor(v)) :
              /\ \A i \in Ids(FactsFor(v)) : i <= m
              /\ fold' = [fold EXCEPT ![v] = [ids |-> Ids(FactsFor(v)), max |-> m]]
        BY <3>4 DEF ReadFacts
      <4>2. synth' = [synth EXCEPT ![v] = "calling"] /\ row' = row
        BY <3>4 DEF ReadFacts, dbVars
      <4>3. CASE u = v
        <5>1. f.id \in Ids(FactsFor(v))
          BY <3>2, <4>3 DEF Ids
        <5>2. fold'[u].max = m /\ synth'[u] = "calling"
          BY <4>1, <4>2, <4>3 DEF TypeOK
        <5>. QED BY <4>1, <5>1, <5>2
      <4>4. CASE u # v
        BY <3>3, <4>1, <4>2, <4>4 DEF TypeOK, Watermark
      <4>. QED BY <4>3, <4>4
    <3>5. ASSUME NEW v \in Subjects, WriteBody(v)
          PROVE  /\ synth'[u] = "none" => f.id <= Watermark(u)'
                 /\ synth'[u] \in {"calling", "renamed"} => f.id <= fold'[u].max
      BY <3>3, <3>5 DEF WriteBody, dbVars, TypeOK, Watermark
    <3>6. ASSUME NEW v \in Subjects, WriteRow(v)
          PROVE  /\ synth'[u] = "none" => f.id <= Watermark(u)'
                 /\ synth'[u] \in {"calling", "renamed"} => f.id <= fold'[u].max
      <4>1. CASE u = v
        <5>1. fold[u].max \in Nat /\ synth[u] = "renamed"
          BY <3>6, <4>1 DEF WriteRow, TypeOK
        <5>2. row[u] \in Nat \cup {-1}
          BY DEF TypeOK, NoRow
        <5>3. row'[u] \in Nat /\ row'[u] >= fold[u].max
          BY <3>6, <4>1, <5>1, <5>2 DEF WriteRow, Upserted, TypeOK
        <5>4. Watermark(u)' = row'[u]
          BY <5>3 DEF Watermark, NoRow
        <5>5. synth'[u] = "none"
          BY <3>6, <4>1 DEF WriteRow, TypeOK
        <5>. QED BY <3>2, <3>3, <5>1, <5>3, <5>4, <5>5
      <4>2. CASE u # v
        BY <3>3, <3>6, <4>2 DEF WriteRow, TypeOK, Watermark
      <4>. QED BY <4>1, <4>2
    <3>7. ASSUME NEW v \in Subjects, SynthFails(v) PROVE FALSE
      BY <1>2, <2>0, <3>7 DEF SynthFails
    <3>8. \/ \E v \in Subjects : SubjectStep(v)
          \/ UNCHANGED <<synth, fold, row>>
      BY <2>1, <1>2, SynthQuiet DEF Next, SessionStep, vars, dbVars, passVars,
         Ingest, StartPass, ListBatch, ReadTurns, StartExtract, ModelAnswers, SaveFacts,
         ExtractFails, DropSession, DropFails, PlanSynth, EndPass, ContextEnds, Crash, TypeOK
    <3>9. CASE UNCHANGED <<synth, fold, row>>
      BY <3>3, <3>9 DEF Watermark
    <3>. QED BY <3>4, <3>5, <3>6, <3>7, <3>8, <3>9 DEF SubjectStep
  <2>2. CASE phase # "synth"
    <3>1. PlanSynth
      BY <1>2, <2>2 DEF Next, SessionStep, SubjectStep, vars, dbVars, passVars,
         Ingest, StartPass, ListBatch, ReadTurns, StartExtract, ModelAnswers, SaveFacts,
         ExtractFails, DropSession, DropFails, ReadFacts, WriteBody, WriteRow,
         SynthFails, EndPass, ContextEnds, Crash
    <3>2. facts' = facts /\ row' = row /\ synth'[u] \in {"waiting", "none"}
      BY <3>1 DEF PlanSynth, dbVars
    <3>3. f \in FactsFor(u) /\ f.id \in Nat /\ Watermark(u) \in Nat
      BY <3>2, <1>2 DEF FactsFor, TypeOK, Fact, Watermark, NoRow
    <3>4. synth'[u] = "none" => ~(f.id > Watermark(u))
      BY <3>1, <3>3 DEF PlanSynth, Dirty
    <3>. QED BY <3>2, <3>3, <3>4 DEF Watermark
  <2>. QED BY <2>1, <2>2
<1> QED
  BY <1>1, <1>2 DEF CleanInv

\* When a pass is done and nothing has failed, every fact is at or below the
\* watermark of its subject, for any sessions, subjects, uploads and crashes.
THEOREM PassLeavesCleanHolds == Spec => PassLeavesClean
<1>1. Init => TypeOK /\ CleanInv
  BY InitTypes DEF Init, CleanInv
<1>2. TypeOK /\ CleanInv /\ [Next]_vars => (TypeOK /\ CleanInv)'
  BY TypeStep, CleanStep
<1>3. ASSUME TypeOK, CleanInv, [Next]_vars,
             phase = "synth", phase' = "idle", fails' = 0, crashes' = crashes,
             NEW u \in Subjects, NEW f \in FactsFor(u)
      PROVE  f.id <= Watermark(u)
  <2>1. fails = 0
    BY <1>3, FailsStep
  <2>2. crashes \in Nat
    BY <1>3, BoundTypes DEF TypeOK
  <2>3. EndPass
    BY <1>3, <2>2 DEF Next, SessionStep, SubjectStep, vars, dbVars, passVars,
         Ingest, StartPass, ListBatch, ReadTurns, StartExtract, ModelAnswers, SaveFacts,
         ExtractFails, DropSession, DropFails, PlanSynth, ReadFacts, WriteBody, WriteRow,
         SynthFails, ContextEnds, Crash
  <2>. QED BY <1>3, <2>1, <2>3 DEF EndPass, CleanInv
<1>4. TypeOK /\ CleanInv /\ [Next]_vars =>
        [phase = "synth" /\ phase' = "idle" /\ fails' = 0 /\ crashes' = crashes
           => \A u \in Subjects : \A f \in FactsFor(u) : f.id <= Watermark(u)]_vars
  BY <1>3
<1> QED
  BY <1>1, <1>2, <1>4, PTL DEF Spec, PassLeavesClean
=============================================================================
