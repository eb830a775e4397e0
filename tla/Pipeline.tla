------------------------------ MODULE Pipeline ------------------------------
(***************************************************************************)
(* The consolidation pass of internal/pipeline/consolidate.go over the     *)
(* tables and files of internal/store: sessions are extracted into facts,  *)
(* facts are folded into the body of their subject's file, and each phase  *)
(* keeps a checkpoint in the database, the extracted mark of a session and *)
(* the synthesis watermark of a subject.  Uploads go on during the pass,   *)
(* the process may crash between any two steps, and the model, the         *)
(* database and the context may fail.  There is one pass at a time         *)
(* (Tenant, SingleFlight).                                                 *)
(*                                                                         *)
(* A body is the set of the facts folded into it, by id; its wording is    *)
(* the model's.  Spec is the pipeline by itself; EditSpec adds a user who  *)
(* edits and deletes subject files meanwhile (httpapi.go, subjects.go).    *)
(***************************************************************************)
EXTENDS Integers, FiniteSets

CONSTANTS Sessions,            \* sessions a collector may upload
          Subjects,            \* subjects the model may route a fact to
          Poison,              \* sessions on which the model always fails
          Limits,              \* the limits of sessions a caller may ask for, 0 is none
          BatchSize,           \* extractBatchSize
          ExtractConcurrency,  \* extractConcurrency
          SynthConcurrency,    \* synthConcurrency
          MaxTurns,            \* bound on the turns of a session
          MaxFails,            \* bound on transient failures
          MaxCrashes,          \* bound on crashes
          MaxUserOps           \* bound on user edits and deletions

ASSUME PipelineAssumption ==
    /\ IsFiniteSet(Sessions) /\ IsFiniteSet(Subjects)
    /\ Poison \subseteq Sessions
    /\ {BatchSize, ExtractConcurrency, SynthConcurrency} \subseteq Nat \ {0}
    /\ {MaxTurns, MaxFails, MaxCrashes, MaxUserOps} \cup Limits \subseteq Nat

VARIABLES
    \* the database
    turns,      \* per session: how many turns are stored, 0 before the first upload
    extracted,  \* sessions with a row in table extracted
    facts,      \* table facts
    nextId,     \* the id AUTOINCREMENT gives the next fact
    row,        \* per subject: synth_max_fact_id of its index row, or NoRow
    \* the memory directory
    files,      \* subjects that have a file
    body,       \* per subject: the facts folded into its file
    \* the pass
    phase,      \* where Run is
    room,       \* how many more sessions it may extract, or NoLimit
    ctxDone,    \* its context has ended
    work,       \* per session: where its extraction goroutine is
    seen,       \* per session: the turns the listing loaded
    cand,       \* per session: the subjects the model found facts for
    synth,      \* per subject: where its synthesis goroutine is
    fold,       \* per subject: the facts it read, and their maximal id
    \* the user
    edit,       \* per subject: where the edit or deletion under way is
    base,       \* per subject: what the edit loaded
    \* bounds
    fails, crashes, userOps,
    \* observers
    covered     \* per session: the turns its extraction was about

dbVars == <<turns, extracted, facts, nextId, row>>
fileVars == <<files, body>>
passVars == <<phase, room, ctxDone, work, seen, cand, synth, fold>>
userVars == <<edit, base, userOps>>
vars == <<dbVars, fileVars, passVars, userVars, fails, crashes, covered>>

NoRow == -1
NoLimit == -1
NoFold == [ids |-> {}, max |-> 0]

Fact == [id : Nat, session : Sessions, subject : Subjects]

TypeOK ==
    /\ turns \in [Sessions -> 0..MaxTurns]
    /\ extracted \subseteq Sessions
    /\ facts \subseteq Fact
    /\ nextId \in Nat \ {0}
    /\ row \in [Subjects -> Nat \cup {NoRow}]
    /\ files \subseteq Subjects
    /\ body \in [Subjects -> SUBSET Nat]
    /\ phase \in {"idle", "extract", "plan", "synth"}
    /\ room \in Nat \cup {NoLimit}
    /\ ctxDone \in BOOLEAN
    /\ work \in [Sessions -> {"none", "listed", "waiting", "calling", "saving", "failed"}]
    /\ seen \in [Sessions -> 0..MaxTurns]
    /\ cand \in [Sessions -> SUBSET Subjects]
    /\ synth \in [Subjects -> {"none", "waiting", "calling", "renamed"}]
    /\ fold \in [Subjects -> [ids : SUBSET Nat, max : Nat]]
    /\ edit \in [Subjects -> {"none", "read", "renamed", "removed"}]
    /\ base \in [Subjects -> SUBSET Nat]
    /\ fails \in 0..MaxFails
    /\ crashes \in 0..MaxCrashes
    /\ userOps \in 0..MaxUserOps
    /\ covered \in [Sessions -> 0..MaxTurns]
    \* goroutines of a phase are waited for before the next phase
    /\ \A s \in Sessions : work[s] # "none" => phase = "extract"
    /\ \A u \in Subjects : synth[u] # "none" => phase = "synth"

Init ==
    /\ turns = [s \in Sessions |-> 0]
    /\ extracted = {}
    /\ facts = {}
    /\ nextId = 1
    /\ row = [u \in Subjects |-> NoRow]
    /\ files = {}
    /\ body = [u \in Subjects |-> {}]
    /\ phase = "idle"
    /\ room = NoLimit
    /\ ctxDone = FALSE
    /\ work = [s \in Sessions |-> "none"]
    /\ seen = [s \in Sessions |-> 0]
    /\ cand = [s \in Sessions |-> {}]
    /\ synth = [u \in Subjects |-> "none"]
    /\ fold = [u \in Subjects |-> NoFold]
    /\ edit = [u \in Subjects |-> "none"]
    /\ base = [u \in Subjects |-> {}]
    /\ fails = 0 /\ crashes = 0 /\ userOps = 0
    /\ covered = [s \in Sessions |-> 0]
-----------------------------------------------------------------------------
(* What the store's queries return.                                        *)

\* The sessions ListUnextractedSessions selects from.
Unextracted == {s \in Sessions : turns[s] > 0 /\ s \notin extracted}

FactsFor(u) == {f \in facts : f.subject = u}

Ids(F) == {f.id : f \in F}

\* COALESCE(sub.synth_max_fact_id, 0)
Watermark(u) == IF row[u] = NoRow THEN 0 ELSE row[u]

\* Mutant of Dirty: the watermark is taken for the next id to fold.
DirtyOffByOne(u) == \E f \in FactsFor(u) : f.id > Watermark(u) + 1

\* The HAVING clause of DirtySubjects.
Dirty(u) == \E f \in FactsFor(u) : f.id > Watermark(u)

\* Mutant of Upserted: the last write wins.
UpsertedLast(u, id) == id

\* PutSubject's upsert keeps the larger watermark; 0 leaves it unchanged.
Upserted(u, id) == IF row[u] > id THEN row[u] ELSE id
-----------------------------------------------------------------------------
(* Uploads.                                                                *)

\* IngestSessions: the upload replaces the stored turns and leaves the
\* extracted mark alone.  A collector sends a session again when it grew.
Ingest(s, n) ==
    /\ n > turns[s]
    /\ turns' = [turns EXCEPT ![s] = n]
    /\ UNCHANGED <<extracted, facts, nextId, row, fileVars, passVars, userVars,
                   fails, crashes, covered>>
-----------------------------------------------------------------------------
(* The extract phase.                                                      *)

\* Mutant of Quiet: only the goroutines in a model call are waited for.
QuietCalling == \A s \in Sessions : work[s] \notin {"listed", "waiting", "calling"}

\* wg.Wait has returned: no goroutine of the batch is left.
Quiet == \A s \in Sessions : work[s] = "none"

StartPass(limit) ==
    /\ phase = "idle"
    /\ phase' = "extract"
    /\ room' = IF limit > 0 THEN limit ELSE NoLimit
    /\ ctxDone' = FALSE
    /\ UNCHANGED <<dbVars, fileVars, work, seen, cand, synth, fold, userVars,
                   fails, crashes, covered>>

\* How many sessions the next batch asks for.
Want == IF room # NoLimit /\ room < BatchSize THEN room ELSE BatchSize

\* The head of extractPhase's loop: give up on an ended context, list the next
\* batch, or stop because the limit is reached or nothing is left.
ListBatch ==
    /\ phase = "extract"
    /\ Quiet
    /\ \/ /\ ctxDone
          /\ phase' = "idle"
          /\ UNCHANGED <<work, room>>
       \/ /\ ~ctxDone
          /\ Want = 0 \/ Unextracted = {}
          /\ phase' = "plan"
          /\ UNCHANGED <<work, room>>
       \/ /\ ~ctxDone
          /\ Want # 0 /\ Unextracted # {}
          /\ \E B \in SUBSET Unextracted :
               /\ \/ Cardinality(B) = Want
                  \/ Cardinality(B) < Want /\ B = Unextracted
               /\ work' = [s \in Sessions |-> IF s \in B THEN "listed" ELSE "none"]
               /\ room' = IF room = NoLimit THEN NoLimit ELSE room - Cardinality(B)
          /\ UNCHANGED phase
    /\ UNCHANGED <<dbVars, fileVars, ctxDone, seen, cand, synth, fold, userVars,
                   fails, crashes, covered>>

\* turnsFor, one query per listed session and outside any transaction.
ReadTurns(s) ==
    /\ work[s] = "listed"
    /\ seen' = [seen EXCEPT ![s] = turns[s]]
    /\ work' = [work EXCEPT ![s] = "waiting"]
    /\ UNCHANGED <<dbVars, fileVars, phase, room, ctxDone, cand, synth, fold, userVars,
                   fails, crashes, covered>>

\* The whole batch is loaded and the semaphore has room.
StartExtract(s) ==
    /\ work[s] = "waiting"
    /\ \A r \in Sessions : work[r] # "listed"
    /\ Cardinality({r \in Sessions : work[r] \in {"calling", "saving", "failed"}})
         < ExtractConcurrency
    /\ work' = [work EXCEPT ![s] = "calling"]
    /\ UNCHANGED <<dbVars, fileVars, phase, room, ctxDone, seen, cand, synth, fold, userVars,
                   fails, crashes, covered>>

\* The model call of Extract fails, or what it returns does not parse: always on
\* a poison session, and on any once the context has ended.
Refused(s) == s \in Poison \/ ctxDone

\* The model answers with facts about the subjects in C.  ensureSubject gives
\* those that have neither an index row nor a file an empty placeholder of both;
\* it ignores an error of the second write, after which the row is missing.
ModelAnswers(s, C) ==
    LET new == {u \in C : row[u] = NoRow /\ u \notin files}
    IN \E indexed \in SUBSET new :
        /\ work[s] = "calling"
        /\ s \notin Poison
        /\ \/ indexed = new /\ UNCHANGED fails
           \/ indexed # new /\ fails < MaxFails /\ fails' = fails + 1
        /\ cand' = [cand EXCEPT ![s] = C]
        /\ files' = files \cup new
        /\ body' = [u \in Subjects |-> IF u \in new THEN {} ELSE body[u]]
        /\ row' = [u \in Subjects |-> IF u \in indexed THEN 0 ELSE row[u]]
        /\ work' = [work EXCEPT ![s] = "saving"]
        /\ UNCHANGED <<turns, extracted, facts, nextId, phase, room, ctxDone, seen, synth, fold,
                       userVars, crashes, covered>>

\* Mutant of SaveFacts: the facts are committed without the extracted mark.
SaveFactsUnmarked(s) ==
    \E ids \in [cand[s] -> nextId..(nextId + Cardinality(cand[s]) - 1)] :
      /\ work[s] = "saving"
      /\ \A u, v \in cand[s] : ids[u] = ids[v] => u = v
      /\ facts' = {f \in facts : f.session # s}
                    \cup {[id |-> ids[u], session |-> s, subject |-> u] : u \in cand[s]}
      /\ nextId' = nextId + Cardinality(cand[s])
      /\ work' = [work EXCEPT ![s] = "none"]
      /\ cand' = [cand EXCEPT ![s] = {}]
      /\ covered' = [covered EXCEPT ![s] = seen[s]]
      /\ UNCHANGED <<turns, extracted, row, fileVars, phase, room, ctxDone, seen, synth, fold,
                     userVars, fails, crashes>>

\* SaveFacts, one transaction: replace the session's facts and mark it.
SaveFacts(s) ==
    \E ids \in [cand[s] -> nextId..(nextId + Cardinality(cand[s]) - 1)] :
      /\ work[s] = "saving"
      /\ \A u, v \in cand[s] : ids[u] = ids[v] => u = v
      /\ facts' = {f \in facts : f.session # s}
                    \cup {[id |-> ids[u], session |-> s, subject |-> u] : u \in cand[s]}
      /\ nextId' = nextId + Cardinality(cand[s])
      /\ extracted' = extracted \cup {s}
      /\ work' = [work EXCEPT ![s] = "none"]
      /\ cand' = [cand EXCEPT ![s] = {}]
      /\ covered' = [covered EXCEPT ![s] = seen[s]]
      /\ UNCHANGED <<turns, row, fileVars, phase, room, ctxDone, seen, synth, fold,
                     userVars, fails, crashes>>

\* extractSession returns an error, from the model or from SaveFacts, whose
\* transaction is rolled back.  An ended context leaves the session queued.
ExtractFails(s) ==
    /\ \/ work[s] = "calling" /\ Refused(s) /\ UNCHANGED fails
       \/ /\ work[s] \in {"calling", "saving"}
          /\ fails < MaxFails
          /\ fails' = fails + 1
    /\ work' = [work EXCEPT ![s] = IF ctxDone THEN "none" ELSE "failed"]
    /\ cand' = [cand EXCEPT ![s] = {}]
    /\ UNCHANGED <<dbVars, fileVars, phase, room, ctxDone, seen, synth, fold, userVars,
                   crashes, covered>>

\* Mutant of DropSession: the failed session is left in the queue.
DropSessionNot(s) ==
    /\ work[s] = "failed"
    /\ work' = [work EXCEPT ![s] = "none"]
    /\ UNCHANGED <<dbVars, fileVars, phase, room, ctxDone, seen, cand, synth, fold, userVars,
                   fails, crashes, covered>>

\* SaveFacts with no facts: a poison session contributes nothing.
DropSession(s) ==
    /\ work[s] = "failed"
    /\ facts' = {f \in facts : f.session # s}
    /\ extracted' = extracted \cup {s}
    /\ work' = [work EXCEPT ![s] = "none"]
    /\ covered' = [covered EXCEPT ![s] = seen[s]]
    /\ UNCHANGED <<turns, nextId, row, fileVars, phase, room, ctxDone, seen, cand, synth, fold,
                   userVars, fails, crashes>>

\* ... and the error of that call is ignored: the next listing has it again.
DropFails(s) ==
    /\ work[s] = "failed"
    /\ fails < MaxFails
    /\ fails' = fails + 1
    /\ work' = [work EXCEPT ![s] = "none"]
    /\ UNCHANGED <<dbVars, fileVars, phase, room, ctxDone, seen, cand, synth, fold, userVars,
                   crashes, covered>>
-----------------------------------------------------------------------------
(* The synthesize phase.                                                   *)

\* DirtySubjects, once per pass.
PlanSynth ==
    /\ phase = "plan"
    /\ phase' = "synth"
    /\ synth' = [u \in Subjects |-> IF Dirty(u) THEN "waiting" ELSE "none"]
    /\ UNCHANGED <<dbVars, fileVars, room, ctxDone, work, seen, cand, fold, userVars,
                   fails, crashes, covered>>

\* FactsForSubject, when the semaphore has room.
ReadFacts(u) ==
    \E m \in Ids(FactsFor(u)) :
      /\ synth[u] = "waiting"
      /\ Cardinality({v \in Subjects : synth[v] \in {"calling", "renamed"}})
           < SynthConcurrency
      /\ \A i \in Ids(FactsFor(u)) : i <= m
      /\ fold' = [fold EXCEPT ![u] = [ids |-> Ids(FactsFor(u)), max |-> m]]
      /\ synth' = [synth EXCEPT ![u] = "calling"]
      /\ UNCHANGED <<dbVars, fileVars, phase, room, ctxDone, work, seen, cand, userVars,
                     fails, crashes, covered>>

\* Mutant of WriteBody: the index row is written before the file.
WriteBodyLate(u) ==
    /\ synth[u] = "calling"
    /\ row' = [row EXCEPT ![u] = Upserted(u, fold[u].max)]
    /\ synth' = [synth EXCEPT ![u] = "renamed"]
    /\ UNCHANGED <<turns, extracted, facts, nextId, fileVars, phase, room, ctxDone, work, seen,
                   cand, fold, userVars, fails, crashes, covered>>

\* Synthesize: the new body has the facts that were read.  A blank answer is
\* replaced by the facts as they are.
Synthesized(u) == fold[u].ids

\* The model returns a body and PutSubject renames the file into place.
WriteBody(u) ==
    /\ synth[u] = "calling"
    /\ files' = files \cup {u}
    /\ body' = [body EXCEPT ![u] = Synthesized(u)]
    /\ synth' = [synth EXCEPT ![u] = "renamed"]
    /\ UNCHANGED <<dbVars, phase, room, ctxDone, work, seen, cand, fold, userVars,
                   fails, crashes, covered>>

\* Mutant of WriteRow: the watermark is left as a user's write leaves it.
WriteRowUnmarked(u) ==
    /\ synth[u] = "renamed"
    /\ row' = [row EXCEPT ![u] = Upserted(u, 0)]
    /\ synth' = [synth EXCEPT ![u] = "none"]
    /\ fold' = [fold EXCEPT ![u] = NoFold]
    /\ UNCHANGED <<turns, extracted, facts, nextId, fileVars, phase, room, ctxDone, work,
                   seen, cand, userVars, fails, crashes, covered>>

\* ... and then upserts the index row with the watermark.
WriteRow(u) ==
    /\ synth[u] = "renamed"
    /\ row' = [row EXCEPT ![u] = Upserted(u, fold[u].max)]
    /\ synth' = [synth EXCEPT ![u] = "none"]
    /\ fold' = [fold EXCEPT ![u] = NoFold]
    /\ UNCHANGED <<turns, extracted, facts, nextId, fileVars, phase, room, ctxDone, work, seen,
                   cand, userVars, fails, crashes, covered>>

\* synthesizeSubject returns an error, before the rename or at the upsert: the
\* subject stays dirty.
SynthFails(u) ==
    /\ synth[u] \in {"calling", "renamed"}
    /\ \/ synth[u] = "calling" /\ ctxDone /\ UNCHANGED fails
       \/ fails < MaxFails /\ fails' = fails + 1
    /\ synth' = [synth EXCEPT ![u] = "none"]
    /\ fold' = [fold EXCEPT ![u] = NoFold]
    /\ UNCHANGED <<dbVars, fileVars, phase, room, ctxDone, work, seen, cand, userVars,
                   crashes, covered>>

EndPass ==
    /\ phase = "synth"
    /\ \A u \in Subjects : synth[u] = "none"
    /\ phase' = "idle"
    /\ UNCHANGED <<dbVars, fileVars, room, ctxDone, work, seen, cand, synth, fold, userVars,
                   fails, crashes, covered>>
-----------------------------------------------------------------------------
(* The context and the process.                                            *)

ContextEnds ==
    /\ phase # "idle" /\ ~ctxDone
    /\ fails < MaxFails
    /\ fails' = fails + 1
    /\ ctxDone' = TRUE
    /\ UNCHANGED <<dbVars, fileVars, phase, room, work, seen, cand, synth, fold, userVars,
                   crashes, covered>>

\* Tables and files stay as they are; goroutines are gone.
Crash ==
    /\ crashes < MaxCrashes
    /\ crashes' = crashes + 1
    /\ phase' = "idle"
    /\ room' = NoLimit
    /\ ctxDone' = FALSE
    /\ work' = [s \in Sessions |-> "none"]
    /\ seen' = [s \in Sessions |-> 0]
    /\ cand' = [s \in Sessions |-> {}]
    /\ synth' = [u \in Subjects |-> "none"]
    /\ fold' = [u \in Subjects |-> NoFold]
    /\ edit' = [u \in Subjects |-> "none"]
    /\ base' = [u \in Subjects |-> {}]
    /\ UNCHANGED <<dbVars, fileVars, fails, userOps, covered>>
-----------------------------------------------------------------------------
(* A user at the HTTP or MCP door, one request at a time per subject.       *)

\* ApplyPatch or AppendLine loads the subject, facts folded so far included ...
EditRead(u) ==
    /\ edit[u] = "none"
    /\ userOps < MaxUserOps
    /\ userOps' = userOps + 1
    /\ edit' = [edit EXCEPT ![u] = "read"]
    /\ base' = [base EXCEPT ![u] = body[u]]
    /\ UNCHANGED <<dbVars, fileVars, passVars, fails, crashes, covered>>

\* ... and writes it back whole, with a word of the user's own added ...
EditWrite(u) ==
    /\ edit[u] = "read"
    /\ files' = files \cup {u}
    /\ body' = [body EXCEPT ![u] = base[u]]
    /\ base' = [base EXCEPT ![u] = {}]
    /\ edit' = [edit EXCEPT ![u] = "renamed"]
    /\ UNCHANGED <<dbVars, passVars, userOps, fails, crashes, covered>>

\* ... with watermark 0, that is, unchanged.
EditRow(u) ==
    /\ edit[u] = "renamed"
    /\ row' = [row EXCEPT ![u] = Upserted(u, 0)]
    /\ edit' = [edit EXCEPT ![u] = "none"]
    /\ UNCHANGED <<turns, extracted, facts, nextId, fileVars, passVars, base, userOps,
                   fails, crashes, covered>>

\* DeleteSubject removes the file ...
DeleteFile(u) ==
    /\ edit[u] = "none"
    /\ userOps < MaxUserOps
    /\ userOps' = userOps + 1
    /\ files' = files \ {u}
    /\ body' = [body EXCEPT ![u] = {}]
    /\ edit' = [edit EXCEPT ![u] = "removed"]
    /\ UNCHANGED <<dbVars, passVars, base, fails, crashes, covered>>

\* ... and then the index row, watermark included.  The facts stay.
DeleteRow(u) ==
    /\ edit[u] = "removed"
    /\ row' = [row EXCEPT ![u] = NoRow]
    /\ edit' = [edit EXCEPT ![u] = "none"]
    /\ UNCHANGED <<turns, extracted, facts, nextId, fileVars, passVars, base, userOps,
                   fails, crashes, covered>>
-----------------------------------------------------------------------------
SessionStep(s) ==
    \/ ReadTurns(s)
    \/ StartExtract(s)
    \/ \E C \in SUBSET Subjects : ModelAnswers(s, C)
    \/ SaveFacts(s)
    \/ ExtractFails(s)
    \/ DropSession(s)

SubjectStep(u) == ReadFacts(u) \/ WriteBody(u) \/ WriteRow(u) \/ SynthFails(u)

Next ==
    \/ \E s \in Sessions, n \in 1..MaxTurns : Ingest(s, n)
    \/ \E limit \in Limits : StartPass(limit)
    \/ ListBatch
    \/ \E s \in Sessions : SessionStep(s) \/ DropFails(s)
    \/ PlanSynth
    \/ \E u \in Subjects : SubjectStep(u)
    \/ EndPass
    \/ ContextEnds
    \/ Crash

UserNext ==
    \E u \in Subjects :
        EditRead(u) \/ EditWrite(u) \/ EditRow(u) \/ DeleteFile(u) \/ DeleteRow(u)

Spec == Init /\ [][Next]_vars

EditSpec == Init /\ [][Next \/ UserNext]_vars

\* Goroutines run and model calls return.  Nobody need ever start a pass.
Fairness ==
    /\ WF_vars(ListBatch)
    /\ WF_vars(PlanSynth)
    /\ WF_vars(EndPass)
    /\ \A s \in Sessions : WF_vars(SessionStep(s))
    /\ \A u \in Subjects : WF_vars(SubjectStep(u))

FairEditSpec == EditSpec /\ Fairness
-----------------------------------------------------------------------------
\* spec.md:131, the watermark is "the last id folded into its body": every fact
\* it covers is in the subject's file, through crashes between the rename and
\* the upsert, failed calls and uploads during the pass.
WatermarkCovered ==
    \A u \in Subjects : \A f \in FactsFor(u) :
        f.id <= Watermark(u) => u \in files /\ f.id \in body[u]

\* spec.md:289, "Facts are written and the session marked extracted,
\* atomically": a session waiting for extraction has no facts yet, so that a
\* second extraction after a crash double-counts nothing.
FactsCheckpointed ==
    /\ \A f \in facts : f.session \in extracted
    /\ \A f, g \in facts : f.session = g.session /\ f.subject = g.subject => f = g

\* A pass that is done, nothing having failed so far, leaves every fact at or below
\* the watermark of its subject: what it extracted is all folded, and what a pass
\* that crashed left, whatever was uploaded meanwhile.
PassLeavesClean ==
    [][phase = "synth" /\ phase' = "idle" /\ fails' = 0 /\ crashes' = crashes
       => \A u \in Subjects : \A f \in FactsFor(u) : f.id <= Watermark(u)]_vars

\* The watermark of a subject only falls when the subject is deleted; in
\* particular no user edit asks for the facts to be folded again.
WatermarkMonotone ==
    [][\A u \in Subjects : row'[u] >= row[u] \/ (row'[u] = NoRow /\ edit[u] = "removed")]_vars

\* A pass ends, although sessions keep failing: a poison session cannot wedge
\* the queue.
PassEnds == phase # "idle" ~> phase = "idle"

\* If passes keep being started, a subject with new facts is synthesized in the
\* end, through failed calls, crashes, edits and deletions.
SubjectsSettle ==
    []<>(phase = "extract") => \A u \in Subjects : Dirty(u) ~> ~Dirty(u)

\* spec.md:489, "Open sessions get re-sent next run with more turns appended -
\* idempotency absorbs it": what a session has been extracted from is what is
\* stored of it.
ExtractionCoversTurns == \A s \in extracted : covered[s] = turns[s]
=============================================================================
