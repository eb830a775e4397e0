------------------------------- MODULE Tenant -------------------------------
(***************************************************************************)
(* One tenant of the server: uploads (httpapi.go, handleIngest), the quiet *)
(* timer, manual /consolidate calls and the single-flight consolidation    *)
(* job they all share (tenant.go, httpapi.go: startConsolidation,          *)
(* consolidate).  The pass itself is reduced to what the scheduling can    *)
(* see: batches of queued sessions are extracted until a listing comes     *)
(* back empty, then subjects are synthesized; module Pipeline has the      *)
(* rest.                                                                   *)
(*                                                                         *)
(* The queue is in the database and survives a crash; timers, jobs and     *)
(* requests do not.                                                        *)
(***************************************************************************)
EXTENDS QuietTimer, FiniteSets

CONSTANTS Sessions,    \* sessions a collector may upload
          Uploads,     \* concurrent POST /ingest requests
          Manual,      \* concurrent POST /consolidate requests
          Scheduled,   \* the scheduled pass, as a caller of startConsolidation
          Jobs,        \* consolidationJob values alive at once
          NoJob,       \* t.consolJob == nil
          BatchSize,   \* extractBatchSize
          MaxFails,    \* bound on failed passes and failed SaveFacts
          MaxCrashes   \* bound on server crashes

ASSUME TenantAssumption ==
    /\ Scheduled \notin Manual
    /\ NoJob \notin Jobs
    /\ BatchSize \in Nat \ {0}
    /\ MaxFails \in Nat
    /\ MaxCrashes \in Nat

VARIABLES
    queued,     \* sessions stored and not marked extracted
    extracted,  \* sessions marked extracted
    upload,     \* per ingest request: "idle", or "stored" until it calls Trigger
    consolJob,  \* t.consolJob
    phase,      \* per job: where its goroutine is
    batch,      \* per job: the listed sessions not finished yet
    joined,     \* per caller: the job whose done channel it waits on
    fails,      \* failures so far
    crashes,    \* crashes so far
    \* Observers, read by no action:
    late        \* queued sessions stored after the last listing of a pass

jobVars == <<consolJob, phase, batch, joined>>
storeVars == <<queued, extracted, late>>
vars == <<timerVars, queued, extracted, upload, consolJob, phase, batch, joined,
          fails, crashes, late>>

Callers == Manual \cup {Scheduled}

TenantTypeOK ==
    /\ TypeOK
    /\ queued \subseteq Sessions
    /\ extracted \subseteq Sessions
    /\ upload \in [Uploads -> {"idle", "stored"}]
    /\ consolJob \in Jobs \cup {NoJob}
    /\ phase \in [Jobs -> {"unused", "extract", "synth", "closed"}]
    /\ batch \in [Jobs -> SUBSET Sessions]
    /\ joined \in [Callers -> Jobs \cup {NoJob}]
    /\ fails \in 0..MaxFails
    /\ crashes \in 0..MaxCrashes
    /\ late \subseteq queued
    /\ queued \cap extracted = {}

Init ==
    /\ TimerInit
    /\ upload = [h \in Uploads |-> "idle"]
    /\ consolJob = NoJob
    /\ phase = [j \in Jobs |-> "unused"]
    /\ batch = [j \in Jobs |-> {}]
    /\ joined = [c \in Callers |-> NoJob]
    /\ queued = {}
    /\ extracted = {}
    /\ fails = 0
    /\ crashes = 0
    /\ late = {}
-----------------------------------------------------------------------------
(* Uploads.                                                                *)

\* The pass j has made its last listing and still holds the single flight.
PastListing(j) == phase[j] \in {"synth", "closed"}

\* Mutant of Store: the upsert puts an extracted session back in the queue, but
\* leaves its mark.
StoreRequeues(h, S) ==
    /\ upload[h] = "idle"
    /\ queued' = queued \cup S
    /\ upload' = [upload EXCEPT ![h] = "stored"]
    /\ UNCHANGED <<timerVars, jobVars, extracted, late, fails, crashes>>

\* IngestSessions commits.  A session already extracted stays so.
Store(h, S) ==
    /\ upload[h] = "idle"
    /\ queued' = queued \cup (S \ extracted)
    /\ upload' = [upload EXCEPT ![h] = "stored"]
    /\ late' = IF consolJob # NoJob /\ PastListing(consolJob)
               THEN late \cup (S \ (extracted \cup queued)) ELSE late
    /\ UNCHANGED <<timerVars, jobVars, extracted, fails, crashes>>

\* Mutant of NoteUpload: the request is answered without calling Trigger.
NoteUploadForgets(h) ==
    /\ upload[h] = "stored"
    /\ upload' = [upload EXCEPT ![h] = "idle"]
    /\ UNCHANGED <<timerVars, jobVars, storeVars, fails, crashes>>

\* The handler has resolved the hints and notes that new work landed.
NoteUpload(h) ==
    /\ upload[h] = "stored"
    /\ IngestTrigger
    /\ upload' = [upload EXCEPT ![h] = "idle"]
    /\ UNCHANGED <<jobVars, storeVars, fails, crashes>>
-----------------------------------------------------------------------------
(* The job and its callers.                                                *)

\* A job value nobody refers to any more, or not yet.
Unreferenced(j) ==
    /\ phase[j] \in {"unused", "closed"}
    /\ consolJob # j
    /\ \A c \in Callers : joined[c] # j

\* Mutant of StartConsolidation: the caller always gets a pass of its own.
StartConsolidationAlone(c) ==
    \E j \in Jobs :
      /\ Unreferenced(j)
      /\ consolJob' = j
      /\ phase' = [phase EXCEPT ![j] = "extract"]
      /\ joined' = [joined EXCEPT ![c] = j]

\* startConsolidation, in one section of consolMu: join the job there is, even
\* one whose done channel is closed already, or start one.
StartConsolidation(c) ==
    \/ /\ consolJob # NoJob
       /\ joined' = [joined EXCEPT ![c] = consolJob]
       /\ UNCHANGED <<consolJob, phase>>
    \/ /\ consolJob = NoJob
       /\ \E j \in Jobs :
            /\ Unreferenced(j)
            /\ consolJob' = j
            /\ phase' = [phase EXCEPT ![j] = "extract"]
            /\ joined' = [joined EXCEPT ![c] = j]

\* POST /consolidate.
ManualStart(c) ==
    /\ joined[c] = NoJob
    /\ StartConsolidation(c)
    /\ UNCHANGED <<timerVars, upload, storeVars, batch, fails, crashes>>

\* The done channel is closed, or the client went away: the handler returns.
ManualReturn(c) ==
    /\ joined[c] # NoJob
    /\ joined' = [joined EXCEPT ![c] = NoJob]
    /\ UNCHANGED <<timerVars, upload, storeVars, consolJob, phase, batch, fails, crashes>>

\* The scheduled pass has begun (FireBegin) and asks for a job.
AutoStart(t) ==
    /\ pc[t] = "running"
    /\ joined[Scheduled] = NoJob
    /\ StartConsolidation(Scheduled)
    /\ UNCHANGED <<timerVars, upload, storeVars, batch, fails, crashes>>

\* Tenant.consolidate saw done closed, so a.run returns.
AutoReturn(t) ==
    /\ joined[Scheduled] # NoJob
    /\ phase[joined[Scheduled]] = "closed"
    /\ FireEnd(t)
    /\ joined' = [joined EXCEPT ![Scheduled] = NoJob]
    /\ UNCHANGED <<upload, storeVars, consolJob, phase, batch, fails, crashes>>
-----------------------------------------------------------------------------
(* The goroutine of job j.                                                 *)

\* extractPhase lists the next batch, oldest first (which of them are oldest is
\* left open), or finds the queue empty and hands over to synthesizePhase.
ListBatch(j) ==
    /\ phase[j] = "extract"
    /\ batch[j] = {}
    /\ \/ /\ queued = {}
          /\ phase' = [phase EXCEPT ![j] = "synth"]
          /\ UNCHANGED batch
       \/ /\ queued # {}
          /\ \E B \in SUBSET queued :
               /\ \/ Cardinality(B) = BatchSize
                  \/ Cardinality(B) < BatchSize /\ B = queued
               /\ batch' = [batch EXCEPT ![j] = B]
          /\ UNCHANGED phase
    /\ UNCHANGED <<timerVars, upload, storeVars, consolJob, joined, fails, crashes>>

\* SaveFacts marks a session extracted, with its facts, or with none when the
\* model failed on it.
ExtractOne(j, s) ==
    /\ s \in batch[j]
    /\ batch' = [batch EXCEPT ![j] = @ \ {s}]
    /\ queued' = queued \ {s}
    /\ extracted' = extracted \cup {s}
    /\ late' = late \ {s}
    /\ UNCHANGED <<timerVars, upload, consolJob, phase, joined, fails, crashes>>

\* SaveFacts fails on the session, poisoned or not: it stays queued.
SaveFails(j, s) ==
    /\ s \in batch[j]
    /\ fails < MaxFails
    /\ fails' = fails + 1
    /\ batch' = [batch EXCEPT ![j] = @ \ {s}]
    /\ UNCHANGED <<timerVars, upload, storeVars, consolJob, phase, joined, crashes>>

\* The six-hour context ends, or a listing fails: the rest stays queued.
PassFails(j) ==
    /\ phase[j] = "extract"
    /\ fails < MaxFails
    /\ fails' = fails + 1
    /\ batch' = [batch EXCEPT ![j] = {}]
    /\ phase' = [phase EXCEPT ![j] = "closed"]
    /\ UNCHANGED <<timerVars, upload, storeVars, consolJob, joined, crashes>>

\* Mutant of PassEnd: the job is forgotten but its done channel is not closed.
PassEndSilent(j) ==
    /\ phase[j] = "synth"
    /\ consolJob' = NoJob
    /\ UNCHANGED <<timerVars, upload, storeVars, phase, batch, joined, fails, crashes>>

\* synthesizePhase returned: close(job.done).
PassEnd(j) ==
    /\ phase[j] = "synth"
    /\ phase' = [phase EXCEPT ![j] = "closed"]
    /\ UNCHANGED <<timerVars, upload, storeVars, consolJob, batch, joined, fails, crashes>>

\* ... and only then, in another section of consolMu, consolJob = nil.
ClearJob(j) ==
    /\ phase[j] = "closed"
    /\ consolJob = j
    /\ consolJob' = NoJob
    /\ UNCHANGED <<timerVars, upload, storeVars, phase, batch, joined, fails, crashes>>
-----------------------------------------------------------------------------
(* The process.                                                            *)

\* A crash, or an exit: what is not in the database is gone.
Crash ==
    /\ crashes < MaxCrashes
    /\ crashes' = crashes + 1
    /\ pc' = [t \in Timers |-> "unused"]
    /\ left' = [t \in Timers |-> 0]
    /\ timer' = NoTimer
    /\ deadline' = NoDeadline
    /\ running' = FALSE
    /\ pending' = FALSE
    /\ owed' = FALSE
    /\ stopped' = FALSE
    /\ quiet' = After
    /\ upload' = [h \in Uploads |-> "idle"]
    /\ consolJob' = NoJob
    /\ phase' = [j \in Jobs |-> "unused"]
    /\ batch' = [j \in Jobs |-> {}]
    /\ joined' = [c \in Callers |-> NoJob]
    /\ UNCHANGED <<queued, extracted, late, fails>>

\* The timer's own steps, the section that ends a pass excepted.
TimerStep ==
    /\ \/ Tick
       \/ Stop
       \/ \E t \in Timers :
            Expire(t) \/ FireDeferred(t) \/ FireBegin(t) \/ TriggerAgain(t)
    /\ UNCHANGED <<upload, storeVars, jobVars, fails, crashes>>

JobStep(j) ==
    \/ ListBatch(j)
    \/ \E s \in Sessions : ExtractOne(j, s)
    \/ PassEnd(j)
    \/ ClearJob(j)

Next ==
    \/ \E h \in Uploads : \E S \in SUBSET Sessions \ {{}} : Store(h, S)
    \/ \E h \in Uploads : NoteUpload(h)
    \/ \E c \in Manual : ManualStart(c) \/ ManualReturn(c)
    \/ \E t \in Timers : AutoStart(t) \/ AutoReturn(t)
    \/ \E j \in Jobs : JobStep(j) \/ PassFails(j)
    \/ \E j \in Jobs, s \in Sessions : SaveFails(j, s)
    \/ TimerStep
    \/ Crash

Spec == Init /\ [][Next]_vars

\* Every goroutine keeps running: handlers, timers, the pass and its workers (a
\* model call ends with the context of the pass at the latest).  Uploads, manual calls, Stop, failures and
\* crashes are the environment's.  Strong fairness on the runtime: triggers
\* cannot rearm a countdown that has run out for ever without one of them going
\* off, since two ingests are further apart than the runtime is late.
Fairness ==
    /\ WF_vars(Tick /\ TimerStep)
    /\ SF_vars((\E t \in Timers : Expire(t)) /\ TimerStep)
    /\ \A h \in Uploads : WF_vars(NoteUpload(h))
    /\ \A j \in Jobs : WF_vars(JobStep(j))
    /\ \A t \in Timers :
         /\ WF_vars((FireDeferred(t) \/ FireBegin(t)) /\ TimerStep)
         /\ WF_vars(TriggerAgain(t) /\ TimerStep)
         /\ WF_vars(AutoStart(t))
         /\ WF_vars(AutoReturn(t))

FairSpec == Spec /\ Fairness
-----------------------------------------------------------------------------
\* Single flight: manual calls, joiners and the quiet timer never start
\* competing passes.
SingleFlight ==
    \A j, k \in Jobs : {phase[j], phase[k]} \subseteq {"extract", "synth"} => j = k

\* spec.md:137, "never pays for the same LLM work twice": no pass is working on
\* a session that is already extracted, whoever started it and whatever crashed.
ExtractedOnce == \A j \in Jobs : batch[j] \cap extracted = {}

\* A caller is never left waiting on a job that has been replaced without being
\* finished: what it joined is in flight, or its done channel is closed.
JoinedJobLives ==
    \A c \in Callers : joined[c] # NoJob =>
        phase[joined[c]] = "closed" \/ consolJob = joined[c]

\* A session stored before the last listing of the pass in flight, or with no
\* pass in flight, is extracted without anybody asking.
EarlyUploadExtracted ==
    \A s \in Sessions : s \in queued \ late ~> (s \notin queued \/ stopped)

\* The scheduled pass always ends, whichever job it joined, so the quiet timer
\* is never wedged.
ScheduledPassEnds == running ~> ~running

\* Somebody will list the queue again: a request about to call Trigger, a
\* countdown or a fire() under way, a scheduled pass that has not asked for its
\* job yet, or a pass that has not made its last listing.
Attended ==
    \/ \E h \in Uploads : upload[h] = "stored"
    \/ \E t \in Timers : pc[t] \in {"armed", "fired", "again"}
    \/ pending /\ running
    \/ running /\ joined[Scheduled] = NoJob
    \/ \E j \in Jobs : phase[j] = "extract"

\* autoconsolidate.go:25, "sessions uploaded during a long pass are never
\* dropped on the floor": a queued session is always attended to.
NeverDropped == queued # {} /\ ~stopped => Attended
=============================================================================
