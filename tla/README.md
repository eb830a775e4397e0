# A verification development for lard

lard is a memory for language-model agents. Collectors on developers' machines
upload agent sessions; the server extracts facts from them with a language
model, folds the facts into Markdown *subject files*, and serves these over HTTP
and MCP. This directory holds TLA+ modules that model the parts of lard whose
behaviour over time is hard to get right, TLC configurations that check them on
small instances, and TLAPS proofs of the most important results.

    tlc -workers 2 -config Pipeline.cfg MCPipeline     # any run of the table below
    tlapm PipelineProofs.tla                           # the proofs of a module

`PROJECT.json` lists components, runs, mutants (for every property, a plausible
bug that breaks it), the lines each definition models, findings, hazards and
theorems. Paths below are relative to `src/internal/` unless they start with
`src/` or name `main.go`, which is `src/cmd/lard/main.go`.

## The system

| Component | State it keeps | Operations | Talks to |
|---|---|---|---|
| Quiet timer (`httpapi/autoconsolidate.go`) | `timer`, `deadline`, `running`, `pending`, under `a.mu` | `Trigger`, `Stop`, `fire` on a runtime timer goroutine | called by ingest; calls the tenant's `consolidate` |
| HTTP handlers and job (`httpapi/httpapi.go`) | `consolJob` under `consolMu` | ingest, consolidate, write, append, delete, projects, reads | timer, pipeline, store, registry |
| Tenants (`httpapi/tenant.go`) | map of open tenants under `s.mu` | open on first contact, close | store, timer |
| Pipeline (`pipeline/consolidate.go`, `extract.go`, `synthesize.go`) | nothing in memory that survives a pass | `Run`: an extraction phase, then a synthesis phase, each with a bounded set of goroutines | store, language model |
| Subject writes (`pipeline/subjects.go`) | none | `ApplyPatch`, `AppendLine`, delete | store |
| Store (`store/`) | SQLite: sessions, turns, facts, extracted marks, index rows with watermarks, projects, aliases; and a directory of subject files | transactions, and `PutSubject`/`DeleteSubject`, which touch a file and a row | file system |
| Project registry (`pipeline/registry.go`, `repos.go`) | tables `projects`, `project_aliases` | `Resolve`, `AddRemoteAlias`, aliases by hand | store |
| Collector (`client/sync.go`, `crush.go`, `client.go`) | `client-state.json`: a watermark per workspace | `Sync`: read, upload in batches, save | Crush's databases, the server |
| Client credentials (`client/oauth.go`, `device.go`, `config.go`) | `client.toml`: access and refresh token | load, refresh, save, revoke, device login | authorization server |
| Client command and setup (`src/cmd/lard-client/main.go`, `setup/setup.go`) | none | `login`, `logout`, `sync`, `backfill`, `daemon`, `consolidate`, `status`, `service` | credentials, collector |
| Authentication (`auth/auth.go`) | cache of introspection answers under `v.mu` | middleware, introspection, metadata | authorization server |
| Tenant layout (`tenant/tenant.go`) | directories under `data_dir` | slug, list, open, `AdoptLegacy` | file system |
| Backup and restore (`backup/backup.go`, `store.Snapshot`) | a directory of copies | `Run`, `Restore` | file system, next to a running server |
| Server command (`main.go`) | the configuration | boot in single- or multi-user mode, `backup`, `restore`, exit | all of the above |
| MCP server, llm client, service files, configuration, helpers | none of their own | | |

What is hard about it, and what would make each part correct:

* **Quiet timer.** `Stop()` on a Go timer may come too late, so several `fire()`
  goroutines race for `a.mu` with triggers. Correct if one scheduled pass runs at
  a time, no trigger is forgotten, the pass waits for quiet but never past the cap,
  and each trigger is answered by a pass that starts after it.
* **Job.** Manual callers and the timer share one job, closed and cleared in
  different sections. Correct if passes never compete, nobody waits on a job nobody
  will finish, and what is uploaded is attended to.
* **Pipeline.** Minutes-long calls separate each read from the write it leads
  to; sessions arrive and subjects are edited meanwhile; any step may fail or be the
  last before a crash. Correct if facts and extracted mark are saved together,
  the watermark of a subject never covers a fact that is not in its file, a pass
  ends whatever fails, and what is dirty is settled in the end.
* **Subject files.** Five doors write one file through one temporary name, with no
  lock, and a row next to it that is not written atomically with it. Correct if no
  reader sees a torn file, the row follows the file, and no acknowledged write is
  lost but by a deletion.
* **Registry.** Several queries and statements per request, none of them in one
  transaction. Correct if a known remote decides, later requests agree, and no
  project of a request with a signal becomes unreachable.
* **Collector.** Batches, lost answers, requests handled after the client gave up,
  several collectors, Crush writing meanwhile, timestamps in seconds. Correct if
  whatever the watermark covers has reached the server.
* **Data directory.** Adoption, backup and restore are sequences of renames and
  copies that may die anywhere, next to a server that writes. Correct if no fact
  ever leaves disk, a copy never hides a fact behind its watermark, and no empty
  database is put where there is memory. (Each with the exceptions listed under
  *Where code and documents disagree*.)
* **Credentials and authentication.** The agent and the user of a machine run commands
  that load one file, rotate the tokens in it and save it whole, with no lock; the
  server remembers what the authorization server said of a token and may be told
  out of order. Correct if overlapping refreshes leave a login that works, a login or
  logout leaves no forgotten grant, a sync is not refused for a token the client
  could have refreshed, and a dead token is accepted for a bounded time only.

Every hazard, with its line and the properties aimed at it, is in `PROJECT.json`.

## Modules

| Module | Models | Composes |
|---|---|---|
| `QuietTimer` | the timer: one action per section of `a.mu`, timers of the runtime as processes | |
| `Tenant` | uploads, manual calls, the scheduled caller, the shared job, a crash | extends `QuietTimer`: `Callers` act where the timer's `fire` runs its pass |
| `Pipeline` | a pass over the store: batches, goroutines, checkpoints, limits, failures; a user beside it | stands for the passes that `Tenant` schedules |
| `SubjectRegister` | what a user may expect of one file (abstract): each write takes effect as a whole, at one moment | |
| `SubjectFiles` | the file as inodes, its row, all writers, readers, a crash | implements `SubjectRegister` |
| `Registry` | requests that resolve, mint and bind; aliases by hand | |
| `Collector` | Sync, Crush, the network and the state file | |
| `DataDirectory` | where the memory lies: boot, adoption, first contact, backup, restore | |
| `Introspection` | the token verifier: its cache, its concurrent requests, times to live | |
| `Credentials` | `client.toml`, the commands of a machine, the authorization server | extends `Introspection`: each process of the machine is a request slot of the verifier, and its token is looked up there |
| `TenantProofs`, `PipelineProofs`, `SubjectFilesProofs`, `RegistryProofs`, `CollectorProofs`, `DataDirectoryProofs`, `IntrospectionProofs`, `CredentialsProofs` | theorems and proofs | `TenantProofs` begins with the quiet timer, on its own; `CredentialsProofs` extends `IntrospectionProofs` |

Each module names the code it translates; state and actions keep the code's
names where there is one. The correspondence, in short:

* **QuietTimer.** `timer`, `deadline`, `running`, `pending` are the fields of
  `autoConsolidator`. `pc[t]` says how far a runtime timer and its goroutine are:
  `armed`, `fired` (it went off and waits for the mutex; `Stop()` is too late),
  `running`, `again` (about to call `Trigger`). `Trigger` is the one body of
  `a.Trigger`, used by `IngestTrigger` and `TriggerAgain`; `FireDeferred`,
  `FireBegin`, `FireEnd` are the sections of `fire`. `owed`, `quiet`, `stopped` observe.
* **Tenant.** `Store` and `NoteUpload` are the two halves of `handleIngest`;
  `StartConsolidation` is `startConsolidation` under `consolMu`, done by
  `ManualStart` or `AutoStart`; `ListBatch`, `ExtractOne`, `PassEnd`, `ClearJob`
  (and the failures) are the goroutine of the job. `Crash` keeps the queue and drops the rest.
* **Pipeline.** `facts`, `extracted`, `row` (the watermark; `NoRow` if there is none) are the
  tables, `files`/`body` the directory. Per session, `work` goes through `listed`,
  `waiting` (for the semaphore), `calling`, `saving` or `failed`; per subject, `synth` through `waiting`,
  `calling` and `renamed`. A
  placeholder written by `ensureSubject` belongs to `ModelAnswers`. `DropSession` is
  the empty `SaveFacts` that takes a failing session out of the queue. `UserNext`
  adds edits and deletions as separate steps of load, file and row.
* **SubjectFiles.** An operation is `Ask`, `Load` (with the version check of a
  patch), `OpenTmp`, `FillTmp`, `Rename`, `Upsert`, `Done`, or `Remove`, `DeleteRow`.
  Inodes make a second `open(..., O_TRUNC)` of `<path>.tmp`, a rename under a
  reader's descriptor and a torn file what POSIX makes of them. `Serial` assumes
  that requests do not overlap; readers, failures and the crash still do.
  `SubjectRegister` sees each write at its rename: `Add`, `Revive` when the file was deleted since the
  client read it, `Overwrite` when the client gave the version "new" or none; `Place` is a placeholder.
* **Registry.** `Find` is one query of `Resolve`, `Mint` the transaction of
  `CreateProject`, `Bind` one statement of `bindLearned`, `Attach` the remotes a
  patch adds, `AddAlias` the handler that takes any id. Hints may have any of the signals or none. `crossed` observes
  that something else in flight was at an alias a request looks up, `astray` which projects were minted by such a
  request or by one that had no alias to seed.
* **Collector.** `Start`, the reads of `ReadSessions` and of turns, one action per
  batch, its answer, the save of the state. `Arrive` is a request handled after the
  client gave up on it; `AnswerLost` one handled in time whose answer was lost.
* **DataDirectory.** Places `legacy` (`db`, `memory_dir`), `tenant` (the primary
  user's directory), and their copies `single` and `users`. `primary` says whether there is a `primary_user`,
  without which nothing is adopted. `Adopt`, `AdoptDB`, `AdoptSide`, `AdoptMem` are the moves of `AdoptLegacy`: the
  directory, the database, its log, the files. A death may leave a sidecar beside the database (`hot`), a `journal` or a
  `wal`; whoever opens the database there settles it, and a database that is moved away from its sidecar, or put beside that of
  another, is any prefix of its facts with any watermark in it (`Damaged`), which `parted` observes. `BackupRemove`,
  `BackupSnapshot`, `BackupFiles` those of a backup; `MoveAside...` and
  `Restore...` those of a restore. `Down` and `Break` end the server or the command
  at any of them. A restore is run with the server stopped, as `main.go:118` asks.
* **Introspection.** `cache` is `v.cache` with what is left of an entry's time; a
  request is `asking` (past the first section of `v.mu`), `answered` (the answer is
  on its way back or waits for the second), then `accepted` or `refused`. `EntryTTL`
  is the choice of `ttl`, taken when the answer has come; `InTime` the five-second context of
  `introspect`. `gone` observes how long ago a token died.
* **Credentials.** `file` is the token pair of `client.toml`, `mem[p]` what a command has loaded,
  `pc[p]` where it is: `bearer` is a call of `BearerToken`, `saving` its `Save`, `ready` and `sent`
  the request, `revoke`, `device`, `commit` and `wipe` the steps of `login` and `logout`. `goal` says
  which `Verify` it is (`keep`, `need`, `final`) or that it is a sync, whose later batches (`more`) bear
  the same token. `Forbidden` is a live token refused for its claims, at any request; `Strands` observes that such a refusal
  is about to leave a grant behind. The authorization server is external: `live` are the refresh tokens it honours; it
  may rotate at each refresh or not (`Exchange`), and may revoke the access token with the
  grant or not. Values of tokens are used again once nobody holds them (`FreeTokens`).

Abstractions throughout: what the model writes is a set of fact ids or of lines,
never text; a remote, a name or a path is a model value, after normalisation; SQLite
transactions are atomic and durable; a rename is atomic. File-system loss of what
was written but not synced is not modelled (the code does not sync either).

## The runs

| Run | Question and answer |
|---|---|
| `Tenant` | With uploads, manual callers, three overlapping timers, `Stop`, scheduled passes, one failure and one crash: `SingleFlight`, `ExtractedOnce`, `JoinedJobLives` hold, and the timer's `OnePass`, `TriggerRemembered`, `BurstCovered` hold of the timer in its place. |
| `TenantLive` | `EarlyUploadExtracted`: what is stored before the last listing of the pass in flight is extracted unasked; `ScheduledPassEnds`: the timer is not wedged by the job it joined; `TriggerServed`: a pass starts after every trigger; `QuietBeforePass`: and not before the uploads are quiet, or the cap. |
| `TenantDropped` | Finding: `NeverDropped` is violated. A scheduled pass that joins a manual one past its last listing spends the trigger; the session stays queued with nothing scheduled. |
| `Pipeline` | Through uploads, limits, two failures and a crash anywhere: `WatermarkCovered`, `FactsCheckpointed`, `PassLeavesClean` hold. |
| `PipelineLive` | With a poison session, a failure, a crash and a user: `PassEnds`, `SubjectsSettle`, `WatermarkMonotone` hold. |
| `PipelineGrows` | Finding: `ExtractionCoversTurns` is violated. A session sent again with more turns keeps its extracted mark. |
| `SubjectFiles` | Requests that do not overlap, with readers, a failure and a crash: `NeverTorn`, `IndexFollows`, and the refinement `RegisterSpec` hold. |
| `SubjectFilesLost` | Finding: `LinesKept` is violated as soon as a patch and a synthesis overlap. |
| `Registry` | Two requests at a time, four in all, with and without signals, a failed statement, aliases by hand: `RemoteDecides`, `LaterAgree`, `OrphansByRace` hold. |
| `Collector` | Two collectors, two workspaces, lost, late and refused requests, a crash: `WatermarkDelivered`, `RunCovers` hold. |
| `DataDirectory` | Adoption, backups, restores, two changes of mode or `primary_user` and one death or failure half-way, with the sidecar it leaves: `NothingLost`, `CopiesWhole` hold unless a database was parted from its sidecar (or two restores moved it in one second), `NeverAnew` unless `primary_user` is missing. |
| `Credentials` | The agent and the user of a machine at once, refreshes that rotate or not, every command, one fault: `LoginKept`, `NoOrphan` (unless a login is refused a live token for its claims), `SyncServed` hold of the machine, `AcceptsRecent` and `ExpiryHonoured` of the server. |

### Bounds, and why they are enough

* `Tenant`: 3 timers are one that runs its pass, one that has fired and waits, and one
  that counts down. `ConfAfter` 2 and `ConfMaxWait` 3 let the cap cut a quiet period
  short. Delays are in ticks and only their order matters. Two jobs are a finished one that callers still hold and its
  successor; a batch of one of two sessions makes a pass list several times; one
  upload and one manual caller at a time. `TenantLive` has two timers and one session, which gives both sides of
  the last listing, and no failures: nothing retries a failed pass by itself.
* `Pipeline`: two sessions and two subjects are needed for facts of one subject
  from different sessions and for subjects that finish in any order; `MaxTurns` 2 lets a session
  grow; a limit of 1 stops between batches. Failures (2) and crashes (1) bound how
  often, never where. `PipelineLive` has three sessions, one of them poison, because two fill a batch.
* `SubjectFiles`: four operations on three inodes: the current file, a torn leftover and
  one more that a reader still holds. Writer `w1` is the pipeline and the agent's append and deletion, `w2` the user, so
  that all six kinds of operation follow each other, and a patch may find its subject deleted by the other.
* `Registry`: two requests race; the two after them show what was left. Two remotes, one
  name and one path cover every way hints share an alias; one kind of hints has no signal.
* `Collector`: sessions of one and two turns in one workspace, an empty workspace before it, a
  batch of one (so that a run may fail between batches), three seconds, one failure. One
  collector is the service, the other a user's `backfill`.
* `DataDirectory`: two facts are one before and one after a snapshot. Three commands are a backup and two
  restores of it; two changes of the configuration lead there and back; a clock of two values has two restores
  in one second or not. `Sidecars` are the two kinds. `MaxEvents` 4 bounds commands, changes and deaths together, which
  leaves out only behaviours with five or six of them: a change that leads to an adoption, a backup, its restore and a death fit, and so do
  a backup, two restores and a change.
* `Credentials`: two processes, since each pair of commands that overlap is one of the agent
  and one of the user, or two of the user; one of them uploads several batches. Three access tokens and two refresh tokens are the pair in the
  file, the pair a command holds, and a token the server still remembers. `TokenTTL` 2 and `Slack` 1: a token is fresh, in its last minute, or
  expired; `PosTTL` 2 outlives a token, `NegTTL` 1 does not, and `Timeout` 1 lets an answer come after the token has expired. Faults (1) bound how
  often, never where. The answers have an `exp` claim here; the proofs cover answers without.

Deadlock checking is off everywhere: a system with nothing to do, or at a bound, stops.

Symmetry sets are used in runs without liveness only, and permute values the modules treat alike.

### Fairness

* The runtime runs a timer whose time has come and schedules every goroutine:
  weak fairness of the clock and of each goroutine's next step. Expiry is
  *strongly* fair, since a stream of triggers re-arms the timer and keeps switching
  the action off; only the cap makes it recur.
* `Mutex` sections are short and Go's mutex does not starve a waiter: weak fairness
  of the sections of `fire` and of `NoteUpload`.
* In `Pipeline`, model calls end (with the six-hour context of the pass at the latest, `httpapi.go:403`): each session's and subject's next step
  is weakly fair, where a step may be a failure. Nothing makes a pass start, a
  user act, an upload come or a crash happen; `SubjectsSettle` is about behaviours in which passes keep starting.

## What is proved

For all values of the constants that satisfy the `ASSUME` of the module (delays are
integers, sets finite, bounds natural numbers; each is evaluated by TLC in every run).

**TenantProofs**, first part, of the quiet timer on its own (`TimerSpec`): `TypeCorrect`, `OnePassHolds`, `TriggerRememberedHolds`,
`BurstCoveredHolds`, `QuietBeforePassHolds`. The inductive invariant is `TypeOK /\ PassInv /\ TriggerRemembered /\ BurstCovered /\
Countdown`. `PassInv` adds to `OnePass` that while a pass runs there is no current timer and no open burst, and that a trigger is noted as
pending only then: without it a step of `fire` from an unreachable state breaks the other parts. `Countdown` says that the timer
pointed to has left what is missing to a quiet period, or all that is left of the burst; so when it goes off
one of the two is over. `TriggerEffect` says what the body of `Trigger` does and is used for both its callers. For any number of timers and any delays.

Second part, of the tenant: `TenantTypeCorrect`, `SingleFlightHolds`, `ExtractedOnceHolds`, `JoinedJobLivesHolds`, and
`TenantTimer` and `TenantQuiet`, the promises of the timer in its place. `TimerPart` shows that every step of the tenant
is a step of the timer, a stutter of it, or a crash that resets it, so its invariant carries over. What the tenant adds
is `JobInv`: the job that works is the one in `consolJob`, only a job that extracts holds a batch, and a batch is
still queued. `SingleFlight` is its first part; `ExtractedOnce` follows from the last and `StoreOK`, in which no session is
both queued and extracted. For any sessions, uploads, callers, jobs and batch size.

**PipelineProofs**: `TypeCorrect` (which includes that no goroutine outlives its
phase), `CheckpointHolds`, `WatermarkMonotoneHolds` for `EditSpec`, and
`WatermarkCoveredHolds`, `PassLeavesCleanHolds` for `Spec`. `FactsCheckpointed` is inductive together with
`TypeOK`. `WatermarkCovered` is not: a watermark is written minutes after the facts it covers
were read, so the invariant also needs `IdsOrdered` (no id is
handed out twice and no watermark or fold in flight is past the last id) and
`FoldComplete` (while a synthesis is in flight what it read is every fact of its subject, and between the rename
and the upsert the file holds them: no facts are saved during the synthesis phase). `SaveStep`, `PlaceholderStep`, `ReadStep`, `FoldStep` are the steps that matter;
`InvStep` puts them together. For `PassLeavesClean`, `CleanInv` says that an ended context has been a failure, and that in
the synthesis phase, as long as nothing has failed, each subject is done, or what its goroutine has read reaches to its last fact. A crash in an
earlier pass does not matter, which is how the property is stated since the proof showed it.

**SubjectFilesProofs**: `TypeCorrect`, however requests interleave; and when they do not overlap (`Serial`, without which
`SubjectFilesLost` shows what is lost) `NeverTornHolds`, `IndexFollowsHolds` and `ImplementsRegister`, the refinement of
`SubjectRegister`. `SerialInv` says what the one request past its load has done so far: what it will write is what it would
render now (`Based`), the temporary file is of its making and no reader's (`Filling`), what can be seen is
whole, and the file is ahead of the row only between the two steps of its writer (`Settled`). The rename is where a write takes effect; a failed
write, a crash and all other steps stutter. The register as first written lacked two of its steps, which the step proof
of a patch brought to light; the run now has a writer that deletes beside one that patches.

**RegistryProofs**: `TypeCorrect`, `NeverRebound` (no step takes an alias away from its project, an alias by hand
included), `RemoteDecidesHolds`, `LaterAgreeHolds`, `OrphansByRaceHolds`. None of a request's statements share a transaction, so the
invariant follows each request through the order of the signals: what it remembers of the aliases it began with, which signals it has missed, what it
has minted and bound. All of that stays true while others run because of `NeverRebound`. `Alone` does the same for the
requests that nothing crosses: they share no alias with what others may yet bind (`Apart`), so what they looked up and missed is still
nobody's when they mint (`Missed`), and is theirs then. For any hints, those without a signal included, requests, ids and failures.

**CollectorProofs**: `TypeCorrect`, `WatermarkDeliveredHolds`, `RunCoversHolds`, for any collectors, routes, sessions and batch size. A watermark is a second,
so all depends on what a session that changes can be confused with: `Stamped` says that every watermark (saved,
loaded, or in the making) is in the past, or of this second and then its workspace was listed in it. A session that changes is therefore past them all, or is
one of the `slipped`. `Delivered` and `Carried` follow a session from the listing through the batch to the server; `Covers`
follows a run from its beginning. The clock starts at 1, so `MaxClock` is at least 1.

**DataDirectoryProofs**: `TypeCorrect`, `NothingLostHolds`, `CopiesWholeHolds`, `NeverAnewHolds`, for any facts, backups, restores, changes of mode and
deaths half-way, with a `primary_user` or none. `Control` is what an adoption, a backup or a restore finds at each of its steps, whatever the server does beside it; it makes each move
of a file one onto a free place or one whose facts are elsewhere (`NothingLost`). `CopiesWhole` needs that a copy's watermark
never runs ahead of what is copied after it (`Follows`, `FilesFollow`), through passes and an adoption beside the backup. For
`NeverAnew`, `Bare` lists how a tenant's directory comes to be there without a database. `Beside` says that, until a database was parted from
its sidecar, none lies where there is no database, but for the log that an adoption is about to move: so no database is ever restored or
opened beside the sidecar of another.

**IntrospectionProofs**: `VerifierTypeCorrect`, `AcceptsRecentHolds`, `ExpiryHonouredHolds`, for any number of requests
and tokens and any times to live. An acceptance is bounded only because every answer that vouches for a dead token is:
the invariant says that an entry of a token that died `gone` ticks ago has at most `Lag - gone` ticks left, and that an answer on its way is no
older than its timeout. So it does not matter who writes the cache last.

**CredentialsProofs**: `TypeCorrect`, `MachineAcceptsRecent`, `MachineExpiryHonoured`: every step of a command is
a step of the verifier or leaves it alone, so its promises hold of the machine whatever the commands do. `LoginKeptHolds`: unless excused, only
syncs overlap (`Solo`), what is about to be saved can be refreshed, and so can the file, or it is about to be replaced or wiped (`Savable`).
`NoOrphanHolds` and `SyncServedHolds` share the invariant `MachineInv`. Its first part holds of commands that overlap too: the pairs of tokens a machine
has are whole and an access token is not revoked while its refresh token is good (`GrantInv`), no answer and no cache entry denies a live token (`Honest`), and a token that was just
refreshed has its whole life before it (`Recent`). Its second part, `AloneInv`, follows a command that has
been alone: the only grant there is is the one it holds, or the file's. A refusal of a live token for its claims keeps that up, unless it strands
the grant (`Strands`), when the observer `alone` falls.
These two theorems assume `Timely`: an introspection takes no longer than the slack of the client, and less than a token lives. In the code that
is 5 seconds (`auth.go:378`) against the minute of `client/config.go:55`; the life of a token is the authorization server's, and
a server that issues tokens of less than 5 seconds serves nobody.

**Only model-checked**: liveness (`TriggerServed`, `EarlyUploadExtracted`,
`ScheduledPassEnds`, `PassEnds`, `SubjectsSettle`), which rests on fairness and so on `ENABLED`, out of the prover's reach. Every invariant, every
action property and the refinement that the runs check is a theorem.
Taken for granted in all proofs is what the models take for granted: atomic transactions and renames, and an authorization server as `Credentials` describes it.

## Where code and documents disagree

Shown by a run, and listed as findings: `TenantDropped`, `PipelineGrows`, `SubjectFilesLost`.

Met while modelling and kept in the models as the code has them; the properties
say where they make an exception:

* `Stop` does not clear `pending`: a pass that ends after it arms a timer again (`autoconsolidate.go:73`).
  The process is ending when it is called.
* `fire` clears `a.timer` though it may be a newer timer; that one can no longer be
  stopped and may cut a later quiet period (`QuietBeforePass` is of the timer pointed to).
* After a restart nothing schedules a pass for what is queued (`httpapi.go:392`).
* A deleted subject keeps its facts, so the next pass, or one in flight, writes it again; a delete or edit
  that overlaps a synthesis may leave a watermark over facts in no file (`store.go:467`). `WatermarkCovered` is
  therefore stated without the user.
* `store.go:41-43` sets `_pragma` three times in one `url.Values`, which keeps the last: neither
  `foreign_keys` nor WAL is ever on. So an alias may name a project that does not exist, and its hints mint
  a new project at every request (`BadId` in `Registry`).
* So a database is in rollback mode, and what a death in a transaction leaves is a `-journal`; only a database put there by
  hand can be in WAL mode and leave a `-wal`. The comment at `tenant/tenant.go:151` says that "moving the database alone would leave
  committed-but-uncheckpointed transactions behind", but the loop below it moves `-wal` and `-shm`, never a `-journal`, one
  rename at a time; and a restore moves `lard.db` alone aside, and leaves any sidecar for the database that takes its place
  (`backup/backup.go:152`). After a death in a transaction, an adoption or a forced restore before the next start
  may lose facts or replay a stale journal, which is what `parted` excepts from `NothingLost` and `CopiesWhole`.
* With `multi_user`, oauth and no `primary_user`, nothing is adopted (`main.go:196`): the owner's first request opens an
  empty database beside the memory of the single user, which "the owner would otherwise silently lose" (`main.go:194`). Setting
  `primary_user` afterwards does not help, since the directory is there. `NeverAnew` is of a server with a `primary_user`, or one that needs none.
* Hints without a signal, or whose only one is a remote that normalises to nothing, are refused by `GET /context` only
  (`httpapi.go:487`). An upload or `POST /projects/resolve` with such hints mints a project with no alias at every request
  (`registry.go:94`), which no request will ever find. `LaterAgree` and `OrphansByRace` leave out just these requests (and hints of `BadId`).
* A fork or another repository with a known name or path is merged into the first project, unlike
  `src/spec.md:207-208`; two concurrent requests may mint two projects for one hint, of which one is orphaned.
* `crush.go:54` compares seconds with a strict `>`: what a user writes in the second of a
  listing, after it, waits for the session's next change (`slipped`). Overlapping or late requests may put older turns
  back, and two collectors share one `client-state.json.tmp`.
* `ensureSubject` skips the placeholder when an alias of another subject matches, though the fact keeps the name.
  A patch with no version overwrites by design; a patch of a deleted subject makes it anew.
* An adoption that dies after its `mkdir` is never resumed: what was not moved stays where it was and is
  no longer served (`src/README.md:138`). `NothingLost` shows that it is still on disk; `NeverAnew` leaves the place out
  (`broken`) until it is restored.
* What a single-user server makes while the tenant's tree is moved aside is not adopted once a restore puts the tenant's
  directory back: `AdoptLegacy` returns as soon as it is there (`tenant/tenant.go:156`). A backup of a database of no bytes has no
  database; restored as the tenant's, it would be opened anew beside that memory, so such a place is `broken` too.
* Two forced restores within one second: the second moves its database over the one the first
  moved aside, which is then gone (`clashed`; `src/README.md:199`).
* A backup whose single-user source is adopted while it runs finds no files to copy and reports success;
  and a file deleted since the last backup stays in the copy.
* A session on which the model fails is marked extracted with no facts (`consolidate.go:114`), whatever the failure: an outage
  or a throttle that outlasts the six attempts of `llm.go:90` drops every queued session like a poisoned one (`DropSession`), and
  nothing extracts them later.
* A forced login, `login -f`, revokes the refresh token but not the access token, and then asks `Verify` whether
  credentials are needed at all (`setup.go:220`). The old access token, or the server's memory of it, usually still
  passes: no new login is made, `Run` saves the revoked refresh token, and the login dies when the access
  token expires. `src/cmd/lard-client/main.go:88` says "re-authenticate, revoking the old grant first".
* A login that is not forced revokes nothing. When the server refuses the saved, live token for its audience, account or
  scope (403, `auth.go:287-304`), it goes on to the device grant and replaces the OAuth block (`setup.go:206-248`): the old
  grant stays alive and nobody holds it. And when the new token is refused so, it is dropped unsaved and stays alive too. `NoOrphan` leaves out
  these two (`Strands`); a sync that is refused so leaves nothing behind, nor does a forced login whose saved token is, since it revokes first.
* A long sync or `backfill` keeps the token of its first request for all batches and is refused midway when it
  expires, although the comment at `src/cmd/lard-client/main.go:393` says "a background run never fails on a stale
  credential"; the next run goes on from the watermark. `SyncServed` is therefore about the first request.
* Nothing locks `client.toml`. A login or logout beside a refresh of the agent may be undone by the agent's save, or commit a
  spent token; with a server that rotates only sometimes, one of two overlapping refreshes may save a token the other has rotated away. A rotated
  token is lost with its answer or its save, and a logout cut short leaves a revoked one. `excused` names these cases; `LoginKept` shows they are the only ones.
* A device login whose poll was answered but not received leaves a grant nobody holds; a poll after a lost answer treats
  the loss as "pending" (`device.go:190`). `NoOrphan` is of commands that do not fail.
* `LoadConfig` lets the environment override the file "without editing the file" (`config.go:63`), but any later
  `Save` of the same command writes the override into it.
* `v.cache` entries are replaced but never evicted (`auth.go:366`).

## Not modelled, and why

Of the MCP server, its map of one server per tenant (its writing tools are `ClientKinds` of `SubjectFiles`); the wire format and
parsing of model answers, prompts, fuzzy and path matching of names (data), the progress stream of a
job (display), the order of shutdown (its effect on a pass is a failed or a
cut-off pass), migrations (run once, before anything else), a user's deletion
between the snapshot and the files of a backup, setup, service files, configuration and
styles (I/O), log output. Of the client's configuration: the static token, the server URL, the roots and their
prompts, and which claims a token has (`Forbidden` may refuse any live token at any request); a save of
`client.toml` is atomic, though two of them share one `client.toml.tmp`. Of several tenants: their map is one section of
`s.mu`, from first contact to the end of the process, and nothing they keep is shared, so `Tenant` and `DataDirectory` model one.

## Plan

Order of the modules, the most important behaviour first; all are done.

1. `QuietTimer`, then `Tenant` on top of it, `TenantProofs`.
2. `Pipeline`, `PipelineProofs`.
3. `SubjectRegister`, `SubjectFiles`, `SubjectFilesProofs`.
4. `Registry`, `RegistryProofs`.
5. `Collector`, `CollectorProofs`.
6. `DataDirectory`, `DataDirectoryProofs`.
7. `Introspection`, `IntrospectionProofs`, then `Credentials` on top of it, `CredentialsProofs`.

What could be stated and proved beyond what the runs check:

* `Pipeline` with the user (`EditSpec`): `WatermarkCovered` of the subjects nobody has edited or deleted meanwhile.
* `Tenant` as an implementation of an abstract queue: what is uploaded leaves it once, by the one pass in flight.
* `Collector` with one collector and no faults as an implementation of a copy of Crush that only grows.
