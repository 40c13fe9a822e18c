# Verification of baasparse

baasparse is a telco mediation engine: several identical instances watch the
input areas of *sources* (posix or S3 storage), decode the files found there,
transform their records and write them to one or more *destinations*. The
instances share nothing but a PostgreSQL database and the storage. The hard
part is that every file must be recorded once, by somebody, whatever instances
race for it, crash, stall or lose their database connection on the way.

This directory holds TLA+ models of that part, TLC configurations that check
them, and proofs checked by TLAPS. Line numbers refer to `src/`.

## Inventory

| Component | State | Operations | Interacts with |
|---|---|---|---|
| File claim (`internal/store/claim.go`) | `FC_FILE_CLAIM` (owner, fence, stall count, lease), `PF_PROCESSED_FILE`, allocator `FILE_UID` | `ClaimFile`, `HeartbeatClaim`, `ReleaseClaim`, `CompleteClaimed`, `QuarantineFile`, `AlreadyProcessed/Quarantined` | called by watcher, runner and fetcher; one statement or transaction each |
| Watcher (`internal/watcher/watcher.go`) | in-flight set, worker slots, one goroutine per file, one heartbeat loop per claim | `scan`, `submit`, `handle`, `quarantine`, `startHeartbeat` | claims through the store, runs the runner, moves sources |
| Runner (`internal/runner/runner.go`) | none of its own | `ProcessFile`: allocate, stream, commit, marker, disposition | storage `Open`/`Put`/`Delete`, store `CompleteClaimed` |
| Batch store (`internal/store/batch.go`) | `BT_BATCH`, `BF_BATCH_FILE`, `DL_DELIVERY`, `DSQ_DESTINATION_SEQUENCE` | `FormBatch`, `ListOpenBatches`, `BatchedFileNames`, `SettledFileNames`, `ReserveDelivery`, `MarkDelivered`, `MarkDeliveryFailed`, `RecordBatchContributions`, `CloseBatch`, `TouchBatchAttempt`, `AbandonBatch`, `DropBatchFile` | batch scanner and worker |
| Batch scanner and worker (`internal/watcher/batch.go`, `internal/runner/batch.go`) | snapshots of open batches, claims of all members, `procCtx` | `scanBatched`, `submitBatch`, `handleBatch`, `ProcessBatch`, `quarantineMember` | batch store, claims, destinations |
| Session (`internal/pipeline/run.go`) | counters, suspended records, per-destination encoder | `Consume`, `emit`, `Close` | decoder, transform, encoders |
| Storage (`internal/storage`) | objects | `List`, `Open`, `Put`, `Delete`, `Move`, `Relocate` | everything |
| Reconciliation (`internal/reconcile`) | completion markers | `WriteMarker`, `Run` | start-up, under the cluster lock |
| Archiver, fetcher (`internal/archiver`, `internal/fetcher`) | next-due times, back-off | archive pass, fetch pass | cluster lock, storage, `PF` rows |
| Configuration (`internal/store/pg.go`) | one JSON document per pipeline, destination rows | `CreatePipeline`, `UpdatePipeline`, `SetPipelineEnabled`, `ensureDestinations` | web management plane |
| Start-up and shutdown (`cmd/baasparse/main.go`) | two contexts, three loops | run, drain | all loops |
| Decoders, encoders, transform, container, validation | stream position | pure streaming algorithms | session |
| Web plane, login, secrets, settings, telemetry | rows and forms | request handlers | configuration store |

What is hard, and what makes each part correct:

* *Claims.* Checks before the claim are stale when the claim is taken; a lease
  is taken over from an owner that still runs; errors leave leases to expire; a
  `COMMIT` may succeed without its reply. Correct: at most one `DONE` record per
  name, one verdict per claim, every recorded file has its output, every file
  is decided eventually.
* *Batches.* The scanner makes five separate reads and then acts; a worker may
  wait for a slot with a snapshot of the past; destinations fail one by one;
  a malformed member is removed from the middle of a batch in three
  transactions. Correct: recorded means delivered everywhere, no partial
  object, a file in one open batch only, explained sequence numbers, good
  files get through.
* *Lifecycle.* Archiving changes the record that the re-arrival guard looks
  for; pruning and recording are two steps; one advisory lock serves three
  loops. Correct: nothing is processed again or lost from the archive.
* *Session.* One record goes to several destinations which fail separately; a
  later attempt decodes the members again for the rest, or not at all. Correct:
  an object is whole, a failing destination holds back no other, the counts of a
  file add up and its lineage names the right places.
* *Configuration.* Read-modify-write of one document; a structural edit races
  the formation of a batch; rows are found again by name. Correct: a published
  document agrees with itself, a destination keeps its row and its sequence, and
  a number that was given out is delivered or its batch abandoned.
* *Shutdown.* Three loops, a grace period, one timer, and a connection pool that
  waits for its connections. Correct: it ends.

`PROJECT.json` lists each component with its status and each hazard with its
line and the properties that cover it.

## Modules

    FileLedger            what recording one source's files promises (abstract)
    FileClaim             the claim protocol and single-file processing; implements FileLedger
    FileClaim_proofs      theorems about FileClaim
    FileLedger_proofs     the refinement of FileLedger, proved
    BatchDelivery         batches from formation to the commit, several destinations
    BatchDelivery_proofs  theorems about BatchDelivery
    Session               one batch record by record, attempt by attempt
    Session_proofs        theorems about Session
    SessionCounts_proofs  theorems about Session: counts and lineage of the files
    Lifecycle             fetch, processing, archive, reconciliation, shutdown
    Lifecycle_proofs      theorems about Lifecycle
    PipelineConfig        edits, toggles and upgrades of pipelines against scans and batches
    PipelineConfig_proofs theorems about PipelineConfig: documents and rows
    PipelineSequence_proofs
                          theorems about PipelineConfig: documents and what the engine did
    MC_*                  definitions of constants, symmetry and search bounds for TLC

Every model looks at the same engine at another grain. `FileClaim` is one file,
a step per statement. `BatchDelivery` takes from it that a token identifies its
handler, and keeps the holder only. `Session` opens up the one step in which
`BatchDelivery` passes over the members. `Lifecycle` folds the processing of a
file into one step and looks at what comes before and after. `PipelineConfig`
folds an attempt at a batch into three steps and looks at which destinations it
is for.

### FileClaim

One `handle` per instance and name (`h`, with a program counter named after what
comes next) runs through `Scan`, the two stale checks, `ClaimFile`,
`NextFileUID`, `OpenSource`, `PutOutput`, `CompleteClaimed`, `WriteMarker`,
`DisposeSource`, or off the path into `QuarantineFile`, `DiscardOutput` and
`HandleFailure`. An action is one SQL statement or transaction, or one storage
call, because that is what other instances can observe and what can fail.

* `fc[n]` is the latest claim row of a name. `FreshRow` and `TakenOverRow` are
  the two branches of `ClaimFile`; `Owns` is the guard
  `FC_INS_UID = .. AND FC_FENCE = .. AND FC_STATUS = 'HELD'` of every fenced
  statement.
* `pf` has the rows of `PF_PROCESSED_FILE`, with the claim they were decided
  under (`FC_PF_UID`, read backwards). `DoneIndexViolated` is the partial unique
  index on `DONE` rows.
* `ctx` is `procCtx`: `live`, cancelled by the heartbeat (`lost`), or by a
  deadline or the drain (`timeout`). Database calls fail under a cancelled
  context; storage calls do so on S3 and not on posix (`setup.honoursCtx`).
* Time is abstracted to `live`: a lease whose owner is gone may run out at any
  moment (`LeaseExpire`), one that is tended only as a fault.
* `Crash` removes all handlers of an instance. Leases, rows and objects stay.

Bounds: `MaxFaults` (failed calls, crashes, missed heartbeats, timeouts, lost
replies) and `MaxArrivals` (deliveries of one name). `MaxStall` is 2 instead of 10
so that poison is reached.

### FileLedger

The promise, without instances or leases: deliver, record once, quarantine,
dispose only after a verdict. `FileClaim` maps `input`, `arrivals` and `pf` to
it and implements it (`ImplementsLedger`).

### BatchDelivery

* `scan[i]` is the scanner of an instance: `ListInput`, `ListOpenBatches`,
  `HydrateDeliveries`, `Resume`/`Submit`, `BatchedFileNames`,
  `SettledFileNames`, `StillFilling`/`FormBatch`, `SubmitNew`. Each read is its
  own step and keeps what it saw.
* `w[i][b]` is the worker of instance i for batch b: `ClaimMember` per member,
  `ReserveDelivery` per destination, `Encode` (one pass over the members, put to
  every pending destination), `RecordBatchContributions`, `MarkDelivery` per
  destination, `CloseBatch`, `DisposeSources`; after a failure
  `TouchBatchAttempt`, `AbandonCheck`/`AbandonBatch`, or `DropCheck`,
  `DropBatchFile`, `QuarantineMember`, `MoveQuarantined` and then abandonment;
  `ReleaseAll` at the end.
* `bt`, `dl`, `dsq` are the tables. `objects` has the output objects, each with its
  destination, the sequence number its name carries (`BatchOutputName`), and the
  files whose records it holds; a put replaces the object of the same name.
* `done[n]` is the batch a name was recorded under, 0 if it was not.

Abstractions, and why they are sound:

* A claim is its holder, `<<instance, batch>>`, `Free` or `Orphaned`. FileClaim's
  `TokensDistinct` (proved) says the token does tell handlers apart. Markers and
  `FILE_UID` are left to FileClaim.
* A worker that waits for a slot is a `Submit` that is not enabled
  (`MaxWorkers`). The slots other sources hold are not modelled.
* Attempts above `MaxAttempts` are not distinguished; the code compares with
  `>=` only.
* A group that is not full and younger than its maximum age waits (`StillFilling`), at
  any time and for as long as it likes; where no age limit is set (`setup.ages`,
  `BatchSpec.MaxAge`), it waits until it is full. At the bound `MaxBatches` every group
  waits. `Full` is the limit by count; the one by bytes is left out.
* `hydrateBatch` reads the members and then the deliveries of one batch after the
  other. Here one step reads the members of all, the next their deliveries. A worker
  acts on one batch, so what it can be given is the members of some moment and the
  deliveries of a later one in both; only what two batches look like beside each other
  differs. Open batches share no file (`OneOpenBatch`), so nothing depends on that.
* The lookup of an open batch with the same identity after a conflict is read in
  one step with the conflict.

Bounds: `MaxBatches`, `MaxArrivals`, `MaxFaults`; `MaxFiles` is 2 and
`MaxAttempts` 1 to 2 instead of the configured values and 200 (`maxBatchAttempts`).

### Session

* `content` and `malformed` are the input: for each record of each member the
  set of destinations it can be shaped for, and whether the stream parses.
* `NewMultiSession` starts an attempt for the destinations that do not hold the
  batch; `OpenMember`, `Emit` (one record to all live targets, any of which may
  fail), `StreamEnds` and `Close` are `consumeMembers`, `emit`, the end of
  `Consume`, and `Session.Close` with `destRun.finish`; then come
  `RecordBatchContributions`, `MarkDelivery` per destination and `CloseBatch`.
* `stats`, `before`, `contribs` and `suspended` are the fields of the same names of
  the Go session; `bf`, `pf` and `dc` what the database gets.
* `Interrupted` ends an attempt anywhere: a crash, a failing statement, a lost
  claim. The next one starts from `delivered` and `bf` only, as `ProcessBatch`
  does; with everything delivered it commits without a decode.

Left out: claims and other instances (BatchDelivery), which records exist
(their content is which destinations can shape them), offsets within objects.
A malformed member ends the model in `dropped`: the batch then goes on with other
members, which is BatchDelivery's subject.

### Lifecycle

* `remote`, `input`, `kept`, `markers`, `archives` are places in storage, `pf`, `alloc`,
  `backup` the database, `lock` the advisory lock of `ReconcileOnce`.
* `pass[i]` is the single-owner pass an instance is in: a reconciliation at its
  start (`StartReconcile`, or `StartSkipped` if the lock is taken), a fetch
  (`FetchCheck`, `FetchStat`, `FetchOne`) or an archive pass (`ArchiveBuild`,
  `ArchivePrune` one by one, `MarkArchived`).
* `life[i]` is start, work, SIGTERM, drain and exit. `TimedOut` is the single timer
  of `main.go`; `Hang` stops one loop in a call that ignores its context: the
  watcher at any time, the fetcher and the archiver in a pass. `Exit` is the return of
  `run`, whose deferred `Close` of the pool waits until every connection is back: a
  pass keeps one for its lock, and so the process, also after its session broke.
* `Process` and `Rearrival` stand for the watcher; `Upload` and `UploadRecord` for the
  upload page, which works without a claim. Each is one step with its outcomes: an
  upload may fail before its record, leaving a UID used for nothing, it may find
  the name recorded, and its marker and its move may fail one by one.
* `LockLost` breaks the session that holds the lock while its pass goes on, so
  that two passes overlap. `Restore` puts back `backup` while the storage stays.

Simplifications: one input area, one done area, one marker area; all originals
of a name are one; which rows are old enough to archive is a free choice; the
endpoint offers a name until a fetch removes it, which `PostFetch` "delete" does ("move"
does the same to the listed directory). Constants: `PostFetch` "leave", the harder
case; `SameSecond` FALSE: with TRUE, two archive runs in a second overwrite each
other (see below). `Crash` stands for the end of the process at any moment and for no
line of the code (`external` in the map, here and in the other models).

### PipelineConfig

* `doc`, `name`, `srcName`, `rows`, `seq`, `dels` are the tables; a name is the sequence of
  its dash-separated parts, so that "a-b" begins with "a".
* `desk[u]` is what a request holds: a page an administrator fills in
  (`OpenPage`, `UpdatePipeline` = merge, validation, check for open batches,
  look-up of rows, then `Save`, the transaction), a toggle (`Toggle`,
  `SetPipelineEnabled`), or an upgrade of a legacy document
  (`EnsureDestinations`, `EnsureWrite`). Each reads in one step and writes in another,
  as the code does.
* `scan[p]` is the copy of the destinations the engine listed (`Scan`), with which
  it forms a batch, reserves numbers, writes and closes it.
* A create validates unless its form has no destination; then the pipeline gets the
  default one, whatever it draws from (`CreatePipeline`). A legacy document declares
  any input fields: nobody compared them with its destination. `unseen` remembers the
  inputs that pipelines were made with in these two ways.
* `history.raced` remembers that somebody used a copy that was out of date, and
  `history.named` every name a pipeline ever had. Properties use them to say when
  the code does not promise anything.

Simplifications: every pipeline consolidates and has one open batch and one
attempt at a time; the two reads of an update or toggle are one;
`ReserveDelivery` for all destinations is one step; of the validation only what
relates two parts of a document is kept. The back-fill of DSV columns on the load of an
old document (`pg.go:726`) is left out: the fields a legacy input declares are arbitrary
in the model, before and after it.

## Runs

| Run | Properties | Instance | What it shows |
|---|---|---|---|
| `claim_safety` | types, `AtMostOneDone`, `OneVerdictPerClaim`, `TokensDistinct`, `DoneHasOutput`, `MarkerImpliesDone`, `NoFaultNoOrphan`, `DisposedOnlySettled`, `ImplementsLedger`, `EventuallySettled`, `EventuallyDisposed` | 2 instances, 1 name, 2 faults, 2 deliveries of the name | the claim protocol is safe, implements the ledger, and every file gets a verdict and leaves |
| `claim_lost_commit` | `DoneHasOutput` | the same with a lost reply to COMMIT | finding 1 |
| `batch_replicas` | `DoneIsEverywhere`, `OneOpenBatch`, `DeliveredForGood` | 2 instances, 2 destinations, 1 fault; 1 file processed, or 3 files in formation | recorded means delivered everywhere, through takeovers and stale snapshots |
| `batch_single` | types, `NoPartialObject`, `DeliveredHasCounts`, `SequenceExplained`, `KeptBatchesDisjoint`, `GoodFilesDelivered` | 1 instance, 2 files of which one may be malformed, 4 batches, 2 attempts, 1 fault | long histories of retries and abandonment; good files get through, or wait for company where no age limit is set |
| `batch_race`, `batch_ghost`, `batch_stuck` | `NoDoubleDelivery`, `DoneOnlyDelivered`, `BadFilesQuarantined` | the smallest that show it | findings 2 to 4 |
| `session` | types, `WholeObjects`, `FilesReconciled`, `LineageLocates`, `CountsAddUp`, `StopsWhenAllDown`, `HealthyDelivered` | 2 members of up to 2 records with every content, 2 destinations, 3 attempts, 2 faults | objects, counts and lineage are right through partial deliveries and commits without a decode |
| `session_accounts` | `InOutSuspended` | the same without faults | finding 5 |
| `lifecycle` | types, `OriginalsKept`, `RowsHaveOriginals`, `ProcessedOnce`, `UidsNotReissued`, `EventuallyExits`, `LockComesBack` | 2 instances, 1 name, 2 starts, 2 faults, 1 upload, 1 archive run | nothing is lost or processed twice around fetch, archive, restore and shutdown |
| `config` | types, `NoDanglingColumns`, `DeliveriesHaveRows`, `RowsNotShared`, `SequenceContinues`, `GapsOnlyFromAbandoned` | a legacy and a new pipeline, 2 names, 2 destinations, 3 writes of which 2 overlap, 2 batches, 1 fault | documents, rows and sequences survive overlapping requests |
| `config_drain` | `DisabledDrains` | 1 pipeline, 1 request, 1 batch | finding 6 |

`PROJECT.json` names, for every property of a passing run, a plausible bug of the
mapped code that TLC finds with that property. The operators that state these
bugs are marked "Mutant" in the modules and used nowhere else.

### Bounds, and why they are enough

Two instances give a takeover, two handlers with stale checks, two scanners with
different listings and two overlapping passes; a third adds a second takeover,
which a second fault gives as well. One name suffices for the claim protocol and
for Lifecycle, as names do not interact there (`NextFileUID` and the members of
an archive aside: unique numbers are what the proofs rely on, and an archive of two
names is pruned in two steps of the same kind). Two names and two destinations
give partial batches, partial deliveries and a malformed member beside a good
one; three names in formation give listings that overlap without one containing
the other. `MaxStall` is 2 instead of 10 so that poison is reached, `MaxFiles` 2 and
`MaxAttempts` 1 or 2 instead of 200; the code compares with `>=` only.

Some runs bound the search with a constraint rather than a constant:
`OneBatchOrFormation` (`batch_replicas`) and `TwoOverlap` (`config`) look at two
families of behaviours in one run (in `config`: two requests and a batch that overlap
in any way; or three requests one after the other and two batches, without a copy that
is out of date and without a pipeline that declares no field). `UploadOrFault`
(`lifecycle`) combines an upload with one fault only, which is not a hanging loop or a lost
lock: a failing step of the upload, of a pass or of the watcher, or a crash.
`MalformedCompany` (`batch_ghost`) narrows the search for a
counterexample; what is found under a constraint is a behaviour of the model like
any other. The liveness properties of `lifecycle` are thus checked of behaviours
without uploads, and of those with an upload that stay within that bound.

Deadlock is not checked where a model stops for good once its bounds are used
up: `claim_*`, `session*`, `lifecycle` and `config*`. All batch runs check for
deadlock.

Symmetry is used in runs without liveness only: instances and destinations
(`batch_replicas`, `batch_race`, `batch_ghost`), destinations (`session*`), requests
(`config`). Names of a batch are ordered and so not symmetric.

## Fairness

* FileClaim: `WF(Scan)`: the ticker of `Watcher.Run` scans every poll interval as
  long as the process lives, and a process that died is restarted.
  `WF(Handle)`: a worker goroutine is never descheduled for ever; each call
  returns or times out. `WF(Heartbeat)`: its ticker beats at a third of the
  lease. `WF(LeaseExpire)` for untended claims only: a lease is a time stamp that
  passes.
* BatchDelivery: the same, and `SF(FormBatch)`: where the batch has an age limit,
  the choice between waiting and forming is the age of the oldest file, which grows,
  so that a group that is offered again and again is eventually old enough. Where
  it has none (`MaxAgeSeconds` 0, a supported setting), `FormBatch` is disabled for a
  group that is not full, and the fairness says nothing of it; `GoodFilesDelivered`
  then promises a file its record only if it does not wait for company for ever.
* Lifecycle: `WF` of the steps of a pass and of `Exit`. Nothing blocks them but a
  hanging call, and that is `Hang`, after which the steps of that pass and, for a
  fetch or archive pass, `Exit` are disabled.
* PipelineConfig: `WF(EngineStep)` per pipeline.
* Nothing is assumed of arrivals, uploads, requests, faults, timeouts and
  crashes. The liveness statements are about runs in which faults stop after
  `MaxFaults`.

## Findings

Each is the violation of one statement the repository makes of itself.

1. `claim_lost_commit`: `ProcessFile` deletes the output when `CompleteClaimed`
   returns an error (`runner.go:348`). If `COMMIT` took effect and only the
   reply was lost, the file is `DONE` and its records are gone; the source is
   then disposed of as a re-arrival.
2. `batch_race`: `FormBatch` re-checks under its lock only which files are in
   open batches, not which are settled. Instance A reads the settled names,
   instance B delivers, closes and disposes of a batch, A forms a new batch of
   the same files from its old listing (for instance with sources left in place)
   and delivers it again before `CloseBatch` refuses. No fault is needed.
3. `batch_ghost`: `ListOpenBatches` and `hydrateBatch` read the members and the
   deliveries of a batch in two statements. Instance A reads the members; instance
   B drops and quarantines a malformed one, delivers the rest and dies before its
   commit; A then reads the deliveries, finds every destination served, decodes
   nothing and commits its old list of members. The quarantined file is recorded
   `DONE` though no destination has a record of it. The same torn read gives a
   snapshot without counts, whose files are recorded with zero records.
4. `batch_stuck`: after a crash between `DropBatchFile` and `AbandonBatch`, an
   open batch without members keeps its identity; `FormBatch` resumes it for the
   dropped file, `handleBatch` returns at once, and the file is stuck.
5. `session_accounts`: `batchPFs` counts a file's suspensions from the session's
   list, one per destination. A record that none of two destinations can shape
   is suspended twice, one that only one can shape is written and suspended, and
   in = out + suspended does not hold of the recorded file. The counts in
   `BF_BATCH_FILE` do add up (`CountsAddUp`).
6. `config_drain`: the scan skips disabled pipelines before it looks at their open
   batches. An administrator who follows the message "disable the pipeline, let
   them finish, then edit" stops them from finishing.

### Seen while modelling, not made a run

The properties of `lifecycle` and `config` name the conditions under which the code
does not promise them. Behind each condition is a behaviour of the code:

* `ProcessedOnce` exempts archived files: with `PostFetch` "leave" a file is fetched,
  processed and delivered again once its row is `ARCHIVED` and its original pruned, as
  `AlreadyProcessed` looks at `DONE` rows only (`fetcher.go:189`, `claim.go:50`). No
  fault is needed.
* `UidsNotReissued` exempts skipped reconciliations, and names that were archived:
  `RecoverProcessedFile` raises the allocator's floor only for a marker whose row
  it could insert (`claim.go:259-273`).
* `SameSecond`: archive objects are named for the second (`archiver.go:354`); a
  second run within it, after a lost lock, replaces the first one's object.
* `RowsNotShared` exempts pipelines whose names begin alike: the pattern
  `<name>-%` (`pg.go:1016`) gives pipeline "a" with a new destination "b-x" the row of
  pipeline "a-b"'s "x", and both number their outputs in one sequence.
* `SequenceContinues` exempts these, and renamed pipelines: rows are looked up by the
  present name, so after a rename a destination that is removed and added again gets a
  fresh row and a second sequence. The `-output` row of a legacy pipeline is not
  found again either.
* `NoDanglingColumns` exempts a pipeline with the default destination only, and with
  the input it was made with, that no validation has seen: a create without
  destinations, or a legacy pipeline, which toggles and upgrades publish
  again as it is. A form without destinations skips `ValidatePipeline`
  (`handlers.go:189`), and the default destination has the pipeline's transform
  (`pg.go:291-296`).
* `GoodFilesDelivered` exempts files that wait for company for ever where there is no
  age limit: that is the setting.
* `GapsOnlyFromAbandoned` exempts races: the check for open batches and the
  transaction of `UpdatePipeline` are two steps, and a scan may reserve with a
  copy of yesterday's destinations. `SetPipelineEnabled` and `ensureDestinations`
  write back whole documents and undo what was saved since they read.
* `EventuallyExits` exempts fetch and archive passes that hang. After the drain timer
  `run` returns through `defer st.Close()` (`main.go:235`), which waits for every
  connection of the pool; such a pass keeps one (`claim.go:280-299`), and the SFTP calls
  of a fetch take no context. What holds is that a hanging watcher is left behind. The
  timer fires once (`main.go:338`), so that a second hanging loop is waited for without
  bound; as only one of the two can be the watcher, that process has a hanging
  pass anyhow. Uploads are not waited for at all.
* `StopsWhenAllDown` holds when destinations agree on what can be shaped. If not,
  one failing writer ends the pass for a destination that merely could not
  shape that record (`run.go:304`).

## Proofs

All proofs are checked by TLAPS, for every set of instances, names,
destinations, pipelines and requests and every value of the bounds. They assume
what the `ASSUME` of the module says of its constants (finite sets, positive
limits, names are sequences of strings) and nothing else unless the theorem
states it; TLC evaluates these assumptions in every run.

### FileClaim_proofs

* `TypeCorrect`: `Spec => []TypeOK`.
* `FenceSafety`, `TokensStayDistinct`: that a claim decides one verdict is
  not inductive: a handler that still believes in its token might decide a second
  one. `FenceInv` adds what rules it out: every token in a handler's hands is at
  most the row's (`TokensBehind`), no two handlers have the same one
  (`TokensDistinct`), and a token under which a row of `PF` was written is not
  the token of a row still held (`RowsSpent`).
* `DoneOnce`: from the partial unique index on DONE rows, which every step that
  adds rows respects.
* `MarkersAreEvidence`: a handler about to write a marker has its row (`Marking`).
* `OutputsSurvive`, assuming `InDoubtCommit = FALSE`: finding 1 is the only way to lose
  the output of a recorded file. `OutInv`: attempts have different file UIDs
  (`HandlersApart`), a handler that has not committed has no row under its UID
  (`Unrecorded`), so what it may delete is nobody's record; rows have allocated
  UIDs (`RowsAllocated`), and a handler that is about to commit has put its object
  (`Written`).
* `CalmRunsLeaveNoOrphan`: without faults, a handler on the processing path
  still owns its claim (`AllKept`), so its verdict is recorded or its output
  discarded; every object has its row or its handler (`Tracked`).

To keep the case analysis small, most steps of a handler are `Quiet`: they change
its program counter and at most an area of the storage. The steps that allocate, put,
commit, discard, quarantine are `Loud` and have lemmas of their own.

### FileLedger_proofs

* `OnlySettledLeave`: `VerdictInv` says that whoever is about to move a file away
  has seen its verdict or given it, and that verdicts stay.
* `ClaimsKeepTheLedger`: the refinement. Initial states map to initial states, and
  every step is a delivery, a record, a quarantine, a disposal or a stutter of the
  ledger. That the ledger makes progress is left to TLC.

### BatchDelivery_proofs

`BatchSafety` is the inductive invariant. Its parts follow the code:

* `BatchInv`: a row loses only members that cannot be decoded (`Good` members stay);
* `SeqInv`: a delivery row has a number exactly if it exists, numbers are unique per
  destination, none is beyond the counter and none is skipped;
* `ObjectInv`: an object under a batch's number is exactly the members left in the
  row, and these are the good ones. This is why a member may still be dropped while
  another instance is publishing: a batch that was encoded has no bad member;
* `DeliveryInv`: delivered implies object and counts; `CLOSED` and `DONE` imply
  delivered everywhere;
* `ScanInv`, `WorkInv`: what a snapshot or a worker still knows although it is
  stale: the members it saw lie between those left and those the batch was formed
  with, and the deliveries it saw are still there (`Seen`); then, per program
  counter, that numbers are reserved, objects put, deliveries marked (`Fit`).

`Grows` says what no step takes back: identities, numbers, counts, deliveries,
objects. It is proved with every step and carries `Seen` and `Fit` of all other
actors along (`SeenGrows`, `FitGrows`), so that each action needs an argument
about its own worker only. `BatchesSafe` combines them, and from it follow
`DoneEverywhere`, `CountsBeforeDelivery`, `WholeObjects`, `NumbersExplained`,
`OpenBatchesDisjoint` and `DeliveriesStay`. Claims play no part in these proofs: that
is a result of its own. A batch survives two workers at once because numbers are
reserved once, objects are named by them, and everything they do to the rows
repeats itself. What the claims add is that a file is recorded once.

`OneInstanceDeliversOnce` is `KeptBatchesDisjoint`. Its hypothesis, that there is at
most one instance, is the condition under which the property is meant: two that race
deliver a file twice (finding 2, run `batch_race`). The invariant `KeptInv` follows
a file of a batch that was not given up (`Kept`: every member can be decoded, attempts
are left). Such a batch is open, or closed with its members recorded (`KeptRows`),
because a worker that is about to abandon or to drop has a batch that is not kept
(`GiveUpInv`), and because the commit records every member its stale snapshot holds,
which is no less than the row does (`Seen`). So what `BatchedFileNames` does not take
away `SettledFileNames` does, also when the batch closes between the two reads
(`FreeInv`), and with one scanner no other batch is formed before `FormBatch`. `RowsAge`
says what a step may do to the rows for all this to stay.

### Session_proofs

* `TypeCorrect`: with where a session stands (`Place`: between members it has read
  the current one to its end) and what its contributions are (`Shares`).
* `OneFailureSparesOthers`: if destinations agree, a record that nobody could write
  although somebody could shape it was offered to every live target.
* `HealthyAreDelivered`: `Marking` relates what was marked so far to the targets.
* `ObjectsAreWhole`: `Listed` says that, while the stream runs, what a live target
  has written is in batch order exactly what it can shape of the records up to
  `cur` and `pos`; at a clean `Close` that is everything, and `Published` keeps it.
* `CountsCoverTheFiles`: `Counting` relates the running totals to the contributions
  of the members passed, `RowsCount` the database to them.

### SessionCounts_proofs

Both theorems are about destinations that agree (`Uniform`), where counts and lineage are
promised, and both count: the records somebody can write are `Done`, of the first `k`
records of a file, of a whole file, of all files before one. Lemmas at the head of the
module say how these cardinalities grow by one record and by one file. `CountsInv` is
inductive together with the invariants of Session_proofs:

* `Tally`: the running counter and index are `Start` of the current file and what it
  has had so far, and contributions locate their file there;
* `Someone`: records are only decoded while a live target is left, so that what can be
  written is written by somebody;
* `Ended`: a pass that reached its end saw every file, and one that has nobody to
  write has no contributions, so that the counts must come from the rows;
* `RowsTally`: the counts of a row are those of a whole file;
* `Suspends`: a pass for one destination suspends each unshapeable record once.

`FilesAreReconciled` follows for both ways of counting at the commit, from the
contributions or, when the destinations were delivered before, from the rows.
`LineageIsRight` adds that the offset read from the contributions before a file
(`OffsetIs`) is `Start` of it.

### Lifecycle_proofs

* `TypeCorrect`: with `PassOK` (a reconciliation holds markers that exist, a fetch
  that looks at a file has one) and `ClockOK` (there is a time stamp left for every
  archive run that is being built).
* `OriginalsSurvive`, if no two archive runs bear the same second (`SameSecond` is
  FALSE; with TRUE it is refuted, see Findings): `KeepInv` says that objects at time
  stamps to come do not exist yet, so that none is overwritten, and that whatever a
  pass still has to prune is in an object. No action but the archiver's two takes
  an original or an object away (`Keeps`). Crashes, restores and lost lock
  sessions may come anywhere.
* `CalmArchives`: `RowsInv` holds as long as nothing fails (`CalmInv`). The pass that
  holds the lock is the only one (`Alone`), every marker has a row, so that
  reconciliation adds none (`Marked`), a name has one row that is not archived
  (`OnePerName`), so that a pruned original is that of a row of the pass
  (`Working`). The last two are why the property needs the DONE name index and the
  fetch, archive and start-up passes to exclude one another.
* `FilesProcessedOnce` and `MarkersKeepTheirUids`, with faults and a restore of the
  database: `OnceInv`. Both are about files that were never archived (`Open`) and, in
  `Known`, about a system that has not skipped anything after a restore (`~behind`).
  There a row and a marker of one UID are of one file (`Faithful`), such a file has one
  marker, of the UID of its row (`Single`), and what was processed has its row, or a
  marker to get it back from (`AtMostOnce`). A marker is `Handled` when its file is
  DONE again and the allocator beyond its UID; a reconciliation has handled the markers it
  passed (`Catching`), so that whoever processes files finds all of them handled
  (`Caught`). `Original` is what the restore needs: until then no row is lost, the
  backup's rows are still there by UID and name, and markers are not beyond the
  allocator. The passes and the advisory lock play no part: two reconciliations at
  once do no harm, because `Handled` is never taken back.

### PipelineConfig_proofs

* `NoColumnDangles`: a document has a column of an undeclared field only in the form in
  which its pipeline was made unseen by any validation. `ColumnsInv` says the same
  of every copy on a desk that will be written without another validation (`Writes`).
  An edit, a lost update, a toggle or an upgrade therefore never makes a document
  that is not valid out of one that is.
* `DestinationsKeepTheirRows`: `OwnInv` says that a row in a document or on a desk
  has a name that begins with a name its pipeline has had. Two names that are both
  prefixes of one row's name are prefixes of one another (`PrefixesCompare`), which
  `~Related` excludes.
* `EveryDeliveryHasARow`: `DeliveryInv`: what a scan has listed are rows, and rows stay.

### PipelineSequence_proofs

What a request or a scan did with an old copy shows later only, so these proofs carry
the record of what happened (`IsLog`) and say what every step adds to it (`LogCreate` ...
`LogReserve`) and does to documents and copies (`CreateEffect` ... `SaveEffect`).

* `GapsComeFromAbandoned`: `FreshInv` says what a copy that is not out of date has in
  common with the document, `BatchesOk` that a batch belongs to one pipeline and
  numbers are given out to open batches only. `CalmInv` then keeps, as long as no copy
  was late, the destinations of an open batch those of the document: every delivery of
  it is owed, and it is only closed when nothing is owed.
* `SequenceIsKept`: for a pipeline that nothing is between (`Quiet`), `RowsInOrder` says
  that every destination in the document, in a scan and in a copy that will be
  written has a row of its name (`NamedIn`), that there is one such row (`OneEach`) and
  that only it was used (`UsedNamed`). A save adds a row only if there was none when
  it was checked (`NoneYet`), and a second save of the same page is out of date by then
  (`LateAfter`). Other pipelines add rows of other names (`OtherRows`); that a new
  pipeline finds no row of its names needs that every row begins with a name some
  pipeline has had (`RowInv`). The upgrade of a legacy pipeline adds the exempt row
  only (`ZerosInv`).
* `ShapesAreKept`: `TypeOK` bounds the numbers of a sequence, which no guard does; that
  they stay in bounds needs that a sequence counts the batches with a delivery to its
  row (`EngineTyped`), a number being given out only for a batch that has none. That a
  reclaimed row has an identity needs that one of several rows is the last (`LastRow`).

### Only model-checked

* All liveness properties: the prover does not reason about fairness and ENABLED.

## Not modelled

* Decoders, encoders, transform, the archive container: byte-level or pure functions
  of one record, without shared state or order of events. The models use only
  their outcomes: a stream yields records and ends well or does not parse, a record
  can be shaped or not.
* Lock order inside `CloseBatch`: a transaction is one step in `BatchDelivery`. The
  code sorts the rows it locks in one statement.
* `maxStall` as a policy: whether ten takeovers make a good file poison is a
  decision of the documentation, and the counter is in `FileClaim`.
* The staging directories of posix storage and the copying `Relocate` are one step.
* Fetch back-off, archive schedules and retention ages: time is a free choice.
* The in-memory store repeats the interface of the PostgreSQL store for tests,
  under one mutex.
* HTML forms, wizard, login sessions and password hashing, secret encryption,
  settings, telemetry, command line and the SSH transport: no protocol of the data
  plane.
