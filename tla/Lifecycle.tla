----------------------------- MODULE Lifecycle -----------------------------
(***************************************************************************)
(* A file's life around its processing: fetched from an SFTP endpoint into *)
(* the input area (internal/fetcher), recorded and moved away by a watcher,*)
(* archived and pruned (internal/archiver), and recovered from its         *)
(* completion marker when the database was restored behind the storage     *)
(* (internal/reconcile).  Fetching, archiving and the reconciliation at    *)
(* start-up share one advisory lock, held by a database session.           *)
(* Instances start, drain on SIGTERM and die (cmd/baasparse/main.go).      *)
(*                                                                         *)
(* FileClaim models how a file is processed; here that is one step, which  *)
(* leaves out the marker or the move when it is interrupted.  Sources keep *)
(* the default disposition: a processed file is moved to the done area.    *)
(***************************************************************************)
EXTENDS Integers, FiniteSets

CONSTANTS
  Instances,    \* registered engine instances
  Names,        \* names of the files the endpoint may offer
  BadNames,     \* those whose content does not decode
  Nobody,       \* not an instance: the lock is free
  PostFetch,    \* what becomes of a fetched remote file: "leave" or "delete"
  SameSecond,   \* whether two archive runs may get the same time stamp
  MaxUid,       \* bound on file UIDs
  MaxTime,      \* bound on archive runs (their time stamps)
  MaxUploads,   \* bound on files uploaded by hand
  MaxStarts,    \* bound on starts of instances
  MaxFaults     \* bound on faults: crashes, failing calls, lost sessions, hangs

ASSUME LifecycleAssumption ==
  /\ IsFiniteSet(Instances) /\ IsFiniteSet(Names) /\ BadNames \subseteq Names
  /\ Nobody \notin Instances
  /\ PostFetch \in {"leave", "delete"} /\ SameSecond \in BOOLEAN
  /\ MaxUid \in Nat /\ MaxTime \in Nat /\ MaxUploads \in Nat
  /\ MaxStarts \in Nat /\ MaxFaults \in Nat

VARIABLES
  remote,     \* files at the SFTP endpoint
  input,      \* files in the input area
  kept,       \* originals in the done and quarantine areas
  markers,    \* completion markers, keyed by file UID, each naming its file
  archives,   \* archive objects: their members, by time stamp
  pf,         \* PF_PROCESSED_FILE rows
  alloc,      \* the FILE_UID allocator
  backup,     \* the database as it was backed up
  lock,       \* holder of the advisory lock
  life,       \* where each instance is between its start and its end
  pass,       \* the single-owner pass each instance is in
  upload,     \* the file each instance is processing for an operator
  stuck,      \* loops of an instance that do not come to an end
  clock,      \* the time stamp of the next archive run
  history,    \* what happened, for the properties
  faults

worldVars == <<remote, input, kept, markers, archives>>
dbVars    == <<pf, alloc, backup>>
vars == <<remote, input, kept, markers, archives, pf, alloc, backup, lock, life, pass,
          upload, stuck, clock, history, faults>>

-----------------------------------------------------------------------------
Uids  == 1..MaxUid
Times == 0..(MaxTime + Cardinality(Instances))
Row   == [uid : Uids, name : Names, status : {"DONE", "QUARANTINED", "ARCHIVED"}]
NoPass == [kind |-> "none", step |-> "none", todo |-> {}, uids |-> {}, rows |-> {}, at |-> 0]

Loops == {"watcher", "fetcher", "archiver"}

Faulty  == faults < MaxFaults /\ faults' = faults + 1
NoFault == UNCHANGED faults

Has(n, statuses) == \E r \in pf : r.name = n /\ r.status \in statuses

AlreadyProcessed(n)   == Has(n, {"DONE"})
AlreadyQuarantined(n) == Has(n, {"QUARANTINED"})

\* UX_PF_FILE_UID and UX_PF_SRC_NAME_DONE.
UniqueViolation(uid, n) == (\E r \in pf : r.uid = uid) \/ AlreadyProcessed(n)

Fresh == [runs |-> [n \in Names |-> 0], archived |-> {}, landed |-> {}, restored |-> FALSE,
          behind |-> FALSE, starts |-> 0, uploads |-> 0]

Init ==
  /\ remote = Names /\ input = {} /\ kept = {}
  /\ markers = << >> /\ archives = [t \in Times |-> {}]
  /\ pf = {} /\ alloc = 0 /\ backup = [pf |-> {}, alloc |-> 0]
  /\ lock = Nobody
  /\ life = [i \in Instances |-> "down"]
  /\ pass = [i \in Instances |-> NoPass]
  /\ upload = [i \in Instances |-> {}]
  /\ stuck = [i \in Instances |-> {}]
  /\ clock = 0 /\ history = Fresh /\ faults = 0

-----------------------------------------------------------------------------
(* The single-owner passes.                                                *)

\* ReconcileOnce: the pass is begun if the lock is free.
Begin(i, p) == lock = Nobody /\ lock' = i /\ pass' = [pass EXCEPT ![i] = p]

\* Mutant: the connection goes back to the pool with its lock.
LeftToThePool(i) == lock

\* The session gives the lock back, if it still has it.
Unlocked(i) == IF lock = i THEN Nobody ELSE lock

Finish(i) == pass' = [pass EXCEPT ![i] = NoPass] /\ lock' = Unlocked(i)

At(i, kind, step) == pass[i].kind = kind /\ pass[i].step = step
Goto(i, step)     == pass' = [pass EXCEPT ![i].step = step]
Drop(i, x)        == pass' = [pass EXCEPT ![i].todo = @ \ {x}]

Starts(i) == life[i] = "down" /\ history.starts < MaxStarts

\* The engine starts with the reconciliation: the markers are listed once.
StartReconcile(i) ==
  /\ Starts(i)
  /\ Begin(i, [NoPass EXCEPT !.kind = "reconcile", !.step = "recover", !.uids = DOMAIN markers])
  /\ life' = [life EXCEPT ![i] = "boot"]
  /\ history' = [history EXCEPT !.starts = @ + 1]
  /\ UNCHANGED <<worldVars, dbVars, upload, stuck, clock, faults>>

\* Another instance holds the lock: the reconciliation is skipped, not awaited.  The
\* same happens when it fails as a whole.
StartSkipped(i) ==
  /\ Starts(i)
  /\ \/ lock # Nobody /\ NoFault
     \/ Faulty
  /\ life' = [life EXCEPT ![i] = "up"]
  /\ history' = [history EXCEPT !.starts = @ + 1, !.behind = @ \/ history.restored]
  /\ UNCHANGED <<worldVars, dbVars, lock, pass, upload, stuck, clock>>

\* Mutant: only files that have been put away are recovered.
RecoverableKept(uid, n) == n \in kept /\ ~UniqueViolation(uid, n)

Recoverable(uid, n) == ~UniqueViolation(uid, n)

\* Mutant: the allocator stays where the restored database left it.
FloorForgotten(uid) == alloc

\* Mutant: the allocator is advanced by the marker's UID.
FloorAdded(uid) == alloc + uid

Floor(uid) == IF uid > alloc THEN uid ELSE alloc

\* RecoverProcessedFile on one marker, or an error, which is logged.
RecoverProcessedFile(i) ==
  /\ At(i, "reconcile", "recover")
  /\ \E uid \in pass[i].uids :
       LET n == markers[uid]
       IN /\ pass' = [pass EXCEPT ![i].uids = @ \ {uid}]
          /\ \/ /\ IF Recoverable(uid, n)
                   THEN /\ pf' = pf \cup {[uid |-> uid, name |-> n, status |-> "DONE"]}
                        /\ alloc' = Floor(uid)
                   ELSE UNCHANGED <<pf, alloc>>
                /\ UNCHANGED history /\ NoFault
             \/ /\ Faulty /\ UNCHANGED <<pf, alloc>>
                /\ history' = [history EXCEPT !.behind = @ \/ history.restored]
  /\ UNCHANGED <<worldVars, backup, lock, life, upload, stuck, clock>>

ReconcileEnd(i) ==
  /\ At(i, "reconcile", "recover") /\ pass[i].uids = {}
  /\ Finish(i)
  /\ life' = [life EXCEPT ![i] = "up"]
  /\ UNCHANGED <<worldVars, dbVars, upload, stuck, clock, history, faults>>

-----------------------------------------------------------------------------
(* The fetcher.                                                            *)

\* The entries are looked at in the order of the listing.
Candidate(i) == CHOOSE n \in pass[i].todo : TRUE
FetchNext(i) ==
  pass' = [pass EXCEPT ![i].step = "check", ![i].todo = @ \ {Candidate(i)}]

Moving(i, loop) == life[i] \in {"up", "draining"} /\ loop \notin stuck[i]

\* cycle, fetchPipeline: the remote directory is listed under the lock.
FetchStart(i) ==
  /\ life[i] = "up" /\ "fetcher" \notin stuck[i] /\ pass[i] = NoPass
  /\ \E n \in remote : TRUE
  /\ Begin(i, [NoPass EXCEPT !.kind = "fetch", !.step = "check", !.todo = remote])
  /\ UNCHANGED <<worldVars, dbVars, life, upload, stuck, clock, history, faults>>

\* skip: the database is asked first; a failing query counts as "no".
FetchCheck(i) ==
  /\ At(i, "fetch", "check") /\ life[i] = "up" /\ Moving(i, "fetcher") /\ pass[i].todo # {}
  /\ \/ /\ AlreadyQuarantined(Candidate(i)) \/ AlreadyProcessed(Candidate(i))
        /\ Drop(i, Candidate(i)) /\ NoFault
     \/ /\ \/ /\ ~AlreadyQuarantined(Candidate(i)) /\ ~AlreadyProcessed(Candidate(i))
              /\ NoFault
           \/ Faulty
        /\ Goto(i, "stat")
  /\ UNCHANGED <<worldVars, dbVars, lock, life, upload, stuck, clock, history>>

Absent(n) == n \notin input

\* skip, second half: a file that is there already is not fetched, nor one of which
\* the storage does not say.
FetchStat(i) ==
  /\ At(i, "fetch", "stat") /\ Moving(i, "fetcher")
  /\ \/ Absent(Candidate(i)) /\ Goto(i, "land") /\ NoFault
     \/ /\ \/ ~Absent(Candidate(i)) /\ NoFault
           \/ Faulty
        /\ FetchNext(i)
  /\ UNCHANGED <<worldVars, dbVars, lock, life, upload, stuck, clock, history>>

\* fetchOne: the file is streamed into the input area (atomically, or not at all if
\* that fails); then the remote one is deleted or left.
FetchOne(i) ==
  /\ At(i, "fetch", "land") /\ Moving(i, "fetcher")
  /\ LET n == Candidate(i)
     IN \/ /\ n \in remote
           /\ input' = input \cup {n}
           /\ history' = [history EXCEPT !.landed = @ \cup {n}]
           /\ \/ remote' = (IF PostFetch = "delete" THEN remote \ {n} ELSE remote) /\ NoFault
              \/ PostFetch = "delete" /\ UNCHANGED remote /\ Faulty
        \/ /\ \/ n \notin remote /\ NoFault
              \/ Faulty
           /\ UNCHANGED <<input, remote, history>>
  /\ FetchNext(i)
  /\ UNCHANGED <<kept, markers, archives, dbVars, lock, life, upload, stuck, clock>>

\* All transfers are over, or no further one is started after SIGTERM.
FetchEnd(i) ==
  /\ At(i, "fetch", "check") /\ Moving(i, "fetcher")
  /\ pass[i].todo = {} \/ life[i] = "draining"
  /\ Finish(i)
  /\ UNCHANGED <<worldVars, dbVars, life, upload, stuck, clock, history, faults>>

-----------------------------------------------------------------------------
(* Processing: the watcher and the upload page.                            *)

\* The verdict on a file: its row, and the marker if it is DONE.  A crash, a
\* failing marker or a failing move leaves things behind.
Recorded(n, uid, marked) ==
  LET bad == n \in BadNames
  IN /\ pf' = pf \cup {[uid |-> uid, name |-> n,
                        status |-> IF bad THEN "QUARANTINED" ELSE "DONE"]}
     /\ markers' = IF bad \/ ~marked THEN markers
                   ELSE [u \in DOMAIN markers \cup {uid} |-> IF u = uid THEN n ELSE markers[u]]
     /\ history' = [history EXCEPT !.runs[n] = @ + 1,
                                   !.behind = @ \/ (history.restored /\ ~marked)]

Settled(n) == AlreadyProcessed(n) \/ AlreadyQuarantined(n)

\* handle: a file is claimed, processed, recorded and moved away.  Its UID is new: no row
\* has one beyond the allocator's.
Process(n) ==
  /\ \E i \in Instances : life[i] = "up" /\ "watcher" \notin stuck[i]
  /\ n \in input /\ ~Settled(n) /\ alloc < MaxUid
  /\ alloc' = alloc + 1
  /\ \E marked, moved \in BOOLEAN :
       /\ IF marked /\ moved THEN NoFault ELSE Faulty
       /\ Recorded(n, alloc + 1, marked)
       /\ input' = IF moved THEN input \ {n} ELSE input
       /\ kept'  = IF moved THEN kept \cup {n} ELSE kept
  /\ UNCHANGED <<remote, archives, backup, lock, life, pass, upload, stuck, clock>>

\* A settled file found in the input area joins the ones already put away.
Rearrival(n) ==
  /\ \E i \in Instances : life[i] = "up" /\ "watcher" \notin stuck[i]
  /\ n \in input /\ Settled(n)
  /\ input' = input \ {n} /\ kept' = kept \cup {n}
  /\ UNCHANGED <<remote, markers, archives, dbVars, lock, life, pass, upload, stuck,
                 clock, history, faults>>

\* An operator uploads a file of some name to a pipeline that keeps its files in the
\* process's own areas: it is staged.
Upload(i, n) ==
  /\ life[i] = "up" /\ upload[i] = {} /\ n \notin BadNames
  /\ history.uploads < MaxUploads
  /\ history' = [history EXCEPT !.uploads = @ + 1]
  /\ upload' = [upload EXCEPT ![i] = {n}]
  /\ UNCHANGED <<worldVars, dbVars, lock, life, pass, stuck, clock, faults>>

\* ProcessFile without a claim: the upload is recorded unless a file of that name has
\* been, and put away.  A failure before the record leaves nothing but a used UID; the
\* marker and the move may each fail after it.
UploadRecord(i) ==
  /\ life[i] \in {"up", "draining"} /\ alloc < MaxUid
  /\ alloc' = alloc + 1
  /\ \E n \in upload[i] :
       \/ /\ \/ UniqueViolation(alloc + 1, n) /\ NoFault
             \/ Faulty
          /\ UNCHANGED <<pf, markers, kept, history>>
       \/ /\ ~UniqueViolation(alloc + 1, n)
          /\ \E marked, moved \in BOOLEAN :
               /\ IF marked /\ moved THEN NoFault ELSE Faulty
               /\ Recorded(n, alloc + 1, marked)
               /\ kept' = IF moved THEN kept \cup {n} ELSE kept
  /\ upload' = [upload EXCEPT ![i] = {}]
  /\ UNCHANGED <<remote, input, archives, backup, lock, life, pass, stuck, clock>>

-----------------------------------------------------------------------------
(* The archiver.                                                           *)

\* ListArchivablePF: rows that are not archived yet.
Archivable == {r \in pf : r.status # "ARCHIVED"}

\* Those whose original lies in the done or quarantine area, by name.
Present(r) == r.name \in kept

\* tick, archivePipeline: which rows are old enough is open; there is no pass over none.
ArchiveStart(i) ==
  /\ life[i] = "up" /\ "archiver" \notin stuck[i] /\ pass[i] = NoPass /\ clock < MaxTime
  /\ \E aged \in SUBSET {r \in Archivable : Present(r)} :
       /\ aged # {}
       /\ Begin(i, [NoPass EXCEPT !.kind = "archive", !.step = "build", !.rows = aged])
  /\ UNCHANGED <<worldVars, dbVars, life, upload, stuck, clock, history, faults>>

NamesOf(rows) == {r.name : r \in rows}

\* On to the originals of the archived files.
GoPrune(i) ==
  /\ pass' = [pass EXCEPT ![i].step = "prune", ![i].todo = NamesOf(pass[i].rows), ![i].at = clock]
  /\ UNCHANGED lock

\* Mutant: the pass goes on to the originals even so.
PruneAnyway(i) == GoPrune(i)

\* "Any failure before pruning aborts without deleting anything."
Abort(i) == Finish(i)

Stamp == IF SameSecond THEN {clock, clock + 1} ELSE {clock + 1}

\* buildAndOffload, verify, putManifest: the members are read and streamed into an
\* object named for the second, which replaces one of that name.  If one of them
\* has gone no object appears; a failure of the storage may come after it did.
ArchiveBuild(i) ==
  /\ At(i, "archive", "build") /\ Moving(i, "archiver")
  /\ LET members == NamesOf(pass[i].rows)
     IN \/ /\ members \subseteq kept
           /\ archives' = [archives EXCEPT ![clock] = members]
           /\ clock' \in Stamp
           /\ \/ GoPrune(i) /\ NoFault
              \/ Abort(i) /\ Faulty
        \/ /\ \/ ~(members \subseteq kept) /\ NoFault
              \/ Faulty
           /\ Abort(i) /\ UNCHANGED <<archives, clock>>
  /\ UNCHANGED <<remote, input, kept, markers, dbVars, life, upload, stuck, history>>

\* The originals are deleted one by one; a failing delete is logged.
ArchivePrune(i) ==
  /\ At(i, "archive", "prune") /\ Moving(i, "archiver")
  /\ \E n \in pass[i].todo :
       /\ Drop(i, n)
       /\ \/ kept' = kept \ {n} /\ NoFault
          \/ UNCHANGED kept /\ Faulty
  /\ UNCHANGED <<remote, input, markers, archives, dbVars, lock, life, upload, stuck,
                 clock, history>>

\* Mutant: only the quarantined files of the run become ARCHIVED.
FlippedQuarantined(i) == {a.uid : a \in {r \in pass[i].rows : r.status = "QUARANTINED"}}

Flipped(i) == {a.uid : a \in pass[i].rows}

\* MarkArchived: the rows of the run become ARCHIVED in one transaction, or none.
MarkArchived(i) ==
  /\ At(i, "archive", "prune") /\ pass[i].todo = {} /\ Moving(i, "archiver")
  /\ \/ /\ pf' = {IF r.uid \in Flipped(i) THEN [r EXCEPT !.status = "ARCHIVED"] ELSE r : r \in pf}
        /\ history' = [history EXCEPT !.archived = @ \cup NamesOf(pass[i].rows)]
        /\ NoFault
     \/ UNCHANGED <<pf, history>> /\ Faulty
  /\ Finish(i)
  /\ UNCHANGED <<worldVars, alloc, backup, life, upload, stuck, clock>>

-----------------------------------------------------------------------------
(* Ends: a lost session, SIGTERM and the drain, a crash, a restore.        *)

\* The connection that holds the lock breaks while the pass goes on.
LockLost(i) ==
  /\ lock = i /\ Faulty /\ lock' = Nobody
  /\ UNCHANGED <<worldVars, dbVars, life, pass, upload, stuck, clock, history>>

\* A call in a loop does not return, whatever its context says: the SFTP client takes
\* none.  The fetcher and the archiver make such calls in their passes only.
Hang(i, loop) ==
  /\ life[i] \in {"up", "draining"} /\ loop \notin stuck[i] /\ Faulty
  /\ loop = "fetcher"  => pass[i].kind = "fetch"
  /\ loop = "archiver" => pass[i].kind = "archive"
  /\ stuck' = [stuck EXCEPT ![i] = @ \cup {loop}]
  /\ UNCHANGED <<worldVars, dbVars, lock, life, pass, upload, clock, history>>

\* SIGTERM: no new pass and no new file; the loops are waited for in turn.
Terminate(i) ==
  /\ life[i] = "up"
  /\ life' = [life EXCEPT ![i] = "draining"]
  /\ UNCHANGED <<worldVars, dbVars, lock, pass, upload, stuck, clock, history, faults>>

\* Mutant: a loop that hangs is waited for.
WaitsForever(i) == {}

\* The drain timer ends the wait for one loop that outlasts the cancellation of its
\* context; having fired, it ends no other.
TimedOut(i) == IF Cardinality(stuck[i]) = 1 THEN stuck[i] ELSE {}

\* The process is gone: its session releases the lock, what it did is cut short.
Gone(i) ==
  /\ life' = [life EXCEPT ![i] = "down"]
  /\ pass' = [pass EXCEPT ![i] = NoPass] /\ lock' = (IF lock = i THEN Nobody ELSE lock)
  /\ upload'  = [upload EXCEPT ![i] = {}]
  /\ stuck'   = [stuck EXCEPT ![i] = {}]
  /\ UNCHANGED <<worldVars, dbVars, clock, history>>

\* run returns: the loops have been waited for, uploads have not.  Its deferred Close of
\* the pool waits, without a bound, for the connection that a pass keeps for its lock,
\* also when the connection is broken.
Exit(i) ==
  /\ life[i] = "draining" /\ stuck[i] \subseteq TimedOut(i) /\ pass[i] = NoPass
  /\ Gone(i) /\ NoFault

Crash(i) == life[i] # "down" /\ Faulty /\ Gone(i)

Backup ==
  /\ alloc > 0 /\ backup.alloc = 0 /\ ~history.restored
  /\ backup' = [pf |-> pf, alloc |-> alloc]
  /\ UNCHANGED <<worldVars, pf, alloc, lock, life, pass, upload, stuck, clock, history, faults>>

\* The stopped engine's database is restored behind the storage.
Restore ==
  /\ \A i \in Instances : life[i] = "down"
  /\ ~history.restored /\ pf # {} /\ Faulty
  /\ pf' = backup.pf /\ alloc' = backup.alloc
  /\ history' = [history EXCEPT !.restored = TRUE,
                    !.behind = \E r \in pf \ backup.pf :
                                 r.status # "QUARANTINED" /\ r.uid \notin DOMAIN markers]
  /\ UNCHANGED <<worldVars, backup, lock, life, pass, upload, stuck, clock>>

Step(i) ==
  \/ StartReconcile(i) \/ StartSkipped(i) \/ RecoverProcessedFile(i)
  \/ ReconcileEnd(i) \/ FetchStart(i) \/ FetchCheck(i) \/ FetchStat(i) \/ FetchOne(i)
  \/ FetchEnd(i) \/ UploadRecord(i) \/ ArchiveStart(i) \/ ArchiveBuild(i) \/ ArchivePrune(i)
  \/ MarkArchived(i) \/ LockLost(i) \/ Terminate(i) \/ Exit(i) \/ Crash(i)

Next ==
  \/ \E i \in Instances : Step(i)
  \/ \E i \in Instances, loop \in Loops : Hang(i, loop)
  \/ \E i \in Instances, n \in Names : Upload(i, n)
  \/ \E n \in Names : Process(n) \/ Rearrival(n)
  \/ Backup \/ Restore

Spec == Init /\ [][Next]_vars

\* A pass that is not stuck goes on to its end, and a terminated process to its:
\* nothing blocks them but the calls that Hang stands for.
PassSteps(i) ==
  \/ RecoverProcessedFile(i) \/ ReconcileEnd(i) \/ FetchCheck(i) \/ FetchStat(i) \/ FetchOne(i)
  \/ FetchEnd(i) \/ ArchiveBuild(i) \/ ArchivePrune(i) \/ MarkArchived(i)

FairSpec ==
  /\ Spec
  /\ \A i \in Instances :
       /\ WF_vars(PassSteps(i)) /\ WF_vars(Exit(i))

-----------------------------------------------------------------------------
(* Properties.                                                             *)

\* The variables keep the shapes of the rows, objects and states they stand for.
TypeOK ==
  /\ remote \subseteq Names /\ input \subseteq Names /\ kept \subseteq Names
  /\ DOMAIN markers \subseteq Uids /\ \A u \in DOMAIN markers : markers[u] \in Names
  /\ archives \in [Times -> SUBSET Names]
  /\ pf \subseteq Row /\ alloc \in 0..MaxUid
  /\ backup \in [pf : SUBSET Row, alloc : 0..MaxUid]
  /\ lock \in Instances \cup {Nobody}
  /\ life \in [Instances -> {"down", "boot", "up", "draining"}]
  /\ pass \in [Instances -> [kind : {"none", "reconcile", "fetch", "archive"},
                             step : {"none", "recover", "check", "stat", "land", "build", "prune"},
                             todo : SUBSET Names, uids : SUBSET Uids, rows : SUBSET Row,
                             at : Times]]
  /\ upload \in [Instances -> SUBSET Names]
  /\ stuck \in [Instances -> SUBSET Loops]
  /\ clock \in Times /\ faults \in 0..MaxFaults

Archived == UNION {archives[t] : t \in DOMAIN archives}

\* A file that landed is never lost: it is in the input area, put away, or a member
\* of an archive object, whatever crashes, lost sessions, failing calls and restores
\* of the database come in between (archivePipeline prunes only what it offloaded).
OriginalsKept == history.landed \subseteq input \cup kept \cup Archived

\* When nothing fails, a recorded file that is not marked archived has its original
\* in place, or is being archived (the order of prune and MarkArchived).
RowsHaveOriginals ==
  faults = 0 =>
    \A r \in pf : r.status # "ARCHIVED" =>
      \/ r.name \in input \cup kept
      \/ \E i \in Instances : pass[i].kind = "archive" /\ r \in pass[i].rows

\* A fetched file is processed once.  It is processed again only if it had been
\* archived, or if its record was lost with the database and its marker was not
\* written or not looked at in time (skip, AlreadyProcessed, recoverFrom).
ProcessedOnce ==
  \A n \in Names :
    history.runs[n] > 1 =>
      n \in history.archived \/ n \in BadNames \/ history.behind

\* A file UID that a completion marker holds is not issued to another file, whose
\* marker would replace it, also after a restore; unless start-up reconciliation was
\* skipped, or markers of one name share its DONE row (the allocator's floor).
UidsNotReissued ==
  [][alloc' > alloc /\ UNCHANGED pass =>
       alloc' \notin DOMAIN markers \/ history.behind \/ history.archived # {}]_vars

\* A call of a pass, which holds the lock and its connection, does not return.
PassHangs(i) == {"fetcher", "archiver"} \cap stuck[i] # {}

\* A terminated process ends, even if its watcher hangs (the drain timer), unless a
\* fetch or archive pass hangs, whose connection the pool waits for.
EventuallyExits ==
  \A i \in Instances : life[i] = "draining" ~> (life[i] = "down" \/ PassHangs(i))

\* The advisory lock always comes back, unless the pass that holds it hangs.
LockComesBack ==
  \A i \in Instances : lock = i ~> (lock # i \/ PassHangs(i))
=============================================================================
