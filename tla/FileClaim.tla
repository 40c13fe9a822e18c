------------------------------ MODULE FileClaim ------------------------------
(***************************************************************************)
(* The single-file path of the data plane: several instances scan one      *)
(* source's input area, claim a file through the FC_FILE_CLAIM lease       *)
(* (internal/store/claim.go), process it (internal/runner/runner.go) and   *)
(* record it, each file being driven by one handler per instance           *)
(* (internal/watcher/watcher.go).  One action is one database statement or *)
(* transaction, one storage call, or one timer.                            *)
(*                                                                         *)
(* Time is abstracted: a lease is `live' until LeaseExpire.  A lease whose *)
(* owner no longer heartbeats may expire at any time; one that is still    *)
(* tended expires only when heartbeats fail for a whole lease, which is    *)
(* counted as a fault.                                                     *)
(***************************************************************************)
EXTENDS Integers, FiniteSets

CONSTANTS
  Instances,        \* registered engine instances (INS_UID)
  Names,            \* file names of one source
  NoInstance,       \* owner of a claim row that was never inserted
  MaxStall,         \* takeovers after which a file is poison (maxStall)
  InDoubtCommit,    \* the connection may break after COMMIT took effect
  MaxFaults,        \* bound on faults: errors, crashes, missed heartbeats
  MaxArrivals       \* bound on how often one name is delivered

ASSUME FileClaimAssumption ==
  /\ NoInstance \notin Instances
  /\ MaxStall \in Nat \ {0}
  /\ MaxFaults \in Nat
  /\ MaxArrivals \in Nat
  /\ InDoubtCommit \in BOOLEAN

VARIABLES
  setup,       \* what the source and the storage are like; fixed from the start
  input,       \* names present in the source's input area
  outputs,     \* output objects <<name, file uid>>: outputName is unique per attempt
  markers,     \* completion markers <<name, file uid>>
  fc,          \* the latest FC_FILE_CLAIM row of each name
  pf,          \* PF_PROCESSED_FILE rows
  lastFileUid, \* SQ_SEQUENCE_ALLOCATOR 'FILE_UID'
  h,           \* the handler of each instance for each name
  arrivals,    \* how often each name was delivered (bounded by MaxArrivals)
  faults       \* how many faults happened (bounded by MaxFaults)

storageVars == <<setup, input, outputs, markers>>
dbVars      == <<fc, pf, lastFileUid>>
vars == <<setup, input, outputs, markers, fc, pf, lastFileUid, h, arrivals, faults>>

-----------------------------------------------------------------------------
(* Types.                                                                  *)

\* bad: the names whose content never decodes; leaveMarked: the source's disposition;
\* honoursCtx: storage calls refuse a cancelled context (s3) or ignore it (posix).
Setup == [bad: SUBSET Names, leaveMarked: BOOLEAN, honoursCtx: BOOLEAN]

\* store.Claim: the token a handler keeps of the row it claimed.
Claim   == [uid: Nat, fence: Nat]
NoClaim == [uid |-> 0, fence |-> 0]

FcRow == [uid: Nat, owner: Instances \cup {NoInstance}, fence: Nat, stall: Nat,
          held: BOOLEAN, live: BOOLEAN]

PfRow == [name: Names, uid: Nat, status: {"DONE", "QUARANTINED"}, claim: Nat]

\* The program counter of handle and of ProcessFile, named after what comes next.
Running == {"alloc", "open", "put", "commit", "discardLost", "discardErr",
            "mark", "dispose"}
Pc == Running \cup {"idle", "listed", "requar", "unquar", "rearrival",
                    "unclaimed", "poison", "moveQuar", "failed"}

\* ctx is procCtx: cancelled because the claim was lost, or by a deadline or drain.
Handler == [pc: Pc, claim: Claim, fileUid: Nat, ctx: {"live", "lost", "timeout"}]
Idle    == [pc |-> "idle", claim |-> NoClaim, fileUid |-> 0, ctx |-> "live"]

TypeOK ==
  /\ setup \in Setup
  /\ input \in SUBSET Names
  /\ outputs \in SUBSET (Names \X Nat)
  /\ markers \in SUBSET (Names \X Nat)
  /\ fc \in [Names -> FcRow]
  /\ pf \in SUBSET PfRow
  /\ lastFileUid \in Nat
  /\ h \in [Instances -> [Names -> Handler]]
  /\ arrivals \in [Names -> Nat]
  /\ faults \in Nat

Init ==
  /\ setup \in Setup
  /\ input = {}
  /\ outputs = {}
  /\ markers = {}
  /\ fc = [n \in Names |-> [uid |-> 0, owner |-> NoInstance, fence |-> 0,
                            stall |-> 0, held |-> FALSE, live |-> FALSE]]
  /\ pf = {}
  /\ lastFileUid = 0
  /\ h = [i \in Instances |-> [n \in Names |-> Idle]]
  /\ arrivals = [n \in Names |-> 0]
  /\ faults = 0

-----------------------------------------------------------------------------
(* Helpers.                                                                *)

AlreadyProcessed(n)   == \E r \in pf : r.name = n /\ r.status = "DONE"
AlreadyQuarantined(n) == \E r \in pf : r.name = n /\ r.status = "QUARANTINED"

\* Mutant: the partial unique index on DONE rows is missing.
NoDoneIndex(n) == FALSE

\* A second DONE row of this name is refused (UX_PF_SRC_NAME_DONE).
DoneIndexViolated(n) == AlreadyProcessed(n)

\* Mutant: the allocator is read without being advanced.
StaleFileUid == lastFileUid

\* The value UPDATE ... SET SQ_LAST_VALUE = SQ_LAST_VALUE + 1 returns.
NextUid == lastFileUid + 1

\* Mutant: the fenced statements trust the claim row's identifier alone.
UnfencedOwns(i, n) == fc[n].uid = h[i][n].claim.uid

\* The guard every fenced statement repeats: same row, same owner, same fence, HELD.
Owns(i, n) ==
  /\ fc[n].held
  /\ fc[n].owner = i
  /\ fc[n].uid = h[i][n].claim.uid
  /\ fc[n].fence = h[i][n].claim.fence

At(i, n, l)   == h[i][n].pc = l
Cancelled(i, n) == h[i][n].ctx # "live"
Become(i, n, c) == h' = [h EXCEPT ![i][n] = c]
Goto(i, n, l)   == Become(i, n, [h[i][n] EXCEPT !.pc = l])
Finish(i, n)    == Become(i, n, Idle)

NoFault == UNCHANGED faults
Fault   == faults < MaxFaults /\ faults' = faults + 1

\* How handle ends when runProtected returned an infrastructure error: nothing
\* more is done for a claim known to be lost.
Fail(i, n) == IF h[i][n].ctx = "lost" THEN Finish(i, n) ELSE Goto(i, n, "failed")

\* A call made under procCtx fails freely once that context is cancelled, and
\* otherwise only through a fault.
CallFails(i, n) == IF Cancelled(i, n) THEN NoFault ELSE Fault

\* The same for a storage call: posix ignores the context altogether.
StoreCallFails(i, n) ==
  IF Cancelled(i, n) /\ setup.honoursCtx THEN NoFault ELSE Fault
StoreCallWorks(i, n) == NoFault /\ ~(Cancelled(i, n) /\ setup.honoursCtx)

\* A heartbeat loop, or the quarantine step right after it, is tending the lease.
Tended(n) ==
  \E i \in Instances :
    /\ Owns(i, n)
    /\ \/ h[i][n].pc \in Running /\ ~Cancelled(i, n)
       \/ At(i, n, "poison")

-----------------------------------------------------------------------------
(* The environment: the sender delivers a file, possibly again.            *)

Arrive(n) ==
  /\ n \notin input
  /\ arrivals[n] < MaxArrivals
  /\ input' = input \cup {n}
  /\ arrivals' = [arrivals EXCEPT ![n] = @ + 1]
  /\ UNCHANGED <<setup, outputs, markers, dbVars, h, faults>>

-----------------------------------------------------------------------------
(* Before the claim (Watcher.scan, submit and the head of handle).  The    *)
(* listing and the two checks are separate reads: each may be stale by the *)
(* time the next step runs.  A failed check reads as "no".                 *)

\* The listing showed n and no worker of this instance is busy with it.
Scan(i, n) ==
  /\ At(i, n, "idle")
  /\ n \in input
  /\ Goto(i, n, "listed")
  /\ UNCHANGED <<storageVars, dbVars, arrivals, faults>>

CheckQuarantined(i, n) ==
  /\ At(i, n, "listed")
  /\ \/ AlreadyQuarantined(n)  /\ NoFault /\ Goto(i, n, "requar")
     \/ ~AlreadyQuarantined(n) /\ NoFault /\ Goto(i, n, "unquar")
     \/ AlreadyQuarantined(n)  /\ Fault   /\ Goto(i, n, "unquar")
  /\ UNCHANGED <<storageVars, dbVars, arrivals>>

\* Mutant: a re-arrival is skipped but left lying in the input area.
SkipRearrival(i, n) == Finish(i, n)

\* A file already recorded goes to the done area, unless its source stays in place.
Rearrival(i, n) ==
  IF setup.leaveMarked THEN Finish(i, n) ELSE Goto(i, n, "rearrival")

CheckProcessed(i, n) ==
  /\ At(i, n, "unquar")
  /\ \/ AlreadyProcessed(n)  /\ NoFault /\ Rearrival(i, n)
     \/ ~AlreadyProcessed(n) /\ NoFault /\ Goto(i, n, "unclaimed")
     \/ AlreadyProcessed(n)  /\ Fault   /\ Goto(i, n, "unclaimed")
  /\ UNCHANGED <<storageVars, dbVars, arrivals>>

\* Moving the source away: to the done area (a re-arrival), or to the quarantine
\* area.  A move that fails, or finds the source gone, is only logged.
MoveAway(i, n) ==
  /\ h[i][n].pc \in {"requar", "moveQuar", "rearrival"}
  /\ \/ NoFault /\ input' = input \ {n}
     \/ Fault   /\ UNCHANGED input
  /\ Finish(i, n)
  /\ UNCHANGED <<setup, outputs, markers, dbVars, arrivals>>

-----------------------------------------------------------------------------
(* The claim (PG.ClaimFile) and the poison guard that follows it.          *)

FreshRow(i, n) ==
  [uid |-> fc[n].uid + 1, owner |-> i, fence |-> 1, stall |-> 0,
   held |-> TRUE, live |-> TRUE]

\* Mutant: a takeover keeps the fence of the dead owner.
UnbumpedRow(i, n) == [fc[n] EXCEPT !.owner = i, !.stall = @ + 1, !.live = TRUE]

\* Mutant: a takeover counts the stall down.
CreditedRow(i, n) ==
  [fc[n] EXCEPT !.owner = i, !.fence = @ + 1, !.stall = @ - 1, !.live = TRUE]

\* FC_CHECKPOINT_RECORD is never written, so every takeover counts as a stall.
TakenOverRow(i, n) ==
  [fc[n] EXCEPT !.owner = i, !.fence = @ + 1, !.stall = @ + 1, !.live = TRUE]

\* Mutant: an expired lease is never taken over.
NeverTakeable(n) == FALSE

Takeable(n) == fc[n].held /\ ~fc[n].live

\* The statement took effect; the handler learns of it unless the reply is lost.
Claimed(i, n, row) ==
  /\ fc' = [fc EXCEPT ![n] = row]
  /\ \/ /\ NoFault
        /\ Become(i, n,
             [h[i][n] EXCEPT !.pc = IF row.stall >= MaxStall THEN "poison" ELSE "alloc",
                             !.claim = [uid |-> row.uid, fence |-> row.fence]])
     \/ Fault /\ Finish(i, n)

ClaimFile(i, n) ==
  /\ At(i, n, "unclaimed")
  /\ \/ ~fc[n].held /\ Claimed(i, n, FreshRow(i, n))
     \/ Takeable(n) /\ Claimed(i, n, TakenOverRow(i, n))
     \/ fc[n].held /\ fc[n].live /\ Finish(i, n) /\ UNCHANGED <<fc, faults>>
     \/ Fault /\ Finish(i, n) /\ UNCHANGED fc
  /\ UNCHANGED <<storageVars, pf, lastFileUid, arrivals>>

-----------------------------------------------------------------------------
(* The lease while a file is processed.                                    *)

\* One beat of startHeartbeat.  A renewal counts even when the lease has lapsed,
\* as long as nobody took the row over; a refused one cancels procCtx.
Heartbeat(i, n) ==
  /\ h[i][n].pc \in Running
  /\ ~Cancelled(i, n)
  /\ \/ /\ Owns(i, n)
        /\ fc' = [fc EXCEPT ![n] = [@ EXCEPT !.live = TRUE]]
        /\ UNCHANGED h
     \/ /\ ~Owns(i, n)
        /\ Become(i, n, [h[i][n] EXCEPT !.ctx = "lost"])
        /\ UNCHANGED fc
  /\ UNCHANGED <<storageVars, pf, lastFileUid, arrivals, faults>>

LeaseExpire(n) ==
  /\ fc[n].held /\ fc[n].live
  /\ IF Tended(n) THEN Fault ELSE NoFault
  /\ fc' = [fc EXCEPT ![n] = [@ EXCEPT !.live = FALSE]]
  /\ UNCHANGED <<storageVars, pf, lastFileUid, h, arrivals>>

\* MaxProcessing elapses, or the shutdown grace ends and procBase is cancelled.
Timeout(i, n) ==
  /\ h[i][n].pc \in Running
  /\ ~Cancelled(i, n)
  /\ Fault
  /\ Become(i, n, [h[i][n] EXCEPT !.ctx = "timeout"])
  /\ UNCHANGED <<storageVars, dbVars, arrivals>>

-----------------------------------------------------------------------------
(* Processing under the claim (Runner.ProcessFile).                        *)

NextFileUID(i, n) ==
  /\ At(i, n, "alloc")
  /\ \/ /\ ~Cancelled(i, n)
        /\ lastFileUid' = NextUid
        /\ Become(i, n, [h[i][n] EXCEPT !.pc = "open", !.fileUid = NextUid])
        /\ NoFault
     \/ CallFails(i, n) /\ Fail(i, n) /\ UNCHANGED lastFileUid
  /\ UNCHANGED <<storageVars, fc, pf, arrivals>>

OpenSource(i, n) ==
  /\ At(i, n, "open")
  /\ \/ n \in input /\ ~Cancelled(i, n) /\ NoFault /\ Goto(i, n, "put")
     \/ n \notin input /\ NoFault /\ Fail(i, n)
     \/ n \in input /\ CallFails(i, n) /\ Fail(i, n)
  /\ UNCHANGED <<storageVars, dbVars, arrivals>>

\* The stream from the source into the output object.  Put is atomic: an error on
\* either side commits no object.  Undecodable content is told apart from an
\* infrastructure error only while the context is live.
PutOutput(i, n) ==
  /\ At(i, n, "put")
  /\ \/ /\ n \notin setup.bad /\ ~Cancelled(i, n) /\ NoFault
        /\ outputs' = outputs \cup {<<n, h[i][n].fileUid>>}
        /\ Goto(i, n, "commit")
     \/ /\ n \in setup.bad /\ ~Cancelled(i, n) /\ NoFault
        /\ Goto(i, n, "poison")
        /\ UNCHANGED outputs
     \/ CallFails(i, n) /\ Fail(i, n) /\ UNCHANGED outputs
  /\ UNCHANGED <<setup, input, markers, dbVars, arrivals>>

\* The claim row goes to RELEASED; a later claim of this name is a new row.
Release(n) == fc' = [fc EXCEPT ![n] = [@ EXCEPT !.held = FALSE, !.live = FALSE]]

\* Insert the PF row, release the claim and link it (FC_PF_UID): one transaction.
RecordAndRelease(n, uid, status) ==
  /\ pf' = pf \cup {[name |-> n, uid |-> uid, status |-> status, claim |-> fc[n].uid]}
  /\ Release(n)

\* Mutants: the recorded flag is ignored; the output is not discarded.
ProceedUnrecorded(i, n) == Goto(i, n, "mark")
KeepOutput(i, n) == Finish(i, n)

\* recorded=false: discard the output and report the claim as lost.
NotRecorded(i, n) == Goto(i, n, "discardLost")

\* Two outcomes record nothing and are no error: the claim was lost, and another
\* instance already recorded this name (UX_PF_SRC_NAME_DONE).
CompleteClaimed(i, n) ==
  /\ At(i, n, "commit")
  /\ \/ /\ ~Cancelled(i, n) /\ NoFault
        /\ Owns(i, n) /\ ~DoneIndexViolated(n)
        /\ RecordAndRelease(n, h[i][n].fileUid, "DONE")
        /\ Goto(i, n, "mark")
     \/ /\ ~Cancelled(i, n) /\ NoFault
        /\ ~Owns(i, n) \/ DoneIndexViolated(n)
        /\ NotRecorded(i, n)
        /\ UNCHANGED <<fc, pf>>
     \/ CallFails(i, n) /\ Goto(i, n, "discardErr") /\ UNCHANGED <<fc, pf>>
     \/ /\ InDoubtCommit /\ ~Cancelled(i, n) /\ Fault
        /\ Owns(i, n) /\ ~DoneIndexViolated(n)
        /\ RecordAndRelease(n, h[i][n].fileUid, "DONE")
        /\ Goto(i, n, "discardErr")
  /\ UNCHANGED <<storageVars, lastFileUid, arrivals>>

\* The output just written is deleted, best effort and under the same context.
DiscardOutput(i, n) ==
  /\ h[i][n].pc \in {"discardLost", "discardErr"}
  /\ \/ /\ StoreCallWorks(i, n)
        /\ outputs' = outputs \ {<<n, h[i][n].fileUid>>}
     \/ StoreCallFails(i, n) /\ UNCHANGED outputs
  /\ IF At(i, n, "discardLost") THEN Finish(i, n) ELSE Fail(i, n)
  /\ UNCHANGED <<setup, input, markers, dbVars, arrivals>>

WriteMarker(i, n) ==
  /\ At(i, n, "mark")
  /\ \/ /\ StoreCallWorks(i, n)
        /\ markers' = markers \cup {<<n, h[i][n].fileUid>>}
     \/ StoreCallFails(i, n) /\ UNCHANGED markers
  /\ Goto(i, n, "dispose")
  /\ UNCHANGED <<setup, input, outputs, dbVars, arrivals>>

\* The disposition: move to the done area or delete, unless the source stays put.
DisposeSource(i, n) ==
  /\ At(i, n, "dispose")
  /\ \/ NoFault /\ setup.leaveMarked /\ UNCHANGED input
     \/ StoreCallWorks(i, n) /\ ~setup.leaveMarked /\ input' = input \ {n}
     \/ StoreCallFails(i, n) /\ ~setup.leaveMarked /\ UNCHANGED input
  /\ Finish(i, n)
  /\ UNCHANGED <<setup, outputs, markers, dbVars, arrivals>>

-----------------------------------------------------------------------------
(* After a failure (the switch at the end of handle, Watcher.quarantine).  *)

\* A poison or undecodable file: PG.QuarantineFile, under the fence.
QuarantineFile(i, n) ==
  /\ At(i, n, "poison")
  /\ \/ /\ Owns(i, n)
        /\ lastFileUid' = NextUid
        /\ RecordAndRelease(n, NextUid, "QUARANTINED")
        /\ \/ NoFault /\ Goto(i, n, "moveQuar")
           \/ InDoubtCommit /\ Fault /\ Finish(i, n)
     \/ ~Owns(i, n) /\ NoFault /\ Finish(i, n) /\ UNCHANGED <<fc, pf, lastFileUid>>
     \/ Fault /\ Finish(i, n) /\ UNCHANGED <<fc, pf, lastFileUid>>
  /\ UNCHANGED <<storageVars, arrivals>>

\* An infrastructure error: the claim is given back only if the file turns out to
\* be recorded already; otherwise the lease is left to expire.
HandleFailure(i, n) ==
  /\ At(i, n, "failed")
  /\ \/ /\ AlreadyProcessed(n) /\ Owns(i, n) /\ NoFault
        /\ Release(n)
     \/ ~(AlreadyProcessed(n) /\ Owns(i, n)) /\ NoFault /\ UNCHANGED fc
     \/ AlreadyProcessed(n) /\ Owns(i, n) /\ CallFails(i, n) /\ UNCHANGED fc
  /\ Finish(i, n)
  /\ UNCHANGED <<storageVars, pf, lastFileUid, arrivals>>

\* The process dies with every handler it runs; its replacement scans afresh.
Crash(i) ==
  /\ \E n \in Names : h[i][n].pc # "idle"
  /\ Fault
  /\ h' = [h EXCEPT ![i] = [n \in Names |-> Idle]]
  /\ UNCHANGED <<storageVars, dbVars, arrivals>>

-----------------------------------------------------------------------------

Handle(i, n) ==
  \/ CheckQuarantined(i, n) \/ CheckProcessed(i, n) \/ MoveAway(i, n)
  \/ ClaimFile(i, n)
  \/ NextFileUID(i, n) \/ OpenSource(i, n) \/ PutOutput(i, n)
  \/ CompleteClaimed(i, n) \/ DiscardOutput(i, n)
  \/ WriteMarker(i, n) \/ DisposeSource(i, n)
  \/ QuarantineFile(i, n) \/ HandleFailure(i, n)

Next ==
  \/ \E n \in Names : Arrive(n) \/ LeaseExpire(n)
  \/ \E i \in Instances, n \in Names :
       Scan(i, n) \/ Handle(i, n) \/ Heartbeat(i, n) \/ Timeout(i, n)
  \/ \E i \in Instances : Crash(i)

Spec == Init /\ [][Next]_vars

\* The ticker keeps scanning, a running worker keeps going, a heartbeat ticker
\* keeps beating and an untended lease runs out; faults are never owed.
Fairness ==
  /\ \A i \in Instances, n \in Names :
       WF_vars(Scan(i, n)) /\ WF_vars(Handle(i, n)) /\ WF_vars(Heartbeat(i, n))
  /\ \A n \in Names : WF_vars(~Tended(n) /\ LeaseExpire(n))

FairSpec == Spec /\ Fairness

-----------------------------------------------------------------------------
(* Properties.                                                             *)

Settled(n) == AlreadyProcessed(n) \/ AlreadyQuarantined(n)

\* A name is recorded DONE at most once, whatever takeovers, stale checks and
\* crashes happened on the way (BR-COL-004, BR-COL-006): PG.CompleteClaimed.
AtMostOneDone ==
  \A r, s \in pf : r.name = s.name /\ r.status = "DONE" /\ s.status = "DONE" => r = s

\* One claim decides at most one verdict: an instance that was taken over never
\* adds a second row under the claim it lost (the fence of CompleteClaimed and
\* QuarantineFile).
OneVerdictPerClaim ==
  \A r, s \in pf : r.name = s.name /\ r.claim = s.claim => r = s

\* No two handlers of one file carry the same claim token, so a fenced statement
\* can succeed for one of them only (ClaimFile bumps the fence on takeover).
TokensDistinct ==
  \A i, j \in Instances, n \in Names :
    i # j /\ h[i][n].claim = h[j][n].claim => h[i][n].claim = NoClaim

\* A file recorded DONE has its output object: nobody deletes the output of the
\* attempt that was recorded (ProcessFile's discard paths).
DoneHasOutput == \A r \in pf : r.status = "DONE" => <<r.name, r.uid>> \in outputs

\* A completion marker is only ever evidence of a committed record, so restoring
\* records from markers (internal/reconcile) never invents one.
MarkerImpliesDone ==
  \A m \in markers : \E r \in pf : r.status = "DONE" /\ m = <<r.name, r.uid>>

\* Without faults no output object is orphaned, however scans and claims race:
\* it is recorded, or a handler is still on its way to record or discard it.
NoFaultNoOrphan ==
  faults = 0 =>
    \A o \in outputs :
      \/ \E r \in pf : r.status = "DONE" /\ o = <<r.name, r.uid>>
      \/ \E i \in Instances : /\ h[i][o[1]].fileUid = o[2]
                              /\ h[i][o[1]].pc \in {"commit", "discardLost", "discardErr"}

\* A source leaves the input area only once its name has a verdict: an instance
\* that lost its claim never moves the file its successor is still reading.
DisposedOnlySettled ==
  [][\A n \in Names : n \in input /\ n \notin input' => Settled(n)]_vars

\* Every delivered file gets a verdict, through crashes, takeovers and errors.
EventuallySettled == \A n \in Names : n \in input ~> Settled(n)

\* ... and, unless the disposition leaves sources in place, leaves the input area,
\* re-arrivals included.
EventuallyDisposed == \A n \in Names : setup.leaveMarked \/ (n \in input ~> n \notin input)

\* FileClaim implements the ledger it is meant to keep: instances, leases, stale
\* checks and retries are invisible there.
Ledger == INSTANCE FileLedger WITH
  present     <- input,
  delivered   <- {n \in Names : arrivals[n] > 0},
  recorded    <- [n \in Names |->
                    {r.uid : r \in {s \in pf : s.name = n /\ s.status = "DONE"}}],
  quarantined <- {n \in Names : AlreadyQuarantined(n)}

ImplementsLedger == Ledger!LedgerSafety

=============================================================================
