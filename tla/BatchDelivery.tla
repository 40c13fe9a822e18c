--------------------------- MODULE BatchDelivery ---------------------------
(***************************************************************************)
(* The consolidating path of the data plane: several instances group the   *)
(* files of one source into batches (internal/store/batch.go), and write   *)
(* every batch as one object per destination (internal/watcher/batch.go,   *)
(* internal/runner/batch.go).  A batch is resumed until every destination  *)
(* has its object; only then are its files recorded DONE.                  *)
(*                                                                         *)
(* One action is one database statement or transaction, one storage call,  *)
(* or one pass over the members in memory.  The claim of a file is reduced *)
(* to the handler that holds it: FileClaim shows that claim tokens tell    *)
(* handlers apart.  Completion markers are modelled there too.             *)
(***************************************************************************)
EXTENDS Integers, FiniteSets, Sequences

CONSTANTS
  Instances,     \* registered engine instances
  Names,         \* file names of the source, in the order they are listed
  BadNames,      \* those whose content may turn out never to decode
  LeaveMarked,   \* whether sources may stay in place (both dispositions, or one)
  Ages,          \* whether partial groups have an age limit (both settings, or one)
  Dests,         \* destinations of the pipeline
  MaxWorkers,    \* worker slots other sources leave to an instance (Watcher.sem)
  MaxFiles,      \* a batch holds at most so many files (BatchSpec.Files)
  MaxAttempts,   \* failures after which a batch is given up (maxBatchAttempts)
  MaxBatches,    \* bound on batches formed
  MaxArrivals,   \* bound on how often one name is delivered
  MaxFaults      \* bound on faults: errors, crashes, missed heartbeats

ASSUME BatchAssumption ==
  /\ Names \subseteq Nat /\ BadNames \subseteq Names
  /\ IsFiniteSet(Names) /\ IsFiniteSet(Dests)
  /\ LeaveMarked \subseteq BOOLEAN /\ Ages \subseteq BOOLEAN
  /\ MaxWorkers \in Nat
  /\ MaxFiles \in Nat \ {0} /\ MaxAttempts \in Nat \ {0}
  /\ MaxBatches \in Nat /\ MaxArrivals \in Nat /\ MaxFaults \in Nat

VARIABLES
  setup,     \* what the source is like; fixed from the start
  input,     \* names present in the input area
  objects,   \* output objects, each named by its destination's sequence number
  fc,        \* FC_FILE_CLAIM: who holds each name
  done,      \* the PF row that records a name DONE
  quar,      \* names with a QUARANTINED PF row
  bt,        \* BT_BATCH rows with their BF_BATCH_FILE rows, by BT_UID
  dl,        \* DL_DELIVERY rows, by BT_UID and destination
  dsq,       \* DSQ_DESTINATION_SEQUENCE
  scan,      \* the scanner of each instance
  w,         \* the batch worker of each instance for each batch
  arrivals,  \* how often each name was delivered (bounded by MaxArrivals)
  faults     \* how many faults happened (bounded by MaxFaults)

dbVars   == <<fc, done, quar, bt, dl, dsq>>
envVars  == <<setup, arrivals>>
vars == <<setup, input, objects, fc, done, quar, bt, dl, dsq, scan, w, arrivals, faults>>

-----------------------------------------------------------------------------
(* Types.                                                                  *)

Batches == 1..MaxBatches
Workers == Instances \X Batches

\* A claim nobody holds, and one whose handler is gone without releasing it.
Free     == <<>>
Orphaned == <<0>>
FcRow    == [by: Workers \cup {Free, Orphaned}, live: BOOLEAN]

\* bad: names whose content never decodes; leaveMarked: the source's disposition;
\* ages: MaxAgeSeconds is not 0.
Setup == [bad: SUBSET BadNames, leaveMarked: LeaveMarked, ages: Ages]

\* counted: the record counts of the members are persisted (BF_RECORDS_IN/OUT).
Batch == [identity: SUBSET Names, files: SUBSET Names, counted: BOOLEAN,
          attempts: 0..MaxAttempts, status: {"OPEN", "CLOSED", "ABANDONED"}]

\* The batch under which a file was recorded DONE.
DoneRow == 0..MaxBatches
NotDone == 0

\* files: the files whose records the object holds.
Object == [dest: Dests, seq: Nat, files: SUBSET Names]

Delivery   == [status: {"NONE", "PENDING", "DELIVERED", "FAILED"}, seq: Nat]
NoDelivery == [status |-> "NONE", seq |-> 0]

\* store.OpenBatch: what a scan saw of an open batch.
OpenBatch == [b: Batches, files: SUBSET Names, delivered: SUBSET Dests]

Scanner == [pc: {"idle", "open", "hydrate", "submit", "pinned", "form", "submitNew"},
            entries: SUBSET Names, open: SUBSET OpenBatch]
NoScan  == [pc |-> "idle", entries |-> {}, open |-> {}]

Running == {"encode", "count", "mark", "close", "dispose"}
Pc == Running \cup {"idle", "claim", "reserve", "touch", "abandon", "retire", "drop",
                    "dropFile", "quarantine", "moveQuar", "release"}

\* files, delivered: the OpenBatch the worker was given; gone: members its
\* listing did not show; names, dests: what is left to do; put: destinations whose
\* object was written; cancelled: procCtx.
Worker == [pc: Pc, files: SUBSET Names, delivered: SUBSET Dests,
           gone: SUBSET Names, names: SUBSET Names, dests: SUBSET Dests,
           put: SUBSET Dests, cancelled: BOOLEAN]
Idle == [pc |-> "idle", files |-> {}, delivered |-> {}, gone |-> {},
         names |-> {}, dests |-> {}, put |-> {}, cancelled |-> FALSE]

TypeOK ==
  /\ setup \in Setup
  /\ input \in SUBSET Names
  /\ objects \in SUBSET Object
  /\ fc \in [Names -> FcRow]
  /\ done \in [Names -> DoneRow]
  /\ quar \in SUBSET Names
  /\ bt \in Seq(Batch) /\ Len(bt) <= MaxBatches
  /\ dl \in [Batches -> [Dests -> Delivery]]
  /\ dsq \in [Dests -> Nat]
  /\ scan \in [Instances -> Scanner]
  /\ w \in [Instances -> [Batches -> Worker]]
  /\ arrivals \in [Names -> 0..MaxArrivals]
  /\ faults \in 0..MaxFaults

Init ==
  /\ setup \in Setup
  /\ input = {}
  /\ objects = {}
  /\ fc = [n \in Names |-> [by |-> Free, live |-> FALSE]]
  /\ done = [n \in Names |-> NotDone]
  /\ quar = {}
  /\ bt = <<>>
  /\ dl = [b \in Batches |-> [d \in Dests |-> NoDelivery]]
  /\ dsq = [d \in Dests |-> 0]
  /\ scan = [i \in Instances |-> NoScan]
  /\ w = [i \in Instances |-> [b \in Batches |-> Idle]]
  /\ arrivals = [n \in Names |-> 0]
  /\ faults = 0

-----------------------------------------------------------------------------
(* Helpers.                                                                *)

NoFault == UNCHANGED faults
Fault   == faults < MaxFaults /\ faults' = faults + 1

First(n, S) == n \in S /\ \A m \in S : n <= m

\* The up to MaxFiles oldest free files; ties go by name.
Oldest(S) == {n \in S : Cardinality({m \in S : m < n}) < MaxFiles}

IsDone(n) == done[n] # NotDone
Open      == {b \in 1..Len(bt) : bt[b].status = "OPEN"}
Held(n)   == fc[n].by # Free

DeliveredTo(b) == {d \in Dests : dl[b][d].status = "DELIVERED"}

At(i, b, l)      == w[i][b].pc = l
Become(i, b, x)  == w' = [w EXCEPT ![i][b] = x]
Goto(i, b, l)    == Become(i, b, [w[i][b] EXCEPT !.pc = l])
Leave(i, b, l)   == Become(i, b, [Idle EXCEPT !.pc = l])  \* nothing read is used again
Owns(i, b, n)    == fc[n].by = <<i, b>>
OwnsAll(i, b)    == \A n \in w[i][b].files : Owns(i, b, n)
Pending(i, b)    == Dests \ w[i][b].delivered
Cancelled(i, b)  == w[i][b].cancelled

\* A database call under procCtx: refused once the context is cancelled.
CallFails(i, b) == IF Cancelled(i, b) THEN NoFault ELSE Fault

-----------------------------------------------------------------------------
(* The environment.                                                        *)

Arrive(n) ==
  /\ n \notin input
  /\ arrivals[n] < MaxArrivals
  /\ input' = input \cup {n}
  /\ arrivals' = [arrivals EXCEPT ![n] = @ + 1]
  /\ UNCHANGED <<setup, objects, dbVars, scan, w, faults>>

-----------------------------------------------------------------------------
(* The scanner (Watcher.scanBatched): every read is a statement of its     *)
(* own, and what it saw may be stale when it is used.                      *)

ScanTo(i, x) == scan' = [scan EXCEPT ![i] = x]

\* A read failed: the scan is given up until the next tick.
ScanFails(i) ==
  /\ scan[i].pc \notin {"idle", "submitNew"}
  /\ scan[i].pc = "submit" => scan[i].open = {}
  /\ Fault
  /\ ScanTo(i, NoScan)
  /\ UNCHANGED <<envVars, input, objects, dbVars, w>>

ListInput(i) ==
  /\ scan[i].pc = "idle"
  /\ ScanTo(i, [NoScan EXCEPT !.pc = "open", !.entries = input])
  /\ UNCHANGED <<envVars, input, objects, dbVars, w, faults>>

\* The OPEN batches and their members; hydrateBatch reads the deliveries later.
ListOpenBatches(i) ==
  /\ scan[i].pc = "open"
  /\ LET seen == {[b |-> b, files |-> bt[b].files, delivered |-> {}] : b \in Open}
     IN  ScanTo(i, [scan[i] EXCEPT !.pc = IF seen = {} THEN "submit" ELSE "hydrate",
                                   !.open = seen])
  /\ UNCHANGED <<envVars, input, objects, dbVars, w, faults>>

Hydrated(o) == [o EXCEPT !.delivered = DeliveredTo(o.b)]

HydrateDeliveries(i) ==
  /\ scan[i].pc = "hydrate"
  /\ ScanTo(i, [scan[i] EXCEPT !.pc = "submit", !.open = {Hydrated(o) : o \in @}])
  /\ UNCHANGED <<envVars, input, objects, dbVars, w, faults>>

\* This instance is running a batch of the same identity.
InFlight(i, b) ==
  \E c \in 1..Len(bt) : ~At(i, c, "idle") /\ bt[c].identity = bt[b].identity

\* submitBatch hands a batch to a worker as soon as a slot is free, with the snapshot
\* as old as it is; one of an identity in flight is skipped.
Submit(i, o) ==
  \/ InFlight(i, o.b) /\ UNCHANGED w
  \/ /\ ~InFlight(i, o.b)
     /\ Cardinality({b \in Batches : ~At(i, b, "idle")}) < MaxWorkers
     /\ Become(i, o.b, [Idle EXCEPT !.pc = "claim", !.files = o.files, !.names = o.files,
                                    !.delivered = o.delivered,
                                    !.gone = o.files \ scan[i].entries])

\* Open batches are resumed first, oldest first ...
Resume(i) ==
  /\ scan[i].pc = "submit"
  /\ \E o \in scan[i].open :
       /\ \A p \in scan[i].open : o.b <= p.b
       /\ Submit(i, o)
       /\ ScanTo(i, [scan[i] EXCEPT !.open = @ \ {o}])
  /\ UNCHANGED <<envVars, input, objects, dbVars, faults>>

\* ... and a batch just formed comes last.
SubmitNew(i) ==
  /\ scan[i].pc = "submitNew"
  /\ \E o \in scan[i].open : Submit(i, o)
  /\ ScanTo(i, NoScan)
  /\ UNCHANGED <<envVars, input, objects, dbVars, faults>>

\* Files already pinned into an open batch are not free ...
BatchedFileNames(i) ==
  /\ scan[i].pc = "submit"
  /\ scan[i].open = {}
  /\ ScanTo(i, [scan[i] EXCEPT !.pc = "pinned",
                               !.entries = @ \ UNION {bt[b].files : b \in Open}])
  /\ UNCHANGED <<envVars, input, objects, dbVars, w, faults>>

\* Mutant: the re-arrival guard looks at quarantined files only.
SettledQuarantined == quar

Settled == {n \in Names : IsDone(n)} \cup quar

\* ... nor are files that already have a verdict.
SettledFileNames(i) ==
  /\ scan[i].pc = "pinned"
  /\ LET free == scan[i].entries \ Settled
     IN  ScanTo(i, IF free = {} THEN NoScan
                   ELSE [scan[i] EXCEPT !.pc = "form", !.entries = free])
  /\ UNCHANGED <<envVars, input, objects, dbVars, w, faults>>

Full(files) == Cardinality(files) >= MaxFiles

\* A partial group waits until its oldest file has aged, or, without an age limit, until
\* it is full.  At the bound MaxBatches no group is admitted.
StillFilling(i) ==
  /\ scan[i].pc = "form"
  /\ ~Full(scan[i].entries) \/ Len(bt) = MaxBatches
  /\ ScanTo(i, NoScan)
  /\ UNCHANGED <<envVars, input, objects, dbVars, w, faults>>

\* Mutant: nothing is checked under the source's advisory lock.
NeverOverlaps(files) == FALSE

Overlaps(files) == \E b \in Open : bt[b].files \cap files # {}

NewBatch(files) == [identity |-> files, files |-> files, counted |-> FALSE,
                    attempts |-> 0, status |-> "OPEN"]

\* PG.FormBatch, serialized per source: refuse an overlap, resume an open batch of
\* the same identity, or insert.  What it does not look at is whether a file was
\* recorded since SettledFileNames was read.
FormBatch(i) ==
  LET files   == Oldest(scan[i].entries)
      same    == {b \in Open : bt[b].identity = files}
      fresh   == [b |-> Len(bt) + 1, files |-> files, delivered |-> {}]
      hand(o) == ScanTo(i, [scan[i] EXCEPT !.pc = "submitNew", !.open = {o}])
  IN
  /\ scan[i].pc = "form" /\ (Full(scan[i].entries) \/ setup.ages)
  /\ \/ Overlaps(files) /\ NoFault /\ ScanTo(i, NoScan) /\ UNCHANGED bt
     \/ /\ ~Overlaps(files) /\ NoFault /\ UNCHANGED bt
        /\ \E b \in same : hand([b |-> b, files |-> bt[b].files, delivered |-> DeliveredTo(b)])
     \/ /\ ~Overlaps(files) /\ same = {} /\ Len(bt) < MaxBatches
        /\ bt' = Append(bt, NewBatch(files))
        /\ \/ NoFault /\ hand(fresh)
           \/ Fault /\ ScanTo(i, NoScan)
  /\ UNCHANGED <<envVars, input, objects, fc, done, quar, dl, dsq, w>>

-----------------------------------------------------------------------------
(* The claims of all members (Watcher.handleBatch).                        *)

\* Releasing is fenced: it touches only the rows this worker still holds.
Released(i, b) == [n \in Names |-> IF Owns(i, b, n) THEN [by |-> Free, live |-> FALSE]
                                   ELSE fc[n]]

\* Mutant: a claim is never taken over.
NeverTakenOver(n) == ~Held(n)

Claimable(n) == ~Held(n) \/ ~fc[n].live

\* ClaimFile and NextFileUID for the next member.  A member that is missing from
\* the listing ends the attempt; so does one that another handler holds.
ClaimMember(i, b) ==
  \E n \in Names :
  LET rest == w[i][b].names \ {n} IN
  /\ At(i, b, "claim")
  /\ First(n, w[i][b].names)
  /\ \/ /\ n \in w[i][b].gone /\ NoFault
        /\ fc' = Released(i, b)
        /\ Leave(i, b, "touch")
     \/ /\ n \notin w[i][b].gone /\ Claimable(n) /\ NoFault
        /\ fc' = [fc EXCEPT ![n] = [by |-> <<i, b>>, live |-> TRUE]]
        /\ Become(i, b, [w[i][b] EXCEPT !.names = rest,
                                        !.pc = IF rest = {} THEN "reserve" ELSE @,
                                        !.dests = IF rest = {} THEN Dests ELSE @])
     \/ /\ n \notin w[i][b].gone /\ ~Claimable(n) /\ NoFault
        /\ Leave(i, b, "release") /\ UNCHANGED fc
     \/ n \notin w[i][b].gone /\ Fault /\ Leave(i, b, "release") /\ UNCHANGED fc
  /\ UNCHANGED <<envVars, input, objects, done, quar, bt, dl, dsq, scan>>

\* A batch without members ends at once.
NoMembers(i, b) ==
  /\ At(i, b, "claim")
  /\ w[i][b].names = {}
  /\ Become(i, b, Idle)
  /\ UNCHANGED <<envVars, input, objects, dbVars, scan, faults>>

\* Mutant: every attempt takes a new sequence number.
ReserveAnew(b, d) == TRUE

\* There is no delivery row yet for this destination and batch.
MustReserve(b, d) == dl[b][d].seq = 0

\* PG.ReserveDelivery: the sequence number is taken once per destination and batch.
ReserveDelivery(i, b) ==
  /\ At(i, b, "reserve")
  /\ \/ \E d \in w[i][b].dests :
          /\ NoFault
          /\ IF MustReserve(b, d)
               THEN /\ dsq' = [dsq EXCEPT ![d] = @ + 1]
                    /\ dl' = [dl EXCEPT ![b][d] = [status |-> "PENDING", seq |-> dsq'[d]]]
               ELSE UNCHANGED <<dl, dsq>>
          /\ LET rest == w[i][b].dests \ {d}
                 next == IF Pending(i, b) = {} THEN "close" ELSE "encode"
             IN  Become(i, b, [w[i][b] EXCEPT !.dests = rest,
                                              !.pc = IF rest = {} THEN next ELSE @])
     \/ Fault /\ Leave(i, b, "release") /\ UNCHANGED <<dl, dsq>>
  /\ UNCHANGED <<envVars, input, objects, fc, done, quar, bt, scan>>

-----------------------------------------------------------------------------
(* The leases while the batch runs (startBatchHeartbeat).                  *)

Heartbeat(i, b) ==
  /\ w[i][b].pc \in Running
  /\ ~Cancelled(i, b)
  /\ \/ /\ OwnsAll(i, b)
        /\ fc' = [n \in Names |-> IF n \in w[i][b].files THEN [fc[n] EXCEPT !.live = TRUE]
                                  ELSE fc[n]]
        /\ UNCHANGED w
     \/ /\ ~OwnsAll(i, b)
        /\ Become(i, b, [w[i][b] EXCEPT !.cancelled = TRUE])
        /\ UNCHANGED fc
  /\ UNCHANGED <<envVars, input, objects, done, quar, bt, dl, dsq, scan, faults>>

\* The lease of a handler that is gone runs out; one that is being worked under runs
\* out only when the worker is slower than a lease, or its heartbeats fail.
LeaseExpire(n) ==
  /\ Held(n) /\ fc[n].live
  /\ IF fc[n].by = Orphaned THEN NoFault ELSE Fault
  /\ fc' = [fc EXCEPT ![n].live = FALSE]
  /\ UNCHANGED <<envVars, input, objects, done, quar, bt, dl, dsq, scan, w>>

\* MaxProcessing elapses.
Timeout(i, b) ==
  /\ w[i][b].pc \in Running
  /\ ~Cancelled(i, b)
  /\ Fault
  /\ Become(i, b, [w[i][b] EXCEPT !.cancelled = TRUE])
  /\ UNCHANGED <<envVars, input, objects, dbVars, scan>>

-----------------------------------------------------------------------------
(* Writing the batch (Runner.ProcessBatch).                                *)

\* The objects of some pending destinations become visible, each under the name
\* that carries its reserved sequence number; Put replaces what had that name.
Published(i, b, dests, files) ==
  {o \in objects : ~(o.dest \in dests /\ o.seq = dl[b][o.dest].seq)}
    \cup {[dest |-> d, seq |-> dl[b][d].seq, files |-> files] : d \in dests}

\* Mutant: pipes are closed cleanly although the batch failed to decode.
PublishedPartly(i, b, n) ==
  Published(i, b, Pending(i, b), {m \in w[i][b].files : m < n})

\* A failed decode aborts every destination's pipe: nothing is published.
Aborted(i, b, n) == objects

\* One pass over the members in order, fanned out to the pending destinations,
\* each of which succeeds or fails on its own.
Encode(i, b) ==
  LET files   == w[i][b].files
      trouble == {n \in files : n \notin input \/ n \in setup.bad}
  IN
  /\ At(i, b, "encode")
  /\ \/ /\ ~Cancelled(i, b) /\ trouble = {}
        /\ \E put \in SUBSET Pending(i, b) :
             /\ IF put = Pending(i, b) THEN NoFault ELSE Fault
             /\ objects' = Published(i, b, put, files)
             /\ Become(i, b, [w[i][b] EXCEPT !.pc = "count", !.put = put])
     \/ \E n \in files :
          /\ ~Cancelled(i, b) /\ First(n, trouble) /\ NoFault
          /\ objects' = Aborted(i, b, n)
          /\ Become(i, b, IF n \notin input THEN [Idle EXCEPT !.pc = "touch"]
                          ELSE [Idle EXCEPT !.pc = "drop", !.names = {n}])
     \/ CallFails(i, b) /\ Leave(i, b, "touch") /\ UNCHANGED objects
  /\ UNCHANGED <<envVars, input, dbVars, scan>>

\* Mutant: the counts of the members are not persisted.
NotCounted(b) == bt

Counted(b) == [bt EXCEPT ![b].counted = TRUE]

\* The counts are persisted before any delivery is marked.
RecordBatchContributions(i, b) ==
  /\ At(i, b, "count")
  /\ \/ /\ ~Cancelled(i, b) /\ NoFault
        /\ bt' = Counted(b)
        /\ Become(i, b, [w[i][b] EXCEPT !.pc = "mark", !.dests = Pending(i, b)])
     \/ CallFails(i, b) /\ Leave(i, b, "touch") /\ UNCHANGED bt
  /\ UNCHANGED <<envVars, input, objects, fc, done, quar, dl, dsq, scan>>

SetStatus(b, d, s) == dl' = [dl EXCEPT ![b][d].status = s]

\* Mutant: a destination's failure does not keep the batch open.
AllPut(i, b) == TRUE

\* No destination failed in this attempt.
NoneFailed(i, b) == w[i][b].put = Pending(i, b)

\* One destination is marked.  MarkDelivered has no guard; MarkDeliveryFailed leaves
\* a delivered row alone, and its own failure is only logged.
MarkDelivery(i, b) ==
  /\ At(i, b, "mark")
  /\ \/ \E d \in w[i][b].dests :
          LET rest == w[i][b].dests \ {d}
              x    == [w[i][b] EXCEPT !.dests = rest]
          IN
          /\ NoFault
          /\ \/ d \in w[i][b].put /\ ~Cancelled(i, b) /\ SetStatus(b, d, "DELIVERED")
             \/ /\ d \notin w[i][b].put
                /\ IF dl[b][d].status = "DELIVERED" \/ Cancelled(i, b)
                     THEN UNCHANGED dl
                     ELSE SetStatus(b, d, "PENDING")
          /\ Become(i, b, IF rest # {} THEN x
                          ELSE IF NoneFailed(i, b) THEN [x EXCEPT !.pc = "close", !.put = {}]
                          ELSE [Idle EXCEPT !.pc = "touch"])
     \/ /\ w[i][b].dests \cap w[i][b].put # {}
        /\ CallFails(i, b) /\ Leave(i, b, "touch") /\ UNCHANGED dl
  /\ UNCHANGED <<envVars, input, objects, fc, done, quar, bt, dsq, scan>>

\* PG.CloseBatch, the commit point: all claims still held and no member recorded
\* before.  The batch row itself is updated whatever its status.
CloseBatch(i, b) ==
  LET files  == w[i][b].files
      commit ==
        /\ OwnsAll(i, b) /\ \A n \in files : ~IsDone(n)
        /\ done' = [n \in Names |-> IF n \in files THEN b ELSE done[n]]
        /\ fc' = Released(i, b)
        /\ bt' = [bt EXCEPT ![b].status = "CLOSED"]
  IN
  /\ At(i, b, "close")
  /\ \/ ~Cancelled(i, b) /\ NoFault /\ commit /\ Goto(i, b, "dispose")
     \/ ~Cancelled(i, b) /\ Fault /\ commit /\ Leave(i, b, "touch")
     \/ /\ ~Cancelled(i, b) /\ NoFault
        /\ ~OwnsAll(i, b) \/ \E n \in files : IsDone(n)
        /\ Leave(i, b, "release") /\ UNCHANGED <<done, fc, bt>>
     \/ CallFails(i, b) /\ Leave(i, b, "touch") /\ UNCHANGED <<done, fc, bt>>
  /\ UNCHANGED <<envVars, input, objects, quar, dl, dsq, scan>>

\* disposeSource for every member; a failure is only logged, and a cancelled context
\* may fail them all.
DisposeSources(i, b) ==
  /\ At(i, b, "dispose")
  /\ \E kept \in SUBSET w[i][b].files :
       /\ IF kept = {} \/ setup.leaveMarked THEN NoFault ELSE CallFails(i, b)
       /\ input' = IF setup.leaveMarked THEN input ELSE input \ (w[i][b].files \ kept)
  /\ Leave(i, b, "release")
  /\ UNCHANGED <<envVars, objects, dbVars, scan>>

-----------------------------------------------------------------------------
(* After a failed attempt (the switch of handleBatch, quarantineMember).   *)

AtMost(m, k) == IF m < k THEN m ELSE k

\* The attempt is counted; attempts beyond MaxAttempts are not told apart.
TouchBatchAttempt(i, b) ==
  /\ At(i, b, "touch")
  /\ \/ /\ NoFault
        /\ bt' = [bt EXCEPT ![b].attempts = AtMost(@ + 1, MaxAttempts)]
        /\ Leave(i, b, IF bt'[b].attempts = MaxAttempts THEN "abandon" ELSE "release")
     \/ Fault /\ Leave(i, b, "release") /\ UNCHANGED bt
  /\ UNCHANGED <<envVars, input, objects, fc, done, quar, dl, dsq, scan>>

Undelivered(b) == DeliveredTo(b) = {}

\* PG.AbandonBatch, its check: a batch some destination holds is not abandoned.
AbandonCheck(i, b) ==
  /\ At(i, b, "abandon")
  /\ \/ Undelivered(b) /\ NoFault /\ Leave(i, b, "retire")
     \/ ~Undelivered(b) /\ NoFault /\ Leave(i, b, "release")
     \/ Fault /\ Leave(i, b, "release")
  /\ UNCHANGED <<envVars, input, objects, dbVars, scan>>

\* Mutants: the rows get the batch's status; abandoning overwrites delivered rows.
AllAbandoned(b) == [d \in Dests |-> [dl[b][d] EXCEPT !.status = "ABANDONED"]]
AllFailed(b) == [d \in Dests |-> IF dl[b][d].seq = 0 THEN dl[b][d]
                                 ELSE [dl[b][d] EXCEPT !.status = "FAILED"]]

\* The reserved numbers of an abandoned batch are burnt, visibly.
RestFailed(b) ==
  [d \in Dests |-> IF dl[b][d].status \in {"NONE", "DELIVERED"} THEN dl[b][d]
                   ELSE [dl[b][d] EXCEPT !.status = "FAILED"]]

\* ... and its transaction, which repeats the check for the delivery rows only.
AbandonBatch(i, b) ==
  /\ At(i, b, "retire")
  /\ Leave(i, b, "release")
  /\ \/ /\ NoFault
        /\ dl' = [dl EXCEPT ![b] = RestFailed(b)]
        /\ bt' = [bt EXCEPT ![b].status = "ABANDONED"]
     \/ Fault /\ UNCHANGED <<dl, bt>>
  /\ UNCHANGED <<envVars, input, objects, fc, done, quar, dsq, scan>>

\* PG.DropBatchFile: refused once a destination was served; a count, then a delete.
DropCheck(i, b) ==
  /\ At(i, b, "drop")
  /\ \/ Undelivered(b) /\ NoFault /\ Goto(i, b, "dropFile")
     \/ ~Undelivered(b) /\ NoFault /\ Leave(i, b, "abandon")
     \/ Fault /\ Leave(i, b, "abandon")
  /\ UNCHANGED <<envVars, input, objects, dbVars, scan>>

DropBatchFile(i, b) ==
  /\ At(i, b, "dropFile")
  /\ \/ /\ NoFault
        /\ bt' = [bt EXCEPT ![b].files = @ \ w[i][b].names]
        /\ Goto(i, b, "quarantine")
     \/ Fault /\ Leave(i, b, "abandon") /\ UNCHANGED bt
  /\ UNCHANGED <<envVars, input, objects, fc, done, quar, dl, dsq, scan>>

\* PG.QuarantineFile under the member's own claim, then the source moves away; the
\* batch is retired whatever came of it.
QuarantineMember(i, b) == \E n \in w[i][b].names :
  /\ At(i, b, "quarantine")
  /\ \/ /\ Owns(i, b, n) /\ NoFault
        /\ quar' = quar \cup {n}
        /\ fc' = [fc EXCEPT ![n] = [by |-> Free, live |-> FALSE]]
        /\ Goto(i, b, "moveQuar")
     \/ ~Owns(i, b, n) /\ NoFault /\ Leave(i, b, "abandon") /\ UNCHANGED <<quar, fc>>
     \/ Fault /\ Leave(i, b, "abandon") /\ UNCHANGED <<quar, fc>>
  /\ UNCHANGED <<envVars, input, objects, done, bt, dl, dsq, scan>>

MoveQuarantined(i, b) ==
  /\ At(i, b, "moveQuar")
  /\ \/ NoFault /\ input' = input \ w[i][b].names
     \/ Fault /\ UNCHANGED input
  /\ Leave(i, b, "abandon")
  /\ UNCHANGED <<envVars, objects, dbVars, scan>>

\* releaseAll, and the end of the worker.  A claim that could not be released is left
\* to its lease.
ReleaseAll(i, b) ==
  /\ At(i, b, "release")
  /\ \/ NoFault /\ fc' = Released(i, b)
     \/ /\ Fault
        /\ fc' = [n \in Names |-> IF Owns(i, b, n) THEN [fc[n] EXCEPT !.by = Orphaned]
                                  ELSE fc[n]]
  /\ Become(i, b, Idle)
  /\ UNCHANGED <<envVars, input, objects, done, quar, bt, dl, dsq, scan>>

\* The process dies; its claims are held until their leases run out.
Crash(i) ==
  /\ Fault
  /\ scan[i] # NoScan \/ \E b \in Batches : ~At(i, b, "idle")
  /\ scan' = [scan EXCEPT ![i] = NoScan]
  /\ w' = [w EXCEPT ![i] = [b \in Batches |-> Idle]]
  /\ fc' = [n \in Names |-> IF \E b \in Batches : Owns(i, b, n)
                              THEN [fc[n] EXCEPT !.by = Orphaned] ELSE fc[n]]
  /\ UNCHANGED <<envVars, input, objects, done, quar, bt, dl, dsq>>

-----------------------------------------------------------------------------

Scan(i) ==
  \/ ListInput(i) \/ ListOpenBatches(i) \/ HydrateDeliveries(i) \/ Resume(i)
  \/ BatchedFileNames(i) \/ SettledFileNames(i) \/ StillFilling(i) \/ FormBatch(i)
  \/ SubmitNew(i)

HandleBatch(i, b) ==
  \/ ClaimMember(i, b) \/ NoMembers(i, b) \/ ReserveDelivery(i, b)
  \/ Encode(i, b) \/ RecordBatchContributions(i, b) \/ MarkDelivery(i, b)
  \/ CloseBatch(i, b) \/ DisposeSources(i, b)
  \/ TouchBatchAttempt(i, b) \/ AbandonCheck(i, b) \/ AbandonBatch(i, b)
  \/ DropCheck(i, b) \/ DropBatchFile(i, b) \/ QuarantineMember(i, b)
  \/ MoveQuarantined(i, b) \/ ReleaseAll(i, b)

Next ==
  \/ \E n \in Names : Arrive(n) \/ LeaseExpire(n)
  \/ \E i \in Instances : Scan(i) \/ ScanFails(i) \/ Crash(i)
  \/ \E i \in Instances, b \in Batches :
       HandleBatch(i, b) \/ Heartbeat(i, b) \/ Timeout(i, b)

Spec == Init /\ [][Next]_vars

\* The ticker keeps scanning, workers keep going, an untended lease runs out, and where
\* there is an age limit a partial group does not stay young: one that is offered again
\* and again is formed.
Fairness ==
  /\ \A i \in Instances : WF_vars(Scan(i)) /\ SF_vars(FormBatch(i))
  /\ \A i \in Instances, b \in Batches :
       WF_vars(HandleBatch(i, b)) /\ WF_vars(Heartbeat(i, b))
  /\ \A n \in Names : WF_vars(fc[n].by = Orphaned /\ LeaseExpire(n))

FairSpec == Spec /\ Fairness

-----------------------------------------------------------------------------
(* Properties.                                                             *)

IsDelivered(b, d) == dl[b][d].status = "DELIVERED"

\* The objects published at destination d under the number of batch b.
ObjectsOf(b, d) == {o \in objects : o.dest = d /\ o.seq = dl[b][d].seq}

Everywhere(n) ==
  \A d \in Dests : /\ IsDelivered(done[n], d)
                   /\ \E o \in ObjectsOf(done[n], d) : n \in o.files

\* A file that can be decoded is DONE only when every destination holds an object with
\* its records (BR-COL-009): CloseBatch, resumes and partial failures included.
DoneIsEverywhere ==
  \A n \in Names : IsDone(n) /\ n \notin setup.bad => Everywhere(n)

\* Once a destination was served, the counts of the members are in the database: a
\* resumed commit, which decodes nothing, can find them (RecordBatchContributions
\* before MarkDelivered).
DeliveredHasCounts ==
  \A b \in 1..Len(bt) : DeliveredTo(b) # {} => bt[b].counted

\* An object holds all members of its batch or does not exist: a destination never
\* gets the part that was decoded before a failure (the abort in ProcessBatch).
NoPartialObject ==
  \A d \in Dests, b \in 1..Len(bt) : \A o \in ObjectsOf(b, d) : o.files = bt[b].files

\* Every number a destination's sequence has reached belongs to exactly one batch,
\* and one without a delivered object to a batch that is still open or was given up:
\* a gap downstream never means a failed attempt (ReserveDelivery, BR-DST-011).
SequenceExplained ==
  \A d \in Dests : \A s \in 1..dsq[d] :
    \E b \in 1..Len(bt) :
      /\ {c \in Batches : dl[c][d].seq = s} = {b}
      /\ IsDelivered(b, d) \/ bt[b].status \in {"OPEN", "ABANDONED"}

\* No file is a member of two open batches, however the listings of two instances
\* differ (the advisory lock and the overlap check of FormBatch).
OneOpenBatch ==
  \A b, c \in Open : b # c => bt[b].files \cap bt[c].files = {}

\* A delivery once recorded stays recorded, under its sequence number: no retry,
\* failure or abandonment takes it back.
DeliveredForGood ==
  [][\A b \in Batches, d \in Dests :
       IsDelivered(b, d) => dl'[b][d] = dl[b][d]]_vars

Holders(n, d) ==
  {b \in 1..Len(bt) : IsDelivered(b, d) /\ \E o \in ObjectsOf(b, d) : n \in o.files}

\* With one instance, batches that were not given up (no member dropped, attempts
\* left) never deliver a file to a destination twice: the pinned and settled reads of
\* scanBatched and the stale snapshots it submits are enough for that.
KeptBatchesDisjoint ==
  \A n \in Names, d \in Dests : \A b, c \in Holders(n, d) :
    /\ bt[b].files = bt[b].identity /\ bt[b].attempts < MaxAttempts
    /\ bt[c].files = bt[c].identity /\ bt[c].attempts < MaxAttempts
    => b = c

\* The files a scan may group: neither pinned in an open batch nor settled.
Loose == input \ (Settled \cup UNION {bt[b].files : b \in Open})

\* Without an age limit the files left over are too few for a group.
WaitsForCompany(n) == ~setup.ages /\ n \in Loose /\ ~Full(Loose)

\* Every file that can be decoded is recorded DONE, through crashes and failing
\* destinations, even in the company of one that cannot; unless there is no age limit
\* and from some time on it waits in the input area for a group to fill (scanBatched's
\* admission delay).
GoodFilesDelivered ==
  \A n \in Names :
    n \in input /\ n \notin setup.bad ~> (IsDone(n) \/ []WaitsForCompany(n))

-----------------------------------------------------------------------------
(* Statements of the repository's documentation that the code breaks.      *)

\* runner/batch.go: "The contributing files are committed as DONE only when every
\* destination has delivered".
DoneOnlyDelivered == \A n \in Names : IsDone(n) => Everywhere(n)

\* watcher/batch.go: a bad member "is quarantined on its own claim", "nor stalled
\* forever by a file that will never parse".
BadFilesQuarantined ==
  \A n \in Names : n \in input /\ n \in setup.bad ~> n \in quar

\* watcher/batch.go: a settled file is never batched again, "or its records would be
\* delivered to every destination a second time".
NoDoubleDelivery == \A n \in Names, d \in Dests : Cardinality(Holders(n, d)) <= 1

=============================================================================
