------------------------- MODULE BatchDelivery_proofs -------------------------
(***************************************************************************)
(* Theorems about BatchDelivery, for any number of instances, files,       *)
(* destinations, batches and faults; the last one is about one instance.   *)
(***************************************************************************)
EXTENDS BatchDelivery, TLAPS, SequenceTheorems

-----------------------------------------------------------------------------
(* Small facts.                                                            *)

LEMMA FaultType ==
  ASSUME faults \in 0..MaxFaults, Fault \/ NoFault
  PROVE  faults' \in 0..MaxFaults
  BY BatchAssumption DEF Fault, NoFault

LEMMA CallType ==
  ASSUME NEW i, NEW b, CallFails(i, b)
  PROVE  Fault \/ NoFault
  BY DEF CallFails

\* One batch row is rewritten; a row that does not exist is not.
LEMMA RowType ==
  ASSUME TypeOK, NEW b \in Batches, NEW r,
         b \in 1..Len(bt) => r \in Batch,
         bt' = [bt EXCEPT ![b] = r]
  PROVE  /\ bt' \in Seq(Batch) /\ Len(bt') = Len(bt)
         /\ \A c \in 1..Len(bt) : bt'[c] = IF c = b THEN r ELSE bt[c]
  <1>1. CASE b \in 1..Len(bt)
    BY <1>1, ExceptSeq DEF TypeOK
  <1>2. CASE b \notin 1..Len(bt)
    <2>1. bt \in Seq(Batch) /\ DOMAIN bt = 1..Len(bt)
      BY LenProperties DEF TypeOK
    <2>2. bt' = bt
      BY <1>2, <2>1
    <2>3. QED
      BY <1>2, <2>1, <2>2
  <1>3. QED
    BY <1>1, <1>2

\* ... and the fields that are rewritten keep their types.
LEMMA RowRewrites ==
  ASSUME TypeOK, NEW b \in 1..Len(bt)
  PROVE  /\ bt[b] \in Batch
         /\ [bt[b] EXCEPT !.counted = TRUE] \in Batch
         /\ \A s \in {"OPEN", "CLOSED", "ABANDONED"} : [bt[b] EXCEPT !.status = s] \in Batch
         /\ \A a \in 0..MaxAttempts : [bt[b] EXCEPT !.attempts = a] \in Batch
         /\ \A S : [bt[b] EXCEPT !.files = @ \ S] \in Batch
  <1>1. bt[b] \in Batch
    BY ElementOfSeq DEF TypeOK
  <1>2. QED
    BY <1>1 DEF Batch

LEMMA DeliveryCell ==
  ASSUME TypeOK, NEW b \in Batches, NEW d \in Dests,
         NEW s \in {"PENDING", "DELIVERED", "FAILED"}
  PROVE  dl[b][d] \in Delivery /\ [dl[b][d] EXCEPT !.status = s] \in Delivery
  <1>1. dl[b][d] \in Delivery
    BY DEF TypeOK
  <1>2. QED
    BY <1>1 DEF Delivery

-----------------------------------------------------------------------------
(* Type correctness.                                                       *)

LEMMA IdleType == Idle \in Worker /\ NoScan \in Scanner
  BY DEF Idle, NoScan, Worker, Scanner, Pc

\* An action rewrites one worker and leaves every other one alone.
LEMMA BecomeType ==
  ASSUME TypeOK, NEW i \in Instances, NEW b \in Batches, NEW x \in Worker, Become(i, b, x)
  PROVE  /\ w' \in [Instances -> [Batches -> Worker]]
         /\ w'[i][b] = x
         /\ \A j \in Instances, c \in Batches : j # i \/ c # b => w'[j][c] = w[j][c]
  BY DEF TypeOK, Become

LEMMA LeaveType ==
  ASSUME TypeOK, NEW i \in Instances, NEW b \in Batches, NEW l \in Pc, Leave(i, b, l)
  PROVE  w' \in [Instances -> [Batches -> Worker]]
  <1>1. [Idle EXCEPT !.pc = l] \in Worker
    BY IdleType DEF Worker
  <1>2. QED
    BY <1>1, BecomeType DEF Leave

LEMMA GotoType ==
  ASSUME TypeOK, NEW i \in Instances, NEW b \in Batches, NEW l \in Pc, Goto(i, b, l)
  PROVE  w' \in [Instances -> [Batches -> Worker]]
  <1>1. w[i][b] \in Worker
    BY DEF TypeOK
  <1>2. [w[i][b] EXCEPT !.pc = l] \in Worker
    BY <1>1 DEF Worker
  <1>3. QED
    BY <1>2, BecomeType DEF Goto

LEMMA ScanToType ==
  ASSUME TypeOK, NEW i \in Instances, NEW x \in Scanner, ScanTo(i, x)
  PROVE  scan' \in [Instances -> Scanner]
  BY DEF TypeOK, ScanTo

LEMMA SubmitType ==
  ASSUME TypeOK, NEW i \in Instances, NEW o \in OpenBatch, Submit(i, o)
  PROVE  w' \in [Instances -> [Batches -> Worker]]
  <1>1. CASE UNCHANGED w
    BY <1>1 DEF TypeOK
  <1> DEFINE x == [Idle EXCEPT !.pc = "claim", !.files = o.files, !.names = o.files,
                               !.delivered = o.delivered,
                               !.gone = o.files \ scan[i].entries]
  <1>2. CASE Become(i, o.b, x)
    <2>1. o.b \in Batches /\ o.files \subseteq Names /\ o.delivered \subseteq Dests
      BY DEF OpenBatch
    <2>2. x \in Worker
      BY <2>1 DEF Worker, Idle, Pc
    <2>3. QED
      BY <1>2, <2>1, <2>2, BecomeType
  <1>3. QED
    BY <1>1, <1>2 DEF Submit

LEMMA ReleasedType ==
  ASSUME TypeOK, NEW i \in Instances, NEW b \in Batches
  PROVE  Released(i, b) \in [Names -> FcRow]
  BY DEF TypeOK, Released, FcRow

\* The scanner: what it reads and keeps has its type.
LEMMA ScanType ==
  ASSUME TypeOK, NEW i \in Instances, Scan(i) \/ ScanFails(i)
  PROVE  TypeOK'
  <1> USE DEF TypeOK
  <1> DEFINE x == scan[i]
  <1>0. x \in Scanner /\ x.entries \subseteq Names /\ x.open \subseteq OpenBatch
    BY DEF Scanner
  <1>1. ASSUME scan' \in [Instances -> Scanner], faults' \in 0..MaxFaults,
               UNCHANGED <<envVars, input, objects, dbVars, w>>
        PROVE  TypeOK'
    BY <1>1 DEF envVars, dbVars
  <1>2. ASSUME NEW y \in Scanner, ScanTo(i, y), Fault \/ NoFault,
               UNCHANGED <<envVars, input, objects, dbVars, w>>
        PROVE  TypeOK'
    BY <1>1, <1>2, ScanToType, FaultType
  <1>3. CASE ScanFails(i)
    BY <1>2, <1>3, IdleType DEF ScanFails
  <1>4. CASE ListInput(i)
    <2>1. [NoScan EXCEPT !.pc = "open", !.entries = input] \in Scanner
      BY DEF NoScan, Scanner
    <2>2. QED
      BY <1>2, <1>4, <2>1 DEF ListInput, NoFault
  <1>5. CASE ListOpenBatches(i)
    <2> DEFINE seen == {[b |-> b, files |-> bt[b].files, delivered |-> {}] : b \in Open}
    <2>1. seen \subseteq OpenBatch
      <3>1. \A b \in Open : b \in Batches /\ bt[b].files \subseteq Names
        <4>1. ASSUME NEW b \in Open PROVE b \in Batches /\ bt[b] \in Batch
          BY ElementOfSeq, BatchAssumption DEF Open, Batches
        <4>2. QED
          BY <4>1 DEF Batch
      <3>2. QED
        BY <3>1 DEF OpenBatch
    <2>2. [x EXCEPT !.pc = IF seen = {} THEN "submit" ELSE "hydrate", !.open = seen]
            \in Scanner
      BY <1>0, <2>1 DEF Scanner
    <2>3. QED
      BY <1>2, <1>5, <2>2 DEF ListOpenBatches, NoFault
  <1>6. CASE HydrateDeliveries(i)
    <2>1. \A o \in x.open : Hydrated(o) \in OpenBatch
      BY <1>0 DEF Hydrated, OpenBatch, DeliveredTo
    <2>2. [x EXCEPT !.pc = "submit", !.open = {Hydrated(o) : o \in @}] \in Scanner
      <3> DEFINE hydrated == {Hydrated(o) : o \in x.open}
      <3>1. hydrated \subseteq OpenBatch
        BY <2>1
      <3>2. ASSUME NEW open, open \subseteq OpenBatch
            PROVE  [x EXCEPT !.pc = "submit", !.open = open] \in Scanner
        BY <1>0, <3>2 DEF Scanner
      <3>3. [x EXCEPT !.pc = "submit", !.open = hydrated] \in Scanner
        BY <3>1, <3>2
      <3>4. QED
        BY <3>3
    <2>3. QED
      BY <1>2, <1>6, <2>2 DEF HydrateDeliveries, NoFault
  <1>7. CASE Resume(i)
    <2>1. PICK o \in x.open : /\ Submit(i, o)
                              /\ ScanTo(i, [x EXCEPT !.open = @ \ {o}])
      BY <1>7 DEF Resume
    <2>2. [x EXCEPT !.open = @ \ {o}] \in Scanner
      BY <1>0 DEF Scanner
    <2>3. w' \in [Instances -> [Batches -> Worker]]
      BY <1>0, <2>1, SubmitType
    <2>4. scan' \in [Instances -> Scanner]
      BY <2>1, <2>2, ScanToType
    <2>5. QED
      BY <1>7, <2>3, <2>4 DEF Resume, envVars, dbVars
  <1>8. CASE BatchedFileNames(i)
    <2>1. [x EXCEPT !.pc = "pinned", !.entries = @ \ UNION {bt[b].files : b \in Open}]
            \in Scanner
      BY <1>0 DEF Scanner
    <2>2. QED
      BY <1>2, <1>8, <2>1 DEF BatchedFileNames, NoFault
  <1>9. CASE SettledFileNames(i)
    <2> DEFINE free == x.entries \ Settled
    <2>1. [x EXCEPT !.pc = "form", !.entries = free] \in Scanner
      BY <1>0 DEF Scanner
    <2>2. CASE free = {}
      BY <1>2, <1>9, <2>2, IdleType DEF SettledFileNames, NoFault
    <2>3. CASE free # {}
      BY <1>2, <1>9, <2>1, <2>3 DEF SettledFileNames, NoFault
    <2>4. QED
      BY <2>2, <2>3
  <1>10. CASE StillFilling(i)
    BY <1>2, <1>10, IdleType DEF StillFilling, NoFault
  <1>11. CASE FormBatch(i)
    <2> DEFINE files == Oldest(x.entries)
    <2>1. files \subseteq Names
      BY <1>0 DEF Oldest
    <2>2. ASSUME NEW o \in OpenBatch PROVE [x EXCEPT !.pc = "submitNew", !.open = {o}] \in Scanner
      BY <1>0 DEF Scanner
    <2>3. scan' \in [Instances -> Scanner]
      <3>1. CASE ScanTo(i, NoScan)
        BY <3>1, IdleType, ScanToType
      <3>2. ASSUME NEW o \in OpenBatch, ScanTo(i, [x EXCEPT !.pc = "submitNew", !.open = {o}])
            PROVE  scan' \in [Instances -> Scanner]
        BY <2>2, <3>2, ScanToType
      <3>3. \A b \in Open : [b |-> b, files |-> bt[b].files, delivered |-> DeliveredTo(b)]
                              \in OpenBatch
        <4>1. ASSUME NEW b \in Open PROVE b \in Batches /\ bt[b] \in Batch
          BY ElementOfSeq, BatchAssumption DEF Open, Batches
        <4>2. QED
          BY <4>1 DEF Batch, OpenBatch, DeliveredTo
      <3>4. Len(bt) < MaxBatches =>
              [b |-> Len(bt) + 1, files |-> files, delivered |-> {}] \in OpenBatch
        BY <2>1, BatchAssumption, LenProperties DEF OpenBatch, Batches
      <3>5. QED
        BY <1>11, <3>1, <3>2, <3>3, <3>4 DEF FormBatch
    <2>4. bt' \in Seq(Batch) /\ Len(bt') <= MaxBatches
      <3>1. CASE UNCHANGED bt
        BY <3>1
      <3>2. CASE bt' = Append(bt, NewBatch(files)) /\ Len(bt) < MaxBatches
        <4>1. NewBatch(files) \in Batch
          BY <2>1, BatchAssumption DEF NewBatch, Batch
        <4>2. QED
          BY <3>2, <4>1, AppendProperties, LenProperties, BatchAssumption
      <3>3. QED
        BY <1>11, <3>1, <3>2 DEF FormBatch
    <2>5. faults' \in 0..MaxFaults
      BY <1>11, FaultType DEF FormBatch
    <2>6. QED
      BY <1>11, <2>3, <2>4, <2>5 DEF FormBatch, envVars
  <1>12. CASE SubmitNew(i)
    <2>1. PICK o \in x.open : Submit(i, o)
      BY <1>12 DEF SubmitNew
    <2>2. w' \in [Instances -> [Batches -> Worker]]
      BY <1>0, <2>1, SubmitType
    <2>3. scan' \in [Instances -> Scanner]
      BY <1>12, IdleType, ScanToType DEF SubmitNew
    <2>4. QED
      BY <1>12, <2>2, <2>3 DEF SubmitNew, envVars, dbVars
  <1>13. QED
    BY <1>3, <1>4, <1>5, <1>6, <1>7, <1>8, <1>9, <1>10, <1>11, <1>12 DEF Scan

\* The worker, up to the commit.
LEMMA WriteType ==
  ASSUME TypeOK, NEW i \in Instances, NEW b \in Batches,
         \/ ClaimMember(i, b) \/ NoMembers(i, b) \/ ReserveDelivery(i, b)
         \/ Encode(i, b) \/ RecordBatchContributions(i, b) \/ MarkDelivery(i, b)
         \/ CloseBatch(i, b) \/ DisposeSources(i, b)
         \/ Heartbeat(i, b) \/ Timeout(i, b)
  PROVE  TypeOK'
  <1> USE DEF TypeOK
  <1> DEFINE x == w[i][b]
  <1>0. x \in Worker
    OBVIOUS
  <1>1. CASE ClaimMember(i, b)
    <2>1. PICK n \in Names :
            \/ fc' = Released(i, b) /\ NoFault /\ Leave(i, b, "touch")
            \/ /\ NoFault
               /\ fc' = [fc EXCEPT ![n] = [by |-> <<i, b>>, live |-> TRUE]]
               /\ Become(i, b, [x EXCEPT
                    !.names = x.names \ {n},
                    !.pc = IF x.names \ {n} = {} THEN "reserve" ELSE @,
                    !.dests = IF x.names \ {n} = {} THEN Dests ELSE @])
            \/ Leave(i, b, "release") /\ UNCHANGED fc /\ (NoFault \/ Fault)
      BY <1>1 DEF ClaimMember
    <2>2. faults' \in 0..MaxFaults
      BY <2>1, FaultType
    <2>3. fc' \in [Names -> FcRow]
      <3>1. [by |-> <<i, b>>, live |-> TRUE] \in FcRow
        BY DEF FcRow, Workers
      <3>2. CASE fc' = Released(i, b)
        BY <3>2, ReleasedType
      <3>3. CASE fc' = [fc EXCEPT ![n] = [by |-> <<i, b>>, live |-> TRUE]]
        BY <3>1, <3>3
      <3>4. CASE UNCHANGED fc
        BY <3>4
      <3>5. QED
        BY <2>1, <3>2, <3>3, <3>4
    <2>4. [x EXCEPT !.names = x.names \ {n},
                    !.pc = IF x.names \ {n} = {} THEN "reserve" ELSE @,
                    !.dests = IF x.names \ {n} = {} THEN Dests ELSE @] \in Worker
      BY <1>0 DEF Worker, Pc
    <2>5. w' \in [Instances -> [Batches -> Worker]]
      BY <2>1, <2>4, BecomeType, LeaveType DEF Pc
    <2>6. QED
      BY <1>1, <2>2, <2>3, <2>5 DEF ClaimMember, envVars
  <1>2. CASE NoMembers(i, b)
    BY <1>2, IdleType, BecomeType DEF NoMembers, envVars, dbVars
  <1>3. CASE ReserveDelivery(i, b)
    <2>1. CASE Fault /\ Leave(i, b, "release") /\ UNCHANGED <<dl, dsq>>
      BY <1>3, <2>1, FaultType, LeaveType DEF ReserveDelivery, envVars, Pc
    <2>2. CASE ~(Fault /\ Leave(i, b, "release") /\ UNCHANGED <<dl, dsq>>)
      <3> DEFINE rest(d) == x.dests \ {d}
                 next == IF Pending(i, b) = {} THEN "close" ELSE "encode"
      <3>1. PICK d \in x.dests :
              /\ NoFault
              /\ MustReserve(b, d) =>
                   /\ dsq' = [dsq EXCEPT ![d] = @ + 1]
                   /\ dl' = [dl EXCEPT ![b][d] = [status |-> "PENDING", seq |-> dsq'[d]]]
              /\ ~MustReserve(b, d) => dl' = dl /\ dsq' = dsq
              /\ Become(i, b, [x EXCEPT !.dests = rest(d),
                                        !.pc = IF rest(d) = {} THEN next ELSE @])
        BY <1>3, <2>2 DEF ReserveDelivery
      <3>2. d \in Dests
        BY <1>0 DEF Worker
      <3>3. \/ dsq' = dsq /\ dl' = dl
            \/ /\ dsq' = [dsq EXCEPT ![d] = @ + 1]
               /\ dl' = [dl EXCEPT ![b][d] = [status |-> "PENDING", seq |-> dsq'[d]]]
        BY <3>1, Zenon
      <3>4. dsq' \in [Dests -> Nat]
        BY <3>2, <3>3
      <3>5. dl' \in [Batches -> [Dests -> Delivery]]
        <4>1. [status |-> "PENDING", seq |-> dsq'[d]] \in Delivery
          BY <3>2, <3>4 DEF Delivery
        <4>2. ASSUME NEW r \in Delivery, dl' = [dl EXCEPT ![b][d] = r]
              PROVE  dl' \in [Batches -> [Dests -> Delivery]]
          BY <3>2, <4>2
        <4>3. CASE dl' = dl
          BY <4>3
        <4>4. CASE dl' = [dl EXCEPT ![b][d] = [status |-> "PENDING", seq |-> dsq'[d]]]
          BY <4>1, <4>2, <4>4
        <4>5. QED
          BY <3>3, <4>3, <4>4
      <3>6. [x EXCEPT !.dests = rest(d), !.pc = IF rest(d) = {} THEN next ELSE @] \in Worker
        BY <1>0 DEF Worker, Pc, Running
      <3>7. w' \in [Instances -> [Batches -> Worker]]
        BY <3>1, <3>6, BecomeType
      <3>8. QED
        BY <1>3, <3>1, <3>4, <3>5, <3>7 DEF ReserveDelivery, NoFault, envVars
    <2>3. QED
      BY <2>1, <2>2
  <1>4. CASE Encode(i, b)
    <2>1. faults' \in 0..MaxFaults
      BY <1>4, FaultType, CallType DEF Encode
    <2>2. objects' \in SUBSET Object
      <3>1. ASSUME NEW put, put \subseteq Dests, NEW files, files \subseteq Names
            PROVE  Published(i, b, put, files) \subseteq Object
        <4>1. \A d \in put : dl[b][d].seq \in Nat
          BY <3>1 DEF Delivery
        <4>2. QED
          BY <3>1, <4>1 DEF Published, Object
      <3>2. Pending(i, b) \subseteq Dests /\ x.files \subseteq Names
        BY <1>0 DEF Pending, Worker
      <3>3. CASE UNCHANGED objects
        BY <3>3
      <3>4. CASE \E put \in SUBSET Pending(i, b) : objects' = Published(i, b, put, x.files)
        BY <3>1, <3>2, <3>4
      <3>5. QED
        BY <1>4, <3>3, <3>4 DEF Encode, Aborted
    <2>3. ASSUME NEW put \in SUBSET Pending(i, b)
          PROVE  [x EXCEPT !.pc = "count", !.put = put] \in Worker
      BY <1>0 DEF Worker, Pc, Running, Pending
    <2>4. ASSUME NEW n \in x.files
          PROVE  /\ [Idle EXCEPT !.pc = "touch"] \in Worker
                 /\ [Idle EXCEPT !.pc = "drop", !.names = {n}] \in Worker
      BY <1>0, <2>4 DEF Worker, Idle, Pc
    <2>5. w' \in [Instances -> [Batches -> Worker]]
      BY <1>4, <2>3, <2>4, BecomeType, LeaveType DEF Encode, Pc
    <2>6. QED
      BY <1>4, <2>1, <2>2, <2>5 DEF Encode, envVars, dbVars
  <1>5. CASE RecordBatchContributions(i, b)
    <2>1. faults' \in 0..MaxFaults
      BY <1>5, FaultType, CallType DEF RecordBatchContributions
    <2>2. [x EXCEPT !.pc = "mark", !.dests = Pending(i, b)] \in Worker
      BY <1>0 DEF Worker, Pc, Running, Pending
    <2>3. w' \in [Instances -> [Batches -> Worker]]
      BY <1>5, <2>2, BecomeType, LeaveType DEF RecordBatchContributions, Pc
    <2>4. bt' \in Seq(Batch) /\ Len(bt') <= MaxBatches
      <3>1. CASE UNCHANGED bt
        BY <3>1
      <3>2. CASE bt' = [bt EXCEPT ![b].counted = TRUE]
        <4>1. b \in 1..Len(bt) => [bt[b] EXCEPT !.counted = TRUE] \in Batch
          BY RowRewrites
        <4>2. QED
          BY <3>2, <4>1, RowType
      <3>3. QED
        BY <1>5, <3>1, <3>2 DEF RecordBatchContributions, Counted
    <2>5. QED
      BY <1>5, <2>1, <2>3, <2>4 DEF RecordBatchContributions, envVars
  <1>6. CASE MarkDelivery(i, b)
    <2>1. faults' \in 0..MaxFaults
      BY <1>6, FaultType, CallType DEF MarkDelivery
    <2>2. dl' \in [Batches -> [Dests -> Delivery]]
      <3>1. ASSUME NEW d \in Dests, NEW s \in {"PENDING", "DELIVERED"}, SetStatus(b, d, s)
            PROVE  dl' \in [Batches -> [Dests -> Delivery]]
        <4>1. [dl[b][d] EXCEPT !.status = s] \in Delivery
          BY DeliveryCell
        <4>2. QED
          BY <3>1, <4>1 DEF SetStatus
      <3>2. x.dests \subseteq Dests
        BY <1>0 DEF Worker
      <3>3. QED
        BY <1>6, <3>1, <3>2 DEF MarkDelivery
    <2>3. w' \in [Instances -> [Batches -> Worker]]
      <3>1. ASSUME NEW d \in x.dests
            PROVE  /\ [x EXCEPT !.dests = x.dests \ {d}] \in Worker
                   /\ [[x EXCEPT !.dests = x.dests \ {d}] EXCEPT !.pc = "close", !.put = {}]
                        \in Worker
        BY <1>0 DEF Worker, Pc, Running
      <3>2. [Idle EXCEPT !.pc = "touch"] \in Worker
        BY DEF Idle, Worker, Pc
      <3>3. QED
        BY <1>6, <3>1, <3>2, BecomeType, LeaveType DEF MarkDelivery, Pc
    <2>4. QED
      BY <1>6, <2>1, <2>2, <2>3 DEF MarkDelivery, envVars
  <1>7. CASE CloseBatch(i, b)
    <2>1. faults' \in 0..MaxFaults
      BY <1>7, FaultType, CallType DEF CloseBatch
    <2>2. w' \in [Instances -> [Batches -> Worker]]
      BY <1>7, GotoType, LeaveType DEF CloseBatch, Pc, Running
    <2>3. done' \in [Names -> DoneRow]
      BY <1>7 DEF CloseBatch, DoneRow, Batches
    <2>4. fc' \in [Names -> FcRow]
      BY <1>7, ReleasedType DEF CloseBatch
    <2>5. bt' \in Seq(Batch) /\ Len(bt') <= MaxBatches
      <3>1. CASE UNCHANGED bt
        BY <3>1
      <3>2. CASE bt' = [bt EXCEPT ![b].status = "CLOSED"]
        <4>1. b \in 1..Len(bt) => [bt[b] EXCEPT !.status = "CLOSED"] \in Batch
          BY RowRewrites
        <4>2. QED
          BY <3>2, <4>1, RowType
      <3>3. QED
        BY <1>7, <3>1, <3>2 DEF CloseBatch
    <2>6. QED
      BY <1>7, <2>1, <2>2, <2>3, <2>4, <2>5 DEF CloseBatch, envVars
  <1>8. CASE DisposeSources(i, b)
    <2>1. faults' \in 0..MaxFaults
      BY <1>8, FaultType, CallType DEF DisposeSources
    <2>2. QED
      BY <1>8, <2>1, LeaveType DEF DisposeSources, envVars, dbVars, Pc
  <1>9. CASE Heartbeat(i, b)
    <2>1. \A n \in Names : [fc[n] EXCEPT !.live = TRUE] \in FcRow
      BY DEF FcRow
    <2>2. fc' \in [Names -> FcRow]
      BY <1>9, <2>1 DEF Heartbeat
    <2>3. [x EXCEPT !.cancelled = TRUE] \in Worker
      BY <1>0 DEF Worker
    <2>4. w' \in [Instances -> [Batches -> Worker]]
      BY <1>9, <2>3, BecomeType DEF Heartbeat
    <2>5. QED
      BY <1>9, <2>2, <2>4 DEF Heartbeat, envVars
  <1>10. CASE Timeout(i, b)
    <2>1. [x EXCEPT !.cancelled = TRUE] \in Worker
      BY <1>0 DEF Worker
    <2>2. faults' \in 0..MaxFaults
      BY <1>10, FaultType DEF Timeout
    <2>3. w' \in [Instances -> [Batches -> Worker]]
      BY <1>10, <2>1, BecomeType DEF Timeout
    <2>4. QED
      BY <1>10, <2>2, <2>3 DEF Timeout, envVars, dbVars
  <1>11. QED
    BY <1>1, <1>2, <1>3, <1>4, <1>5, <1>6, <1>7, <1>8, <1>9, <1>10

\* The worker after a failed attempt.
LEMMA FailureType ==
  ASSUME TypeOK, NEW i \in Instances, NEW b \in Batches,
         \/ TouchBatchAttempt(i, b) \/ AbandonCheck(i, b) \/ AbandonBatch(i, b)
         \/ DropCheck(i, b) \/ DropBatchFile(i, b) \/ QuarantineMember(i, b)
         \/ MoveQuarantined(i, b) \/ ReleaseAll(i, b)
  PROVE  TypeOK'
  <1> USE DEF TypeOK
  <1> DEFINE x == w[i][b]
  <1>0. x \in Worker
    OBVIOUS
  <1>1. CASE TouchBatchAttempt(i, b)
    <2>1. faults' \in 0..MaxFaults
      BY <1>1, FaultType DEF TouchBatchAttempt
    <2>2. bt' \in Seq(Batch) /\ Len(bt') <= MaxBatches
      <3>1. CASE UNCHANGED bt
        BY <3>1
      <3>2. CASE bt' = [bt EXCEPT ![b].attempts = AtMost(@ + 1, MaxAttempts)]
        <4>1. b \in 1..Len(bt) =>
                [bt[b] EXCEPT !.attempts = AtMost(bt[b].attempts + 1, MaxAttempts)] \in Batch
          <5>1. b \in 1..Len(bt) => bt[b] \in Batch
            BY RowRewrites
          <5>2. \A a \in 0..MaxAttempts : AtMost(a + 1, MaxAttempts) \in 0..MaxAttempts
            BY BatchAssumption DEF AtMost
          <5>3. QED
            BY <5>1, <5>2, RowRewrites DEF Batch
        <4>2. QED
          BY <3>2, <4>1, RowType
      <3>3. QED
        BY <1>1, <3>1, <3>2 DEF TouchBatchAttempt
    <2>3. w' \in [Instances -> [Batches -> Worker]]
      BY <1>1, LeaveType DEF TouchBatchAttempt, Pc
    <2>4. QED
      BY <1>1, <2>1, <2>2, <2>3 DEF TouchBatchAttempt, envVars
  <1>2. CASE AbandonCheck(i, b)
    BY <1>2, LeaveType, FaultType DEF AbandonCheck, envVars, dbVars, Pc
  <1>3. CASE AbandonBatch(i, b)
    <2>1. faults' \in 0..MaxFaults
      BY <1>3, FaultType DEF AbandonBatch
    <2>2. dl' \in [Batches -> [Dests -> Delivery]]
      <3>1. \A d \in Dests : [dl[b][d] EXCEPT !.status = "FAILED"] \in Delivery
        BY DeliveryCell
      <3>2. RestFailed(b) \in [Dests -> Delivery]
        BY <3>1 DEF RestFailed
      <3>3. QED
        BY <1>3, <3>2 DEF AbandonBatch
    <2>3. bt' \in Seq(Batch) /\ Len(bt') <= MaxBatches
      <3>1. CASE UNCHANGED bt
        BY <3>1
      <3>2. CASE bt' = [bt EXCEPT ![b].status = "ABANDONED"]
        <4>1. b \in 1..Len(bt) => [bt[b] EXCEPT !.status = "ABANDONED"] \in Batch
          BY RowRewrites
        <4>2. QED
          BY <3>2, <4>1, RowType
      <3>3. QED
        BY <1>3, <3>1, <3>2 DEF AbandonBatch
    <2>4. w' \in [Instances -> [Batches -> Worker]]
      BY <1>3, LeaveType DEF AbandonBatch, Pc
    <2>5. QED
      BY <1>3, <2>1, <2>2, <2>3, <2>4 DEF AbandonBatch, envVars
  <1>4. CASE DropCheck(i, b)
    BY <1>4, LeaveType, GotoType, FaultType DEF DropCheck, envVars, dbVars, Pc
  <1>5. CASE DropBatchFile(i, b)
    <2>1. faults' \in 0..MaxFaults
      BY <1>5, FaultType DEF DropBatchFile
    <2>2. bt' \in Seq(Batch) /\ Len(bt') <= MaxBatches
      <3>1. CASE UNCHANGED bt
        BY <3>1
      <3>2. CASE bt' = [bt EXCEPT ![b].files = @ \ x.names]
        <4>1. b \in 1..Len(bt) => [bt[b] EXCEPT !.files = @ \ x.names] \in Batch
          BY RowRewrites
        <4>2. QED
          BY <3>2, <4>1, RowType
      <3>3. QED
        BY <1>5, <3>1, <3>2 DEF DropBatchFile
    <2>3. w' \in [Instances -> [Batches -> Worker]]
      BY <1>5, LeaveType, GotoType DEF DropBatchFile, Pc
    <2>4. QED
      BY <1>5, <2>1, <2>2, <2>3 DEF DropBatchFile, envVars
  <1>6. CASE QuarantineMember(i, b)
    <2>1. x.names \subseteq Names
      BY <1>0 DEF Worker
    <2>2. faults' \in 0..MaxFaults
      BY <1>6, FaultType DEF QuarantineMember
    <2>3. [by |-> Free, live |-> FALSE] \in FcRow
      BY DEF FcRow
    <2>4. fc' \in [Names -> FcRow] /\ quar' \subseteq Names
      BY <1>6, <2>1, <2>3 DEF QuarantineMember
    <2>5. w' \in [Instances -> [Batches -> Worker]]
      BY <1>6, LeaveType, GotoType DEF QuarantineMember, Pc
    <2>6. QED
      BY <1>6, <2>2, <2>4, <2>5 DEF QuarantineMember, envVars
  <1>7. CASE MoveQuarantined(i, b)
    BY <1>7, LeaveType, FaultType DEF MoveQuarantined, envVars, dbVars, Pc
  <1>8. CASE ReleaseAll(i, b)
    <2>1. faults' \in 0..MaxFaults
      BY <1>8, FaultType DEF ReleaseAll
    <2>2. \A n \in Names : [fc[n] EXCEPT !.by = Orphaned] \in FcRow
      BY DEF FcRow
    <2>3. fc' \in [Names -> FcRow]
      BY <1>8, <2>2, ReleasedType DEF ReleaseAll
    <2>4. w' \in [Instances -> [Batches -> Worker]]
      BY <1>8, IdleType, BecomeType DEF ReleaseAll
    <2>5. QED
      BY <1>8, <2>1, <2>3, <2>4 DEF ReleaseAll, envVars
  <1>9. QED
    BY <1>1, <1>2, <1>3, <1>4, <1>5, <1>6, <1>7, <1>8

LEMMA TypeStep == TypeOK /\ [Next]_vars => TypeOK'
  <1> SUFFICES ASSUME TypeOK, [Next]_vars PROVE TypeOK'
    OBVIOUS
  <1> USE DEF TypeOK
  <1>1. ASSUME NEW n \in Names, Arrive(n) PROVE TypeOK'
    <2>1. arrivals' \in [Names -> 0..MaxArrivals]
      BY <1>1, BatchAssumption DEF Arrive
    <2>2. QED
      BY <1>1, <2>1 DEF Arrive, dbVars
  <1>2. ASSUME NEW n \in Names, LeaseExpire(n) PROVE TypeOK'
    <2>1. [fc[n] EXCEPT !.live = FALSE] \in FcRow
      BY DEF FcRow
    <2>2. faults' \in 0..MaxFaults
      BY <1>2, FaultType DEF LeaseExpire
    <2>3. QED
      BY <1>2, <2>1, <2>2 DEF LeaseExpire, envVars
  <1>3. ASSUME NEW i \in Instances, Crash(i) PROVE TypeOK'
    <2>1. \A n \in Names : [fc[n] EXCEPT !.by = Orphaned] \in FcRow
      BY DEF FcRow
    <2>2. fc' \in [Names -> FcRow]
      BY <1>3, <2>1 DEF Crash
    <2>3. faults' \in 0..MaxFaults
      BY <1>3, FaultType DEF Crash
    <2>4. w' \in [Instances -> [Batches -> Worker]] /\ scan' \in [Instances -> Scanner]
      BY <1>3, IdleType DEF Crash
    <2>5. QED
      BY <1>3, <2>2, <2>3, <2>4 DEF Crash, envVars
  <1>4. CASE UNCHANGED vars
    BY <1>4 DEF vars
  <1>5. QED
    BY <1>1, <1>2, <1>3, <1>4, ScanType, WriteType, FailureType DEF Next, HandleBatch

\* TypeOK is an invariant: no snapshot, row or object ever has a shape the code does not
\* give it, whatever faults happened.
THEOREM TypeCorrect == Spec => []TypeOK
  <1>1. Init => TypeOK
    <2> SUFFICES ASSUME Init PROVE TypeOK
      OBVIOUS
    <2>1. <<>> \in Seq(Batch) /\ Len(<<>>) <= MaxBatches
      BY EmptySeq, BatchAssumption
    <2>2. [by |-> Free, live |-> FALSE] \in FcRow /\ NoDelivery \in Delivery
      BY DEF FcRow, NoDelivery, Delivery
    <2>3. NotDone \in DoneRow /\ 0 \in 0..MaxFaults /\ 0 \in 0..MaxArrivals
      BY BatchAssumption DEF NotDone, DoneRow
    <2>4. QED
      BY <2>1, <2>2, <2>3, IdleType DEF Init, TypeOK
  <1>2. QED
    BY <1>1, TypeStep, PTL DEF Spec

-----------------------------------------------------------------------------
(* The inductive invariant.                                                *)

Rows == 1..Len(bt)

\* The members of a batch that can be decoded: those it will always keep.
Good(b) == bt[b].identity \ setup.bad

\* What a batch row may lose is members that cannot be decoded.
BatchInv ==
  \A b \in Rows : bt[b].files \subseteq bt[b].identity /\ Good(b) \subseteq bt[b].files

\* A snapshot of a batch: its members may be fewer by now, its deliveries more.
Seen(b, files, delivered) ==
  /\ b \in Rows
  /\ bt[b].files \subseteq files /\ files \subseteq bt[b].identity
  /\ \A d \in delivered : IsDelivered(b, d)

ScanInv == \A i \in Instances : \A o \in scan[i].open : Seen(o.b, o.files, o.delivered)

Reserved(b, d) == dl[b][d].seq # 0

\* Sequence numbers: only batches have them, no two the same, none beyond the counter,
\* and none skipped.
SeqInv ==
  /\ \A b \in Batches, d \in Dests : Reserved(b, d) <=> dl[b][d].status # "NONE"
  /\ \A b \in Batches, d \in Dests : Reserved(b, d) => b \in Rows /\ dl[b][d].seq <= dsq[d]
  /\ \A b, c \in Batches, d \in Dests :
       Reserved(b, d) /\ dl[b][d].seq = dl[c][d].seq => b = c
  /\ \A d \in Dests : \A s \in 1..dsq[d] : \E b \in Batches : dl[b][d].seq = s

\* Objects exist only under reserved numbers and are whole.
ObjectInv ==
  /\ \A o \in objects : o.seq \in 1..dsq[o.dest]
  /\ \A b \in Rows, d \in Dests : \A o \in ObjectsOf(b, d) :
       o.files = Good(b) /\ o.files = bt[b].files

\* A delivered batch has its object and its counts; a closed one is delivered.
DeliveryInv ==
  /\ \A b \in Batches, d \in Dests : IsDelivered(b, d) => ObjectsOf(b, d) # {}
  /\ \A b \in Batches, d \in Dests : IsDelivered(b, d) => bt[b].counted
  /\ \A b \in Rows : bt[b].status = "CLOSED" => \A d \in Dests : IsDelivered(b, d)
  /\ \A n \in Names : IsDone(n) => /\ done[n] \in Rows
                                   /\ n \in bt[done[n]].identity
                                   /\ \A d \in Dests : IsDelivered(done[n], d)

Victims == {"drop", "dropFile", "quarantine", "moveQuar"}

\* What a worker that is at x relies on, at each point of handleBatch and ProcessBatch.
Fit(b, x) ==
  /\ x.pc \in Running \cup {"claim", "reserve"} => Seen(b, x.files, x.delivered)
  /\ x.pc = "reserve" => \A d \in Dests \ x.dests : Reserved(b, d)
  /\ x.pc \in Running => \A d \in Dests : Reserved(b, d)
  /\ x.pc \in {"count", "mark"} =>
       \A d \in x.put : d \notin x.delivered /\ ObjectsOf(b, d) # {}
  /\ x.pc = "mark" => bt[b].counted /\ \A d \in x.put \ x.dests : IsDelivered(b, d)
  /\ x.pc = "close" => \A d \in Dests : IsDelivered(b, d)
  /\ x.pc \in Victims => x.names # {} /\ x.names \subseteq setup.bad

WorkInv == \A i \in Instances, b \in Batches : Fit(b, w[i][b])

DbInv == BatchInv /\ SeqInv /\ ObjectInv /\ DeliveryInv /\ OneOpenBatch

BatchSafety == DbInv /\ ScanInv /\ WorkInv

-----------------------------------------------------------------------------
(* What every step leaves standing: rows keep their identity and lose only *)
(* members, numbers and deliveries stay, and so do objects.                *)

SameRows ==
  Len(bt') = Len(bt) /\ \A b \in Rows : bt'[b].identity = bt[b].identity

Grows ==
  /\ setup' = setup
  /\ Len(bt) <= Len(bt')
  /\ \A b \in Rows : /\ bt'[b].identity = bt[b].identity
                     /\ bt'[b].files \subseteq bt[b].files
                     /\ bt[b].counted => bt'[b].counted
  /\ \A b \in Batches, d \in Dests : Reserved(b, d) => dl'[b][d].seq = dl[b][d].seq
  /\ \A b \in Batches, d \in Dests : IsDelivered(b, d) => IsDelivered(b, d)'
  /\ \A b \in Batches, d \in Dests :
       Reserved(b, d) /\ ObjectsOf(b, d) # {} => ObjectsOf(b, d)' # {}

LEMMA RowsAreBatches ==
  ASSUME TypeOK
  PROVE  /\ Len(bt) \in Nat /\ Rows \subseteq Batches
         /\ \A b \in Rows : bt[b] \in Batch
  BY LenProperties, ElementOfSeq, BatchAssumption DEF TypeOK, Rows, Batches

LEMMA SeenGrows ==
  ASSUME TypeOK, TypeOK', Grows, NEW b, NEW files, NEW delivered \in SUBSET Dests,
         Seen(b, files, delivered)
  PROVE  Seen(b, files, delivered)'
  <1>0. Len(bt) \in Nat /\ Len(bt') \in Nat /\ Rows \subseteq Batches
    BY RowsAreBatches, LenProperties DEF TypeOK
  <1>1. b \in Rows /\ b \in Rows' /\ b \in Batches
    BY <1>0 DEF Seen, Grows, Rows
  <1>2. bt'[b].files \subseteq files /\ files \subseteq bt'[b].identity
    BY <1>1 DEF Seen, Grows
  <1>3. \A d \in delivered : IsDelivered(b, d)'
    BY <1>1 DEF Seen, Grows
  <1>4. QED
    BY <1>1, <1>2, <1>3 DEF Seen

LEMMA FitGrows ==
  ASSUME TypeOK, TypeOK', Grows, NEW b \in Batches, NEW x \in Worker, Fit(b, x)
  PROVE  Fit(b, x)'
  <1>1. x.delivered \subseteq Dests /\ x.put \subseteq Dests
    BY DEF Worker
  <1>2. ASSUME Seen(b, x.files, x.delivered) PROVE Seen(b, x.files, x.delivered)'
    BY <1>1, <1>2, SeenGrows
  <1>3. \A d \in Dests : Reserved(b, d) => Reserved(b, d)'
    BY DEF Grows, Reserved
  <1>4. \A d \in Dests : IsDelivered(b, d) => IsDelivered(b, d)'
    BY DEF Grows
  <1>5. \A d \in Dests : Reserved(b, d) /\ ObjectsOf(b, d) # {} => ObjectsOf(b, d)' # {}
    BY DEF Grows
  <1>6. b \in Rows /\ bt[b].counted => bt'[b].counted
    BY DEF Grows
  <1>7. x.pc \in Running \cup {"claim", "reserve"} => Seen(b, x.files, x.delivered)'
    BY <1>2 DEF Fit
  <1>8. x.pc = "reserve" => \A d \in Dests \ x.dests : Reserved(b, d)'
    BY <1>3 DEF Fit
  <1>9. x.pc \in Running => \A d \in Dests : Reserved(b, d)'
    BY <1>3 DEF Fit
  <1>10. x.pc \in {"count", "mark"} =>
           \A d \in x.put : d \notin x.delivered /\ ObjectsOf(b, d)' # {}
    BY <1>1, <1>5 DEF Fit, Running
  <1>11. x.pc = "mark" => bt'[b].counted /\ \A d \in x.put \ x.dests : IsDelivered(b, d)'
    BY <1>1, <1>4, <1>6 DEF Fit, Running, Seen
  <1>12. x.pc = "close" => \A d \in Dests : IsDelivered(b, d)'
    BY <1>4 DEF Fit
  <1>13. x.pc \in Victims => x.names # {} /\ x.names \subseteq setup'.bad
    BY DEF Fit, Grows
  <1>14. QED
    BY <1>7, <1>8, <1>9, <1>10, <1>11, <1>12, <1>13 DEF Fit

\* A worker that has given up relies on nothing.
LEMMA LeaveFits ==
  ASSUME TypeOK, NEW i \in Instances, NEW b \in Batches,
         \/ \E l \in {"touch", "abandon", "retire", "release"} : Leave(i, b, l)
         \/ Become(i, b, Idle)
  PROVE  \E y \in Worker : Become(i, b, y) /\ Fit(b, y)
  <1>1. ASSUME NEW y \in Worker, y.pc \in {"touch", "abandon", "retire", "release", "idle"}
        PROVE  Fit(b, y)
    BY <1>1 DEF Fit, Running, Victims
  <1>2. ASSUME NEW l \in {"touch", "abandon", "retire", "release"}
        PROVE  [Idle EXCEPT !.pc = l] \in Worker /\ [Idle EXCEPT !.pc = l].pc = l
    BY IdleType DEF Worker, Pc
  <1>3. Idle \in Worker /\ Idle.pc = "idle"
    BY IdleType DEF Idle
  <1>4. QED
    BY <1>1, <1>2, <1>3 DEF Leave

\* A step of one worker is invisible to the other workers and to the scanners.
LEMMA WorkStep ==
  ASSUME TypeOK, TypeOK', Grows, WorkInv, NEW i \in Instances, NEW b \in Batches,
         \E y \in Worker : Become(i, b, y) /\ (Fit(b, y) \/ Fit(b, y)')
  PROVE  WorkInv'
  <1>1. PICK y \in Worker : Become(i, b, y) /\ (Fit(b, y) \/ Fit(b, y)')
    OBVIOUS
  <1>2. Fit(b, y)'
    BY <1>1, FitGrows
  <1>3. w'[i][b] = y
    BY <1>1, BecomeType
  <1>4. ASSUME NEW j \in Instances, NEW c \in Batches PROVE Fit(c, w[j][c])'
    <2>1. CASE j = i /\ c = b
      BY <1>2, <1>3, <2>1
    <2>2. CASE ~(j = i /\ c = b)
      <3>1. w'[j][c] = w[j][c]
        BY <1>1, <2>2, BecomeType
      <3>2. PICK z \in Worker : z = w[j][c]
        BY DEF TypeOK
      <3>3. Fit(c, z)
        BY <3>2 DEF WorkInv
      <3>4. Fit(c, z)'
        BY <3>3, FitGrows
      <3>5. QED
        BY <3>1, <3>2, <3>4
    <2>3. QED
      BY <2>1, <2>2
  <1>5. QED
    BY <1>4 DEF WorkInv

LEMMA WorkKept ==
  ASSUME TypeOK, TypeOK', Grows, WorkInv, UNCHANGED w
  PROVE  WorkInv'
  <1>1. ASSUME NEW j \in Instances, NEW c \in Batches PROVE Fit(c, w[j][c])'
    <2>1. PICK z \in Worker : z = w[j][c]
      BY DEF TypeOK
    <2>2. Fit(c, z)'
      BY <2>1, FitGrows DEF WorkInv
    <2>3. QED
      BY <2>1, <2>2
  <1>2. QED
    BY <1>1 DEF WorkInv

\* A scanner takes a new list of snapshots; the lists of the others only age.
LEMMA ScanStep ==
  ASSUME TypeOK, TypeOK', Grows, ScanInv, NEW i \in Instances,
         \A j \in Instances : j # i => scan'[j] = scan[j],
         \A o \in scan'[i].open : \/ Seen(o.b, o.files, o.delivered)
                                  \/ Seen(o.b, o.files, o.delivered)'
  PROVE  ScanInv'
  <1>1. ASSUME NEW j \in Instances, NEW o \in scan'[j].open
        PROVE  Seen(o.b, o.files, o.delivered)'
    <2>1. o.delivered \in SUBSET Dests
      BY <1>1 DEF TypeOK, Scanner, OpenBatch
    <2>2. Seen(o.b, o.files, o.delivered) \/ Seen(o.b, o.files, o.delivered)'
      BY <1>1 DEF ScanInv
    <2>3. QED
      BY <2>1, <2>2, SeenGrows
  <1>2. QED
    BY <1>1 DEF ScanInv

LEMMA ScanKept ==
  ASSUME TypeOK, TypeOK', Grows, ScanInv, UNCHANGED scan
  PROVE  ScanInv'
  <1>1. ASSUME NEW j \in Instances, NEW o \in scan'[j].open
        PROVE  Seen(o.b, o.files, o.delivered)'
    <2>1. o.delivered \in SUBSET Dests
      BY <1>1 DEF TypeOK, Scanner, OpenBatch
    <2>2. Seen(o.b, o.files, o.delivered)
      BY <1>1 DEF ScanInv
    <2>3. QED
      BY <2>1, <2>2, SeenGrows
  <1>2. QED
    BY <1>1 DEF ScanInv

LEMMA DbFrame ==
  ASSUME TypeOK, DbInv, UNCHANGED <<setup, bt, dl, dsq, objects, done>>
  PROVE  DbInv' /\ Grows
  <1>1. DbInv'
    BY DEF DbInv, BatchInv, SeqInv, ObjectInv, DeliveryInv, OneOpenBatch, Rows, Good,
           Reserved, ObjectsOf, IsDelivered, IsDone, Open
  <1>2. Grows
    BY RowsAreBatches DEF Grows, Rows, Reserved, ObjectsOf, IsDelivered
  <1>3. QED
    BY <1>1, <1>2

\* Rows are rewritten in a way that touches neither members nor counts already there; a
\* batch is closed only when it is delivered, and none is opened again.
LEMMA RowsFrame ==
  ASSUME TypeOK, DbInv, UNCHANGED <<setup, dl, dsq, objects, done>>, SameRows,
         \A c \in Rows : /\ bt'[c].files = bt[c].files
                         /\ bt[c].counted => bt'[c].counted
                         /\ bt'[c].status = "OPEN" => bt[c].status = "OPEN"
                         /\ bt'[c].status = "CLOSED" =>
                              bt[c].status = "CLOSED" \/ \A d \in Dests : IsDelivered(c, d)
  PROVE  DbInv' /\ Grows
  <1>0. Rows' = Rows /\ Rows \subseteq Batches
    BY RowsAreBatches DEF SameRows, Rows
  <1>1. BatchInv'
    BY <1>0 DEF DbInv, BatchInv, Good, SameRows
  <1>2. SeqInv'
    BY <1>0 DEF DbInv, SeqInv, Reserved
  <1>3. ObjectInv'
    BY <1>0 DEF DbInv, ObjectInv, ObjectsOf, Good, SameRows
  <1>4. DeliveryInv'
    <2>1. \A c \in Batches, d \in Dests : IsDelivered(c, d) => c \in Rows
      BY DEF DbInv, SeqInv, IsDelivered
    <2>2. QED
      BY <1>0, <2>1 DEF DbInv, DeliveryInv, IsDelivered, ObjectsOf, IsDone, SameRows
  <1>5. OneOpenBatch'
    BY <1>0 DEF DbInv, OneOpenBatch, Open, Rows
  <1>6. Grows
    BY <1>0, RowsAreBatches DEF Grows, SameRows, Reserved, ObjectsOf, IsDelivered
  <1>7. QED
    BY <1>1, <1>2, <1>3, <1>4, <1>5, <1>6 DEF DbInv

-----------------------------------------------------------------------------
(* Steps that leave the database rows and the objects alone.               *)

LEMMA QuietEnvironment ==
  ASSUME TypeOK, TypeOK', BatchSafety,
         \/ \E n \in Names : Arrive(n) \/ LeaseExpire(n)
         \/ \E i \in Instances : ScanFails(i) \/ Crash(i)
  PROVE  BatchSafety' /\ Grows
  <1>1. DbInv' /\ Grows
    <2>1. UNCHANGED <<setup, bt, dl, dsq, objects, done>>
      BY DEF Arrive, LeaseExpire, ScanFails, Crash, envVars, dbVars
    <2>2. QED
      BY <2>1, DbFrame DEF BatchSafety
  <1>2. CASE \E n \in Names : Arrive(n) \/ LeaseExpire(n)
    <2>1. UNCHANGED <<scan, w>>
      BY <1>2 DEF Arrive, LeaseExpire
    <2>2. QED
      BY <1>1, <2>1, ScanKept, WorkKept DEF BatchSafety
  <1>3. ASSUME NEW i \in Instances, ScanFails(i) PROVE ScanInv' /\ WorkInv'
    <2>1. scan'[i].open = {} /\ \A j \in Instances : j # i => scan'[j] = scan[j]
      BY <1>3 DEF ScanFails, ScanTo, NoScan, TypeOK
    <2>2. UNCHANGED w
      BY <1>3 DEF ScanFails
    <2>3. QED
      BY <1>1, <2>1, <2>2, ScanStep, WorkKept DEF BatchSafety
  <1>4. ASSUME NEW i \in Instances, Crash(i) PROVE ScanInv' /\ WorkInv'
    <2>1. scan'[i].open = {} /\ \A j \in Instances : j # i => scan'[j] = scan[j]
      BY <1>4 DEF Crash, NoScan, TypeOK
    <2>2. ScanInv'
      BY <1>1, <2>1, ScanStep DEF BatchSafety
    <2>3. ASSUME NEW j \in Instances, NEW c \in Batches PROVE Fit(c, w[j][c])'
      <3>1. CASE j = i
        <4>1. w'[j][c].pc = "idle"
          BY <1>4, <3>1 DEF Crash, TypeOK, Idle
        <4>2. QED
          BY <4>1 DEF Fit, Running, Victims
      <3>2. CASE j # i
        <4>1. w'[j][c] = w[j][c]
          BY <1>4, <3>2 DEF Crash, TypeOK
        <4>2. PICK z \in Worker : z = w[j][c]
          BY DEF TypeOK
        <4>3. Fit(c, z)'
          BY <1>1, <4>2, FitGrows DEF BatchSafety, WorkInv
        <4>4. QED
          BY <4>1, <4>2, <4>3
      <3>3. QED
        BY <3>1, <3>2
    <2>4. QED
      BY <2>2, <2>3 DEF WorkInv
  <1>5. QED
    BY <1>1, <1>2, <1>3, <1>4 DEF BatchSafety

\* Handing a snapshot to a worker: the worker knows no more than the scan saw.
LEMMA SubmitFits ==
  ASSUME TypeOK, TypeOK', Grows, WorkInv, NEW i \in Instances, NEW o \in OpenBatch,
         Submit(i, o), Seen(o.b, o.files, o.delivered)
  PROVE  WorkInv'
  <1>1. CASE UNCHANGED w
    BY <1>1, WorkKept
  <1> DEFINE x == [Idle EXCEPT !.pc = "claim", !.files = o.files, !.names = o.files,
                               !.delivered = o.delivered,
                               !.gone = o.files \ scan[i].entries]
  <1>2. CASE Become(i, o.b, x)
    <2>1. o.b \in Batches /\ o.files \subseteq Names /\ o.delivered \subseteq Dests
      BY DEF OpenBatch
    <2>2. x \in Worker
      BY <2>1 DEF Worker, Idle, Pc
    <2>3. PICK y \in Worker : y = x
      BY <2>2
    <2>4. y.pc = "claim" /\ y.files = o.files /\ y.delivered = o.delivered
      BY <2>3 DEF Idle
    <2>5. Fit(o.b, y)
      BY <2>4 DEF Fit, Running, Victims
    <2>6. QED
      BY <1>2, <2>1, <2>3, <2>5, WorkStep
  <1>3. QED
    BY <1>1, <1>2 DEF Submit

LEMMA QuietScan ==
  ASSUME TypeOK, TypeOK', BatchSafety, NEW i \in Instances,
         \/ ListInput(i) \/ ListOpenBatches(i) \/ HydrateDeliveries(i) \/ Resume(i)
         \/ BatchedFileNames(i) \/ SettledFileNames(i) \/ StillFilling(i) \/ SubmitNew(i)
  PROVE  BatchSafety' /\ Grows
  <1> DEFINE x == scan[i]
  <1>0. x \in Scanner /\ x.open \subseteq OpenBatch
    BY DEF TypeOK, Scanner
  <1>1. DbInv' /\ Grows
    <2>1. UNCHANGED <<setup, bt, dl, dsq, objects, done>>
      BY DEF ListInput, ListOpenBatches, HydrateDeliveries, Resume, BatchedFileNames,
             SettledFileNames, StillFilling, SubmitNew, envVars, dbVars
    <2>2. QED
      BY <2>1, DbFrame DEF BatchSafety
  <1>2. ScanInv'
    <2>1. ASSUME NEW y, ScanTo(i, y),
                 \A o \in y.open : Seen(o.b, o.files, o.delivered)
          PROVE  ScanInv'
      <3>1. scan'[i] = y /\ \A j \in Instances : j # i => scan'[j] = scan[j]
        BY <2>1 DEF ScanTo, TypeOK
      <3>2. QED
        BY <1>1, <2>1, <3>1, ScanStep DEF BatchSafety
    <2>2. \A o \in x.open : Seen(o.b, o.files, o.delivered)
      BY DEF BatchSafety, ScanInv
    <2>3. NoScan.open = {}
      BY DEF NoScan
    <2>4. CASE ListInput(i)
      <3>1. [NoScan EXCEPT !.pc = "open", !.entries = input].open = {}
        BY DEF NoScan
      <3>2. QED
        BY <2>1, <2>4, <3>1 DEF ListInput
    <2>5. CASE ListOpenBatches(i)
      <3> DEFINE seen == {[b |-> b, files |-> bt[b].files, delivered |-> {}] : b \in Open}
                 y == [x EXCEPT !.pc = IF seen = {} THEN "submit" ELSE "hydrate", !.open = seen]
      <3>1. y.open = seen
        BY <1>0 DEF Scanner
      <3>2. \A b \in Open : Seen(b, bt[b].files, {})
        BY DEF Open, Seen, Rows, BatchSafety, DbInv, BatchInv
      <3>3. \A o \in seen : Seen(o.b, o.files, o.delivered)
        BY <3>2
      <3>4. QED
        BY <2>1, <2>5, <3>1, <3>3 DEF ListOpenBatches
    <2>6. CASE HydrateDeliveries(i)
      <3> DEFINE hydrated == {Hydrated(o) : o \in x.open}
                 y == [x EXCEPT !.pc = "submit", !.open = hydrated]
      <3>1. y.open = hydrated
        BY <1>0 DEF Scanner
      <3>2. ASSUME NEW o \in x.open
            PROVE  LET h == Hydrated(o) IN Seen(h.b, h.files, h.delivered)
        <4>1. /\ Hydrated(o).b = o.b /\ Hydrated(o).files = o.files
              /\ Hydrated(o).delivered = DeliveredTo(o.b)
          BY <1>0 DEF Hydrated, OpenBatch
        <4>2. QED
          BY <2>2, <4>1 DEF Seen, DeliveredTo, IsDelivered
      <3>3. \A h \in hydrated : Seen(h.b, h.files, h.delivered)
        BY <3>2
      <3>4. ScanTo(i, y)
        BY <2>6 DEF HydrateDeliveries
      <3>5. QED
        BY <2>1, <3>1, <3>3, <3>4
    <2>7. CASE Resume(i)
      <3>1. PICK o \in x.open : ScanTo(i, [x EXCEPT !.open = @ \ {o}])
        BY <2>7 DEF Resume
      <3>2. [x EXCEPT !.open = @ \ {o}].open \subseteq x.open
        BY <1>0 DEF Scanner
      <3>3. QED
        BY <2>1, <2>2, <3>1, <3>2
    <2>8. CASE BatchedFileNames(i)
      <3> DEFINE y == [x EXCEPT !.pc = "pinned",
                                !.entries = @ \ UNION {bt[b].files : b \in Open}]
      <3>1. y.open = x.open
        BY <1>0 DEF Scanner
      <3>2. QED
        BY <2>1, <2>2, <2>8, <3>1 DEF BatchedFileNames
    <2>9. CASE SettledFileNames(i)
      <3> DEFINE y == [x EXCEPT !.pc = "form", !.entries = x.entries \ Settled]
      <3>1. y.open = x.open
        BY <1>0 DEF Scanner
      <3>2. ScanTo(i, y) \/ ScanTo(i, NoScan)
        BY <2>9 DEF SettledFileNames
      <3>3. QED
        BY <2>1, <2>2, <2>3, <3>1, <3>2
    <2>10. CASE StillFilling(i) \/ SubmitNew(i)
      BY <2>1, <2>3, <2>10 DEF StillFilling, SubmitNew
    <2>11. QED
      BY <2>4, <2>5, <2>6, <2>7, <2>8, <2>9, <2>10
  <1>3. WorkInv'
    <2>1. CASE UNCHANGED w
      BY <1>1, <2>1, WorkKept DEF BatchSafety
    <2>2. CASE \E o \in x.open : Submit(i, o)
      BY <1>0, <1>1, <2>2, SubmitFits DEF BatchSafety, ScanInv
    <2>3. QED
      BY <2>1, <2>2 DEF ListInput, ListOpenBatches, HydrateDeliveries, Resume,
           BatchedFileNames, SettledFileNames, StillFilling, SubmitNew
  <1>4. QED
    BY <1>1, <1>2, <1>3 DEF BatchSafety

LEMMA QuietWorker ==
  ASSUME TypeOK, TypeOK', BatchSafety, NEW i \in Instances, NEW b \in Batches,
         \/ ClaimMember(i, b) \/ NoMembers(i, b) \/ Heartbeat(i, b) \/ Timeout(i, b)
         \/ DisposeSources(i, b) \/ AbandonCheck(i, b) \/ DropCheck(i, b)
         \/ QuarantineMember(i, b) \/ MoveQuarantined(i, b) \/ ReleaseAll(i, b)
  PROVE  BatchSafety' /\ Grows
  <1> DEFINE x == w[i][b]
  <1>0. x \in Worker /\ Fit(b, x)
    BY DEF TypeOK, BatchSafety, WorkInv
  <1>1. DbInv' /\ Grows
    <2>1. UNCHANGED <<setup, bt, dl, dsq, objects, done>>
      BY DEF ClaimMember, NoMembers, Heartbeat, Timeout, DisposeSources, AbandonCheck,
             DropCheck, QuarantineMember, MoveQuarantined, ReleaseAll, envVars, dbVars
    <2>2. QED
      BY <2>1, DbFrame DEF BatchSafety
  <1>2. ScanInv'
    <2>1. UNCHANGED scan
      BY DEF ClaimMember, NoMembers, Heartbeat, Timeout, DisposeSources, AbandonCheck,
             DropCheck, QuarantineMember, MoveQuarantined, ReleaseAll
    <2>2. QED
      BY <1>1, <2>1, ScanKept DEF BatchSafety
  <1>3. WorkInv'
    <2>0. ASSUME \E y \in Worker : Become(i, b, y) /\ Fit(b, y) PROVE WorkInv'
      BY <1>1, <2>0, WorkStep DEF BatchSafety
    <2>1. ASSUME \/ \E l \in {"touch", "abandon", "retire", "release"} : Leave(i, b, l)
                 \/ Become(i, b, Idle)
          PROVE  WorkInv'
      BY <2>0, <2>1, LeaveFits
    <2>2. CASE ClaimMember(i, b)
      <3>1. PICK n \in Names :
              \/ Leave(i, b, "touch") \/ Leave(i, b, "release")
              \/ Become(i, b, [x EXCEPT !.names = x.names \ {n},
                                        !.pc = IF x.names \ {n} = {} THEN "reserve" ELSE @,
                                        !.dests = IF x.names \ {n} = {} THEN Dests ELSE @])
        BY <2>2 DEF ClaimMember
      <3> DEFINE z == [x EXCEPT !.names = x.names \ {n},
                                !.pc = IF x.names \ {n} = {} THEN "reserve" ELSE @,
                                !.dests = IF x.names \ {n} = {} THEN Dests ELSE @]
      <3>2. z \in Worker
        BY <1>0 DEF Worker, Pc
      <3>3. PICK y \in Worker : y = z
        BY <3>2
      <3>4. /\ y.files = x.files /\ y.delivered = x.delivered
            /\ y.pc = "claim" \/ (y.pc = "reserve" /\ y.dests = Dests)
        BY <1>0, <2>2, <3>3 DEF ClaimMember, At, Worker
      <3>5. x.pc = "claim"
        BY <2>2 DEF ClaimMember, At
      <3>6. Seen(b, x.files, x.delivered)
        BY <1>0, <3>5 DEF Fit
      <3>7. Fit(b, y)
        BY <3>4, <3>6 DEF Fit, Running, Victims
      <3>8. QED
        BY <2>0, <2>1, <3>1, <3>3, <3>7
    <2>3. CASE Heartbeat(i, b) \/ Timeout(i, b)
      <3>1. CASE UNCHANGED w
        BY <1>1, <3>1, WorkKept DEF BatchSafety
      <3>2. CASE Become(i, b, [x EXCEPT !.cancelled = TRUE])
        <4>1. [x EXCEPT !.cancelled = TRUE] \in Worker
          BY <1>0 DEF Worker
        <4>2. PICK y \in Worker : y = [x EXCEPT !.cancelled = TRUE]
          BY <4>1
        <4>3. /\ y.pc = x.pc /\ y.files = x.files /\ y.delivered = x.delivered
              /\ y.names = x.names /\ y.dests = x.dests /\ y.put = x.put
          BY <1>0, <4>2 DEF Worker
        <4>4. Fit(b, y)
          BY <1>0, <4>3 DEF Fit
        <4>5. QED
          BY <2>0, <3>2, <4>2, <4>4
      <3>3. QED
        BY <2>3, <3>1, <3>2 DEF Heartbeat, Timeout
    <2>4. CASE DropCheck(i, b) \/ QuarantineMember(i, b)
      <3>1. x.pc \in Victims
        BY <2>4 DEF DropCheck, QuarantineMember, At, Victims
      <3>2. ASSUME NEW l \in {"dropFile", "moveQuar"}, Goto(i, b, l) PROVE WorkInv'
        <4>1. [x EXCEPT !.pc = l] \in Worker
          BY <1>0 DEF Worker, Pc
        <4>2. PICK y \in Worker : y = [x EXCEPT !.pc = l]
          BY <4>1
        <4>3. y.pc = l /\ y.names = x.names
          BY <1>0, <4>2 DEF Worker
        <4>4. Fit(b, y)
          BY <1>0, <3>1, <4>3 DEF Fit, Running, Victims
        <4>5. QED
          BY <2>0, <3>2, <4>2, <4>4 DEF Goto
      <3>3. QED
        BY <2>1, <2>4, <3>2 DEF DropCheck, QuarantineMember
    <2>5. CASE \/ NoMembers(i, b) \/ DisposeSources(i, b) \/ AbandonCheck(i, b)
               \/ MoveQuarantined(i, b) \/ ReleaseAll(i, b)
      BY <2>1, <2>5 DEF NoMembers, DisposeSources, AbandonCheck, MoveQuarantined, ReleaseAll
    <2>6. QED
      BY <2>2, <2>3, <2>4, <2>5
  <1>4. QED
    BY <1>1, <1>2, <1>3 DEF BatchSafety

-----------------------------------------------------------------------------
(* Steps that write rows or objects.                                       *)

\* Numbers nobody reserved have no object, and a row that is not there no number.
LEMMA Unreserved ==
  ASSUME TypeOK, DbInv, NEW b \in Batches, NEW d \in Dests, ~Reserved(b, d)
  PROVE  ~IsDelivered(b, d) /\ ObjectsOf(b, d) = {}
  <1>1. ~IsDelivered(b, d)
    BY DEF DbInv, SeqInv, IsDelivered
  <1>2. \A o \in objects : o.seq # 0
    <2>1. \A o \in objects : dsq[o.dest] \in Nat
      BY DEF TypeOK, Object
    <2>2. QED
      BY <2>1 DEF DbInv, ObjectInv
  <1>3. QED
    BY <1>1, <1>2 DEF Reserved, ObjectsOf

LEMMA FormStep ==
  ASSUME TypeOK, TypeOK', BatchSafety, NEW i \in Instances, FormBatch(i)
  PROVE  BatchSafety' /\ Grows
  <1> DEFINE x     == scan[i]
             files == Oldest(x.entries)
             m     == Len(bt) + 1
             fresh == [b |-> m, files |-> files, delivered |-> {}]
  <1>0. x \in Scanner /\ files \subseteq Names
    BY DEF TypeOK, Scanner, Oldest
  <1>1. UNCHANGED <<setup, dl, dsq, objects, done, w>>
    BY DEF FormBatch, envVars
  <1>2. CASE UNCHANGED bt
    <2>1. DbInv' /\ Grows
      BY <1>1, <1>2, DbFrame DEF BatchSafety
    <2>2. \/ ScanTo(i, NoScan)
          \/ \E b \in Open : ScanTo(i, [x EXCEPT !.pc = "submitNew",
               !.open = {[b |-> b, files |-> bt[b].files, delivered |-> DeliveredTo(b)]}])
      <3>1. bt # Append(bt, NewBatch(files))
        <4>1. NewBatch(files) \in Batch
          BY <1>0, BatchAssumption DEF NewBatch, Batch
        <4>2. Len(Append(bt, NewBatch(files))) = Len(bt) + 1 /\ Len(bt) \in Nat
          BY <4>1, AppendProperties, LenProperties DEF TypeOK
        <4>3. QED
          BY <4>2
      <3>2. QED
        BY <1>2, <3>1 DEF FormBatch
    <2>3. ScanInv'
      <3>1. CASE ScanTo(i, NoScan)
        <4>1. scan'[i].open = {} /\ \A j \in Instances : j # i => scan'[j] = scan[j]
          BY <3>1 DEF ScanTo, NoScan, TypeOK
        <4>2. QED
          BY <2>1, <4>1, ScanStep DEF BatchSafety
      <3>2. ASSUME NEW b \in Open,
                   ScanTo(i, [x EXCEPT !.pc = "submitNew",
                     !.open = {[b |-> b, files |-> bt[b].files,
                                delivered |-> DeliveredTo(b)]}])
            PROVE  ScanInv'
        <4> DEFINE o == [b |-> b, files |-> bt[b].files, delivered |-> DeliveredTo(b)]
        <4>1. /\ scan'[i].open = {o}
              /\ \A j \in Instances : j # i => scan'[j] = scan[j]
          BY <1>0, <3>2 DEF ScanTo, TypeOK, Scanner
        <4>2. Seen(b, bt[b].files, DeliveredTo(b))
          BY DEF Open, Seen, Rows, BatchSafety, DbInv, BatchInv, DeliveredTo, IsDelivered
        <4>3. \A p \in scan'[i].open : Seen(p.b, p.files, p.delivered)
          BY <4>1, <4>2
        <4>4. QED
          BY <2>1, <4>1, <4>3, ScanStep DEF BatchSafety
      <3>3. QED
        BY <2>2, <3>1, <3>2
    <2>4. WorkInv'
      BY <1>1, <2>1, WorkKept DEF BatchSafety
    <2>5. QED
      BY <2>1, <2>3, <2>4 DEF BatchSafety
  <1>3. CASE bt' = Append(bt, NewBatch(files)) /\ Len(bt) < MaxBatches /\ ~Overlaps(files)
    <2>1. NewBatch(files) \in Batch
      BY <1>0, BatchAssumption DEF NewBatch, Batch
    <2>2. /\ Len(bt) \in Nat /\ Len(bt') = m /\ m \in Batches
          /\ bt'[m] = NewBatch(files)
          /\ \A c \in Rows : bt'[c] = bt[c]
      BY <1>3, <2>1, AppendProperties, LenProperties, BatchAssumption DEF TypeOK, Rows, Batches
    <2>3. Rows' = Rows \cup {m} /\ m \notin Rows /\ Rows \subseteq Batches
      BY <2>2, RowsAreBatches DEF Rows
    <2>4. \A d \in Dests : ~Reserved(m, d)
      BY <2>2, <2>3 DEF BatchSafety, DbInv, SeqInv
    <2>5. \A d \in Dests : ~IsDelivered(m, d) /\ ObjectsOf(m, d) = {}
      BY <2>2, <2>4, Unreserved DEF BatchSafety
    <2>6. \A c \in Batches, d \in Dests :
             /\ IsDelivered(c, d)' <=> IsDelivered(c, d)
             /\ ObjectsOf(c, d)' = ObjectsOf(c, d)
             /\ Reserved(c, d)' <=> Reserved(c, d)
      BY <1>1 DEF IsDelivered, ObjectsOf, Reserved
    <2>7. BatchInv'
      BY <1>1, <2>2, <2>3 DEF BatchSafety, DbInv, BatchInv, Good, NewBatch
    <2>8. SeqInv'
      BY <1>1, <2>3 DEF BatchSafety, DbInv, SeqInv, Reserved
    <2>9. ObjectInv'
      <3>1. ASSUME NEW c \in Rows', NEW d \in Dests, NEW o \in ObjectsOf(c, d)'
            PROVE  o.files = Good(c)' /\ o.files = bt'[c].files
        <4>1. c \in Batches /\ o \in ObjectsOf(c, d)
          BY <2>2, <2>3, <2>6, <3>1
        <4>2. c \in Rows
          BY <2>3, <2>5, <4>1
        <4>3. o.files = Good(c) /\ o.files = bt[c].files
          BY <4>1, <4>2 DEF BatchSafety, DbInv, ObjectInv
        <4>4. QED
          BY <1>1, <2>2, <4>2, <4>3 DEF Good
      <3>2. \A o \in objects' : o.seq \in 1..dsq'[o.dest]
        BY <1>1 DEF BatchSafety, DbInv, ObjectInv
      <3>3. QED
        BY <3>1, <3>2 DEF ObjectInv
    <2>10. DeliveryInv'
      <3>1. \A c \in Batches, d \in Dests : IsDelivered(c, d) => c \in Rows
        BY DEF IsDelivered, BatchSafety, DbInv, SeqInv
      <3>2. \A c \in Batches, d \in Dests : IsDelivered(c, d)' => ObjectsOf(c, d)' # {}
        BY <2>6 DEF BatchSafety, DbInv, DeliveryInv
      <3>3. \A c \in Batches, d \in Dests : IsDelivered(c, d)' => bt'[c].counted
        BY <2>2, <2>6, <3>1 DEF BatchSafety, DbInv, DeliveryInv
      <3>4. \A c \in Rows' : bt'[c].status = "CLOSED" => \A d \in Dests : IsDelivered(c, d)'
        BY <2>2, <2>3, <2>6 DEF BatchSafety, DbInv, DeliveryInv, NewBatch
      <3>5. \A n \in Names : IsDone(n)' => /\ done'[n] \in Rows'
                                           /\ n \in bt'[done'[n]].identity
                                           /\ \A d \in Dests : IsDelivered(done[n], d)'
        BY <1>1, <2>2, <2>3, <2>6 DEF BatchSafety, DbInv, DeliveryInv, IsDone
      <3>6. QED
        BY <1>1, <3>2, <3>3, <3>4, <3>5 DEF DeliveryInv
    <2>11. OneOpenBatch'
      <3>1. Open' = Open \cup {m}
        BY <2>2, <2>3 DEF Open, Rows, NewBatch
      <3>2. \A c \in Open : c \in Rows /\ bt'[c].files \cap files = {}
        BY <1>3, <2>2 DEF Open, Rows, Overlaps
      <3>3. bt'[m].files = files
        BY <2>2 DEF NewBatch
      <3>4. QED
        BY <2>2, <3>1, <3>2, <3>3 DEF OneOpenBatch, BatchSafety, DbInv
    <2>12. Grows
      BY <1>1, <2>2, <2>6 DEF Grows
    <2>13. ScanInv'
      <3>1. CASE ScanTo(i, NoScan)
        <4>1. scan'[i].open = {} /\ \A j \in Instances : j # i => scan'[j] = scan[j]
          BY <3>1 DEF ScanTo, NoScan, TypeOK
        <4>2. QED
          BY <2>12, <4>1, ScanStep DEF BatchSafety
      <3>2. CASE ScanTo(i, [x EXCEPT !.pc = "submitNew", !.open = {fresh}])
        <4>1. /\ scan'[i].open = {fresh}
              /\ \A j \in Instances : j # i => scan'[j] = scan[j]
          BY <1>0, <3>2 DEF ScanTo, TypeOK, Scanner
        <4>2. ASSUME NEW o \in scan'[i].open PROVE Seen(o.b, o.files, o.delivered)'
          <5>1. bt'[m].files = files /\ bt'[m].identity = files
            BY <2>2 DEF NewBatch
          <5>2. o.b = m /\ o.files = files /\ o.delivered = {}
            BY <4>1, <4>2
          <5>3. QED
            BY <2>3, <5>1, <5>2 DEF Seen
        <4>3. QED
          BY <2>12, <4>1, <4>2, ScanStep DEF BatchSafety
      <3>3. ScanTo(i, NoScan) \/ ScanTo(i, [x EXCEPT !.pc = "submitNew", !.open = {fresh}])
        <4>1. bt' # bt
          BY <2>2
        <4>2. QED
          BY <4>1 DEF FormBatch
      <3>4. QED
        BY <3>1, <3>2, <3>3
    <2>14. WorkInv'
      BY <1>1, <2>12, WorkKept DEF BatchSafety
    <2>15. QED
      BY <2>7, <2>8, <2>9, <2>10, <2>11, <2>12, <2>13, <2>14 DEF BatchSafety, DbInv
  <1>4. QED
    BY <1>2, <1>3 DEF FormBatch

\* A number is reserved, if there is none yet: the one after the last.
LEMMA ReserveDb ==
  ASSUME TypeOK, TypeOK', DbInv, NEW b \in Batches, NEW d \in Dests, b \in Rows,
         ~Reserved(b, d), UNCHANGED <<setup, bt, objects, done>>,
         dsq' = [dsq EXCEPT ![d] = @ + 1],
         dl' = [dl EXCEPT ![b][d] = [status |-> "PENDING", seq |-> dsq'[d]]]
  PROVE  DbInv' /\ Grows /\ Reserved(b, d)'
  <1>1. /\ dsq[d] \in Nat /\ dsq'[d] = dsq[d] + 1
        /\ \A e \in Dests : e # d => dsq'[e] = dsq[e]
    BY DEF TypeOK
  <1>2. /\ dl'[b][d] = [status |-> "PENDING", seq |-> dsq[d] + 1]
        /\ \A c \in Batches, e \in Dests : c # b \/ e # d => dl'[c][e] = dl[c][e]
    <2>1. ASSUME NEW r, dl' = [dl EXCEPT ![b][d] = r]
          PROVE  /\ dl'[b][d] = r
                 /\ \A c \in Batches, e \in Dests : c # b \/ e # d => dl'[c][e] = dl[c][e]
      BY <2>1 DEF TypeOK
    <2>2. QED
      BY <1>1, <2>1
  <1>3. dl'[b][d].status = "PENDING" /\ dl'[b][d].seq = dsq[d] + 1
    BY <1>2
  <1>4. Rows' = Rows /\ Rows \subseteq Batches
    BY RowsAreBatches DEF Rows
  <1>5. \A c \in Batches, e \in Dests : IsDelivered(c, e)' <=> IsDelivered(c, e)
    <2>1. ~IsDelivered(b, d)
      BY Unreserved
    <2>2. QED
      BY <1>2, <1>3, <2>1 DEF IsDelivered
  <1>6. \A o \in objects : o.dest \in Dests /\ o.seq \in 1..dsq[o.dest] /\ dsq[o.dest] \in Nat
    BY DEF DbInv, ObjectInv, TypeOK, Object
  <1>7. \A c \in Batches, e \in Dests : ObjectsOf(c, e)' = ObjectsOf(c, e)
    <2>1. ObjectsOf(b, d) = {}
      BY Unreserved
    <2>2. ObjectsOf(b, d)' = {}
      BY <1>1, <1>3, <1>6 DEF ObjectsOf
    <2>3. ASSUME NEW c \in Batches, NEW e \in Dests, c # b \/ e # d
          PROVE  ObjectsOf(c, e)' = ObjectsOf(c, e)
      BY <1>2, <2>3 DEF ObjectsOf
    <2>4. QED
      BY <2>1, <2>2, <2>3
  <1>8. BatchInv'
    BY <1>4 DEF DbInv, BatchInv, Good
  <1>9. SeqInv'
    <2>0. \A c \in Batches, e \in Dests : dl[c][e].seq \in Nat /\ dsq[e] \in Nat
      BY DEF TypeOK, Delivery
    <2>1. \A c \in Batches, e \in Dests : Reserved(c, e)' <=> dl'[c][e].status # "NONE"
      BY <1>1, <1>2, <1>3 DEF DbInv, SeqInv, Reserved
    <2>2. \A c \in Batches, e \in Dests :
            Reserved(c, e)' => c \in Rows' /\ dl'[c][e].seq <= dsq'[e]
      <3>1. ASSUME NEW c \in Batches, NEW e \in Dests, c # b \/ e # d, Reserved(c, e)'
            PROVE  c \in Rows /\ dl'[c][e].seq <= dsq'[e]
        <4>1. Reserved(c, e) /\ dl'[c][e].seq = dl[c][e].seq
          BY <1>2, <3>1 DEF Reserved
        <4>2. c \in Rows /\ dl[c][e].seq <= dsq[e]
          BY <4>1 DEF DbInv, SeqInv
        <4>3. QED
          BY <1>1, <2>0, <4>1, <4>2
      <3>2. QED
        BY <1>1, <1>3, <1>4, <3>1
    <2>3. \A c, f \in Batches, e \in Dests :
            Reserved(c, e)' /\ dl'[c][e].seq = dl'[f][e].seq => c = f
      <3>1. \A c \in Batches : c # b => dl'[c][d].seq # dsq[d] + 1
        <4>1. ASSUME NEW c \in Batches, c # b PROVE dl[c][d].seq # dsq[d] + 1
          <5>1. Reserved(c, d) => dl[c][d].seq <= dsq[d]
            BY DEF DbInv, SeqInv
          <5>2. QED
            BY <1>1, <2>0, <5>1 DEF Reserved
        <4>2. QED
          BY <1>2, <4>1
      <3>2. ASSUME NEW c \in Batches, NEW f \in Batches, NEW e \in Dests,
                   Reserved(c, e)', dl'[c][e].seq = dl'[f][e].seq
            PROVE  c = f
        <4>1. CASE e = d /\ (c = b \/ f = b)
          BY <1>3, <3>1, <3>2, <4>1
        <4>2. CASE ~(e = d /\ (c = b \/ f = b))
          BY <1>2, <3>2, <4>2 DEF DbInv, SeqInv, Reserved
        <4>3. QED
          BY <4>1, <4>2
      <3>3. QED
        BY <3>2
    <2>4. \A e \in Dests : \A s \in 1..dsq'[e] : \E c \in Batches : dl'[c][e].seq = s
      <3>1. ASSUME NEW e \in Dests, NEW s \in 1..dsq'[e]
            PROVE  \E c \in Batches : dl'[c][e].seq = s
        <4>1. CASE e = d /\ s = dsq[d] + 1
          BY <1>3, <4>1
        <4>2. CASE ~(e = d /\ s = dsq[d] + 1)
          <5>1. s \in 1..dsq[e]
            BY <1>1, <2>0, <3>1, <4>2
          <5>2. PICK c \in Batches : dl[c][e].seq = s
            BY <5>1 DEF DbInv, SeqInv
          <5>3. c # b \/ e # d
            BY <2>0, <5>1, <5>2 DEF Reserved
          <5>4. QED
            BY <1>2, <5>2, <5>3
        <4>3. QED
          BY <4>1, <4>2
      <3>2. QED
        BY <3>1
    <2>5. QED
      BY <2>1, <2>2, <2>3, <2>4 DEF SeqInv
  <1>10. ObjectInv'
    <2>1. \A o \in objects' : o.seq \in 1..dsq'[o.dest]
      BY <1>1, <1>6
    <2>2. \A c \in Rows', e \in Dests : \A o \in ObjectsOf(c, e)' :
             o.files = Good(c)' /\ o.files = bt'[c].files
      BY <1>4, <1>7 DEF DbInv, ObjectInv, Good
    <2>3. QED
      BY <2>1, <2>2 DEF ObjectInv
  <1>11. DeliveryInv'
    <2>1. \A c \in Batches, e \in Dests : IsDelivered(c, e)' => ObjectsOf(c, e)' # {}
      BY <1>5, <1>7 DEF DbInv, DeliveryInv
    <2>2. \A c \in Batches, e \in Dests : IsDelivered(c, e)' => bt'[c].counted
      BY <1>5 DEF DbInv, DeliveryInv
    <2>3. \A c \in Rows' : bt'[c].status = "CLOSED" => \A e \in Dests : IsDelivered(c, e)'
      BY <1>4, <1>5 DEF DbInv, DeliveryInv
    <2>4. \A n \in Names : IsDone(n)' => /\ done'[n] \in Rows'
                                         /\ n \in bt'[done'[n]].identity
                                         /\ \A e \in Dests : IsDelivered(done[n], e)'
      BY <1>4, <1>5 DEF DbInv, DeliveryInv, IsDone
    <2>5. QED
      BY <2>1, <2>2, <2>3, <2>4 DEF DeliveryInv
  <1>12. OneOpenBatch'
    BY DEF DbInv, OneOpenBatch, Open
  <1>13. Grows
    <2>1. \A c \in Batches, e \in Dests : Reserved(c, e) => dl'[c][e].seq = dl[c][e].seq
      BY <1>2
    <2>2. QED
      BY <1>4, <1>5, <1>7, <2>1, RowsAreBatches DEF Grows
  <1>14. QED
    BY <1>1, <1>3, <1>8, <1>9, <1>10, <1>11, <1>12, <1>13 DEF DbInv, Reserved

LEMMA ReserveStep ==
  ASSUME TypeOK, TypeOK', BatchSafety, NEW i \in Instances, NEW b \in Batches,
         ReserveDelivery(i, b)
  PROVE  BatchSafety' /\ Grows
  <1> DEFINE x == w[i][b]
  <1>0. x \in Worker /\ Fit(b, x) /\ x.pc = "reserve"
    BY DEF TypeOK, BatchSafety, WorkInv, ReserveDelivery, At
  <1>1. UNCHANGED <<setup, bt, objects, done, scan>>
    BY DEF ReserveDelivery, envVars
  <1>2. Seen(b, x.files, x.delivered) /\ \A e \in Dests \ x.dests : Reserved(b, e)
    BY <1>0 DEF Fit
  <1>3. CASE Leave(i, b, "release") /\ UNCHANGED <<dl, dsq>>
    <2>1. DbInv' /\ Grows
      BY <1>1, <1>3, DbFrame DEF BatchSafety
    <2>2. QED
      BY <1>1, <1>3, <2>1, LeaveFits, WorkStep, ScanKept DEF BatchSafety
  <1>4. CASE ~(Leave(i, b, "release") /\ UNCHANGED <<dl, dsq>>)
    <2> DEFINE rest(d) == x.dests \ {d}
               next == IF Pending(i, b) = {} THEN "close" ELSE "encode"
    <2>1. PICK d \in x.dests :
            /\ MustReserve(b, d) =>
                 /\ dsq' = [dsq EXCEPT ![d] = @ + 1]
                 /\ dl' = [dl EXCEPT ![b][d] = [status |-> "PENDING", seq |-> dsq'[d]]]
            /\ ~MustReserve(b, d) => dl' = dl /\ dsq' = dsq
            /\ Become(i, b, [x EXCEPT !.dests = rest(d),
                                      !.pc = IF rest(d) = {} THEN next ELSE @])
      BY <1>4 DEF ReserveDelivery
    <2>2. d \in Dests /\ b \in Rows
      BY <1>0, <1>2 DEF Worker, Seen
    <2>3. DbInv' /\ Grows /\ Reserved(b, d)'
      <3>1. CASE MustReserve(b, d)
        BY <1>1, <2>1, <2>2, <3>1, ReserveDb DEF MustReserve, Reserved, BatchSafety
      <3>2. CASE ~MustReserve(b, d)
        <4>1. DbInv' /\ Grows
          BY <1>1, <2>1, <3>2, DbFrame DEF BatchSafety
        <4>2. QED
          BY <2>1, <3>2, <4>1 DEF MustReserve, Reserved
      <3>3. QED
        BY <3>1, <3>2
    <2>4. [x EXCEPT !.dests = rest(d), !.pc = IF rest(d) = {} THEN next ELSE @] \in Worker
      BY <1>0 DEF Worker, Pc, Running
    <2>5. PICK y \in Worker :
            y = [x EXCEPT !.dests = rest(d), !.pc = IF rest(d) = {} THEN next ELSE @]
      BY <2>4
    <2>6. /\ y.files = x.files /\ y.delivered = x.delivered /\ y.dests = rest(d)
          /\ y.pc = IF rest(d) = {} THEN next ELSE "reserve"
      BY <1>0, <2>5 DEF Worker
    <2>7. \A e \in Dests \ y.dests : Reserved(b, e)'
      <3>1. \A e \in Dests \ x.dests : Reserved(b, e)'
        BY <1>2, <2>3 DEF Grows, Reserved
      <3>2. QED
        BY <2>3, <2>6, <3>1
    <2>8. Seen(b, y.files, y.delivered)'
      <3>1. PICK F, D : F = x.files /\ D = x.delivered
        OBVIOUS
      <3>2. D \in SUBSET Dests /\ Seen(b, F, D)
        BY <1>0, <1>2, <3>1 DEF Worker
      <3>3. Seen(b, F, D)'
        BY <2>3, <3>2, SeenGrows
      <3>4. F = y.files /\ D = y.delivered
        BY <2>6, <3>1
      <3>5. QED
        BY <3>3, <3>4
    <2>9. y.pc = "close" => \A e \in Dests : IsDelivered(b, e)'
      <3>1. ASSUME y.pc = "close" PROVE Dests \subseteq y.delivered
        BY <2>6, <3>1 DEF Pending
      <3>2. QED
        BY <2>8, <3>1 DEF Seen
    <2>10. y.pc \in {"reserve", "encode", "close"} /\ (y.pc # "reserve" => y.dests = {})
      BY <2>6
    <2>11. Fit(b, y)'
      BY <2>7, <2>8, <2>9, <2>10 DEF Fit, Running, Victims
    <2>12. WorkInv'
      BY <2>1, <2>3, <2>5, <2>11, WorkStep DEF BatchSafety
    <2>13. QED
      BY <1>1, <2>3, <2>12, ScanKept DEF BatchSafety
  <1>5. QED
    BY <1>3, <1>4

\* What another lemma needs of a snapshot, one step later.
LEMMA SeenLater ==
  ASSUME TypeOK, TypeOK', Grows, NEW b \in Batches, NEW x \in Worker, NEW y \in Worker,
         Seen(b, x.files, x.delivered), y.files = x.files, y.delivered = x.delivered
  PROVE  Seen(b, y.files, y.delivered)'
  BY SeenGrows DEF Worker

\* Some pending destinations get the object of the batch.
LEMMA PublishDb ==
  ASSUME TypeOK, TypeOK', DbInv, NEW i \in Instances, NEW b \in Batches,
         NEW put \in SUBSET Dests, NEW files,
         b \in Rows, files = Good(b), files = bt[b].files,
         \A d \in Dests : Reserved(b, d),
         UNCHANGED <<setup, bt, dl, dsq, done>>,
         objects' = Published(i, b, put, files)
  PROVE  /\ DbInv' /\ Grows
         /\ \A d \in put : ObjectsOf(b, d)' # {}
  <1>1. Rows' = Rows /\ Rows \subseteq Batches
    BY RowsAreBatches DEF Rows
  <1>2. \A o \in objects : o.dest \in Dests /\ o.seq \in 1..dsq[o.dest] /\ dsq[o.dest] \in Nat
    BY DEF DbInv, ObjectInv, TypeOK, Object
  <1>3. \A d \in put : dl[b][d].seq \in 1..dsq[d]
    <2>1. \A d \in put : dl[b][d].seq \in Nat /\ dsq[d] \in Nat
      BY DEF TypeOK, Delivery
    <2>2. QED
      BY <2>1 DEF DbInv, SeqInv, Reserved
  <1>4. \A o \in objects' :
          \/ o \in objects /\ ~(o.dest \in put /\ o.seq = dl[b][o.dest].seq)
          \/ o.dest \in put /\ o.seq = dl[b][o.dest].seq /\ o.files = files
    BY DEF Published
  <1>5. ASSUME NEW d \in put
        PROVE  /\ ObjectsOf(b, d)' # {}
               /\ \A o \in ObjectsOf(b, d)' : o.files = files
    <2>1. [dest |-> d, seq |-> dl[b][d].seq, files |-> files] \in objects'
      BY DEF Published
    <2>2. ObjectsOf(b, d)' # {}
      BY <2>1 DEF ObjectsOf
    <2>3. QED
      BY <1>4, <2>2 DEF ObjectsOf
  <1>6. ASSUME NEW c \in Batches, NEW d \in Dests, c # b \/ d \notin put
        PROVE  ObjectsOf(c, d)' = ObjectsOf(c, d)
    <2>1. d \in put => dl[c][d].seq # dl[b][d].seq
      BY <1>6 DEF DbInv, SeqInv
    <2>2. \A o : o \in ObjectsOf(c, d)' => o \in ObjectsOf(c, d)
      BY <1>4, <2>1 DEF ObjectsOf
    <2>3. \A o : o \in ObjectsOf(c, d) => o \in ObjectsOf(c, d)'
      BY <2>1 DEF ObjectsOf, Published
    <2>4. QED
      BY <2>2, <2>3, Zenon DEF ObjectsOf
  <1>7. \A c \in Batches, d \in Dests : ObjectsOf(c, d) # {} => ObjectsOf(c, d)' # {}
    BY <1>5, <1>6
  <1>8. BatchInv' /\ SeqInv' /\ OneOpenBatch'
    BY DEF DbInv, BatchInv, SeqInv, OneOpenBatch, Rows, Good, Reserved, Open
  <1>9. ObjectInv'
    <2>1. \A o \in objects' : o.seq \in 1..dsq'[o.dest]
      BY <1>2, <1>3, <1>4
    <2>2. ASSUME NEW c \in Rows', NEW d \in Dests, NEW o \in ObjectsOf(c, d)'
          PROVE  o.files = Good(c)' /\ o.files = bt'[c].files
      <3>1. CASE c = b /\ d \in put
        BY <1>5, <2>2, <3>1 DEF Good
      <3>2. CASE c # b \/ d \notin put
        <4>1. c \in Rows /\ o \in ObjectsOf(c, d)
          BY <1>1, <1>6, <2>2, <3>2
        <4>2. QED
          BY <4>1 DEF DbInv, ObjectInv, Good
      <3>3. QED
        BY <3>1, <3>2
    <2>3. QED
      BY <2>1, <2>2 DEF ObjectInv
  <1>10. DeliveryInv'
    BY <1>1, <1>7 DEF DbInv, DeliveryInv, IsDelivered, IsDone
  <1>11. Grows
    BY <1>1, <1>7, RowsAreBatches DEF Grows, IsDelivered
  <1>12. QED
    BY <1>5, <1>8, <1>9, <1>10, <1>11 DEF DbInv

LEMMA EncodeStep ==
  ASSUME TypeOK, TypeOK', BatchSafety, NEW i \in Instances, NEW b \in Batches, Encode(i, b)
  PROVE  BatchSafety' /\ Grows
  <1> DEFINE x == w[i][b]
             trouble == {n \in x.files : n \notin input \/ n \in setup.bad}
  <1>0. x \in Worker /\ Fit(b, x) /\ x.pc = "encode"
    BY DEF TypeOK, BatchSafety, WorkInv, Encode, At
  <1>1. UNCHANGED <<setup, bt, dl, dsq, done, scan>>
    BY DEF Encode, envVars, dbVars
  <1>2. Seen(b, x.files, x.delivered) /\ \A d \in Dests : Reserved(b, d)
    BY <1>0 DEF Fit, Running
  <1>3. ASSUME trouble = {}, NEW put \in SUBSET Pending(i, b),
               objects' = Published(i, b, put, x.files),
               Become(i, b, [x EXCEPT !.pc = "count", !.put = put])
        PROVE  BatchSafety' /\ Grows
    <2>1. put \subseteq Dests /\ \A d \in put : d \notin x.delivered
      BY <1>3 DEF Pending
    <2>2. b \in Rows /\ x.files = Good(b) /\ x.files = bt[b].files
      <3>1. x.files \cap setup.bad = {}
        BY <1>3
      <3>2. b \in Rows /\ bt[b].files \subseteq x.files /\ x.files \subseteq bt[b].identity
        BY <1>2 DEF Seen
      <3>3. Good(b) \subseteq bt[b].files
        BY <3>2 DEF BatchSafety, DbInv, BatchInv
      <3>4. QED
        BY <3>1, <3>2, <3>3 DEF Good
    <2>3. /\ DbInv' /\ Grows
          /\ \A d \in put : ObjectsOf(b, d)' # {}
      BY <1>1, <1>2, <1>3, <2>1, <2>2, PublishDb DEF BatchSafety
    <2>4. [x EXCEPT !.pc = "count", !.put = put] \in Worker
      BY <1>0, <2>1 DEF Worker, Pc, Running
    <2>5. PICK y \in Worker : y = [x EXCEPT !.pc = "count", !.put = put]
      BY <2>4
    <2>6. y.pc = "count" /\ y.put = put /\ y.files = x.files /\ y.delivered = x.delivered
      BY <1>0, <2>5 DEF Worker
    <2>7. Seen(b, y.files, y.delivered)'
      BY <1>0, <1>2, <2>3, <2>6, SeenLater
    <2>8. \A d \in Dests : Reserved(b, d)'
      BY <1>2, <2>3 DEF Grows, Reserved
    <2>9. Fit(b, y)'
      BY <2>1, <2>3, <2>6, <2>7, <2>8 DEF Fit, Running, Victims
    <2>10. WorkInv'
      BY <1>3, <2>3, <2>5, <2>9, WorkStep DEF BatchSafety
    <2>11. QED
      BY <1>1, <2>3, <2>10, ScanKept DEF BatchSafety
  <1>4. ASSUME UNCHANGED objects, \E y \in Worker : Become(i, b, y) /\ Fit(b, y)
        PROVE  BatchSafety' /\ Grows
    <2>1. DbInv' /\ Grows
      BY <1>1, <1>4, DbFrame DEF BatchSafety
    <2>2. QED
      BY <1>1, <1>4, <2>1, WorkStep, ScanKept DEF BatchSafety
  <1>5. ASSUME NEW n \in x.files, First(n, trouble), objects' = Aborted(i, b, n),
               Become(i, b, IF n \notin input THEN [Idle EXCEPT !.pc = "touch"]
                            ELSE [Idle EXCEPT !.pc = "drop", !.names = {n}])
        PROVE  BatchSafety' /\ Grows
    <2>1. UNCHANGED objects
      BY <1>5 DEF Aborted
    <2>2. CASE n \notin input
      <3>1. Leave(i, b, "touch")
        BY <1>5, <2>2 DEF Leave
      <3>2. QED
        BY <1>4, <2>1, <3>1, LeaveFits
    <2>3. CASE n \in input
      <3>1. n \in setup.bad /\ n \in Names
        BY <1>0, <1>5, <2>3 DEF First, Worker
      <3>2. [Idle EXCEPT !.pc = "drop", !.names = {n}] \in Worker
        BY <3>1, IdleType DEF Worker, Pc
      <3>3. PICK y \in Worker : y = [Idle EXCEPT !.pc = "drop", !.names = {n}]
        BY <3>2
      <3>4. y.pc = "drop" /\ y.names = {n}
        BY <3>3 DEF Idle
      <3>5. Fit(b, y)
        BY <3>1, <3>4 DEF Fit, Running, Victims
      <3>6. QED
        BY <1>4, <1>5, <2>1, <2>3, <3>3, <3>5
    <2>4. QED
      BY <2>2, <2>3
  <1>6. CASE Leave(i, b, "touch") /\ UNCHANGED objects
    BY <1>4, <1>6, LeaveFits
  <1>7. QED
    BY <1>3, <1>5, <1>6 DEF Encode

LEMMA CountStep ==
  ASSUME TypeOK, TypeOK', BatchSafety, NEW i \in Instances, NEW b \in Batches,
         RecordBatchContributions(i, b)
  PROVE  BatchSafety' /\ Grows
  <1> DEFINE x == w[i][b]
  <1>0. x \in Worker /\ Fit(b, x) /\ x.pc = "count"
    BY DEF TypeOK, BatchSafety, WorkInv, RecordBatchContributions, At
  <1>1. UNCHANGED <<setup, objects, dl, dsq, done, scan>>
    BY DEF RecordBatchContributions, envVars
  <1>2. CASE Leave(i, b, "touch") /\ UNCHANGED bt
    <2>1. DbInv' /\ Grows
      BY <1>1, <1>2, DbFrame DEF BatchSafety
    <2>2. QED
      BY <1>1, <1>2, <2>1, LeaveFits, WorkStep, ScanKept DEF BatchSafety
  <1>3. CASE bt' = Counted(b) /\ Become(i, b, [x EXCEPT !.pc = "mark", !.dests = Pending(i, b)])
    <2>1. /\ Seen(b, x.files, x.delivered) /\ \A d \in Dests : Reserved(b, d)
          /\ \A d \in x.put : d \notin x.delivered /\ ObjectsOf(b, d) # {}
          /\ x.put \subseteq Dests /\ b \in Rows
      BY <1>0 DEF Fit, Running, Worker, Seen
    <2>2. /\ Len(bt') = Len(bt)
          /\ \A c \in Rows : bt'[c] = IF c = b THEN [bt[b] EXCEPT !.counted = TRUE] ELSE bt[c]
      <3>1. [bt[b] EXCEPT !.counted = TRUE] \in Batch
        BY <2>1, RowRewrites DEF Rows
      <3>2. bt' = [bt EXCEPT ![b] = [bt[b] EXCEPT !.counted = TRUE]]
        BY <1>3 DEF Counted
      <3>3. QED
        BY <3>1, <3>2, RowType DEF Rows
    <2>3. bt'[b].counted /\ SameRows
          /\ \A c \in Rows : /\ bt'[c].files = bt[c].files
                             /\ bt[c].counted => bt'[c].counted
                             /\ bt'[c].status = bt[c].status
      <3>1. bt[b] \in Batch
        BY <2>1, RowsAreBatches
      <3>2. LET r == [bt[b] EXCEPT !.counted = TRUE] IN
              /\ r.counted /\ r.files = bt[b].files /\ r.identity = bt[b].identity
              /\ r.status = bt[b].status
        BY <3>1 DEF Batch
      <3>3. QED
        BY <2>1, <2>2, <3>2 DEF SameRows
    <2>4. DbInv' /\ Grows
      BY <1>1, <2>3, RowsFrame DEF BatchSafety
    <2>5. [x EXCEPT !.pc = "mark", !.dests = Pending(i, b)] \in Worker
      BY <1>0 DEF Worker, Pc, Running, Pending
    <2>6. PICK y \in Worker : y = [x EXCEPT !.pc = "mark", !.dests = Pending(i, b)]
      BY <2>5
    <2>7. /\ y.pc = "mark" /\ y.dests = Dests \ x.delivered /\ y.put = x.put
          /\ y.files = x.files /\ y.delivered = x.delivered
      BY <1>0, <2>6 DEF Worker, Pending
    <2>8. Seen(b, y.files, y.delivered)'
      BY <1>0, <2>1, <2>4, <2>7, SeenLater
    <2>9. /\ \A d \in Dests : Reserved(b, d)'
          /\ \A d \in y.put : d \notin y.delivered /\ ObjectsOf(b, d)' # {}
      BY <2>1, <2>4, <2>7 DEF Grows, Reserved
    <2>10. y.put \ y.dests = {}
      BY <2>1, <2>7
    <2>11. Fit(b, y)'
      BY <2>3, <2>7, <2>8, <2>9, <2>10 DEF Fit, Running, Victims
    <2>12. WorkInv'
      BY <1>3, <2>4, <2>6, <2>11, WorkStep DEF BatchSafety
    <2>13. QED
      BY <1>1, <2>4, <2>12, ScanKept DEF BatchSafety
  <1>4. QED
    BY <1>2, <1>3 DEF RecordBatchContributions

\* Delivery rows change their status, under their numbers: none becomes delivered
\* without its object and its counts, none ceases to be.
LEMMA StatusFrame ==
  ASSUME TypeOK, DbInv, UNCHANGED <<setup, dsq, objects, done>>, SameRows,
         \A c \in Rows : /\ bt'[c].files = bt[c].files
                         /\ bt[c].counted => bt'[c].counted
                         /\ bt'[c].status = "OPEN" => bt[c].status = "OPEN"
                         /\ bt'[c].status = "CLOSED" => bt[c].status = "CLOSED",
         \A c \in Batches, d \in Dests :
           /\ dl'[c][d].seq = dl[c][d].seq
           /\ dl'[c][d].status = "NONE" <=> dl[c][d].status = "NONE"
           /\ IsDelivered(c, d) => IsDelivered(c, d)'
           /\ IsDelivered(c, d)' =>
                IsDelivered(c, d) \/ (ObjectsOf(c, d) # {} /\ bt[c].counted)
  PROVE  DbInv' /\ Grows
  <1>0. Rows' = Rows /\ Rows \subseteq Batches
    BY RowsAreBatches DEF SameRows, Rows
  <1>1. \A c \in Batches, d \in Dests :
          /\ ObjectsOf(c, d)' = ObjectsOf(c, d)
          /\ Reserved(c, d)' <=> Reserved(c, d)
    BY DEF ObjectsOf, Reserved
  <1>2. \A c \in Batches, d \in Dests : IsDelivered(c, d)' => c \in Rows
    BY DEF DbInv, SeqInv, IsDelivered
  <1>3. BatchInv'
    BY <1>0 DEF DbInv, BatchInv, Good, SameRows
  <1>4. SeqInv'
    BY <1>0, <1>1 DEF DbInv, SeqInv
  <1>5. ObjectInv'
    BY <1>0, <1>1 DEF DbInv, ObjectInv, Good, SameRows
  <1>6. DeliveryInv'
    <2>1. \A c \in Batches, d \in Dests : IsDelivered(c, d)' => ObjectsOf(c, d)' # {}
      BY <1>1 DEF DbInv, DeliveryInv
    <2>2. \A c \in Batches, d \in Dests : IsDelivered(c, d)' => bt'[c].counted
      BY <1>2 DEF DbInv, DeliveryInv
    <2>3. \A c \in Rows' : bt'[c].status = "CLOSED" => \A d \in Dests : IsDelivered(c, d)'
      BY <1>0 DEF DbInv, DeliveryInv
    <2>4. ASSUME NEW n \in Names, IsDone(n)'
          PROVE  /\ done'[n] \in Rows' /\ n \in bt'[done'[n]].identity
                 /\ \A d \in Dests : IsDelivered(done[n], d)'
      <3>1. /\ done[n] \in Rows /\ n \in bt[done[n]].identity
            /\ \A d \in Dests : IsDelivered(done[n], d)
        BY <2>4 DEF DbInv, DeliveryInv, IsDone
      <3>2. done[n] \in Batches
        BY <1>0, <3>1
      <3>3. \A d \in Dests : IsDelivered(done[n], d)'
        <4>1. PICK c \in Batches : c = done[n]
          BY <3>2
        <4>2. \A d \in Dests : IsDelivered(c, d)'
          BY <3>1, <4>1
        <4>3. done'[n] = c
          BY <4>1
        <4>4. QED
          BY <4>2, <4>3
      <3>4. QED
        BY <1>0, <3>1, <3>3 DEF SameRows
    <2>5. QED
      BY <2>1, <2>2, <2>3, <2>4 DEF DeliveryInv
  <1>7. OneOpenBatch'
    BY <1>0 DEF DbInv, OneOpenBatch, Open, Rows
  <1>8. Grows
    BY <1>0, <1>1, RowsAreBatches DEF Grows, SameRows
  <1>9. QED
    BY <1>3, <1>4, <1>5, <1>6, <1>7, <1>8 DEF DbInv

\* One delivery row gets a status.
LEMMA MarkDb ==
  ASSUME TypeOK, DbInv, NEW b \in Batches, NEW d \in Dests, Reserved(b, d), b \in Rows,
         NEW s \in {"PENDING", "DELIVERED"}, SetStatus(b, d, s),
         s = "PENDING" => ~IsDelivered(b, d),
         s = "DELIVERED" => ObjectsOf(b, d) # {} /\ bt[b].counted,
         UNCHANGED <<setup, bt, dsq, objects, done>>
  PROVE  DbInv' /\ Grows /\ (s = "DELIVERED" => IsDelivered(b, d)')
  <1>1. dl[b][d] \in Delivery /\ dl[b][d].status # "NONE"
    BY DEF TypeOK, DbInv, SeqInv
  <1>2. /\ dl'[b][d].status = s /\ dl'[b][d].seq = dl[b][d].seq
        /\ \A c \in Batches, e \in Dests : c # b \/ e # d => dl'[c][e] = dl[c][e]
    <2>1. dl' = [dl EXCEPT ![b][d] = [dl[b][d] EXCEPT !.status = s]]
      BY DEF SetStatus
    <2>2. ASSUME NEW r, dl' = [dl EXCEPT ![b][d] = r]
          PROVE  /\ dl'[b][d] = r
                 /\ \A c \in Batches, e \in Dests : c # b \/ e # d => dl'[c][e] = dl[c][e]
      BY <2>2 DEF TypeOK
    <2>3. LET r == [dl[b][d] EXCEPT !.status = s] IN r.status = s /\ r.seq = dl[b][d].seq
      BY <1>1 DEF Delivery
    <2>4. QED
      BY <2>1, <2>2, <2>3
  <1>3. ASSUME NEW c \in Batches, NEW e \in Dests
        PROVE  /\ dl'[c][e].seq = dl[c][e].seq
               /\ dl'[c][e].status = "NONE" <=> dl[c][e].status = "NONE"
               /\ IsDelivered(c, e) => IsDelivered(c, e)'
               /\ IsDelivered(c, e)' =>
                    IsDelivered(c, e) \/ (ObjectsOf(c, e) # {} /\ bt[c].counted)
    BY <1>1, <1>2 DEF IsDelivered
  <1>4. DbInv' /\ Grows
    BY <1>3, StatusFrame DEF SameRows
  <1>5. QED
    BY <1>2, <1>4 DEF IsDelivered

LEMMA MarkStep ==
  ASSUME TypeOK, TypeOK', BatchSafety, NEW i \in Instances, NEW b \in Batches,
         MarkDelivery(i, b)
  PROVE  BatchSafety' /\ Grows
  <1> DEFINE x == w[i][b]
  <1>0. x \in Worker /\ Fit(b, x) /\ x.pc = "mark"
    BY DEF TypeOK, BatchSafety, WorkInv, MarkDelivery, At
  <1>1. UNCHANGED <<setup, bt, objects, dsq, done, scan>>
    BY DEF MarkDelivery, envVars
  <1>2. /\ Seen(b, x.files, x.delivered) /\ \A d \in Dests : Reserved(b, d)
        /\ \A d \in x.put : d \notin x.delivered /\ ObjectsOf(b, d) # {}
        /\ \A d \in x.put \ x.dests : IsDelivered(b, d)
        /\ bt[b].counted /\ b \in Rows
    BY <1>0 DEF Fit, Running, Seen
  <1>3. CASE Leave(i, b, "touch") /\ UNCHANGED dl
    <2>1. DbInv' /\ Grows
      BY <1>1, <1>3, DbFrame DEF BatchSafety
    <2>2. QED
      BY <1>1, <1>3, <2>1, LeaveFits, WorkStep, ScanKept DEF BatchSafety
  <1>4. CASE ~(Leave(i, b, "touch") /\ UNCHANGED dl)
    <2> DEFINE rest(d) == x.dests \ {d}
               left(d) == [x EXCEPT !.dests = rest(d)]
    <2>1. PICK d \in x.dests :
            /\ \/ d \in x.put /\ SetStatus(b, d, "DELIVERED")
               \/ d \notin x.put /\ (UNCHANGED dl \/ (/\ dl[b][d].status # "DELIVERED"
                                                      /\ SetStatus(b, d, "PENDING")))
            /\ \/ rest(d) # {} /\ Become(i, b, left(d))
               \/ /\ rest(d) = {} /\ NoneFailed(i, b)
                  /\ Become(i, b, [left(d) EXCEPT !.pc = "close", !.put = {}])
               \/ Leave(i, b, "touch")
      BY <1>4 DEF MarkDelivery, Leave
    <2>2. d \in Dests /\ x.put \subseteq Dests
      BY <1>0 DEF Worker
    <2>3. DbInv' /\ Grows /\ (d \in x.put => IsDelivered(b, d)')
      <3>1. CASE d \in x.put
        BY <1>1, <1>2, <2>1, <2>2, <3>1, MarkDb DEF BatchSafety
      <3>2. CASE d \notin x.put /\ UNCHANGED dl
        BY <1>1, <3>2, DbFrame DEF BatchSafety
      <3>3. CASE d \notin x.put /\ dl[b][d].status # "DELIVERED" /\ SetStatus(b, d, "PENDING")
        BY <1>1, <1>2, <2>2, <3>3, MarkDb DEF BatchSafety, IsDelivered
      <3>4. QED
        BY <2>1, <3>1, <3>2, <3>3
    <2>4. \A e \in x.put \ rest(d) : IsDelivered(b, e)'
      <3>1. \A e \in x.put \ x.dests : IsDelivered(b, e)'
        BY <1>2, <2>2, <2>3 DEF Grows
      <3>2. QED
        BY <2>3, <3>1
    <2>5. /\ \A e \in Dests : Reserved(b, e)'
          /\ \A e \in x.put : e \notin x.delivered /\ ObjectsOf(b, e)' # {}
      BY <1>2, <2>2, <2>3 DEF Grows, Reserved
    <2>6. WorkInv'
      <3>1. CASE Leave(i, b, "touch")
        BY <2>3, <3>1, LeaveFits, WorkStep DEF BatchSafety
      <3>2. CASE Become(i, b, left(d))
        <4>1. left(d) \in Worker
          BY <1>0 DEF Worker
        <4>2. PICK y \in Worker : y = left(d)
          BY <4>1
        <4>3. /\ y.pc = "mark" /\ y.dests = rest(d) /\ y.put = x.put
              /\ y.files = x.files /\ y.delivered = x.delivered
          BY <1>0, <4>2 DEF Worker
        <4>4. Seen(b, y.files, y.delivered)'
          BY <1>0, <1>2, <2>3, <4>3, SeenLater
        <4>5. \A e \in y.put \ y.dests : IsDelivered(b, e)'
          BY <2>4, <4>3
        <4>6. \A e \in y.put : e \notin y.delivered /\ ObjectsOf(b, e)' # {}
          BY <2>5, <4>3
        <4>7. bt'[b].counted
          BY <1>1, <1>2
        <4>8. Fit(b, y)'
          BY <2>5, <4>3, <4>4, <4>5, <4>6, <4>7 DEF Fit, Running, Victims
        <4>9. QED
          BY <2>3, <3>2, <4>2, <4>8, WorkStep DEF BatchSafety
      <3>3. CASE /\ rest(d) = {} /\ NoneFailed(i, b)
                 /\ Become(i, b, [left(d) EXCEPT !.pc = "close", !.put = {}])
        <4>1. [left(d) EXCEPT !.pc = "close", !.put = {}] \in Worker
          BY <1>0 DEF Worker, Pc, Running
        <4>2. PICK y \in Worker : y = [left(d) EXCEPT !.pc = "close", !.put = {}]
          BY <4>1
        <4>3. y.pc = "close" /\ y.files = x.files /\ y.delivered = x.delivered
          BY <1>0, <4>2 DEF Worker
        <4>4. Seen(b, y.files, y.delivered)'
          BY <1>0, <1>2, <2>3, <4>3, SeenLater
        <4>5. \A e \in Dests : IsDelivered(b, e)'
          <5>1. \A e \in x.put : IsDelivered(b, e)'
            BY <2>4, <3>3
          <5>2. \A e \in x.delivered : IsDelivered(b, e)'
            BY <4>3, <4>4 DEF Seen
          <5>3. \A e \in Dests : e \in x.put \/ e \in x.delivered
            BY <3>3 DEF NoneFailed, Pending
          <5>4. QED
            BY <5>1, <5>2, <5>3
        <4>6. Fit(b, y)'
          BY <2>5, <4>3, <4>4, <4>5 DEF Fit, Running, Victims
        <4>7. QED
          BY <2>3, <3>3, <4>2, <4>6, WorkStep DEF BatchSafety
      <3>4. QED
        BY <2>1, <3>1, <3>2, <3>3
    <2>7. QED
      BY <1>1, <2>3, <2>6, ScanKept DEF BatchSafety
  <1>5. QED
    BY <1>3, <1>4

\* The commit: the members of a batch that every destination has are recorded.
LEMMA CloseDb ==
  ASSUME TypeOK, DbInv, NEW b \in Batches, NEW files, b \in Rows,
         files \subseteq bt[b].identity, \A d \in Dests : IsDelivered(b, d),
         UNCHANGED <<setup, dl, dsq, objects>>,
         done' = [n \in Names |-> IF n \in files THEN b ELSE done[n]],
         bt' = [bt EXCEPT ![b].status = "CLOSED"]
  PROVE  DbInv' /\ Grows
  <1>1. /\ Len(bt') = Len(bt)
        /\ \A c \in Rows : bt'[c] = IF c = b THEN [bt[b] EXCEPT !.status = "CLOSED"] ELSE bt[c]
    BY RowRewrites, RowType DEF Rows
  <1>2. \A c \in Rows : /\ bt'[c].files = bt[c].files /\ bt'[c].identity = bt[c].identity
                        /\ bt'[c].counted = bt[c].counted
                        /\ bt'[c].status = "OPEN" => bt[c].status = "OPEN"
                        /\ bt'[c].status = "CLOSED" => bt[c].status = "CLOSED" \/ c = b
    <2>1. bt[b] \in Batch
      BY RowsAreBatches
    <2>2. LET r == [bt[b] EXCEPT !.status = "CLOSED"] IN
            /\ r.files = bt[b].files /\ r.identity = bt[b].identity
            /\ r.counted = bt[b].counted /\ r.status = "CLOSED"
      BY <2>1 DEF Batch
    <2>3. QED
      BY <1>1, <2>2
  <1>3. Rows' = Rows /\ Rows \subseteq Batches
    BY <1>1, RowsAreBatches DEF Rows
  <1>4. BatchInv'
    BY <1>2, <1>3 DEF DbInv, BatchInv, Good
  <1>5. SeqInv'
    BY <1>3 DEF DbInv, SeqInv, Reserved
  <1>6. ObjectInv'
    BY <1>2, <1>3 DEF DbInv, ObjectInv, ObjectsOf, Good
  <1>7. \A c \in Batches, d \in Dests :
          /\ IsDelivered(c, d)' <=> IsDelivered(c, d)
          /\ ObjectsOf(c, d)' = ObjectsOf(c, d)
    BY DEF IsDelivered, ObjectsOf
  <1>8. DeliveryInv'
    <2>1. \A c \in Batches, d \in Dests : IsDelivered(c, d) => c \in Rows
      BY DEF DbInv, SeqInv, IsDelivered
    <2>2. \A c \in Batches, d \in Dests : IsDelivered(c, d)' =>
             ObjectsOf(c, d)' # {} /\ bt'[c].counted
      BY <1>2, <1>7, <2>1 DEF DbInv, DeliveryInv
    <2>3. \A c \in Rows' : bt'[c].status = "CLOSED" => \A d \in Dests : IsDelivered(c, d)'
      BY <1>2, <1>3, <1>7 DEF DbInv, DeliveryInv
    <2>4. ASSUME NEW n \in Names, IsDone(n)'
          PROVE  /\ done'[n] \in Rows' /\ n \in bt'[done'[n]].identity
                 /\ \A d \in Dests : IsDelivered(done[n], d)'
      <3>1. PICK c : c = done'[n]
        OBVIOUS
      <3>2. c \in Rows /\ n \in bt[c].identity /\ \A d \in Dests : IsDelivered(c, d)
        <4>1. CASE n \in files
          BY <3>1, <4>1
        <4>2. CASE n \notin files
          BY <2>4, <3>1, <4>2 DEF DbInv, DeliveryInv, IsDone
        <4>3. QED
          BY <4>1, <4>2
      <3>3. \A d \in Dests : IsDelivered(c, d)'
        BY <1>3, <1>7, <3>2
      <3>4. QED
        BY <1>2, <1>3, <3>1, <3>2, <3>3
    <2>5. QED
      BY <2>2, <2>3, <2>4 DEF DeliveryInv
  <1>9. OneOpenBatch'
    BY <1>2, <1>3 DEF DbInv, OneOpenBatch, Open, Rows
  <1>10. Grows
    BY <1>1, <1>2, <1>7, RowsAreBatches DEF Grows
  <1>11. QED
    BY <1>4, <1>5, <1>6, <1>8, <1>9, <1>10 DEF DbInv

LEMMA CloseStep ==
  ASSUME TypeOK, TypeOK', BatchSafety, NEW i \in Instances, NEW b \in Batches,
         CloseBatch(i, b)
  PROVE  BatchSafety' /\ Grows
  <1> DEFINE x == w[i][b]
  <1>0. x \in Worker /\ Fit(b, x) /\ x.pc = "close"
    BY DEF TypeOK, BatchSafety, WorkInv, CloseBatch, At
  <1>1. UNCHANGED <<setup, objects, dl, dsq, scan>>
    BY DEF CloseBatch, envVars
  <1>2. /\ Seen(b, x.files, x.delivered) /\ \A d \in Dests : Reserved(b, d)
        /\ \A d \in Dests : IsDelivered(b, d)
        /\ b \in Rows /\ x.files \subseteq bt[b].identity
    BY <1>0 DEF Fit, Running, Seen
  <1>3. DbInv' /\ Grows
    <2>1. CASE UNCHANGED <<done, bt>>
      BY <1>1, <2>1, DbFrame DEF BatchSafety
    <2>2. CASE /\ done' = [n \in Names |-> IF n \in x.files THEN b ELSE done[n]]
               /\ bt' = [bt EXCEPT ![b].status = "CLOSED"]
      BY <1>1, <1>2, <2>2, CloseDb DEF BatchSafety
    <2>3. QED
      BY <2>1, <2>2 DEF CloseBatch
  <1>4. WorkInv'
    <2>1. CASE Leave(i, b, "touch") \/ Leave(i, b, "release")
      BY <1>3, <2>1, LeaveFits, WorkStep DEF BatchSafety
    <2>2. CASE Goto(i, b, "dispose")
      <3>1. [x EXCEPT !.pc = "dispose"] \in Worker
        BY <1>0 DEF Worker, Pc, Running
      <3>2. PICK y \in Worker : y = [x EXCEPT !.pc = "dispose"]
        BY <3>1
      <3>3. y.pc = "dispose" /\ y.files = x.files /\ y.delivered = x.delivered
        BY <1>0, <3>2 DEF Worker
      <3>4. Fit(b, y)
        BY <1>2, <3>3 DEF Fit, Running, Victims
      <3>5. QED
        BY <1>3, <2>2, <3>2, <3>4, WorkStep DEF Goto, BatchSafety
    <2>3. QED
      BY <2>1, <2>2 DEF CloseBatch
  <1>5. QED
    BY <1>1, <1>3, <1>4, ScanKept DEF BatchSafety

LEMMA TouchStep ==
  ASSUME TypeOK, TypeOK', BatchSafety, NEW i \in Instances, NEW b \in Batches,
         TouchBatchAttempt(i, b)
  PROVE  BatchSafety' /\ Grows
  <1>1. UNCHANGED <<setup, objects, dl, dsq, done, scan>>
    BY DEF TouchBatchAttempt, envVars
  <1>2. DbInv' /\ Grows
    <2>1. CASE UNCHANGED bt
      BY <1>1, <2>1, DbFrame DEF BatchSafety
    <2>2. CASE bt' = [bt EXCEPT ![b].attempts = AtMost(@ + 1, MaxAttempts)]
      <3> DEFINE a == AtMost(bt[b].attempts + 1, MaxAttempts)
                 r == [bt[b] EXCEPT !.attempts = a]
      <3>1. b \in Rows => /\ r \in Batch /\ r.files = bt[b].files
                          /\ r.identity = bt[b].identity
                          /\ r.counted = bt[b].counted /\ r.status = bt[b].status
        <4>1. ASSUME b \in Rows PROVE bt[b] \in Batch /\ a \in 0..MaxAttempts
          <5>1. bt[b] \in Batch
            BY <4>1, RowsAreBatches
          <5>2. QED
            BY <5>1, BatchAssumption DEF Batch, AtMost
        <4>2. QED
          BY <4>1 DEF Batch
      <3>2. bt' = [bt EXCEPT ![b] = r]
        BY <2>2
      <3>3. /\ Len(bt') = Len(bt)
            /\ \A c \in Rows : bt'[c] = IF c = b THEN r ELSE bt[c]
        BY <3>1, <3>2, RowType DEF Rows
      <3> HIDE DEF r
      <3>4. SameRows /\ \A c \in Rows : /\ bt'[c].files = bt[c].files
                                        /\ bt[c].counted => bt'[c].counted
                                        /\ bt'[c].status = bt[c].status
        BY <3>1, <3>3 DEF SameRows
      <3>5. QED
        BY <1>1, <3>4, RowsFrame DEF BatchSafety
    <2>3. QED
      BY <2>1, <2>2 DEF TouchBatchAttempt
  <1>3. Leave(i, b, "abandon") \/ Leave(i, b, "release")
    BY DEF TouchBatchAttempt
  <1>4. QED
    BY <1>1, <1>2, <1>3, LeaveFits, WorkStep, ScanKept DEF BatchSafety

LEMMA AbandonStep ==
  ASSUME TypeOK, TypeOK', BatchSafety, NEW i \in Instances, NEW b \in Batches,
         AbandonBatch(i, b)
  PROVE  BatchSafety' /\ Grows
  <1>1. UNCHANGED <<setup, objects, dsq, done, scan>> /\ Leave(i, b, "release")
    BY DEF AbandonBatch, envVars
  <1>2. DbInv' /\ Grows
    <2>1. CASE UNCHANGED <<dl, bt>>
      BY <1>1, <2>1, DbFrame DEF BatchSafety
    <2>2. CASE /\ dl' = [dl EXCEPT ![b] = RestFailed(b)]
               /\ bt' = [bt EXCEPT ![b].status = "ABANDONED"]
      <3> DEFINE r == [bt[b] EXCEPT !.status = "ABANDONED"]
      <3>1. b \in Rows => /\ r \in Batch /\ r.files = bt[b].files
                          /\ r.identity = bt[b].identity
                          /\ r.counted = bt[b].counted /\ r.status = "ABANDONED"
        BY RowsAreBatches DEF Batch
      <3>2. /\ Len(bt') = Len(bt)
            /\ \A c \in Rows : bt'[c] = IF c = b THEN r ELSE bt[c]
        BY <2>2, <3>1, RowType DEF Rows
      <3> HIDE DEF r
      <3>3. SameRows /\ \A c \in Rows : /\ bt'[c].files = bt[c].files
                                        /\ bt[c].counted => bt'[c].counted
                                        /\ bt'[c].status = "OPEN" => bt[c].status = "OPEN"
                                        /\ bt'[c].status = "CLOSED" => bt[c].status = "CLOSED"
        BY <3>1, <3>2 DEF SameRows
      <3>4. /\ \A d \in Dests : dl'[b][d] = RestFailed(b)[d]
            /\ \A c \in Batches : c # b => dl'[c] = dl[c]
        BY <2>2 DEF TypeOK
      <3>5. ASSUME NEW d \in Dests
            PROVE  /\ RestFailed(b)[d].seq = dl[b][d].seq
                   /\ RestFailed(b)[d].status = "NONE" <=> dl[b][d].status = "NONE"
                   /\ RestFailed(b)[d].status = "DELIVERED" <=> dl[b][d].status = "DELIVERED"
        <4>1. dl[b][d] \in Delivery
          BY DEF TypeOK
        <4>2. LET f == [dl[b][d] EXCEPT !.status = "FAILED"]
              IN  f.status = "FAILED" /\ f.seq = dl[b][d].seq
          BY <4>1 DEF Delivery
        <4>3. QED
          BY <4>2 DEF RestFailed
      <3>6. \A c \in Batches, d \in Dests :
              /\ dl'[c][d].seq = dl[c][d].seq
              /\ dl'[c][d].status = "NONE" <=> dl[c][d].status = "NONE"
              /\ IsDelivered(c, d) => IsDelivered(c, d)'
              /\ IsDelivered(c, d)' =>
                   IsDelivered(c, d) \/ (ObjectsOf(c, d) # {} /\ bt[c].counted)
        BY <3>4, <3>5 DEF IsDelivered
      <3>7. QED
        BY <1>1, <3>3, <3>6, StatusFrame DEF BatchSafety
    <2>3. QED
      BY <2>1, <2>2 DEF AbandonBatch
  <1>3. QED
    BY <1>1, <1>2, LeaveFits, WorkStep, ScanKept DEF BatchSafety

\* A member that cannot be decoded leaves its batch.  A batch with an object has none.
LEMMA DropDb ==
  ASSUME TypeOK, DbInv, NEW b \in Batches, NEW names, names \subseteq setup.bad,
         UNCHANGED <<setup, dl, dsq, objects, done>>,
         bt' = [bt EXCEPT ![b].files = @ \ names]
  PROVE  DbInv' /\ Grows
  <1> DEFINE r == [bt[b] EXCEPT !.files = @ \ names]
  <1>1. b \in Rows => /\ r \in Batch /\ r.files = bt[b].files \ names
                      /\ r.identity = bt[b].identity
                      /\ r.counted = bt[b].counted /\ r.status = bt[b].status
    BY RowsAreBatches DEF Batch
  <1>2. bt' = [bt EXCEPT ![b] = r]
    OBVIOUS
  <1>3. /\ Len(bt') = Len(bt)
        /\ \A c \in Rows : bt'[c] = IF c = b THEN r ELSE bt[c]
    BY <1>1, <1>2, RowType DEF Rows
  <1> HIDE DEF r
  <1>4. \A c \in Rows : /\ bt'[c].files = IF c = b THEN bt[b].files \ names ELSE bt[c].files
                        /\ bt'[c].identity = bt[c].identity
                        /\ bt'[c].counted = bt[c].counted /\ bt'[c].status = bt[c].status
    <2>1. ASSUME NEW c \in Rows, c = b
          PROVE  /\ bt'[c].files = bt[b].files \ names /\ bt'[c].identity = bt[c].identity
                 /\ bt'[c].counted = bt[c].counted /\ bt'[c].status = bt[c].status
      BY <1>1, <1>3, <2>1
    <2>2. ASSUME NEW c \in Rows, c # b PROVE bt'[c] = bt[c]
      BY <1>3, <2>2
    <2>3. QED
      BY <2>1, <2>2
  <1>5. Rows' = Rows /\ Rows \subseteq Batches
    BY <1>3, RowsAreBatches DEF Rows
  <1>6. \A c \in Batches, d \in Dests :
          /\ IsDelivered(c, d)' <=> IsDelivered(c, d)
          /\ ObjectsOf(c, d)' = ObjectsOf(c, d)
    BY DEF IsDelivered, ObjectsOf
  <1>7. BatchInv'
    BY <1>4, <1>5 DEF DbInv, BatchInv, Good
  <1>8. SeqInv'
    BY <1>5 DEF DbInv, SeqInv, Reserved
  <1>9. ObjectInv'
    <2>1. ASSUME NEW c \in Rows', NEW d \in Dests, NEW o \in ObjectsOf(c, d)'
          PROVE  o.files = Good(c)' /\ o.files = bt'[c].files
      <3>1. c \in Rows /\ o \in ObjectsOf(c, d)
        BY <1>5, <1>6, <2>1
      <3>2. o.files = Good(c) /\ o.files = bt[c].files
        BY <3>1 DEF DbInv, ObjectInv
      <3>3. bt[c].files \ names = bt[c].files
        BY <3>2 DEF Good
      <3>4. QED
        BY <1>4, <3>1, <3>2, <3>3 DEF Good
    <2>2. \A o \in objects' : o.seq \in 1..dsq'[o.dest]
      BY DEF DbInv, ObjectInv
    <2>3. QED
      BY <2>1, <2>2 DEF ObjectInv
  <1>10. DeliveryInv'
    <2>1. \A c \in Batches, d \in Dests : IsDelivered(c, d) => c \in Rows
      BY DEF DbInv, SeqInv, IsDelivered
    <2>2. \A c \in Batches, d \in Dests : IsDelivered(c, d)' =>
             ObjectsOf(c, d)' # {} /\ bt'[c].counted
      BY <1>4, <1>6, <2>1 DEF DbInv, DeliveryInv
    <2>3. \A c \in Rows' : bt'[c].status = "CLOSED" => \A d \in Dests : IsDelivered(c, d)'
      BY <1>4, <1>5, <1>6 DEF DbInv, DeliveryInv
    <2>4. ASSUME NEW n \in Names, IsDone(n)'
          PROVE  /\ done'[n] \in Rows' /\ n \in bt'[done'[n]].identity
                 /\ \A d \in Dests : IsDelivered(done[n], d)'
      <3>1. PICK c : c = done'[n]
        OBVIOUS
      <3>2. c \in Rows /\ n \in bt[c].identity /\ \A d \in Dests : IsDelivered(c, d)
        BY <2>4, <3>1 DEF DbInv, DeliveryInv, IsDone
      <3>3. \A d \in Dests : IsDelivered(c, d)'
        BY <1>5, <1>6, <3>2
      <3>4. QED
        BY <1>4, <1>5, <3>1, <3>2, <3>3
    <2>5. QED
      BY <2>2, <2>3, <2>4 DEF DeliveryInv
  <1>11. OneOpenBatch'
    BY <1>4, <1>5 DEF DbInv, OneOpenBatch, Open, Rows
  <1>12. Grows
    BY <1>3, <1>4, <1>6, RowsAreBatches DEF Grows
  <1>13. QED
    BY <1>7, <1>8, <1>9, <1>10, <1>11, <1>12 DEF DbInv

LEMMA DropStep ==
  ASSUME TypeOK, TypeOK', BatchSafety, NEW i \in Instances, NEW b \in Batches,
         DropBatchFile(i, b)
  PROVE  BatchSafety' /\ Grows
  <1> DEFINE x == w[i][b]
  <1>0. x \in Worker /\ Fit(b, x) /\ x.pc = "dropFile"
    BY DEF TypeOK, BatchSafety, WorkInv, DropBatchFile, At
  <1>1. UNCHANGED <<setup, objects, dl, dsq, done, scan>>
    BY DEF DropBatchFile, envVars
  <1>2. x.names # {} /\ x.names \subseteq setup.bad
    BY <1>0 DEF Fit, Victims
  <1>3. DbInv' /\ Grows
    <2>1. CASE UNCHANGED bt
      BY <1>1, <2>1, DbFrame DEF BatchSafety
    <2>2. CASE bt' = [bt EXCEPT ![b].files = @ \ x.names]
      BY <1>1, <1>2, <2>2, DropDb DEF BatchSafety
    <2>3. QED
      BY <2>1, <2>2 DEF DropBatchFile
  <1>4. WorkInv'
    <2>1. CASE Leave(i, b, "abandon")
      BY <1>3, <2>1, LeaveFits, WorkStep DEF BatchSafety
    <2>2. CASE Goto(i, b, "quarantine")
      <3>1. [x EXCEPT !.pc = "quarantine"] \in Worker
        BY <1>0 DEF Worker, Pc, Running
      <3>2. PICK y \in Worker : y = [x EXCEPT !.pc = "quarantine"]
        BY <3>1
      <3>3. y.pc = "quarantine" /\ y.names = x.names
        BY <1>0, <3>2 DEF Worker
      <3>4. Fit(b, y)
        BY <1>2, <3>3 DEF Fit, Running, Victims
      <3>5. QED
        BY <1>3, <2>2, <3>2, <3>4, WorkStep DEF Goto, BatchSafety
    <2>3. QED
      BY <2>1, <2>2 DEF DropBatchFile
  <1>5. QED
    BY <1>1, <1>3, <1>4, ScanKept DEF BatchSafety

-----------------------------------------------------------------------------
(* The invariant, and what follows from it.                                *)

LEMMA SafetyInit == Init => BatchSafety
  <1> SUFFICES ASSUME Init PROVE BatchSafety
    OBVIOUS
  <1>1. Rows = {} /\ Open = {} /\ Len(bt) = 0
    BY DEF Init, Rows, Open
  <1>2. /\ \A c \in Batches, d \in Dests : dl[c][d] = NoDelivery
        /\ \A d \in Dests : dsq[d] = 0
    BY DEF Init
  <1>3. NoDelivery.status = "NONE" /\ NoDelivery.seq = 0
    BY DEF NoDelivery
  <1>4. BatchInv /\ OneOpenBatch
    BY <1>1 DEF BatchInv, OneOpenBatch
  <1>5. SeqInv
    BY <1>2, <1>3 DEF SeqInv, Reserved
  <1>6. ObjectInv
    BY <1>1 DEF Init, ObjectInv
  <1>7. DeliveryInv
    BY <1>1, <1>2, <1>3 DEF Init, DeliveryInv, IsDelivered, IsDone
  <1>8. ScanInv
    BY DEF Init, ScanInv, NoScan
  <1>9. WorkInv
    BY DEF Init, WorkInv, Idle, Fit, Running, Victims
  <1>10. QED
    BY <1>4, <1>5, <1>6, <1>7, <1>8, <1>9 DEF BatchSafety, DbInv

\* Every step keeps BatchSafety, and takes back nothing that is delivered.
LEMMA SafetyStep ==
  ASSUME TypeOK, TypeOK', BatchSafety, [Next]_vars
  PROVE  BatchSafety' /\ Grows
  <1>1. CASE UNCHANGED vars
    <2>1. DbInv' /\ Grows
      BY <1>1, DbFrame DEF vars, BatchSafety
    <2>2. QED
      BY <1>1, <2>1, ScanKept, WorkKept DEF vars, BatchSafety
  <1>2. CASE \/ \E n \in Names : Arrive(n) \/ LeaseExpire(n)
             \/ \E i \in Instances : ScanFails(i) \/ Crash(i)
    BY <1>2, QuietEnvironment
  <1>3. ASSUME NEW i \in Instances, Scan(i) PROVE BatchSafety' /\ Grows
    BY <1>3, QuietScan, FormStep DEF Scan
  <1>4. ASSUME NEW i \in Instances, NEW b \in Batches,
               HandleBatch(i, b) \/ Heartbeat(i, b) \/ Timeout(i, b)
        PROVE  BatchSafety' /\ Grows
    BY <1>4, QuietWorker, ReserveStep, EncodeStep, CountStep, MarkStep, CloseStep,
       TouchStep, AbandonStep, DropStep DEF HandleBatch
  <1>5. QED
    BY <1>1, <1>2, <1>3, <1>4 DEF Next

\* BatchSafety is an invariant, and every step only lets rows, numbers and objects grow.
THEOREM BatchesSafe == Spec => [](TypeOK /\ BatchSafety) /\ [][Grows]_vars
  <1>1. Init => BatchSafety
    BY SafetyInit
  <1>2. TypeOK /\ TypeOK' /\ BatchSafety /\ [Next]_vars => BatchSafety' /\ Grows
    BY SafetyStep
  <1>3. QED
    BY <1>1, <1>2, TypeCorrect, PTL DEF Spec

\* A file that can be decoded is DONE only when every destination holds an object with
\* its records: for any number of instances, and whatever fails (CloseBatch, resumes).
THEOREM DoneEverywhere == Spec => []DoneIsEverywhere
  <1>1. TypeOK /\ BatchSafety => DoneIsEverywhere
    <2> SUFFICES ASSUME TypeOK, BatchSafety, NEW n \in Names, IsDone(n),
                        n \notin setup.bad, NEW d \in Dests
                 PROVE  /\ IsDelivered(done[n], d)
                        /\ \E o \in ObjectsOf(done[n], d) : n \in o.files
      BY DEF DoneIsEverywhere, Everywhere
    <2>1. /\ done[n] \in Rows /\ n \in bt[done[n]].identity
          /\ IsDelivered(done[n], d)
      BY DEF BatchSafety, DbInv, DeliveryInv
    <2>2. done[n] \in Batches
      BY <2>1, RowsAreBatches
    <2>3. PICK o : o \in ObjectsOf(done[n], d)
      BY <2>1, <2>2 DEF BatchSafety, DbInv, DeliveryInv
    <2>4. o.files = Good(done[n])
      BY <2>1, <2>3 DEF BatchSafety, DbInv, ObjectInv
    <2>5. n \in o.files
      BY <2>1, <2>4 DEF Good
    <2>6. QED
      BY <2>1, <2>3, <2>5
  <1>2. QED
    BY <1>1, BatchesSafe, PTL

\* Once a destination was served, the counts of the members are persisted
\* (RecordBatchContributions before MarkDelivered).
THEOREM CountsBeforeDelivery == Spec => []DeliveredHasCounts
  <1>1. TypeOK /\ BatchSafety => DeliveredHasCounts
    <2> SUFFICES ASSUME TypeOK, BatchSafety, NEW b \in Rows, NEW d \in Dests,
                        IsDelivered(b, d)
                 PROVE  bt[b].counted
      BY DEF DeliveredHasCounts, DeliveredTo, IsDelivered, Rows
    <2>1. QED
      BY RowsAreBatches DEF BatchSafety, DbInv, DeliveryInv
  <1>2. QED
    BY <1>1, BatchesSafe, PTL

\* A destination never gets part of a batch: an object holds all its members or does
\* not exist (the abort of the pipes in ProcessBatch).
THEOREM WholeObjects == Spec => []NoPartialObject
  <1>1. BatchSafety => NoPartialObject
    BY DEF BatchSafety, DbInv, ObjectInv, NoPartialObject, Rows
  <1>2. QED
    BY <1>1, BatchesSafe, PTL

\* Every number a destination's sequence has reached belongs to exactly one batch, and
\* one without a delivered object to a batch that is open or was given up
\* (ReserveDelivery, BR-DST-011).
THEOREM NumbersExplained == Spec => []SequenceExplained
  <1>1. TypeOK /\ BatchSafety => SequenceExplained
    <2> SUFFICES ASSUME TypeOK, BatchSafety, NEW d \in Dests, NEW s \in 1..dsq[d]
                 PROVE  \E b \in 1..Len(bt) :
                          /\ {c \in Batches : dl[c][d].seq = s} = {b}
                          /\ IsDelivered(b, d) \/ bt[b].status \in {"OPEN", "ABANDONED"}
      BY DEF SequenceExplained
    <2>1. PICK b \in Batches : dl[b][d].seq = s
      BY DEF BatchSafety, DbInv, SeqInv
    <2>2. s # 0
      BY DEF TypeOK
    <2>3. Reserved(b, d) /\ b \in Rows
      BY <2>1, <2>2 DEF Reserved, BatchSafety, DbInv, SeqInv
    <2>4. \A c \in Batches : dl[c][d].seq = s => c = b
      BY <2>1, <2>3 DEF BatchSafety, DbInv, SeqInv
    <2>5. bt[b].status \in {"OPEN", "CLOSED", "ABANDONED"}
      BY <2>3, RowsAreBatches DEF Batch
    <2>6. bt[b].status = "CLOSED" => IsDelivered(b, d)
      BY <2>3 DEF BatchSafety, DbInv, DeliveryInv
    <2>7. {c \in Batches : dl[c][d].seq = s} = {b}
      BY <2>1, <2>4
    <2>8. QED
      BY <2>3, <2>5, <2>6, <2>7 DEF Rows
  <1>2. QED
    BY <1>1, BatchesSafe, PTL

\* No file is a member of two open batches (the overlap check of FormBatch).
THEOREM OpenBatchesDisjoint == Spec => []OneOpenBatch
  <1>1. BatchSafety => OneOpenBatch
    BY DEF BatchSafety, DbInv
  <1>2. QED
    BY <1>1, BatchesSafe, PTL

\* A delivery once recorded stays recorded, under its sequence number.
THEOREM DeliveriesStay == Spec => DeliveredForGood
  <1>1. TypeOK /\ TypeOK' /\ BatchSafety /\ [Grows]_vars =>
          [\A b \in Batches, d \in Dests : IsDelivered(b, d) => dl'[b][d] = dl[b][d]]_vars
    <2> SUFFICES ASSUME TypeOK, TypeOK', BatchSafety, Grows, NEW b \in Batches, NEW d \in Dests,
                        IsDelivered(b, d)
                 PROVE  dl'[b][d] = dl[b][d]
      OBVIOUS
    <2>1. Reserved(b, d)
      BY DEF IsDelivered, BatchSafety, DbInv, SeqInv
    <2>2. dl'[b][d].seq = dl[b][d].seq /\ IsDelivered(b, d)'
      BY <2>1 DEF Grows
    <2>3. dl[b][d] \in Delivery /\ dl'[b][d] \in Delivery
      BY DEF TypeOK
    <2>4. QED
      BY <2>2, <2>3 DEF Delivery, IsDelivered
  <1>2. QED
    BY <1>1, BatchesSafe, PTL DEF DeliveredForGood

-----------------------------------------------------------------------------
(* One instance never batches a file twice while its batch is kept.  The   *)
(* invariant follows a file from the batch that pins it (open, then closed *)
(* and recorded DONE) through the two reads of scanBatched that keep it    *)
(* out of the next batch.                                                  *)

\* A batch that was not given up: no member can be dropped, and attempts are left.
Kept(b) == bt[b].identity \cap setup.bad = {} /\ bt[b].attempts < MaxAttempts

\* A kept batch is open, or closed with its members recorded; no two share a member.
KeptRows ==
  /\ \A b \in Rows : Kept(b) =>
       \/ bt[b].status = "OPEN"
       \/ bt[b].status = "CLOSED" /\ \A n \in bt[b].files : IsDone(n)
  /\ \A b, c \in Rows : Kept(b) /\ Kept(c) /\ b # c => bt[b].files \cap bt[c].files = {}

\* The steps after which a batch may be given up, and those that give it up.
GivingUp == {"abandon", "retire"} \cup Victims

GiveUpInv == \A i \in Instances, b \in Batches :
  /\ w[i][b].pc \in GivingUp \cup {"touch"} => b \in Rows
  /\ w[i][b].pc \in GivingUp => ~Kept(b)

\* What a scanner has established of the files it still holds, of each kept batch.
FreeOf(x) ==
  /\ x.pc = "pinned" => \A b \in Rows : Kept(b) => \A n \in x.entries \cap bt[b].files : IsDone(n)
  /\ x.pc = "form" => \A b \in Rows : Kept(b) => x.entries \cap bt[b].files = {}

FreeInv == \A i \in Instances : FreeOf(scan[i])

KeptInv == KeptRows /\ GiveUpInv /\ FreeInv

\* What a step does to the rows, but for a new one: a batch that is still kept was kept,
\* and it stays open or closed, or closes with its members; a record stays.
RowsAge ==
  /\ Len(bt') = Len(bt)
  /\ \A n \in Names : IsDone(n) => IsDone(n)'
  /\ \A b \in Rows :
       /\ bt'[b].files \subseteq bt[b].files
       /\ Kept(b)' =>
            /\ Kept(b)
            /\ \/ bt'[b].status = bt[b].status
               \/ bt'[b].status = "CLOSED" /\ \A n \in bt'[b].files : IsDone(n)'

LEMMA RowMembers ==
  ASSUME TypeOK, NEW b \in Rows
  PROVE  bt[b].files \subseteq Names
  <1>1. bt[b] \in Batch
    BY RowsAreBatches
  <1>2. QED
    BY <1>1 DEF Batch

LEMMA KeptRowsAge ==
  ASSUME TypeOK, KeptRows, RowsAge
  PROVE  KeptRows'
  <1>1. Rows' = Rows
    BY DEF RowsAge, Rows
  <1>2. ASSUME NEW b \in Rows, Kept(b)'
        PROVE  \/ bt'[b].status = "OPEN"
               \/ bt'[b].status = "CLOSED" /\ \A n \in bt'[b].files : IsDone(n)'
    <2>1. /\ Kept(b) /\ bt'[b].files \subseteq bt[b].files
          /\ \/ bt'[b].status = bt[b].status
             \/ bt'[b].status = "CLOSED" /\ \A n \in bt'[b].files : IsDone(n)'
      BY <1>2 DEF RowsAge
    <2>2. \/ bt[b].status = "OPEN"
          \/ bt[b].status = "CLOSED" /\ \A n \in bt[b].files : IsDone(n)
      BY <2>1 DEF KeptRows
    <2>3. \A n \in bt'[b].files : n \in bt[b].files /\ n \in Names
      BY <2>1, RowMembers
    <2>4. \A n \in bt'[b].files : IsDone(n) => IsDone(n)'
      BY <2>3 DEF RowsAge
    <2>5. QED
      BY <2>1, <2>2, <2>3, <2>4
  <1>3. ASSUME NEW b \in Rows, NEW c \in Rows, Kept(b)', Kept(c)', b # c
        PROVE  bt'[b].files \cap bt'[c].files = {}
    <2>1. Kept(b) /\ Kept(c)
      BY <1>3 DEF RowsAge
    <2>2. bt[b].files \cap bt[c].files = {}
      BY <1>3, <2>1 DEF KeptRows
    <2>3. bt'[b].files \subseteq bt[b].files /\ bt'[c].files \subseteq bt[c].files
      BY DEF RowsAge
    <2>4. QED
      BY <2>2, <2>3
  <1>4. QED
    BY <1>1, <1>2, <1>3 DEF KeptRows

\* What a scanner has established stays true.
LEMMA FreeOfAges ==
  ASSUME TypeOK, RowsAge, NEW x, FreeOf(x)
  PROVE  FreeOf(x)'
  <1>1. Rows' = Rows
    BY DEF RowsAge, Rows
  <1>2. ASSUME x.pc = "pinned", NEW b \in Rows, Kept(b)', NEW n \in x.entries \cap bt'[b].files
        PROVE  IsDone(n)'
    <2>1. Kept(b) /\ n \in x.entries \cap bt[b].files /\ n \in Names
      BY <1>2, RowMembers DEF RowsAge
    <2>2. IsDone(n)
      BY <1>2, <2>1 DEF FreeOf
    <2>3. QED
      BY <2>1, <2>2 DEF RowsAge
  <1>3. ASSUME x.pc = "form", NEW b \in Rows, Kept(b)'
        PROVE  x.entries \cap bt'[b].files = {}
    <2>1. Kept(b) /\ bt'[b].files \subseteq bt[b].files
      BY <1>3 DEF RowsAge
    <2>2. x.entries \cap bt[b].files = {}
      BY <1>3, <2>1 DEF FreeOf
    <2>3. QED
      BY <2>1, <2>2
  <1>4. QED
    BY <1>1, <1>2, <1>3 DEF FreeOf

LEMMA FreeStep ==
  ASSUME TypeOK, RowsAge, FreeInv, NEW i \in Instances, NEW y, ScanTo(i, y), FreeOf(y)
  PROVE  FreeInv'
  <1>1. scan'[i] = y /\ \A j \in Instances : j # i => scan'[j] = scan[j]
    BY DEF ScanTo, TypeOK
  <1>2. ASSUME NEW j \in Instances PROVE FreeOf(scan[j])'
    <2>1. PICK x : x = scan'[j]
      OBVIOUS
    <2>2. FreeOf(x)
      BY <1>1, <2>1 DEF FreeInv
    <2>3. FreeOf(x)'
      BY <2>2, FreeOfAges
    <2>4. QED
      BY <2>1, <2>3
  <1>3. QED
    BY <1>2 DEF FreeInv

LEMMA FreeKept ==
  ASSUME TypeOK, RowsAge, FreeInv, UNCHANGED scan
  PROVE  FreeInv'
  <1>1. ASSUME NEW j \in Instances PROVE FreeOf(scan[j])'
    <2>1. PICK x : x = scan[j]
      OBVIOUS
    <2>2. FreeOf(x)'
      BY <2>1, FreeOfAges DEF FreeInv
    <2>3. QED
      BY <2>1, <2>2
  <1>2. QED
    BY <1>1 DEF FreeInv

\* What a worker that is at l has established of its batch.
GivesUp(b, l) ==
  /\ l \in GivingUp \cup {"touch"} => b \in Rows
  /\ l \in GivingUp => ~Kept(b)

LEMMA GiveUpStep ==
  ASSUME TypeOK, RowsAge, GiveUpInv, NEW i \in Instances, NEW b \in Batches, NEW y \in Worker,
         Become(i, b, y),
         y.pc = w[i][b].pc \/ GivesUp(b, y.pc) \/ GivesUp(b, y.pc)'
  PROVE  GiveUpInv'
  <1>1. Rows' = Rows /\ \A c \in Rows : Kept(c)' => Kept(c)
    BY DEF RowsAge, Rows
  <1>2. ASSUME NEW c \in Batches, NEW l, GivesUp(c, l) PROVE GivesUp(c, l)'
    BY <1>1, <1>2 DEF GivesUp
  <1>3. ASSUME NEW j \in Instances, NEW c \in Batches PROVE GivesUp(c, w[j][c].pc)
    BY DEF GiveUpInv, GivesUp
  <1>4. GivesUp(b, y.pc)'
    BY <1>2, <1>3
  <1>5. ASSUME NEW j \in Instances, NEW c \in Batches PROVE GivesUp(c, w[j][c].pc)'
    <2>1. CASE j = i /\ c = b
      BY <1>4, <2>1, BecomeType
    <2>2. CASE ~(j = i /\ c = b)
      <3>1. w'[j][c] = w[j][c]
        BY <2>2, BecomeType
      <3>2. PICK l : l = w[j][c].pc
        OBVIOUS
      <3>3. GivesUp(c, l)'
        BY <1>2, <1>3, <3>2
      <3>4. QED
        BY <3>1, <3>2, <3>3
    <2>3. QED
      BY <2>1, <2>2
  <1>6. QED
    BY <1>5 DEF GiveUpInv, GivesUp

\* No other worker gives up because of what one does.
LEMMA GiveUpKept ==
  ASSUME TypeOK, RowsAge, GiveUpInv,
         \A i \in Instances, b \in Batches :
           w'[i][b].pc = w[i][b].pc \/ w'[i][b].pc \in {"idle", "claim"}
  PROVE  GiveUpInv'
  <1>1. Rows' = Rows /\ \A c \in Rows : Kept(c)' => Kept(c)
    BY DEF RowsAge, Rows
  <1>2. QED
    BY <1>1 DEF GiveUpInv, GivingUp, Victims

\* A worker that leaves: what it must have established.
LEMMA LeaveGivesUp ==
  ASSUME TypeOK, RowsAge, GiveUpInv, NEW i \in Instances, NEW b \in Batches,
         NEW l \in Pc, Leave(i, b, l), GivesUp(b, l) \/ GivesUp(b, l)'
  PROVE  GiveUpInv'
  <1>1. [Idle EXCEPT !.pc = l] \in Worker /\ [Idle EXCEPT !.pc = l].pc = l
    BY IdleType DEF Worker
  <1>2. PICK y \in Worker : y = [Idle EXCEPT !.pc = l]
    BY <1>1
  <1>3. y.pc = l /\ Become(i, b, y)
    BY <1>1, <1>2 DEF Leave
  <1>4. QED
    BY <1>3, GiveUpStep

LEMMA GotoGivesUp ==
  ASSUME TypeOK, RowsAge, GiveUpInv, NEW i \in Instances, NEW b \in Batches,
         NEW l \in Pc, Goto(i, b, l), GivesUp(b, l) \/ GivesUp(b, l)'
  PROVE  GiveUpInv'
  <1>1. w[i][b] \in Worker
    BY DEF TypeOK
  <1>2. [w[i][b] EXCEPT !.pc = l] \in Worker /\ [w[i][b] EXCEPT !.pc = l].pc = l
    BY <1>1 DEF Worker
  <1>3. PICK y \in Worker : y = [w[i][b] EXCEPT !.pc = l]
    BY <1>2
  <1>4. y.pc = l /\ Become(i, b, y)
    BY <1>2, <1>3 DEF Goto
  <1>5. QED
    BY <1>4, GiveUpStep

\* A step that writes neither rows nor records.
LEMMA AgesQuiet ==
  ASSUME UNCHANGED <<setup, bt, done>>
  PROVE  RowsAge
  BY DEF RowsAge, Kept, IsDone

LEMMA KeptStep ==
  ASSUME TypeOK, KeptInv, RowsAge, UNCHANGED scan, GiveUpInv'
  PROVE  KeptInv'
  BY KeptRowsAge, FreeKept DEF KeptInv

LEMMA KeptEnvironment ==
  ASSUME TypeOK, TypeOK', KeptInv,
         \/ \E n \in Names : Arrive(n) \/ LeaseExpire(n)
         \/ \E i \in Instances : ScanFails(i) \/ Crash(i)
         \/ UNCHANGED vars
  PROVE  KeptInv'
  <1>1. UNCHANGED <<setup, bt, done>>
    BY DEF Arrive, LeaseExpire, ScanFails, Crash, vars, envVars, dbVars
  <1>2. RowsAge
    BY <1>1, AgesQuiet
  <1>3. UNCHANGED scan \/ \E i \in Instances : ScanTo(i, NoScan)
    BY DEF Arrive, LeaseExpire, ScanFails, Crash, vars, ScanTo
  <1>4. FreeOf(NoScan)
    BY DEF FreeOf, NoScan
  <1>5. FreeInv'
    BY <1>2, <1>3, <1>4, FreeStep, FreeKept DEF KeptInv
  <1>6. GiveUpInv'
    <2>1. \A i \in Instances, b \in Batches :
            w'[i][b].pc = w[i][b].pc \/ w'[i][b].pc \in {"idle", "claim"}
      <3>1. UNCHANGED w \/ \E i \in Instances : w' = [w EXCEPT ![i] = [b \in Batches |-> Idle]]
        BY DEF Arrive, LeaseExpire, ScanFails, Crash, vars
      <3>2. Idle.pc = "idle"
        BY DEF Idle
      <3>3. QED
        BY <3>1, <3>2 DEF TypeOK
    <2>2. QED
      BY <1>2, <2>1, GiveUpKept DEF KeptInv
  <1>7. QED
    BY <1>2, <1>5, <1>6, KeptRowsAge DEF KeptInv

\* The reads of a scan: what was pinned is left out, and then what was settled; a kept
\* batch that closed between the two had its members recorded.
LEMMA KeptScan ==
  ASSUME TypeOK, TypeOK', KeptInv, NEW i \in Instances,
         \/ ListInput(i) \/ ListOpenBatches(i) \/ HydrateDeliveries(i) \/ Resume(i)
         \/ BatchedFileNames(i) \/ SettledFileNames(i) \/ StillFilling(i) \/ SubmitNew(i)
  PROVE  KeptInv'
  <1> DEFINE x == scan[i]
  <1>0. x \in Scanner /\ x.open \subseteq OpenBatch
    BY DEF TypeOK, Scanner
  <1>1. UNCHANGED <<setup, bt, done>>
    BY DEF ListInput, ListOpenBatches, HydrateDeliveries, Resume, BatchedFileNames,
           SettledFileNames, StillFilling, SubmitNew, envVars, dbVars
  <1>2. RowsAge
    BY <1>1, AgesQuiet
  <1>3. FreeInv'
    <2>1. ASSUME NEW y, ScanTo(i, y), FreeOf(y) PROVE FreeInv'
      BY <1>2, <2>1, FreeStep DEF KeptInv
    <2>2. ASSUME NEW y, ScanTo(i, y), y.pc \notin {"pinned", "form"} PROVE FreeInv'
      BY <2>1, <2>2 DEF FreeOf
    <2>3. CASE ListInput(i)
      BY <2>2, <2>3 DEF ListInput, NoScan
    <2>4. CASE ListOpenBatches(i)
      <3> DEFINE seen == {[b |-> b, files |-> bt[b].files, delivered |-> {}] : b \in Open}
                 y == [x EXCEPT !.pc = IF seen = {} THEN "submit" ELSE "hydrate", !.open = seen]
      <3>1. ScanTo(i, y)
        BY <2>4 DEF ListOpenBatches
      <3> HIDE DEF seen
      <3>2. y.pc \in {"submit", "hydrate"}
        BY <1>0 DEF Scanner
      <3> HIDE DEF y
      <3>3. QED
        BY <2>2, <3>1, <3>2
    <2>5. CASE HydrateDeliveries(i)
      <3> DEFINE hydrated == {Hydrated(o) : o \in x.open}
                 y == [x EXCEPT !.pc = "submit", !.open = hydrated]
      <3>1. ScanTo(i, y)
        BY <2>5 DEF HydrateDeliveries
      <3> HIDE DEF hydrated
      <3>2. y.pc = "submit"
        BY <1>0 DEF Scanner
      <3> HIDE DEF y
      <3>3. QED
        BY <2>2, <3>1, <3>2
    <2>6. CASE Resume(i)
      <3>1. PICK o \in x.open : ScanTo(i, [x EXCEPT !.open = @ \ {o}])
        BY <2>6 DEF Resume
      <3>2. [x EXCEPT !.open = @ \ {o}].pc = "submit"
        BY <1>0, <2>6 DEF Scanner, Resume
      <3>3. QED
        BY <2>2, <3>1, <3>2
    <2>7. CASE BatchedFileNames(i)
      <3> DEFINE y == [x EXCEPT !.pc = "pinned",
                                !.entries = @ \ UNION {bt[b].files : b \in Open}]
      <3>1. y.pc = "pinned" /\ y.entries = x.entries \ UNION {bt[b].files : b \in Open}
        BY <1>0 DEF Scanner
      <3>2. ASSUME NEW b \in Rows, Kept(b), NEW n \in y.entries \cap bt[b].files
            PROVE  IsDone(n)
        <4>1. b \notin Open
          BY <3>1, <3>2
        <4>2. bt[b].status # "OPEN"
          BY <4>1 DEF Open, Rows
        <4>3. QED
          BY <3>2, <4>2 DEF KeptInv, KeptRows
      <3>3. FreeOf(y)
        BY <3>1, <3>2 DEF FreeOf
      <3>4. ScanTo(i, y)
        BY <2>7 DEF BatchedFileNames
      <3>5. QED
        BY <2>1, <3>3, <3>4
    <2>8. CASE SettledFileNames(i)
      <3> DEFINE y == [x EXCEPT !.pc = "form", !.entries = x.entries \ Settled]
      <3>1. y.pc = "form" /\ y.entries = x.entries \ Settled
        BY <1>0 DEF Scanner
      <3>2. ASSUME NEW b \in Rows, Kept(b) PROVE y.entries \cap bt[b].files = {}
        <4>1. x.pc = "pinned" /\ FreeOf(x)
          BY <2>8 DEF SettledFileNames, KeptInv, FreeInv
        <4>2. \A n \in x.entries \cap bt[b].files : IsDone(n) /\ n \in Names
          BY <3>2, <4>1, RowMembers DEF FreeOf
        <4>3. QED
          BY <3>1, <4>2 DEF Settled
      <3>3. FreeOf(y)
        BY <3>1, <3>2 DEF FreeOf
      <3>4. ScanTo(i, y) \/ ScanTo(i, NoScan)
        BY <2>8 DEF SettledFileNames
      <3>5. QED
        BY <2>1, <2>2, <3>3, <3>4 DEF NoScan
    <2>9. CASE StillFilling(i) \/ SubmitNew(i)
      BY <2>2, <2>9 DEF StillFilling, SubmitNew, NoScan
    <2>10. QED
      BY <2>3, <2>4, <2>5, <2>6, <2>7, <2>8, <2>9
  <1>4. GiveUpInv'
    <2>1. UNCHANGED w \/ \E o \in x.open : Submit(i, o)
      BY DEF ListInput, ListOpenBatches, HydrateDeliveries, Resume, BatchedFileNames,
             SettledFileNames, StillFilling, SubmitNew
    <2>2. CASE UNCHANGED w
      BY <1>2, <2>2, GiveUpKept DEF KeptInv
    <2>3. ASSUME NEW o \in x.open, Submit(i, o) PROVE GiveUpInv'
      <3> DEFINE z == [Idle EXCEPT !.pc = "claim", !.files = o.files, !.names = o.files,
                                   !.delivered = o.delivered,
                                   !.gone = o.files \ scan[i].entries]
      <3>1. o.b \in Batches /\ o.files \subseteq Names /\ o.delivered \subseteq Dests
        BY <1>0 DEF OpenBatch
      <3>2. z \in Worker /\ z.pc = "claim"
        BY <3>1 DEF Worker, Idle, Pc
      <3>3. UNCHANGED w \/ Become(i, o.b, z)
        BY <2>3 DEF Submit
      <3>4. GivesUp(o.b, "claim")
        BY DEF GivesUp, GivingUp, Victims
      <3> HIDE DEF z
      <3>5. QED
        BY <1>2, <2>2, <3>1, <3>2, <3>3, <3>4, GiveUpStep DEF KeptInv
    <2>4. QED
      BY <2>1, <2>2, <2>3
  <1>5. QED
    BY <1>2, <1>3, <1>4, KeptRowsAge DEF KeptInv

\* With one scanner, no row appears between its reads and its FormBatch: the new batch
\* shares no file with a kept one.
LEMMA KeptForm ==
  ASSUME TypeOK, TypeOK', BatchSafety, KeptInv, NEW i \in Instances, FormBatch(i),
         \A j \in Instances : j = i
  PROVE  KeptInv'
  <1> DEFINE x     == scan[i]
             files == Oldest(x.entries)
             m     == Len(bt) + 1
  <1>0. x \in Scanner /\ files \subseteq Names /\ files \subseteq x.entries
    BY DEF TypeOK, Scanner, Oldest
  <1>1. UNCHANGED <<setup, done, w>>
    BY DEF FormBatch, envVars
  <1>2. \/ ScanTo(i, NoScan)
        \/ \E o : ScanTo(i, [x EXCEPT !.pc = "submitNew", !.open = {o}])
    BY DEF FormBatch
  <1>3. FreeInv'
    <2>1. scan'[i].pc \in {"idle", "submitNew"}
      <3>1. CASE ScanTo(i, NoScan)
        BY <3>1 DEF ScanTo, NoScan, TypeOK
      <3>2. ASSUME NEW o, ScanTo(i, [x EXCEPT !.pc = "submitNew", !.open = {o}])
            PROVE  scan'[i].pc = "submitNew"
        BY <1>0, <3>2 DEF ScanTo, TypeOK, Scanner
      <3>3. QED
        BY <1>2, <3>1, <3>2
    <2>2. QED
      BY <2>1 DEF FreeInv, FreeOf
  <1>4. CASE UNCHANGED bt
    <2>1. RowsAge
      BY <1>1, <1>4, AgesQuiet
    <2>2. GiveUpInv'
      BY <1>1, <2>1, GiveUpKept DEF KeptInv
    <2>3. QED
      BY <1>3, <2>1, <2>2, KeptRowsAge DEF KeptInv
  <1>5. CASE bt' = Append(bt, NewBatch(files))
    <2>1. NewBatch(files) \in Batch
      BY <1>0, BatchAssumption DEF NewBatch, Batch
    <2>2. /\ Len(bt) \in Nat /\ Len(bt') = m
          /\ bt'[m] = NewBatch(files)
          /\ \A c \in Rows : bt'[c] = bt[c]
      BY <1>5, <2>1, AppendProperties, LenProperties DEF TypeOK, Rows
    <2>3. Rows' = Rows \cup {m} /\ m \notin Rows
      BY <2>2 DEF Rows
    <2>4. \A c \in Rows : Kept(c)' <=> Kept(c)
      BY <1>1, <2>2 DEF Kept
    <2>5. bt'[m].files = files /\ bt'[m].status = "OPEN"
      BY <2>2 DEF NewBatch
    <2>6. \A c \in Rows : Kept(c) => x.entries \cap bt[c].files = {}
      BY DEF FormBatch, KeptInv, FreeInv, FreeOf
    <2>7. \A c \in Rows : Kept(c) => files \cap bt[c].files = {}
      BY <1>0, <2>6
    <2> HIDE DEF files
    <2>8. ASSUME NEW c \in Rows', Kept(c)'
          PROVE  \/ bt'[c].status = "OPEN"
                 \/ bt'[c].status = "CLOSED" /\ \A n \in bt'[c].files : IsDone(n)'
      <3>1. CASE c = m
        BY <2>5, <3>1
      <3>2. CASE c \in Rows
        BY <1>1, <2>2, <2>4, <2>8, <3>2 DEF KeptInv, KeptRows, IsDone
      <3>3. QED
        BY <2>3, <3>1, <3>2
    <2>9. ASSUME NEW b \in Rows', NEW c \in Rows', Kept(b)', Kept(c)', b # c
          PROVE  bt'[b].files \cap bt'[c].files = {}
      <3>1. CASE b = m
        BY <2>2, <2>3, <2>4, <2>5, <2>7, <2>9, <3>1
      <3>2. CASE c = m
        BY <2>2, <2>3, <2>4, <2>5, <2>7, <2>9, <3>2
      <3>3. CASE b \in Rows /\ c \in Rows
        BY <2>2, <2>4, <2>9, <3>3 DEF KeptInv, KeptRows
      <3>4. QED
        BY <2>3, <3>1, <3>2, <3>3
    <2>10. KeptRows'
      BY <2>8, <2>9 DEF KeptRows
    <2>11. GiveUpInv'
      BY <1>1, <2>3, <2>4 DEF KeptInv, GiveUpInv
    <2>12. QED
      BY <1>3, <2>10, <2>11 DEF KeptInv
  <1>6. QED
    BY <1>4, <1>5 DEF FormBatch
LEMMA CalmGivesUp ==
  ASSUME NEW b, NEW l
  PROVE  /\ l \notin GivingUp \cup {"touch"} => GivesUp(b, l)
         /\ l = "touch" /\ b \in Rows => GivesUp(b, l)
         /\ l \in GivingUp /\ b \in Rows /\ ~Kept(b) => GivesUp(b, l)
  BY DEF GivesUp, GivingUp, Victims

\* A worker that has given up goes on only with a batch that is not kept.
LEMMA KeptQuietWorker ==
  ASSUME TypeOK, TypeOK', BatchSafety, KeptInv, NEW i \in Instances, NEW b \in Batches,
         \/ ClaimMember(i, b) \/ NoMembers(i, b) \/ Heartbeat(i, b) \/ Timeout(i, b)
         \/ DisposeSources(i, b) \/ AbandonCheck(i, b) \/ DropCheck(i, b)
         \/ QuarantineMember(i, b) \/ MoveQuarantined(i, b) \/ ReleaseAll(i, b)
         \/ ReserveDelivery(i, b)
  PROVE  KeptInv'
  <1> DEFINE x == w[i][b]
  <1>0. x \in Worker /\ Fit(b, x)
    BY DEF TypeOK, BatchSafety, WorkInv
  <1>1. UNCHANGED <<setup, bt, done, scan>>
    BY DEF ClaimMember, NoMembers, Heartbeat, Timeout, DisposeSources, AbandonCheck,
           DropCheck, QuarantineMember, MoveQuarantined, ReleaseAll, ReserveDelivery,
           envVars, dbVars
  <1>2. RowsAge
    BY <1>1, AgesQuiet
  <1>3. ASSUME NEW l \in Pc, Leave(i, b, l) \/ Goto(i, b, l), GivesUp(b, l)
        PROVE  GiveUpInv'
    BY <1>2, <1>3, LeaveGivesUp, GotoGivesUp DEF KeptInv
  <1>4. ASSUME NEW y \in Worker, Become(i, b, y), y.pc = x.pc \/ GivesUp(b, y.pc)
        PROVE  GiveUpInv'
    BY <1>2, <1>4, GiveUpStep DEF KeptInv
  <1>5. Pc = Running \cup {"idle", "claim", "reserve", "touch", "abandon", "retire", "drop",
                           "dropFile", "quarantine", "moveQuar", "release"}
    BY DEF Pc
  <1>6. GivesUp(b, "release") /\ GivesUp(b, "idle") /\ GivesUp(b, "claim")
        /\ GivesUp(b, "reserve") /\ GivesUp(b, "close") /\ GivesUp(b, "encode")
    BY CalmGivesUp DEF GivingUp, Victims
  <1>7. x.pc \in GivingUp => \A l \in GivingUp : GivesUp(b, l)
    BY CalmGivesUp DEF KeptInv, GiveUpInv
  <1>8. GiveUpInv'
    <2>1. CASE ClaimMember(i, b)
      <3>1. PICK n \in Names :
              \/ Leave(i, b, "touch") \/ Leave(i, b, "release")
              \/ Become(i, b, [x EXCEPT !.names = x.names \ {n},
                                        !.pc = IF x.names \ {n} = {} THEN "reserve" ELSE @,
                                        !.dests = IF x.names \ {n} = {} THEN Dests ELSE @])
        BY <2>1 DEF ClaimMember
      <3> DEFINE z == [x EXCEPT !.names = x.names \ {n},
                                !.pc = IF x.names \ {n} = {} THEN "reserve" ELSE @,
                                !.dests = IF x.names \ {n} = {} THEN Dests ELSE @]
      <3>2. z \in Worker /\ z.pc \in {x.pc, "reserve"}
        BY <1>0 DEF Worker, Pc
      <3>3. x.pc = "claim"
        BY <2>1 DEF ClaimMember, At
      <3>4. GivesUp(b, "touch")
        BY <1>0, <3>3, CalmGivesUp DEF Fit, Seen
      <3> HIDE DEF z
      <3>5. QED
        BY <1>3, <1>4, <1>5, <1>6, <3>1, <3>2, <3>4 DEF z
    <2>2. CASE Heartbeat(i, b) \/ Timeout(i, b)
      <3>1. CASE UNCHANGED w
        BY <1>2, <3>1, GiveUpKept DEF KeptInv
      <3>2. CASE Become(i, b, [x EXCEPT !.cancelled = TRUE])
        <4>1. /\ [x EXCEPT !.cancelled = TRUE] \in Worker
              /\ [x EXCEPT !.cancelled = TRUE].pc = x.pc
          BY <1>0 DEF Worker
        <4>2. QED
          BY <1>4, <3>2, <4>1
      <3>3. QED
        BY <2>2, <3>1, <3>2 DEF Heartbeat, Timeout
    <2>3. CASE AbandonCheck(i, b) \/ DropCheck(i, b)
      <3>1. x.pc \in GivingUp
        BY <2>3 DEF AbandonCheck, DropCheck, At, GivingUp, Victims
      <3>2. GivesUp(b, "retire") /\ GivesUp(b, "abandon") /\ GivesUp(b, "dropFile")
        BY <1>7, <3>1 DEF GivingUp, Victims
      <3>3. QED
        BY <1>3, <1>5, <1>6, <2>3, <3>2 DEF AbandonCheck, DropCheck
    <2>4. CASE QuarantineMember(i, b) \/ MoveQuarantined(i, b)
      <3>1. x.pc \in GivingUp
        BY <2>4 DEF QuarantineMember, MoveQuarantined, At, GivingUp, Victims
      <3>2. GivesUp(b, "abandon") /\ GivesUp(b, "moveQuar")
        BY <1>7, <3>1 DEF GivingUp, Victims
      <3>3. QED
        BY <1>3, <1>5, <2>4, <3>2 DEF QuarantineMember, MoveQuarantined
    <2>5. CASE NoMembers(i, b) \/ ReleaseAll(i, b)
      <3>1. Become(i, b, Idle) /\ Idle.pc = "idle"
        BY <2>5 DEF NoMembers, ReleaseAll, Idle
      <3>2. QED
        BY <1>4, <1>6, <3>1, IdleType
    <2>6. CASE DisposeSources(i, b)
      BY <1>3, <1>5, <1>6, <2>6 DEF DisposeSources
    <2>7. CASE ReserveDelivery(i, b)
      <3> DEFINE rest(d) == x.dests \ {d}
                 next == IF Pending(i, b) = {} THEN "close" ELSE "encode"
                 y(d) == [x EXCEPT !.dests = rest(d), !.pc = IF rest(d) = {} THEN next ELSE @]
      <3>1. Leave(i, b, "release") \/ \E d \in x.dests : Become(i, b, y(d))
        BY <2>7 DEF ReserveDelivery
      <3>2. next \in {"close", "encode"}
        OBVIOUS
      <3> HIDE DEF next
      <3>3. \A d : y(d) \in Worker /\ y(d).pc \in {x.pc, "close", "encode"}
        BY <1>0, <3>2 DEF Worker, Pc, Running
      <3> HIDE DEF y
      <3>4. QED
        BY <1>3, <1>4, <1>5, <1>6, <3>1, <3>3
    <2>8. QED
      BY <2>1, <2>2, <2>3, <2>4, <2>5, <2>6, <2>7
  <1>9. QED
    BY <1>1, <1>2, <1>8, KeptStep

\* A batch is not kept if a member that cannot be decoded is met.
LEMMA KeptEncode ==
  ASSUME TypeOK, TypeOK', BatchSafety, KeptInv, NEW i \in Instances, NEW b \in Batches,
         Encode(i, b)
  PROVE  KeptInv'
  <1> DEFINE x == w[i][b]
  <1>0. x \in Worker /\ Seen(b, x.files, x.delivered)
    <2>1. x \in Worker /\ Fit(b, x)
      BY DEF TypeOK, BatchSafety, WorkInv
    <2>2. x.pc = "encode"
      BY DEF Encode, At
    <2>3. QED
      BY <2>1, <2>2 DEF Fit, Running
  <1>1. UNCHANGED <<setup, bt, done, scan>>
    BY DEF Encode, envVars, dbVars
  <1>2. RowsAge
    BY <1>1, AgesQuiet
  <1>3. GivesUp(b, "touch") /\ GivesUp(b, "count")
    BY <1>0, CalmGivesUp DEF Seen, GivingUp, Victims
  <1>4. Leave(i, b, "touch") => GiveUpInv'
    BY <1>2, <1>3, LeaveGivesUp DEF KeptInv, Pc
  <1>5. ASSUME NEW y \in Worker, Become(i, b, y), GivesUp(b, y.pc) PROVE GiveUpInv'
    BY <1>2, <1>5, GiveUpStep DEF KeptInv
  <1>6. GiveUpInv'
    <2>1. CASE \E put \in SUBSET Pending(i, b) :
                 Become(i, b, [x EXCEPT !.pc = "count", !.put = put])
      <3>1. PICK put \in SUBSET Pending(i, b) :
              Become(i, b, [x EXCEPT !.pc = "count", !.put = put])
        BY <2>1
      <3>2. /\ [x EXCEPT !.pc = "count", !.put = put] \in Worker
            /\ [x EXCEPT !.pc = "count", !.put = put].pc = "count"
        BY <1>0 DEF Worker, Pc, Running, Pending
      <3>3. QED
        BY <1>3, <1>5, <3>1, <3>2
    <2>2. ASSUME NEW n \in x.files, n \in setup.bad,
                 Become(i, b, [Idle EXCEPT !.pc = "drop", !.names = {n}])
          PROVE  GiveUpInv'
      <3>1. n \in bt[b].identity /\ n \in Names
        BY <1>0 DEF Seen, Worker
      <3>2. b \in Rows /\ ~Kept(b)
        BY <1>0, <2>2, <3>1 DEF Kept, Seen
      <3>3. /\ [Idle EXCEPT !.pc = "drop", !.names = {n}] \in Worker
            /\ [Idle EXCEPT !.pc = "drop", !.names = {n}].pc = "drop"
        BY <3>1 DEF Idle, Worker, Pc
      <3>4. GivesUp(b, "drop")
        BY <3>2, CalmGivesUp DEF GivingUp, Victims
      <3>5. QED
        BY <1>5, <2>2, <3>3, <3>4
    <2>3. QED
      <3>1. \/ \E put \in SUBSET Pending(i, b) :
                 Become(i, b, [x EXCEPT !.pc = "count", !.put = put])
            \/ Leave(i, b, "touch")
            \/ \E n \in x.files : /\ n \in setup.bad
                                  /\ Become(i, b, [Idle EXCEPT !.pc = "drop", !.names = {n}])
        BY DEF Encode, Leave, First
      <3>2. QED
        BY <1>4, <2>1, <2>2, <3>1
  <1>7. QED
    BY <1>1, <1>2, <1>6, KeptStep

LEMMA KeptMark ==
  ASSUME TypeOK, TypeOK', BatchSafety, KeptInv, NEW i \in Instances, NEW b \in Batches,
         MarkDelivery(i, b)
  PROVE  KeptInv'
  <1> DEFINE x == w[i][b]
             z(d) == [x EXCEPT !.dests = x.dests \ {d}]
  <1>0. x \in Worker /\ x.pc = "mark" /\ b \in Rows
    <2>1. x \in Worker /\ Fit(b, x)
      BY DEF TypeOK, BatchSafety, WorkInv
    <2>2. x.pc = "mark"
      BY DEF MarkDelivery, At
    <2>3. QED
      BY <2>1, <2>2 DEF Fit, Running, Seen
  <1>1. UNCHANGED <<setup, bt, done, scan>>
    BY DEF MarkDelivery, envVars
  <1>2. RowsAge
    BY <1>1, AgesQuiet
  <1>3. GivesUp(b, "touch") /\ GivesUp(b, "mark") /\ GivesUp(b, "close")
    BY <1>0, CalmGivesUp DEF GivingUp, Victims
  <1>4. Leave(i, b, "touch") => GiveUpInv'
    BY <1>2, <1>3, LeaveGivesUp DEF KeptInv, Pc
  <1>5. ASSUME NEW d, Become(i, b, z(d)) PROVE GiveUpInv'
    <2>1. z(d) \in Worker /\ z(d).pc = "mark"
      BY <1>0 DEF Worker
    <2>2. QED
      BY <1>2, <1>3, <1>5, <2>1, GiveUpStep DEF KeptInv
  <1>6. ASSUME NEW d, Become(i, b, [z(d) EXCEPT !.pc = "close", !.put = {}]) PROVE GiveUpInv'
    <2>1. z(d) \in Worker
      BY <1>0 DEF Worker
    <2> HIDE DEF z
    <2>2. /\ [z(d) EXCEPT !.pc = "close", !.put = {}] \in Worker
          /\ [z(d) EXCEPT !.pc = "close", !.put = {}].pc = "close"
      BY <2>1 DEF Worker, Pc, Running
    <2>3. QED
      BY <1>2, <1>3, <1>6, <2>2, GiveUpStep DEF KeptInv
  <1>7. \/ Leave(i, b, "touch")
        \/ \E d : \/ Become(i, b, z(d))
                  \/ Become(i, b, [z(d) EXCEPT !.pc = "close", !.put = {}])
    BY DEF MarkDelivery, Leave
  <1>8. GiveUpInv'
    BY <1>4, <1>5, <1>6, <1>7
  <1>9. QED
    BY <1>1, <1>2, <1>8, KeptStep
\* One row is rewritten.
LEMMA AgesRow ==
  ASSUME TypeOK, NEW b \in Rows, NEW r \in Batch, bt' = [bt EXCEPT ![b] = r],
         UNCHANGED setup, \A n \in Names : IsDone(n) => IsDone(n)',
         r.files \subseteq bt[b].files, r.identity = bt[b].identity,
         bt[b].attempts <= r.attempts,
         \/ r.status = bt[b].status
         \/ ~Kept(b)
         \/ r.status = "CLOSED" /\ \A n \in r.files : IsDone(n)'
  PROVE  RowsAge
  <1>1. b \in Batches /\ bt[b] \in Batch
    BY RowsAreBatches
  <1>2. /\ Len(bt') = Len(bt)
        /\ \A c \in Rows : bt'[c] = IF c = b THEN r ELSE bt[c]
    BY <1>1, RowType DEF Rows
  <1>3. bt[b].attempts \in Nat /\ r.attempts \in Nat /\ MaxAttempts \in Nat
    BY <1>1, BatchAssumption DEF Batch
  <1>4. ASSUME NEW c \in Rows
        PROVE  /\ bt'[c].files \subseteq bt[c].files
               /\ Kept(c)' =>
                    /\ Kept(c)
                    /\ \/ bt'[c].status = bt[c].status
                       \/ bt'[c].status = "CLOSED" /\ \A n \in bt'[c].files : IsDone(n)'
    <2>1. CASE c = b
      <3>1. bt'[c] = r
        BY <1>2, <2>1
      <3>2. Kept(c)' => Kept(c)
        BY <1>3, <2>1, <3>1 DEF Kept
      <3>3. QED
        BY <2>1, <3>1, <3>2
    <2>2. CASE c # b
      <3>1. bt'[c] = bt[c]
        BY <1>2, <2>2
      <3>2. Kept(c)' => Kept(c)
        BY <3>1 DEF Kept
      <3>3. QED
        BY <3>1, <3>2
    <2>3. QED
      BY <2>1, <2>2
  <1>5. QED
    BY <1>2, <1>4 DEF RowsAge

LEMMA KeptCount ==
  ASSUME TypeOK, TypeOK', BatchSafety, KeptInv, NEW i \in Instances, NEW b \in Batches,
         RecordBatchContributions(i, b)
  PROVE  KeptInv'
  <1> DEFINE x == w[i][b]
             y == [x EXCEPT !.pc = "mark", !.dests = Pending(i, b)]
  <1>0. x \in Worker /\ b \in Rows
    <2>1. x \in Worker /\ Fit(b, x)
      BY DEF TypeOK, BatchSafety, WorkInv
    <2>2. x.pc = "count"
      BY DEF RecordBatchContributions, At
    <2>3. QED
      BY <2>1, <2>2 DEF Fit, Running, Seen
  <1>1. UNCHANGED <<setup, done, scan>>
    BY DEF RecordBatchContributions, envVars
  <1>2. RowsAge
    <2>1. CASE UNCHANGED bt
      BY <1>1, <2>1, AgesQuiet
    <2>2. CASE bt' = Counted(b)
      <3> DEFINE r == [bt[b] EXCEPT !.counted = TRUE]
      <3>1. bt[b] \in Batch /\ r \in Batch
        BY <1>0, RowRewrites DEF Rows
      <3>2. /\ r.files = bt[b].files /\ r.identity = bt[b].identity
            /\ r.attempts = bt[b].attempts /\ r.status = bt[b].status
            /\ bt[b].attempts <= bt[b].attempts
        BY <3>1, BatchAssumption DEF Batch
      <3>3. bt' = [bt EXCEPT ![b] = r]
        BY <2>2 DEF Counted
      <3>4. \A n \in Names : IsDone(n) => IsDone(n)'
        BY <1>1 DEF IsDone
      <3> HIDE DEF r
      <3>5. QED
        BY <1>0, <1>1, <3>1, <3>2, <3>3, <3>4, AgesRow
    <2>3. QED
      BY <2>1, <2>2 DEF RecordBatchContributions
  <1>3. GivesUp(b, "touch") /\ GivesUp(b, "mark")
    BY <1>0, CalmGivesUp DEF GivingUp, Victims
  <1>4. Leave(i, b, "touch") \/ Become(i, b, y)
    BY DEF RecordBatchContributions
  <1>5. y \in Worker /\ y.pc = "mark"
    BY <1>0 DEF Worker, Pc, Running, Pending
  <1> HIDE DEF y
  <1>6. GiveUpInv'
    BY <1>2, <1>3, <1>4, <1>5, GiveUpStep, LeaveGivesUp DEF KeptInv, Pc
  <1>7. QED
    BY <1>1, <1>2, <1>6, KeptStep

\* The commit records every member its worker ever saw, and so all that are left.
LEMMA KeptClose ==
  ASSUME TypeOK, TypeOK', BatchSafety, KeptInv, NEW i \in Instances, NEW b \in Batches,
         CloseBatch(i, b)
  PROVE  KeptInv'
  <1> DEFINE x == w[i][b]
  <1>0. x \in Worker /\ b \in Rows /\ bt[b].files \subseteq x.files
    <2>1. x \in Worker /\ Fit(b, x)
      BY DEF TypeOK, BatchSafety, WorkInv
    <2>2. x.pc = "close"
      BY DEF CloseBatch, At
    <2>3. QED
      BY <2>1, <2>2 DEF Fit, Running, Seen
  <1>1. UNCHANGED <<setup, scan>>
    BY DEF CloseBatch, envVars
  <1>2. RowsAge
    <2>1. CASE UNCHANGED <<bt, done>>
      BY <1>1, <2>1, AgesQuiet
    <2>2. CASE /\ done' = [n \in Names |-> IF n \in x.files THEN b ELSE done[n]]
               /\ bt' = [bt EXCEPT ![b].status = "CLOSED"]
      <3> DEFINE r == [bt[b] EXCEPT !.status = "CLOSED"]
      <3>1. bt[b] \in Batch /\ r \in Batch
        BY <1>0, RowRewrites DEF Rows
      <3>2. /\ r.files = bt[b].files /\ r.identity = bt[b].identity
            /\ r.attempts = bt[b].attempts /\ r.status = "CLOSED"
            /\ bt[b].attempts <= bt[b].attempts
        BY <3>1, BatchAssumption DEF Batch
      <3>3. bt' = [bt EXCEPT ![b] = r]
        BY <2>2
      <3>4. b # NotDone
        BY <1>0, RowsAreBatches DEF Rows, NotDone
      <3>5. \A n \in Names : n \in x.files \/ IsDone(n) => IsDone(n)'
        BY <2>2, <3>4 DEF IsDone
      <3>6. r.files \subseteq Names
        BY <3>1 DEF Batch
      <3> HIDE DEF r
      <3>7. \A n \in r.files : IsDone(n)'
        BY <1>0, <3>2, <3>5, <3>6
      <3>8. QED
        BY <1>0, <1>1, <3>1, <3>2, <3>3, <3>5, <3>7, AgesRow
    <2>3. QED
      BY <2>1, <2>2 DEF CloseBatch
  <1>3. GivesUp(b, "touch") /\ GivesUp(b, "release") /\ GivesUp(b, "dispose")
    BY <1>0, CalmGivesUp DEF GivingUp, Victims
  <1>4. Leave(i, b, "touch") \/ Leave(i, b, "release") \/ Goto(i, b, "dispose")
    BY DEF CloseBatch
  <1>5. GiveUpInv'
    BY <1>2, <1>3, <1>4, LeaveGivesUp, GotoGivesUp DEF KeptInv, Pc, Running
  <1>6. QED
    BY <1>1, <1>2, <1>5, KeptStep

\* A batch is abandoned for want of attempts only when it has none left.
LEMMA KeptTouch ==
  ASSUME TypeOK, TypeOK', BatchSafety, KeptInv, NEW i \in Instances, NEW b \in Batches,
         TouchBatchAttempt(i, b)
  PROVE  KeptInv'
  <1>0. b \in Rows
    BY DEF KeptInv, GiveUpInv, TouchBatchAttempt, At
  <1>1. UNCHANGED <<setup, done, scan>>
    BY DEF TouchBatchAttempt, envVars
  <1>2. RowsAge
    <2>1. CASE UNCHANGED bt
      BY <1>1, <2>1, AgesQuiet
    <2>2. CASE bt' = [bt EXCEPT ![b].attempts = AtMost(@ + 1, MaxAttempts)]
      <3> DEFINE a == AtMost(bt[b].attempts + 1, MaxAttempts)
                 r == [bt[b] EXCEPT !.attempts = a]
      <3>1. bt[b] \in Batch
        BY <1>0, RowRewrites DEF Rows
      <3>2. a \in 0..MaxAttempts /\ bt[b].attempts <= a
        BY <3>1, BatchAssumption DEF Batch, AtMost
      <3>3. bt' = [bt EXCEPT ![b] = r]
        BY <2>2
      <3> HIDE DEF a
      <3>4. r \in Batch /\ r.files = bt[b].files /\ r.identity = bt[b].identity
            /\ r.attempts = a /\ r.status = bt[b].status
        BY <3>1, <3>2 DEF Batch
      <3>5. \A n \in Names : IsDone(n) => IsDone(n)'
        BY <1>1 DEF IsDone
      <3> HIDE DEF r
      <3>6. QED
        BY <1>0, <1>1, <3>2, <3>3, <3>4, <3>5, AgesRow
    <2>3. QED
      BY <2>1, <2>2 DEF TouchBatchAttempt
  <1>3. \/ Leave(i, b, "release")
        \/ Leave(i, b, "abandon") /\ bt'[b].attempts = MaxAttempts
    BY DEF TouchBatchAttempt
  <1>4. CASE Leave(i, b, "release")
    <2>1. GivesUp(b, "release") /\ "release" \in Pc
      BY CalmGivesUp DEF GivingUp, Victims, Pc
    <2>2. QED
      BY <1>1, <1>2, <1>4, <2>1, LeaveGivesUp, KeptStep DEF KeptInv
  <1>5. CASE Leave(i, b, "abandon") /\ bt'[b].attempts = MaxAttempts
    <2>1. ~Kept(b)'
      BY <1>5, BatchAssumption DEF Kept
    <2>2. b \in Rows'
      BY <1>0, <1>2 DEF RowsAge, Rows
    <2>3. GivesUp(b, "abandon")' /\ "abandon" \in Pc
      BY <2>1, <2>2 DEF GivesUp, Pc
    <2>4. QED
      BY <1>1, <1>2, <1>5, <2>3, LeaveGivesUp, KeptStep DEF KeptInv
  <1>6. QED
    BY <1>3, <1>4, <1>5

LEMMA KeptAbandon ==
  ASSUME TypeOK, TypeOK', BatchSafety, KeptInv, NEW i \in Instances, NEW b \in Batches,
         AbandonBatch(i, b) \/ DropBatchFile(i, b)
  PROVE  KeptInv'
  <1> DEFINE x == w[i][b]
  <1>0. b \in Rows /\ ~Kept(b)
    BY DEF KeptInv, GiveUpInv, AbandonBatch, DropBatchFile, At, GivingUp, Victims
  <1>1. UNCHANGED <<setup, done, scan>>
    BY DEF AbandonBatch, DropBatchFile, envVars
  <1>2. \A n \in Names : IsDone(n) => IsDone(n)'
    BY <1>1 DEF IsDone
  <1>3. RowsAge
    <2>1. CASE UNCHANGED bt
      BY <1>1, <2>1, AgesQuiet
    <2>2. CASE bt' = [bt EXCEPT ![b].status = "ABANDONED"]
      <3> DEFINE r == [bt[b] EXCEPT !.status = "ABANDONED"]
      <3>1. bt[b] \in Batch /\ r \in Batch
        BY <1>0, RowRewrites DEF Rows
      <3>2. /\ r.files = bt[b].files /\ r.identity = bt[b].identity
            /\ r.attempts = bt[b].attempts /\ bt[b].attempts <= bt[b].attempts
        BY <3>1, BatchAssumption DEF Batch
      <3>3. bt' = [bt EXCEPT ![b] = r]
        BY <2>2
      <3> HIDE DEF r
      <3>4. QED
        BY <1>0, <1>1, <1>2, <3>1, <3>2, <3>3, AgesRow
    <2>3. CASE bt' = [bt EXCEPT ![b].files = @ \ x.names]
      <3> DEFINE r == [bt[b] EXCEPT !.files = @ \ x.names]
      <3>1. bt[b] \in Batch /\ r \in Batch
        BY <1>0, RowRewrites DEF Rows
      <3>2. /\ r.files \subseteq bt[b].files /\ r.identity = bt[b].identity
            /\ r.attempts = bt[b].attempts /\ bt[b].attempts <= bt[b].attempts
        BY <3>1, BatchAssumption DEF Batch
      <3>3. bt' = [bt EXCEPT ![b] = r]
        BY <2>3
      <3> HIDE DEF r
      <3>4. QED
        BY <1>0, <1>1, <1>2, <3>1, <3>2, <3>3, AgesRow
    <2>4. QED
      BY <2>1, <2>2, <2>3 DEF AbandonBatch, DropBatchFile
  <1>4. GivesUp(b, "release") /\ GivesUp(b, "abandon") /\ GivesUp(b, "quarantine")
    BY <1>0, CalmGivesUp DEF GivingUp, Victims
  <1>5. Leave(i, b, "release") \/ Leave(i, b, "abandon") \/ Goto(i, b, "quarantine")
    BY DEF AbandonBatch, DropBatchFile
  <1>6. GiveUpInv'
    BY <1>3, <1>4, <1>5, LeaveGivesUp, GotoGivesUp DEF KeptInv, Pc
  <1>7. QED
    BY <1>1, <1>3, <1>6, KeptStep

\* No batch is delivered to a destination with a file of another batch, if one instance
\* does the scanning and neither batch was given up (scanBatched).
THEOREM OneInstanceDeliversOnce ==
  ASSUME \A i, j \in Instances : i = j
  PROVE  Spec => []KeptBatchesDisjoint
  <1>1. Init => KeptInv
    <2> SUFFICES ASSUME Init PROVE KeptInv
      OBVIOUS
    <2>1. Rows = {}
      BY DEF Init, Rows
    <2>2. KeptRows
      BY <2>1 DEF KeptRows
    <2>3. GiveUpInv
      BY DEF Init, GiveUpInv, GivingUp, Victims, Idle
    <2>4. FreeInv
      BY DEF Init, FreeInv, FreeOf, NoScan
    <2>5. QED
      BY <2>2, <2>3, <2>4 DEF KeptInv
  <1>2. TypeOK /\ TypeOK' /\ BatchSafety /\ KeptInv /\ [Next]_vars => KeptInv'
    <2> SUFFICES ASSUME TypeOK, TypeOK', BatchSafety, KeptInv, [Next]_vars PROVE KeptInv'
      OBVIOUS
    <2>1. CASE UNCHANGED vars
      BY <2>1, KeptEnvironment
    <2>2. CASE \/ \E n \in Names : Arrive(n) \/ LeaseExpire(n)
               \/ \E i \in Instances : ScanFails(i) \/ Crash(i)
      BY <2>2, KeptEnvironment
    <2>3. ASSUME NEW i \in Instances, Scan(i) PROVE KeptInv'
      BY <2>3, KeptScan, KeptForm DEF Scan
    <2>4. ASSUME NEW i \in Instances, NEW b \in Batches,
                 HandleBatch(i, b) \/ Heartbeat(i, b) \/ Timeout(i, b)
          PROVE  KeptInv'
      BY <2>4, KeptQuietWorker, KeptEncode, KeptCount, KeptMark, KeptClose, KeptTouch,
         KeptAbandon DEF HandleBatch
    <2>5. QED
      BY <2>1, <2>2, <2>3, <2>4 DEF Next
  <1>3. TypeOK /\ BatchSafety /\ KeptInv => KeptBatchesDisjoint
    <2> SUFFICES ASSUME TypeOK, BatchSafety, KeptInv, NEW n \in Names, NEW d \in Dests,
                        NEW b \in Holders(n, d), NEW c \in Holders(n, d),
                        bt[b].files = bt[b].identity, bt[b].attempts < MaxAttempts,
                        bt[c].files = bt[c].identity, bt[c].attempts < MaxAttempts
                 PROVE  b = c
      BY DEF KeptBatchesDisjoint
    <2>1. ASSUME NEW e \in Holders(n, d), bt[e].files = bt[e].identity,
                 bt[e].attempts < MaxAttempts
          PROVE  e \in Rows /\ Kept(e) /\ n \in bt[e].files
      <3>1. e \in Rows
        BY DEF Holders, Rows
      <3>2. PICK o \in ObjectsOf(e, d) : n \in o.files
        BY DEF Holders
      <3>3. o.files = Good(e) /\ o.files = bt[e].files
        BY <3>1, <3>2 DEF BatchSafety, DbInv, ObjectInv
      <3>4. bt[e].identity \cap setup.bad = {}
        BY <2>1, <3>3 DEF Good
      <3>5. QED
        BY <2>1, <3>1, <3>2, <3>3, <3>4 DEF Kept
    <2>2. /\ b \in Rows /\ Kept(b) /\ n \in bt[b].files
          /\ c \in Rows /\ Kept(c) /\ n \in bt[c].files
      BY <2>1
    <2>3. QED
      BY <2>2 DEF KeptInv, KeptRows
  <1>4. QED
    BY <1>1, <1>2, <1>3, TypeCorrect, BatchesSafe, PTL DEF Spec

=============================================================================
