------------------------- MODULE FileLedger_proofs -------------------------
(***************************************************************************)
(* The claim protocol implements the ledger of FileLedger: its steps       *)
(* deliver, record, quarantine or dispose of one file there, or change     *)
(* nothing.  The progress half of the ledger is left to TLC.               *)
(***************************************************************************)
EXTENDS FileClaim_proofs

-----------------------------------------------------------------------------
(* What is known of the file a handler is at.                              *)

Disposing == {"requar", "rearrival", "moveQuar", "mark", "dispose"}

\* A file in the input area or in a handler's hands was delivered, and a handler about
\* to move one away has seen its verdict, or given it.
VerdictInv ==
  /\ \A n \in input : arrivals[n] > 0
  /\ \A i \in Instances, n \in Names :
       /\ h[i][n].pc # "idle" => arrivals[n] > 0
       /\ h[i][n].pc \in Disposing => Settled(n)

\* A step that only moves one handler on.
Onward(i, n) ==
  /\ Frame(i, n)
  /\ h'[i][n].pc \in Disposing => h[i][n].pc \in Disposing \/ Settled(n)'

LEMMA VerdictMoves ==
  ASSUME TypeOK, VerdictInv, NEW i \in Instances, NEW n \in Names, Onward(i, n),
         h[i][n].pc # "idle" \/ n \in input, UNCHANGED arrivals, pf \subseteq pf',
         input' \subseteq input
  PROVE  VerdictInv'
  <1>1. \A k \in Names : Settled(k) => Settled(k)'
    BY DEF Settled, AlreadyProcessed, AlreadyQuarantined
  <1>2. arrivals[n] > 0
    BY DEF VerdictInv
  <1>3. ASSUME NEW j \in Instances, NEW k \in Names
        PROVE  /\ h'[j][k].pc # "idle" => arrivals[k] > 0
               /\ h'[j][k].pc \in Disposing => Settled(k)'
    <2>1. CASE j = i /\ k = n
      BY <1>1, <1>2, <2>1 DEF VerdictInv, Onward
    <2>2. CASE j # i \/ k # n
      BY <1>1, <2>2 DEF VerdictInv, Onward, Frame
    <2>3. QED
      BY <2>1, <2>2
  <1>4. \A k \in input' : arrivals[k] > 0
    BY DEF VerdictInv
  <1>5. QED
    BY <1>3, <1>4 DEF VerdictInv

LEMMA GotoOnward ==
  ASSUME TypeOK, NEW i \in Instances, NEW n \in Names, NEW l, Goto(i, n, l),
         l \in Disposing => h[i][n].pc \in Disposing \/ Settled(n)'
  PROVE  Onward(i, n)
  BY GotoMoves DEF Onward, Moved

LEMMA FinishOnward ==
  ASSUME TypeOK, NEW i \in Instances, NEW n \in Names, Finish(i, n)
  PROVE  Onward(i, n)
  BY FinishEnds DEF Onward, Ended, Idle, Disposing

LEMMA FailOnward ==
  ASSUME TypeOK, NEW i \in Instances, NEW n \in Names, Fail(i, n)
  PROVE  Onward(i, n)
  BY GotoOnward, FinishOnward DEF Fail, Disposing

LEMMA RecordSettles ==
  ASSUME NEW n \in Names, NEW u, NEW s \in {"DONE", "QUARANTINED"}, RecordAndRelease(n, u, s)
  PROVE  Settled(n)' /\ pf \subseteq pf'
  <1> DEFINE row == [name |-> n, uid |-> u, status |-> s, claim |-> fc[n].uid]
  <1>1. row.name = n /\ row.status = s
    OBVIOUS
  <1>2. pf' = pf \cup {row}
    BY DEF RecordAndRelease
  <1> HIDE DEF row
  <1>3. QED
    BY <1>1, <1>2 DEF Settled, AlreadyProcessed, AlreadyQuarantined

LEMMA ClaimOnward ==
  ASSUME TypeOK, NEW i \in Instances, NEW n \in Names, ClaimFile(i, n)
  PROVE  Onward(i, n)
  <1>1. CASE Finish(i, n)
    BY <1>1, FinishOnward
  <1>2. ASSUME NEW l \in {"poison", "alloc"}, NEW t,
               Become(i, n, [h[i][n] EXCEPT !.pc = l, !.claim = t])
        PROVE  Onward(i, n)
    <2> DEFINE c == [h[i][n] EXCEPT !.pc = l, !.claim = t]
    <2>1. h[i][n] \in Handler
      BY DEF TypeOK
    <2>2. c.pc = l
      BY <2>1 DEF Handler
    <2>3. Become(i, n, c)
      BY <1>2
    <2> HIDE DEF c
    <2>4. QED
      BY <2>2, <2>3, BecomeOne DEF Onward, Frame, Disposing
  <1>3. QED
    BY <1>1, <1>2 DEF ClaimFile, Claimed

LEMMA CtxOnward ==
  ASSUME TypeOK, NEW i \in Instances, NEW n \in Names, NEW x,
         Become(i, n, [h[i][n] EXCEPT !.ctx = x])
  PROVE  Onward(i, n)
  <1> DEFINE c == [h[i][n] EXCEPT !.ctx = x]
  <1>1. h[i][n] \in Handler
    BY DEF TypeOK
  <1>2. c.pc = h[i][n].pc
    BY <1>1 DEF Handler
  <1>3. Become(i, n, c)
    OBVIOUS
  <1> HIDE DEF c
  <1>4. QED
    BY <1>2, <1>3, BecomeOne DEF Onward, Frame

\* A handler's own steps, before it disposes of the file.
LEMMA HandlerOnward ==
  ASSUME TypeOK, VerdictInv, NEW i \in Instances, NEW n \in Names, Handle(i, n)
  PROVE  /\ Onward(i, n) /\ h[i][n].pc # "idle" /\ UNCHANGED arrivals /\ pf \subseteq pf'
         /\ input' \in {input, input \ {n}}
         /\ input' # input => h[i][n].pc \in Disposing /\ UNCHANGED pf
  <1>1. h[i][n].pc # "idle" /\ UNCHANGED arrivals
    BY DEF Handle, CheckQuarantined, CheckProcessed, MoveAway, ClaimFile, NextFileUID,
           OpenSource, PutOutput, CompleteClaimed, DiscardOutput, WriteMarker, DisposeSource,
           QuarantineFile, HandleFailure, At
  <1>2. /\ input' \in {input, input \ {n}}
        /\ input' # input => h[i][n].pc \in Disposing /\ UNCHANGED pf
    BY DEF Handle, CheckQuarantined, CheckProcessed, MoveAway, ClaimFile, NextFileUID,
           OpenSource, PutOutput, CompleteClaimed, DiscardOutput, WriteMarker, DisposeSource,
           QuarantineFile, HandleFailure, At, storageVars, dbVars, Disposing
  <1>3. pf \subseteq pf'
    BY DEF Handle, CheckQuarantined, CheckProcessed, MoveAway, ClaimFile, NextFileUID,
           OpenSource, PutOutput, CompleteClaimed, DiscardOutput, WriteMarker, DisposeSource,
           QuarantineFile, HandleFailure, RecordAndRelease, dbVars
  <1>4. CASE CheckQuarantined(i, n)
    <2>1. Settled(n) => Settled(n)'
      BY <1>4 DEF CheckQuarantined, dbVars, Settled, AlreadyProcessed, AlreadyQuarantined
    <2>2. QED
      BY <1>1, <1>2, <1>3, <1>4, <2>1, GotoOnward DEF CheckQuarantined, Settled, Disposing
  <1>5. CASE CheckProcessed(i, n)
    <2>1. Settled(n) => Settled(n)'
      BY <1>5 DEF CheckProcessed, dbVars, Settled, AlreadyProcessed, AlreadyQuarantined
    <2>2. QED
      BY <1>1, <1>2, <1>3, <1>5, <2>1, GotoOnward, FinishOnward
      DEF CheckProcessed, Rearrival, Settled, Disposing
  <1>6. CASE Finish(i, n)
    BY <1>1, <1>2, <1>3, <1>6, FinishOnward
  <1>7. CASE ClaimFile(i, n)
    BY <1>1, <1>2, <1>3, <1>7, ClaimOnward
  <1>8. CASE NextFileUID(i, n)
    <2> DEFINE c == [h[i][n] EXCEPT !.pc = "open", !.fileUid = NextUid]
    <2>1. Fail(i, n) \/ Become(i, n, c)
      BY <1>8 DEF NextFileUID
    <2>2. h[i][n] \in Handler
      BY DEF TypeOK
    <2>3. c.pc = "open"
      BY <2>2 DEF Handler
    <2> HIDE DEF c
    <2>4. Onward(i, n)
      BY <2>1, <2>3, FailOnward, BecomeOne DEF Onward, Disposing, Frame
    <2>5. QED
      BY <1>1, <1>2, <1>3, <2>4
  <1>9. CASE OpenSource(i, n) \/ PutOutput(i, n) \/ DiscardOutput(i, n)
    <2>1. \/ Finish(i, n) \/ Fail(i, n)
          \/ \E l \in {"put", "commit", "poison"} : Goto(i, n, l)
      BY <1>9 DEF OpenSource, PutOutput, DiscardOutput
    <2>2. Onward(i, n)
      BY <2>1, FinishOnward, FailOnward, GotoOnward DEF Disposing
    <2>3. QED
      BY <1>1, <1>2, <1>3, <2>2
  <1>10. CASE WriteMarker(i, n)
    BY <1>1, <1>2, <1>3, <1>10, GotoOnward DEF WriteMarker, At, Disposing
  <1>11. CASE CompleteClaimed(i, n)
    <2>1. \/ \E l \in {"discardLost", "discardErr"} : Goto(i, n, l)
          \/ RecordAndRelease(n, h[i][n].fileUid, "DONE") /\ Goto(i, n, "mark")
      BY <1>11 DEF CompleteClaimed, NotRecorded
    <2>2. Onward(i, n)
      BY <2>1, RecordSettles, GotoOnward DEF Disposing
    <2>3. QED
      BY <1>1, <1>2, <1>3, <2>2
  <1>12. CASE QuarantineFile(i, n)
    <2>1. \/ Finish(i, n)
          \/ RecordAndRelease(n, NextUid, "QUARANTINED") /\ Goto(i, n, "moveQuar")
      BY <1>12 DEF QuarantineFile
    <2>2. Onward(i, n)
      BY <2>1, RecordSettles, GotoOnward, FinishOnward
    <2>3. QED
      BY <1>1, <1>2, <1>3, <2>2
  <1>13. QED
    BY <1>4, <1>5, <1>6, <1>7, <1>8, <1>9, <1>10, <1>11, <1>12
    DEF Handle, MoveAway, DisposeSource, HandleFailure

LEMMA VerdictStep ==
  ASSUME TypeOK, VerdictInv, [Next]_vars
  PROVE  VerdictInv'
  <1>1. ASSUME NEW i \in Instances, NEW n \in Names, Handle(i, n)
        PROVE  VerdictInv'
    BY <1>1, HandlerOnward, VerdictMoves
  <1>2. ASSUME NEW i \in Instances, NEW n \in Names, Scan(i, n)
        PROVE  VerdictInv'
    <2>1. Onward(i, n) /\ n \in input /\ UNCHANGED <<arrivals, pf, input>>
      BY <1>2, GotoOnward DEF Scan, Disposing, dbVars, storageVars
    <2>2. QED
      BY <2>1, VerdictMoves
  <1>3. ASSUME NEW i \in Instances, NEW n \in Names, Heartbeat(i, n) \/ Timeout(i, n)
        PROVE  VerdictInv'
    <2>1. UNCHANGED <<arrivals, pf, input>> /\ h[i][n].pc # "idle"
      BY <1>3 DEF Heartbeat, Timeout, Running, storageVars, dbVars
    <2>2. UNCHANGED h \/ Onward(i, n)
      BY <1>3, CtxOnward DEF Heartbeat, Timeout
    <2>3. QED
      BY <2>1, <2>2, VerdictMoves DEF VerdictInv, Settled, AlreadyProcessed, AlreadyQuarantined
  <1>4. ASSUME NEW i \in Instances, Crash(i)
        PROVE  VerdictInv'
    BY <1>4 DEF Crash, TypeOK, VerdictInv, Idle, Disposing, Settled, AlreadyProcessed,
                AlreadyQuarantined, storageVars, dbVars
  <1>5. ASSUME NEW n \in Names, Arrive(n)
        PROVE  VerdictInv'
    <2>1. UNCHANGED <<h, pf>> /\ input' = input \cup {n}
      BY <1>5 DEF Arrive, dbVars
    <2>2. \A k \in Names : arrivals[k] > 0 \/ k = n => arrivals'[k] > 0
      BY <1>5 DEF Arrive, TypeOK
    <2>3. \A k \in input : k \in Names
      BY DEF TypeOK
    <2>4. QED
      BY <2>1, <2>2, <2>3 DEF VerdictInv, Settled, AlreadyProcessed, AlreadyQuarantined
  <1>6. CASE UNCHANGED <<h, pf, input, arrivals>>
    BY <1>6 DEF VerdictInv, Settled, AlreadyProcessed, AlreadyQuarantined
  <1>7. QED
    BY <1>1, <1>2, <1>3, <1>4, <1>5, <1>6 DEF Next, vars, LeaseExpire, storageVars

LEMMA VerdictInit == Init => VerdictInv
  BY DEF Init, VerdictInv, Idle, Disposing

LEMMA Verdicts == Spec => [](TypeOK /\ VerdictInv)
  <1>1. TypeOK /\ VerdictInv /\ [Next]_vars => VerdictInv'
    BY VerdictStep
  <1>2. QED
    BY <1>1, VerdictInit, TypeCorrect, PTL DEF Spec

-----------------------------------------------------------------------------
(* Steps of the ledger.                                                    *)

DoneUids(n) == {r.uid : r \in {s \in pf : s.name = n /\ s.status = "DONE"}}

LEMMA InputSteps ==
  ASSUME TypeOK, VerdictInv, [Next]_vars
  PROVE  \/ UNCHANGED <<input, arrivals>>
         \/ \E n \in Names : Arrive(n)
         \/ \E n \in Names : /\ input' = input \ {n} /\ Settled(n)
                             /\ UNCHANGED <<arrivals, pf>>
  <1>1. ASSUME NEW i \in Instances, NEW n \in Names, Handle(i, n)
        PROVE  \/ UNCHANGED <<input, arrivals>>
               \/ input' = input \ {n} /\ Settled(n) /\ UNCHANGED <<arrivals, pf>>
    BY <1>1, HandlerOnward DEF VerdictInv
  <1>2. QED
    BY <1>1 DEF Next, vars, LeaseExpire, Scan, Heartbeat, Timeout, Crash, storageVars

\* A source leaves the input area only once its name has a verdict.
THEOREM OnlySettledLeave == Spec => DisposedOnlySettled
  <1>1. TypeOK /\ VerdictInv /\ [Next]_vars
          => [\A n \in Names : n \in input /\ n \notin input' => Settled(n)]_vars
    BY InputSteps DEF Arrive
  <1>2. QED
    BY <1>1, Verdicts, PTL DEF Spec, DisposedOnlySettled

LEMMA RecordSteps ==
  ASSUME TypeOK, VerdictInv, [Next]_vars
  PROVE  \/ UNCHANGED pf
         \/ \E n \in Names, u \in Nat :
              /\ arrivals[n] > 0 /\ UNCHANGED <<input, arrivals>>
              /\ \/ RecordAndRelease(n, u, "DONE") /\ ~AlreadyProcessed(n)
                 \/ RecordAndRelease(n, u, "QUARANTINED")
  <1>1. ASSUME NEW i \in Instances, NEW n \in Names, CompleteClaimed(i, n)
        PROVE  \/ UNCHANGED pf
               \/ /\ RecordAndRelease(n, h[i][n].fileUid, "DONE") /\ ~AlreadyProcessed(n)
                  /\ arrivals[n] > 0 /\ UNCHANGED <<input, arrivals>>
    BY <1>1 DEF CompleteClaimed, DoneIndexViolated, VerdictInv, At, storageVars
  <1>2. ASSUME NEW i \in Instances, NEW n \in Names, QuarantineFile(i, n)
        PROVE  \/ UNCHANGED pf
               \/ /\ RecordAndRelease(n, NextUid, "QUARANTINED")
                  /\ arrivals[n] > 0 /\ UNCHANGED <<input, arrivals>>
    BY <1>2 DEF QuarantineFile, VerdictInv, At, storageVars
  <1>3. ASSUME NEW i \in Instances, NEW n \in Names, Loud(i, n),
               ~CompleteClaimed(i, n), ~QuarantineFile(i, n)
        PROVE  UNCHANGED pf
    BY <1>3 DEF Loud, NextFileUID, PutOutput, DiscardOutput, WriteMarker, dbVars
  <1>4. ASSUME NEW i \in Instances, NEW n \in Names
        PROVE  h[i][n].fileUid \in Nat /\ NextUid \in Nat
    BY Numbers
  <1>5. QED
    BY <1>1, <1>2, <1>3, <1>4, QuietOrLoud

LEMMA RecordUids ==
  ASSUME TypeOK, NEW n \in Names, NEW u \in Nat,
         RecordAndRelease(n, u, "DONE"), ~AlreadyProcessed(n)
  PROVE  /\ DoneUids(n) = {} /\ DoneUids(n)' = {u}
         /\ \A k \in Names : k # n => DoneUids(k)' = DoneUids(k)
         /\ \A k \in Names : AlreadyQuarantined(k)' <=> AlreadyQuarantined(k)
  <1> DEFINE row == [name |-> n, uid |-> u, status |-> "DONE", claim |-> fc[n].uid]
  <1>1. row.name = n /\ row.uid = u /\ row.status = "DONE"
    OBVIOUS
  <1>2. pf' = pf \cup {row}
    BY DEF RecordAndRelease
  <1> HIDE DEF row
  <1>3. QED
    BY <1>1, <1>2 DEF DoneUids, AlreadyProcessed, AlreadyQuarantined

LEMMA QuarantineUids ==
  ASSUME TypeOK, NEW n \in Names, NEW u \in Nat, RecordAndRelease(n, u, "QUARANTINED")
  PROVE  /\ \A k \in Names : DoneUids(k)' = DoneUids(k)
         /\ AlreadyQuarantined(n)'
         /\ \A k \in Names : k # n => (AlreadyQuarantined(k)' <=> AlreadyQuarantined(k))
  <1> DEFINE row == [name |-> n, uid |-> u, status |-> "QUARANTINED", claim |-> fc[n].uid]
  <1>1. row.name = n /\ row.status = "QUARANTINED"
    OBVIOUS
  <1>2. pf' = pf \cup {row}
    BY DEF RecordAndRelease
  <1> HIDE DEF row
  <1>3. QED
    BY <1>1, <1>2 DEF DoneUids, AlreadyQuarantined

LEMMA LedgerStep ==
  ASSUME TypeOK, VerdictInv, [Next]_vars
  PROVE  [Ledger!LedgerNext]_(Ledger!ledgerVars)
  <1>1. CASE UNCHANGED <<input, arrivals, pf>>
    BY <1>1 DEF Ledger!ledgerVars, AlreadyQuarantined
  <1>2. ASSUME NEW n \in Names, Arrive(n)
        PROVE  Ledger!Deliver(n)
    <2>1. {k \in Names : arrivals'[k] > 0} = {k \in Names : arrivals[k] > 0} \cup {n}
      BY <1>2 DEF Arrive, TypeOK
    <2>2. UNCHANGED pf
      BY <1>2 DEF Arrive, dbVars
    <2>3. QED
      BY <1>2, <2>1, <2>2 DEF Ledger!Deliver, Arrive, AlreadyQuarantined
  <1>3. ASSUME NEW n \in Names, input' = input \ {n}, Settled(n), UNCHANGED <<arrivals, pf>>
        PROVE  Ledger!Dispose(n)
    <2>1. Ledger!HasVerdict(n)
      BY <1>3 DEF Ledger!HasVerdict, Settled, AlreadyProcessed, AlreadyQuarantined
    <2>2. QED
      BY <1>3, <2>1 DEF Ledger!Dispose, AlreadyQuarantined
  <1>4. ASSUME NEW n \in Names, NEW u \in Nat, arrivals[n] > 0, UNCHANGED <<input, arrivals>>,
               RecordAndRelease(n, u, "DONE"), ~AlreadyProcessed(n)
        PROVE  Ledger!Record(n)
    <2> DEFINE old == [k \in Names |-> DoneUids(k)]
               new == [k \in Names |-> DoneUids(k)']
    <2>1. old[n] = {} /\ new[n] = {u} /\ new = [old EXCEPT ![n] = {u}]
      BY <1>4, RecordUids
    <2>2. {k \in Names : AlreadyQuarantined(k)'} = {k \in Names : AlreadyQuarantined(k)}
      BY <1>4, RecordUids
    <2>3. n \in {k \in Names : arrivals[k] > 0}
      BY <1>4
    <2>4. \E v \in new[n] : new = [old EXCEPT ![n] = {v}]
      BY <2>1
    <2>5. /\ old = [k \in Names |-> {r.uid : r \in {s \in pf : s.name = k /\ s.status = "DONE"}}]
          /\ new = [k \in Names |-> {r.uid : r \in {s \in pf' : s.name = k /\ s.status = "DONE"}}]
      BY DEF DoneUids
    <2> HIDE DEF old, new
    <2>6. QED
      BY <1>4, <2>1, <2>2, <2>3, <2>4, <2>5 DEF Ledger!Record
  <1>5. ASSUME NEW n \in Names, NEW u \in Nat, arrivals[n] > 0, UNCHANGED <<input, arrivals>>,
               RecordAndRelease(n, u, "QUARANTINED")
        PROVE  Ledger!Quarantine(n)
    <2>1. {k \in Names : AlreadyQuarantined(k)'} = {k \in Names : AlreadyQuarantined(k)} \cup {n}
      BY <1>5, QuarantineUids
    <2>2. [k \in Names |-> DoneUids(k)'] = [k \in Names |-> DoneUids(k)]
      BY <1>5, QuarantineUids
    <2>3. QED
      BY <1>5, <2>1, <2>2 DEF Ledger!Quarantine, DoneUids
  <1>6. QED
    BY <1>1, <1>2, <1>3, <1>4, <1>5, InputSteps, RecordSteps DEF Ledger!LedgerNext

\* Instances, leases, stale checks, retries and crashes are invisible in the ledger: a
\* delivered name is recorded at most once and leaves the input area with a verdict.
THEOREM ClaimsKeepTheLedger == Spec => ImplementsLedger
  <1>1. Init => Ledger!LedgerInit
    BY DEF Init, Ledger!LedgerInit, AlreadyQuarantined
  <1>2. TypeOK /\ VerdictInv /\ [Next]_vars => [Ledger!LedgerNext]_(Ledger!ledgerVars)
    BY LedgerStep
  <1>3. QED
    BY <1>1, <1>2, Verdicts, PTL DEF Spec, ImplementsLedger, Ledger!LedgerSafety
=============================================================================
