--------------------------- MODULE FileClaim_proofs ---------------------------
(***************************************************************************)
(* Theorems about FileClaim, for any number of instances, files, faults    *)
(* and deliveries.                                                         *)
(***************************************************************************)
EXTENDS FileClaim, TLAPS

-----------------------------------------------------------------------------
(* Type correctness.                                                       *)

\* An action rewrites one handler and leaves every other one alone.
LEMMA BecomeOne ==
  ASSUME TypeOK, NEW i \in Instances, NEW n \in Names, NEW c, Become(i, n, c)
  PROVE  /\ c \in Handler => h' \in [Instances -> [Names -> Handler]]
         /\ h'[i][n] = c
         /\ \A j \in Instances, k \in Names : j # i \/ k # n => h'[j][k] = h[j][k]
  BY DEF TypeOK, Become

LEMMA IdleType == Idle \in Handler
  BY DEF Idle, Handler, NoClaim, Claim, Pc, Running

LEMMA GotoType ==
  ASSUME TypeOK, NEW i \in Instances, NEW n \in Names, NEW l \in Pc, Goto(i, n, l)
  PROVE  h' \in [Instances -> [Names -> Handler]]
  <1>1. h[i][n] \in Handler
    BY DEF TypeOK
  <1>2. [h[i][n] EXCEPT !.pc = l] \in Handler
    BY <1>1 DEF Handler
  <1>3. QED
    BY <1>2, BecomeOne DEF Goto

LEMMA FinishType ==
  ASSUME TypeOK, NEW i \in Instances, NEW n \in Names, Finish(i, n)
  PROVE  h' \in [Instances -> [Names -> Handler]]
  BY BecomeOne, IdleType DEF Finish

LEMMA FailType ==
  ASSUME TypeOK, NEW i \in Instances, NEW n \in Names, Fail(i, n)
  PROVE  h' \in [Instances -> [Names -> Handler]]
  BY GotoType, FinishType DEF Fail, Pc

LEMMA FaultType ==
  ASSUME TypeOK, Fault \/ NoFault
  PROVE  faults' \in Nat
  BY FileClaimAssumption DEF TypeOK, Fault, NoFault

LEMMA CallType ==
  ASSUME TypeOK, NEW i \in Instances, NEW n \in Names,
         CallFails(i, n) \/ StoreCallFails(i, n) \/ StoreCallWorks(i, n)
  PROVE  Fault \/ NoFault
  BY DEF CallFails, StoreCallFails, StoreCallWorks

LEMMA ReleaseType ==
  ASSUME TypeOK, NEW n \in Names, Release(n)
  PROVE  fc' \in [Names -> FcRow]
  <1>1. fc[n] \in FcRow
    BY DEF TypeOK
  <1>2. [fc[n] EXCEPT !.held = FALSE, !.live = FALSE] \in FcRow
    BY <1>1 DEF FcRow
  <1>3. QED
    BY <1>2 DEF TypeOK, Release

LEMMA RecordType ==
  ASSUME TypeOK, NEW n \in Names, NEW u \in Nat,
         NEW s \in {"DONE", "QUARANTINED"}, RecordAndRelease(n, u, s)
  PROVE  pf' \in SUBSET PfRow /\ fc' \in [Names -> FcRow]
  <1>1. fc[n].uid \in Nat
    BY DEF TypeOK, FcRow
  <1>2. [name |-> n, uid |-> u, status |-> s, claim |-> fc[n].uid] \in PfRow
    BY <1>1 DEF PfRow
  <1>3. QED
    BY <1>2, ReleaseType DEF TypeOK, RecordAndRelease

LEMMA ClaimedType ==
  ASSUME TypeOK, NEW i \in Instances, NEW n \in Names, NEW row \in FcRow,
         Claimed(i, n, row)
  PROVE  /\ fc' \in [Names -> FcRow]
         /\ h' \in [Instances -> [Names -> Handler]]
         /\ faults' \in Nat
  <1>1. fc' \in [Names -> FcRow]
    BY DEF TypeOK, Claimed
  <1>2. faults' \in Nat
    BY FaultType DEF Claimed
  <1>3. CASE Finish(i, n)
    BY <1>1, <1>2, <1>3, FinishType
  <1>4. ASSUME NEW l \in Pc,
               Become(i, n, [h[i][n] EXCEPT !.pc = l,
                                            !.claim = [uid |-> row.uid, fence |-> row.fence]])
        PROVE  h' \in [Instances -> [Names -> Handler]]
    <2>1. h[i][n] \in Handler /\ [uid |-> row.uid, fence |-> row.fence] \in Claim
      BY DEF TypeOK, FcRow, Claim
    <2>2. [h[i][n] EXCEPT !.pc = l, !.claim = [uid |-> row.uid, fence |-> row.fence]]
            \in Handler
      BY <2>1 DEF Handler
    <2>3. QED
      BY <1>4, <2>2, BecomeOne
  <1>5. QED
    BY <1>1, <1>2, <1>3, <1>4 DEF Claimed, Pc, Running

LEMMA RowTypes ==
  ASSUME TypeOK, NEW i \in Instances, NEW n \in Names
  PROVE  FreshRow(i, n) \in FcRow /\ TakenOverRow(i, n) \in FcRow
  <1>1. fc[n] \in FcRow
    BY DEF TypeOK
  <1>2. FreshRow(i, n) \in FcRow
    BY <1>1 DEF FcRow, FreshRow
  <1>3. TakenOverRow(i, n) \in FcRow
    <2>1. fc[n].fence + 1 \in Nat /\ fc[n].stall + 1 \in Nat
      BY <1>1 DEF FcRow
    <2>2. QED
      BY <1>1, <2>1 DEF FcRow, TakenOverRow
  <1>4. QED
    BY <1>2, <1>3

\* Every action keeps every variable in its type: PG rows, storage objects and
\* handlers alike.
LEMMA TypeStep == TypeOK /\ [Next]_vars => TypeOK'
  <1> SUFFICES ASSUME TypeOK, [Next]_vars PROVE TypeOK'
    OBVIOUS
  <1> USE DEF TypeOK
  <1>1. ASSUME NEW n \in Names, Arrive(n) PROVE TypeOK'
    BY <1>1 DEF Arrive, dbVars
  <1>2. ASSUME NEW n \in Names, LeaseExpire(n) PROVE TypeOK'
    <2>1. [fc[n] EXCEPT !.live = FALSE] \in FcRow
      BY DEF FcRow
    <2>2. faults' \in Nat
      BY <1>2, FaultType DEF LeaseExpire
    <2>3. QED
      BY <1>2, <2>1, <2>2 DEF LeaseExpire, storageVars
  <1>3. ASSUME NEW i \in Instances, NEW n \in Names, Scan(i, n) PROVE TypeOK'
    BY <1>3, GotoType DEF Scan, storageVars, dbVars, Pc
  <1>4. ASSUME NEW i \in Instances, NEW n \in Names, CheckQuarantined(i, n)
        PROVE  TypeOK'
    BY <1>4, GotoType, FaultType DEF CheckQuarantined, storageVars, dbVars, Pc
  <1>5. ASSUME NEW i \in Instances, NEW n \in Names, CheckProcessed(i, n)
        PROVE  TypeOK'
    BY <1>5, GotoType, FinishType, FaultType
    DEF CheckProcessed, Rearrival, storageVars, dbVars, Pc
  <1>6. ASSUME NEW i \in Instances, NEW n \in Names, MoveAway(i, n) PROVE TypeOK'
    BY <1>6, FinishType, FaultType DEF MoveAway, dbVars
  <1>7. ASSUME NEW i \in Instances, NEW n \in Names, ClaimFile(i, n) PROVE TypeOK'
    <2>1. CASE \E row \in FcRow : Claimed(i, n, row)
      BY <1>7, <2>1, ClaimedType DEF ClaimFile, storageVars
    <2>2. CASE Finish(i, n) /\ UNCHANGED fc /\ faults' \in Nat
      BY <1>7, <2>2, FinishType DEF ClaimFile, storageVars
    <2>3. QED
      BY <1>7, <2>1, <2>2, RowTypes, FaultType DEF ClaimFile
  <1>8. ASSUME NEW i \in Instances, NEW n \in Names, Heartbeat(i, n) PROVE TypeOK'
    <2>1. [fc[n] EXCEPT !.live = TRUE] \in FcRow
      BY DEF FcRow
    <2>2. [h[i][n] EXCEPT !.ctx = "lost"] \in Handler
      BY DEF Handler
    <2>3. QED
      BY <1>8, <2>1, <2>2, BecomeOne DEF Heartbeat, storageVars
  <1>9. ASSUME NEW i \in Instances, NEW n \in Names, Timeout(i, n) PROVE TypeOK'
    <2>1. [h[i][n] EXCEPT !.ctx = "timeout"] \in Handler
      BY DEF Handler
    <2>2. h' \in [Instances -> [Names -> Handler]]
      BY <1>9, <2>1, BecomeOne DEF Timeout
    <2>3. faults' \in Nat
      BY <1>9, FaultType DEF Timeout
    <2>4. QED
      BY <1>9, <2>2, <2>3 DEF Timeout, storageVars, dbVars
  <1>10. ASSUME NEW i \in Instances, NEW n \in Names, NextFileUID(i, n) PROVE TypeOK'
    <2>1. NextUid \in Nat
      BY DEF NextUid
    <2>2. h[i][n] \in Handler /\ "open" \in Pc
      BY DEF Pc, Running
    <2>3. [h[i][n] EXCEPT !.pc = "open", !.fileUid = NextUid] \in Handler
      BY <2>1, <2>2 DEF Handler
    <2>4. faults' \in Nat
      BY <1>10, FaultType, CallType DEF NextFileUID
    <2>5. QED
      BY <1>10, <2>1, <2>3, <2>4, BecomeOne, FailType DEF NextFileUID, storageVars
  <1>11. ASSUME NEW i \in Instances, NEW n \in Names, OpenSource(i, n) PROVE TypeOK'
    BY <1>11, GotoType, FailType, FaultType, CallType
    DEF OpenSource, storageVars, dbVars, Pc, Running
  <1>12. ASSUME NEW i \in Instances, NEW n \in Names, PutOutput(i, n) PROVE TypeOK'
    <2>1. h[i][n].fileUid \in Nat
      BY DEF Handler
    <2>2. QED
      BY <1>12, <2>1, GotoType, FailType, FaultType, CallType
      DEF PutOutput, dbVars, Pc, Running
  <1>13. ASSUME NEW i \in Instances, NEW n \in Names, CompleteClaimed(i, n)
         PROVE  TypeOK'
    <2>1. h[i][n].fileUid \in Nat
      BY DEF Handler
    <2>2. faults' \in Nat
      BY <1>13, FaultType, CallType DEF CompleteClaimed
    <2>3. h' \in [Instances -> [Names -> Handler]]
      BY <1>13, GotoType DEF CompleteClaimed, NotRecorded, Pc, Running
    <2>4. pf' \in SUBSET PfRow /\ fc' \in [Names -> FcRow]
      BY <1>13, <2>1, RecordType DEF CompleteClaimed
    <2>5. QED
      BY <1>13, <2>2, <2>3, <2>4 DEF CompleteClaimed, storageVars
  <1>14. ASSUME NEW i \in Instances, NEW n \in Names, DiscardOutput(i, n)
         PROVE  TypeOK'
    BY <1>14, FinishType, FailType, FaultType, CallType
    DEF DiscardOutput, StoreCallWorks, dbVars
  <1>15. ASSUME NEW i \in Instances, NEW n \in Names, WriteMarker(i, n) PROVE TypeOK'
    <2>1. h[i][n].fileUid \in Nat
      BY DEF Handler
    <2>2. QED
      BY <1>15, <2>1, GotoType, FaultType, CallType
      DEF WriteMarker, dbVars, Pc, Running
  <1>16. ASSUME NEW i \in Instances, NEW n \in Names, DisposeSource(i, n)
         PROVE  TypeOK'
    BY <1>16, FinishType, FaultType, CallType DEF DisposeSource, dbVars
  <1>17. ASSUME NEW i \in Instances, NEW n \in Names, QuarantineFile(i, n)
         PROVE  TypeOK'
    <2>1. NextUid \in Nat
      BY DEF NextUid
    <2>2. faults' \in Nat
      BY <1>17, FaultType DEF QuarantineFile
    <2>3. h' \in [Instances -> [Names -> Handler]]
      BY <1>17, GotoType, FinishType DEF QuarantineFile, Pc
    <2>4. pf' \in SUBSET PfRow /\ fc' \in [Names -> FcRow]
      BY <1>17, <2>1, RecordType DEF QuarantineFile
    <2>5. QED
      BY <1>17, <2>1, <2>2, <2>3, <2>4 DEF QuarantineFile, storageVars
  <1>18. ASSUME NEW i \in Instances, NEW n \in Names, HandleFailure(i, n)
         PROVE  TypeOK'
    <2>1. faults' \in Nat
      BY <1>18, FaultType, CallType DEF HandleFailure
    <2>2. fc' \in [Names -> FcRow]
      BY <1>18, ReleaseType DEF HandleFailure
    <2>3. QED
      BY <1>18, <2>1, <2>2, FinishType DEF HandleFailure, storageVars
  <1>19. ASSUME NEW i \in Instances, Crash(i) PROVE TypeOK'
    BY <1>19, IdleType, FaultType DEF Crash, storageVars, dbVars
  <1>20. CASE UNCHANGED vars
    BY <1>20 DEF vars
  <1>21. QED
    BY <1>1, <1>2, <1>3, <1>4, <1>5, <1>6, <1>7, <1>8, <1>9, <1>10, <1>11, <1>12,
       <1>13, <1>14, <1>15, <1>16, <1>17, <1>18, <1>19, <1>20 DEF Next, Handle

\* TypeOK is an invariant: no conversion, reset or crash leaves a stray value.
THEOREM TypeCorrect == Spec => []TypeOK
  <1>1. Init => TypeOK
    <2>1. [uid |-> 0, owner |-> NoInstance, fence |-> 0,
           stall |-> 0, held |-> FALSE, live |-> FALSE] \in FcRow
      BY DEF FcRow
    <2>2. QED
      BY <2>1, IdleType DEF Init, TypeOK
  <1>2. QED
    BY <1>1, TypeStep, PTL DEF Spec

-----------------------------------------------------------------------------
(* The fence.  Claim tokens never run ahead of the claim row, and a row of *)
(* pf is never written under the claim that is still held: so a claim that *)
(* decides a file is spent, and a token that was superseded stays so.      *)

TokensBehind ==
  \A i \in Instances, n \in Names :
    h[i][n].claim # NoClaim =>
      /\ h[i][n].claim.uid <= fc[n].uid
      /\ h[i][n].claim.uid = fc[n].uid => h[i][n].claim.fence <= fc[n].fence

RowsSpent ==
  \A r \in pf :
    /\ r.claim <= fc[r.name].uid
    /\ r.claim = fc[r.name].uid => ~fc[r.name].held

FenceInv == TokensBehind /\ TokensDistinct /\ RowsSpent /\ OneVerdictPerClaim

\* What most actions do to claims: a handler keeps its token or drops it.
KeepsClaims ==
  \A i \in Instances, n \in Names : h'[i][n].claim \in {h[i][n].claim, NoClaim}

\* ... and a claim row keeps its identity and fence, and may be released.
KeepsRows ==
  \A n \in Names : /\ fc'[n].uid = fc[n].uid
                   /\ fc'[n].fence = fc[n].fence
                   /\ fc'[n].held => fc[n].held

LEMMA ReleaseKeepsRows ==
  ASSUME TypeOK, NEW n \in Names, Release(n)
  PROVE  KeepsRows /\ ~fc'[n].held
  <1> DEFINE row == [fc[n] EXCEPT !.held = FALSE, !.live = FALSE]
  <1>1. fc[n] \in FcRow
    BY DEF TypeOK
  <1>2. row.uid = fc[n].uid /\ row.fence = fc[n].fence /\ ~row.held
    BY <1>1 DEF FcRow
  <1>3. \A m \in Names : fc'[m] = IF m = n THEN row ELSE fc[m]
    BY DEF TypeOK, Release
  <1> HIDE DEF row
  <1>4. QED
    BY <1>2, <1>3 DEF KeepsRows

LEMMA MovesKeepClaims ==
  ASSUME TypeOK, NEW i \in Instances, NEW n \in Names, NEW l,
         Goto(i, n, l) \/ Finish(i, n)
  PROVE  KeepsClaims
  <1>1. h[i][n] \in Handler
    BY DEF TypeOK
  <1>2. [h[i][n] EXCEPT !.pc = l].claim = h[i][n].claim /\ Idle.claim = NoClaim
    BY <1>1 DEF Handler, Idle
  <1>3. CASE Goto(i, n, l)
    <2> DEFINE c == [h[i][n] EXCEPT !.pc = l]
    <2>1. Become(i, n, c) /\ c.claim = h[i][n].claim
      BY <1>2, <1>3 DEF Goto
    <2> HIDE DEF c
    <2>2. QED
      BY <2>1, BecomeOne DEF KeepsClaims
  <1>4. CASE Finish(i, n)
    BY <1>2, <1>4, BecomeOne DEF KeepsClaims, Finish
  <1>5. QED
    BY <1>3, <1>4

LEMMA FailKeepsClaims ==
  ASSUME TypeOK, NEW i \in Instances, NEW n \in Names, Fail(i, n)
  PROVE  KeepsClaims
  BY MovesKeepClaims DEF Fail

LEMMA QuietFence ==
  ASSUME TypeOK, FenceInv, KeepsClaims, KeepsRows, pf' = pf
  PROVE  FenceInv'
  <1>1. TokensBehind'
    BY DEF FenceInv, TokensBehind, KeepsClaims, KeepsRows
  <1>2. TokensDistinct'
    BY DEF FenceInv, TokensDistinct, KeepsClaims
  <1>3. RowsSpent'
    BY DEF FenceInv, RowsSpent, KeepsRows, TypeOK, PfRow
  <1>4. QED
    BY <1>1, <1>2, <1>3 DEF FenceInv, OneVerdictPerClaim

\* Recording a verdict spends the claim that is held.
LEMMA RecordFence ==
  ASSUME TypeOK, FenceInv, KeepsClaims, NEW n \in Names, NEW u, NEW s,
         fc[n].held, RecordAndRelease(n, u, s)
  PROVE  FenceInv'
  <1> DEFINE row == [name |-> n, uid |-> u, status |-> s, claim |-> fc[n].uid]
  <1>1. fc[n] \in FcRow /\ pf' = pf \cup {row}
    BY DEF TypeOK, RecordAndRelease
  <1>2. KeepsRows /\ ~fc'[n].held
    BY ReleaseKeepsRows DEF RecordAndRelease
  <1>3. \A r \in pf : r.name = n => r.claim # fc[n].uid
    BY DEF FenceInv, RowsSpent
  <1>4. TokensBehind'
    BY <1>2 DEF FenceInv, TokensBehind, KeepsClaims, KeepsRows
  <1>5. TokensDistinct'
    BY DEF FenceInv, TokensDistinct, KeepsClaims
  <1>6. RowsSpent'
    <2>1. \A r \in pf : r.claim <= fc'[r.name].uid
                        /\ (r.claim = fc'[r.name].uid => ~fc'[r.name].held)
      BY <1>2 DEF FenceInv, RowsSpent, KeepsRows, TypeOK, PfRow
    <2>2. row.claim <= fc'[row.name].uid /\ ~fc'[row.name].held
      BY <1>1, <1>2 DEF KeepsRows, FcRow
    <2>3. QED
      BY <1>1, <2>1, <2>2 DEF RowsSpent
  <1>7. OneVerdictPerClaim'
    BY <1>1, <1>3 DEF FenceInv, OneVerdictPerClaim
  <1>8. QED
    BY <1>4, <1>5, <1>6, <1>7 DEF FenceInv

\* A fresh row or a takeover issues a token nobody carries yet.
LEMMA ClaimedFence ==
  ASSUME TypeOK, FenceInv, NEW i \in Instances, NEW n \in Names, NEW row \in FcRow,
         Claimed(i, n, row), pf' = pf,
         \/ row.uid = fc[n].uid + 1
         \/ row.uid = fc[n].uid /\ row.fence = fc[n].fence + 1 /\ fc[n].held
  PROVE  FenceInv'
  <1> DEFINE tok == [uid |-> row.uid, fence |-> row.fence]
  <1>1. fc[n] \in FcRow /\ h[i][n] \in Handler
    BY DEF TypeOK
  <1>2. /\ fc'[n] = row
        /\ \A m \in Names : m # n => fc'[m] = fc[m]
    BY DEF TypeOK, Claimed
  <1>3. /\ h'[i][n].claim \in {tok, NoClaim}
        /\ \A j \in Instances, m \in Names :
             j # i \/ m # n => h'[j][m].claim = h[j][m].claim
    <2>1. CASE Finish(i, n)
      BY <2>1, BecomeOne DEF Finish, Idle
    <2>2. ASSUME NEW l, Become(i, n, [h[i][n] EXCEPT !.pc = l, !.claim = tok])
          PROVE  /\ h'[i][n].claim \in {tok, NoClaim}
                 /\ \A j \in Instances, m \in Names :
                      j # i \/ m # n => h'[j][m].claim = h[j][m].claim
      <3> DEFINE c == [h[i][n] EXCEPT !.pc = l, !.claim = tok]
      <3>1. c.claim = tok
        BY <1>1 DEF Handler
      <3>2. Become(i, n, c)
        BY <2>2
      <3> HIDE DEF c
      <3>3. QED
        BY <3>1, <3>2, BecomeOne
    <2>3. QED
      BY <2>1, <2>2 DEF Claimed
  <1>4. \A j \in Instances : h[j][n].claim # NoClaim => h[j][n].claim # tok
    <2> SUFFICES ASSUME NEW j \in Instances, h[j][n].claim # NoClaim,
                        h[j][n].claim.uid = row.uid, h[j][n].claim.fence = row.fence
                 PROVE  FALSE
      OBVIOUS
    <2>1. h[j][n] \in Handler
      BY DEF TypeOK
    <2>2. h[j][n].claim.uid \in Nat /\ h[j][n].claim.fence \in Nat
      BY <2>1 DEF Handler, Claim
    <2>3. fc[n].uid \in Nat /\ fc[n].fence \in Nat
      BY <1>1 DEF FcRow
    <2>4. /\ h[j][n].claim.uid <= fc[n].uid
          /\ h[j][n].claim.uid = fc[n].uid => h[j][n].claim.fence <= fc[n].fence
      BY DEF FenceInv, TokensBehind
    <2>5. QED
      BY <2>2, <2>3, <2>4
  <1>5. TokensBehind'
    <2> SUFFICES ASSUME NEW j \in Instances, NEW m \in Names, h'[j][m].claim # NoClaim
                 PROVE  /\ h'[j][m].claim.uid <= fc'[m].uid
                        /\ h'[j][m].claim.uid = fc'[m].uid =>
                             h'[j][m].claim.fence <= fc'[m].fence
      BY DEF TokensBehind
    <2>1. CASE h'[j][m].claim = tok /\ m = n
      BY <1>2, <2>1 DEF FcRow
    <2>2. CASE h'[j][m].claim = h[j][m].claim
      <3>1. h[j][m] \in Handler /\ fc[m] \in FcRow
        BY DEF TypeOK
      <3>2. /\ h[j][m].claim.uid \in Nat /\ h[j][m].claim.fence \in Nat
            /\ fc[m].uid \in Nat /\ fc[m].fence \in Nat
        BY <3>1 DEF Handler, Claim, FcRow
      <3>3. /\ h[j][m].claim.uid <= fc[m].uid
            /\ h[j][m].claim.uid = fc[m].uid => h[j][m].claim.fence <= fc[m].fence
        BY <2>2 DEF FenceInv, TokensBehind
      <3>4. CASE m # n
        BY <1>2, <2>2, <3>3, <3>4
      <3>5. CASE m = n
        BY <1>2, <2>2, <3>2, <3>3, <3>5
      <3>6. QED
        BY <3>4, <3>5
    <2>3. QED
      BY <1>3, <2>1, <2>2
  <1>6. TokensDistinct'
    BY <1>3, <1>4 DEF FenceInv, TokensDistinct
  <1>7. RowsSpent'
    BY <1>1, <1>2 DEF FenceInv, RowsSpent, TypeOK, PfRow, FcRow
  <1>8. QED
    BY <1>5, <1>6, <1>7 DEF FenceInv, OneVerdictPerClaim

\* The context of a handler does not matter to its claim.
LEMMA CtxKeepsClaims ==
  ASSUME TypeOK, NEW i \in Instances, NEW n \in Names, NEW c,
         Become(i, n, c), c.claim = h[i][n].claim
  PROVE  KeepsClaims
  BY BecomeOne DEF KeepsClaims

LEMMA FenceStep ==
  ASSUME TypeOK, FenceInv, [Next]_vars
  PROVE  FenceInv'
  <1>1. ASSUME NEW n \in Names, Arrive(n) \/ LeaseExpire(n) PROVE FenceInv'
    <2>1. KeepsClaims /\ pf' = pf
      BY <1>1 DEF Arrive, LeaseExpire, dbVars, KeepsClaims
    <2>2. KeepsRows
      BY <1>1 DEF Arrive, LeaseExpire, dbVars, KeepsRows, TypeOK, FcRow
    <2>3. QED
      BY <2>1, <2>2, QuietFence
  <1>2. ASSUME NEW i \in Instances, NEW n \in Names,
               \/ Scan(i, n) \/ CheckQuarantined(i, n) \/ CheckProcessed(i, n)
               \/ MoveAway(i, n) \/ OpenSource(i, n) \/ PutOutput(i, n)
               \/ DiscardOutput(i, n) \/ WriteMarker(i, n) \/ DisposeSource(i, n)
        PROVE  FenceInv'
    <2>1. KeepsClaims
      BY <1>2, MovesKeepClaims, FailKeepsClaims
      DEF Scan, CheckQuarantined, CheckProcessed, Rearrival, MoveAway, OpenSource,
          PutOutput, DiscardOutput, WriteMarker, DisposeSource
    <2>2. fc' = fc /\ pf' = pf
      BY <1>2 DEF Scan, CheckQuarantined, CheckProcessed, MoveAway, OpenSource,
          PutOutput, DiscardOutput, WriteMarker, DisposeSource, dbVars
    <2>3. QED
      BY <2>1, <2>2, QuietFence DEF KeepsRows
  <1>3. ASSUME NEW i \in Instances, NEW n \in Names, ClaimFile(i, n) PROVE FenceInv'
    <2>1. pf' = pf
      BY <1>3 DEF ClaimFile
    <2>2. CASE Finish(i, n) /\ UNCHANGED fc
      BY <2>1, <2>2, MovesKeepClaims, QuietFence DEF KeepsRows
    <2>3. CASE Claimed(i, n, FreshRow(i, n))
      <3>1. FreshRow(i, n) \in FcRow /\ FreshRow(i, n).uid = fc[n].uid + 1
        BY RowTypes DEF FreshRow
      <3>2. QED
        BY <2>1, <2>3, <3>1, ClaimedFence
    <2>4. CASE Claimed(i, n, TakenOverRow(i, n)) /\ Takeable(n)
      <3>1. fc[n] \in FcRow
        BY DEF TypeOK
      <3>2. /\ TakenOverRow(i, n).uid = fc[n].uid
            /\ TakenOverRow(i, n).fence = fc[n].fence + 1
        BY <3>1 DEF TakenOverRow, FcRow
      <3>3. QED
        BY <2>1, <2>4, <3>2, RowTypes, ClaimedFence DEF Takeable
    <2>5. QED
      BY <1>3, <2>2, <2>3, <2>4 DEF ClaimFile
  <1>4. ASSUME NEW i \in Instances, NEW n \in Names, Heartbeat(i, n) PROVE FenceInv'
    <2>1. pf' = pf
      BY <1>4 DEF Heartbeat
    <2>2. [h[i][n] EXCEPT !.ctx = "lost"].claim = h[i][n].claim
      BY DEF TypeOK, Handler
    <2>3. KeepsClaims
      BY <1>4, <2>2, CtxKeepsClaims DEF Heartbeat, KeepsClaims
    <2>4. CASE Owns(i, n) /\ fc' = [fc EXCEPT ![n] = [fc[n] EXCEPT !.live = TRUE]]
      <3>1. fc[n] \in FcRow /\ fc[n].held
        BY <2>4 DEF TypeOK, Owns
      <3>2. /\ [fc[n] EXCEPT !.live = TRUE].uid = fc[n].uid
            /\ [fc[n] EXCEPT !.live = TRUE].fence = fc[n].fence
        BY <3>1 DEF FcRow
      <3>3. \A m \in Names : fc'[m] = IF m = n THEN [fc[n] EXCEPT !.live = TRUE] ELSE fc[m]
        BY <2>4 DEF TypeOK
      <3>4. KeepsRows
        BY <3>1, <3>2, <3>3 DEF KeepsRows
      <3>5. QED
        BY <2>1, <2>3, <3>4, QuietFence
    <2>5. CASE UNCHANGED fc
      BY <2>1, <2>3, <2>5, QuietFence DEF KeepsRows
    <2>6. QED
      BY <1>4, <2>4, <2>5 DEF Heartbeat
  <1>5. ASSUME NEW i \in Instances, NEW n \in Names, Timeout(i, n) PROVE FenceInv'
    <2>1. fc' = fc /\ pf' = pf
      BY <1>5 DEF Timeout, dbVars
    <2>2. [h[i][n] EXCEPT !.ctx = "timeout"].claim = h[i][n].claim
      BY DEF TypeOK, Handler
    <2>3. KeepsClaims
      BY <1>5, <2>2, CtxKeepsClaims DEF Timeout
    <2>4. QED
      BY <2>1, <2>3, QuietFence DEF KeepsRows
  <1>6. ASSUME NEW i \in Instances, NEW n \in Names, NextFileUID(i, n) PROVE FenceInv'
    <2>1. fc' = fc /\ pf' = pf
      BY <1>6 DEF NextFileUID
    <2>2. [h[i][n] EXCEPT !.pc = "open", !.fileUid = NextUid].claim = h[i][n].claim
      BY DEF TypeOK, Handler
    <2>3. KeepsClaims
      BY <1>6, <2>2, CtxKeepsClaims, FailKeepsClaims DEF NextFileUID
    <2>4. QED
      BY <2>1, <2>3, QuietFence DEF KeepsRows
  <1>7. ASSUME NEW i \in Instances, NEW n \in Names, CompleteClaimed(i, n)
        PROVE  FenceInv'
    <2>1. KeepsClaims
      BY <1>7, MovesKeepClaims DEF CompleteClaimed, NotRecorded
    <2>2. CASE Owns(i, n) /\ RecordAndRelease(n, h[i][n].fileUid, "DONE")
      BY <2>1, <2>2, RecordFence DEF Owns
    <2>3. CASE UNCHANGED <<fc, pf>>
      BY <2>1, <2>3, QuietFence DEF KeepsRows
    <2>4. QED
      BY <1>7, <2>2, <2>3 DEF CompleteClaimed
  <1>8. ASSUME NEW i \in Instances, NEW n \in Names, QuarantineFile(i, n)
        PROVE  FenceInv'
    <2>1. KeepsClaims
      BY <1>8, MovesKeepClaims DEF QuarantineFile
    <2>2. CASE Owns(i, n) /\ RecordAndRelease(n, NextUid, "QUARANTINED")
      BY <2>1, <2>2, RecordFence DEF Owns
    <2>3. CASE UNCHANGED <<fc, pf>>
      BY <2>1, <2>3, QuietFence DEF KeepsRows
    <2>4. QED
      BY <1>8, <2>2, <2>3 DEF QuarantineFile
  <1>9. ASSUME NEW i \in Instances, NEW n \in Names, HandleFailure(i, n)
        PROVE  FenceInv'
    <2>1. KeepsClaims /\ pf' = pf
      BY <1>9, MovesKeepClaims DEF HandleFailure
    <2>2. KeepsRows
      BY <1>9, ReleaseKeepsRows DEF HandleFailure, KeepsRows
    <2>3. QED
      BY <2>1, <2>2, QuietFence
  <1>10. ASSUME NEW i \in Instances, Crash(i) PROVE FenceInv'
    <2>1. KeepsClaims
      BY <1>10 DEF Crash, KeepsClaims, TypeOK, Idle
    <2>2. fc' = fc /\ pf' = pf
      BY <1>10 DEF Crash, dbVars
    <2>3. QED
      BY <2>1, <2>2, QuietFence DEF KeepsRows
  <1>11. CASE UNCHANGED vars
    BY <1>11, QuietFence DEF vars, KeepsClaims, KeepsRows
  <1>12. QED
    BY <1>1, <1>2, <1>3, <1>4, <1>5, <1>6, <1>7, <1>8, <1>9, <1>10, <1>11
    DEF Next, Handle

\* No two handlers ever carry the same claim token, and no claim decides a file
\* twice, for any number of instances and any interleaving of lease expiries,
\* takeovers, heartbeats and crashes (the fence of claim.go).
THEOREM FenceSafety == Spec => [](TokensDistinct /\ OneVerdictPerClaim)
  <1>1. Init => FenceInv
    BY DEF Init, FenceInv, TokensBehind, TokensDistinct, RowsSpent,
           OneVerdictPerClaim, Idle
  <1>2. FenceInv => TokensDistinct /\ OneVerdictPerClaim
    BY DEF FenceInv
  <1>3. TypeOK /\ FenceInv /\ [Next]_vars => FenceInv'
    BY FenceStep
  <1>4. QED
    BY <1>1, <1>2, <1>3, TypeCorrect, PTL DEF Spec

\* No two handlers of one file ever carry the same claim token.
THEOREM TokensStayDistinct == Spec => []TokensDistinct
  <1>1. QED
    BY FenceSafety, PTL

-----------------------------------------------------------------------------
(* Exactly-once recording.                                                 *)

LEMMA DoneStep ==
  ASSUME TypeOK, AtMostOneDone, [Next]_vars
  PROVE  AtMostOneDone'
  <1>1. CASE pf' = pf
    BY <1>1 DEF AtMostOneDone
  <1>2. ASSUME NEW n \in Names, NEW u, ~AlreadyProcessed(n),
               RecordAndRelease(n, u, "DONE")
        PROVE  AtMostOneDone'
    BY <1>2 DEF AtMostOneDone, AlreadyProcessed, RecordAndRelease
  <1>3. ASSUME NEW n \in Names, NEW u, RecordAndRelease(n, u, "QUARANTINED")
        PROVE  AtMostOneDone'
    BY <1>3 DEF AtMostOneDone, RecordAndRelease
  <1>4. ASSUME NEW i \in Instances, NEW n \in Names, Handle(i, n)
        PROVE  AtMostOneDone'
    BY <1>1, <1>2, <1>3, <1>4
    DEF Handle, CheckQuarantined, CheckProcessed, MoveAway, ClaimFile, NextFileUID,
        OpenSource, PutOutput, CompleteClaimed, DoneIndexViolated, DiscardOutput,
        WriteMarker, DisposeSource, QuarantineFile, HandleFailure, dbVars
  <1>5. QED
    BY <1>1, <1>4
    DEF Next, vars, Arrive, LeaseExpire, Scan, Heartbeat, Timeout, Crash, dbVars

\* A name is recorded DONE at most once (CompleteClaimed under UX_PF_SRC_NAME_DONE),
\* even when the checks before the claim were stale.
THEOREM DoneOnce == Spec => []AtMostOneDone
  <1>1. Init => AtMostOneDone
    BY DEF Init, AtMostOneDone
  <1>2. TypeOK /\ AtMostOneDone /\ [Next]_vars => AtMostOneDone'
    BY DoneStep
  <1>3. QED
    BY <1>1, <1>2, TypeCorrect, PTL DEF Spec
-----------------------------------------------------------------------------
(* File identities.  An identity is spent when it is allocated: no two      *)
(* handlers hold the same one, and until its attempt commits no row has it. *)

\* How one handler moves: the others stay as they are.
Frame(i, n) == \A j \in Instances, k \in Names : j # i \/ k # n => h'[j][k] = h[j][k]

Moved(i, n, l) ==
  /\ Frame(i, n) /\ h'[i][n].pc = l
  /\ h'[i][n].fileUid = h[i][n].fileUid /\ h'[i][n].claim = h[i][n].claim
  /\ h'[i][n].ctx = h[i][n].ctx

Ended(i, n) == Frame(i, n) /\ h'[i][n] = Idle

LEMMA GotoMoves ==
  ASSUME TypeOK, NEW i \in Instances, NEW n \in Names, NEW l, Goto(i, n, l)
  PROVE  Moved(i, n, l)
  <1> DEFINE c == [h[i][n] EXCEPT !.pc = l]
  <1>1. h[i][n] \in Handler
    BY DEF TypeOK
  <1>2. /\ c.pc = l /\ c.fileUid = h[i][n].fileUid /\ c.claim = h[i][n].claim
        /\ c.ctx = h[i][n].ctx
    BY <1>1 DEF Handler
  <1>3. Become(i, n, c)
    BY DEF Goto
  <1> HIDE DEF c
  <1>4. QED
    BY <1>2, <1>3, BecomeOne DEF Moved, Frame

LEMMA FinishEnds ==
  ASSUME TypeOK, NEW i \in Instances, NEW n \in Names, Finish(i, n)
  PROVE  Ended(i, n)
  BY BecomeOne DEF Finish, Ended, Frame

LEMMA FailMoves ==
  ASSUME TypeOK, NEW i \in Instances, NEW n \in Names, Fail(i, n)
  PROVE  Ended(i, n) \/ Moved(i, n, "failed")
  BY GotoMoves, FinishEnds DEF Fail

\* The steps of an attempt before its row is there.  After a broken connection the row
\* may be there.
Uncommitted ==
  {"open", "put", "commit", "discardLost"} \cup IF InDoubtCommit THEN {} ELSE {"discardErr"}

\* A handler that moves on without entering an attempt, a commit or a marking.
QuietHandlers ==
  \A i \in Instances, n \in Names :
    /\ h'[i][n].fileUid \in {h[i][n].fileUid, 0}
    /\ h'[i][n].pc \in Uncommitted =>
         h[i][n].pc \in Uncommitted /\ h'[i][n].fileUid = h[i][n].fileUid
    /\ h'[i][n].pc = "mark" => h[i][n].pc = "mark" /\ h'[i][n].fileUid = h[i][n].fileUid
    /\ h'[i][n].pc = "commit" => h[i][n].pc = "commit"

LEMMA MovedQuiet ==
  ASSUME TypeOK, NEW i \in Instances, NEW n \in Names, NEW l, Moved(i, n, l),
         l \notin {"mark", "commit"}, l \in Uncommitted => h[i][n].pc \in Uncommitted
  PROVE  QuietHandlers
  BY DEF Moved, Frame, QuietHandlers

LEMMA EndedQuiet ==
  ASSUME TypeOK, NEW i \in Instances, NEW n \in Names, Ended(i, n)
  PROVE  QuietHandlers
  BY DEF Ended, Frame, QuietHandlers, Idle, Uncommitted

LEMMA FailQuiet ==
  ASSUME TypeOK, NEW i \in Instances, NEW n \in Names, Fail(i, n)
  PROVE  QuietHandlers
  BY FailMoves, EndedQuiet, MovedQuiet DEF Uncommitted

\* The steps that write what the next theorems are about.
Loud(i, n) ==
  \/ NextFileUID(i, n) \/ PutOutput(i, n) \/ CompleteClaimed(i, n) \/ DiscardOutput(i, n)
  \/ WriteMarker(i, n) \/ QuarantineFile(i, n)

LEMMA ClaimQuiet ==
  ASSUME TypeOK, NEW i \in Instances, NEW n \in Names, ClaimFile(i, n)
  PROVE  QuietHandlers
  <1>1. CASE Finish(i, n)
    BY <1>1, FinishEnds, EndedQuiet
  <1>2. ASSUME NEW l \in {"poison", "alloc"}, NEW t,
               Become(i, n, [h[i][n] EXCEPT !.pc = l, !.claim = t])
        PROVE  QuietHandlers
    <2> DEFINE c == [h[i][n] EXCEPT !.pc = l, !.claim = t]
    <2>1. h[i][n] \in Handler
      BY DEF TypeOK
    <2>2. c.pc = l /\ c.fileUid = h[i][n].fileUid
      BY <2>1 DEF Handler
    <2>3. Become(i, n, c)
      BY <1>2
    <2> HIDE DEF c
    <2>4. QED
      BY <2>2, <2>3, BecomeOne DEF QuietHandlers, Uncommitted
  <1>3. QED
    BY <1>1, <1>2 DEF ClaimFile, Claimed

LEMMA CtxQuiet ==
  ASSUME TypeOK, NEW i \in Instances, NEW n \in Names, NEW x,
         Become(i, n, [h[i][n] EXCEPT !.ctx = x])
  PROVE  QuietHandlers
  <1> DEFINE c == [h[i][n] EXCEPT !.ctx = x]
  <1>1. h[i][n] \in Handler
    BY DEF TypeOK
  <1>2. c.pc = h[i][n].pc /\ c.fileUid = h[i][n].fileUid
    BY <1>1 DEF Handler
  <1>3. Become(i, n, c)
    OBVIOUS
  <1> HIDE DEF c
  <1>4. QED
    BY <1>2, <1>3, BecomeOne DEF QuietHandlers

LEMMA QuietOrLoud ==
  ASSUME TypeOK, [Next]_vars
  PROVE  \/ QuietHandlers /\ UNCHANGED <<pf, lastFileUid, outputs, markers>>
         \/ \E i \in Instances, n \in Names : Loud(i, n)
  <1>1. ASSUME NEW i \in Instances, NEW n \in Names,
               Scan(i, n) \/ CheckQuarantined(i, n) \/ CheckProcessed(i, n)
        PROVE  QuietHandlers /\ UNCHANGED <<pf, lastFileUid, outputs, markers>>
    <2>1. UNCHANGED <<pf, lastFileUid, outputs, markers>>
      BY <1>1 DEF Scan, CheckQuarantined, CheckProcessed, storageVars, dbVars
    <2>2. \/ Finish(i, n)
          \/ \E l \in {"listed", "requar", "unquar", "rearrival", "unclaimed"} : Goto(i, n, l)
      BY <1>1 DEF Scan, CheckQuarantined, CheckProcessed, Rearrival
    <2>3. QED
      BY <2>1, <2>2, GotoMoves, FinishEnds, MovedQuiet, EndedQuiet DEF Uncommitted
  <1>2. ASSUME NEW i \in Instances, NEW n \in Names,
               MoveAway(i, n) \/ DisposeSource(i, n) \/ HandleFailure(i, n)
        PROVE  QuietHandlers /\ UNCHANGED <<pf, lastFileUid, outputs, markers>>
    <2>1. UNCHANGED <<pf, lastFileUid, outputs, markers>> /\ Finish(i, n)
      BY <1>2 DEF MoveAway, DisposeSource, HandleFailure, storageVars, dbVars
    <2>2. QED
      BY <2>1, FinishEnds, EndedQuiet
  <1>3. ASSUME NEW i \in Instances, NEW n \in Names, OpenSource(i, n)
        PROVE  QuietHandlers /\ UNCHANGED <<pf, lastFileUid, outputs, markers>>
    <2>1. UNCHANGED <<pf, lastFileUid, outputs, markers>> /\ h[i][n].pc = "open"
      BY <1>3 DEF OpenSource, At, storageVars, dbVars
    <2>2. Goto(i, n, "put") \/ Fail(i, n)
      BY <1>3 DEF OpenSource
    <2>3. QED
      BY <2>1, <2>2, GotoMoves, MovedQuiet, FailQuiet DEF Uncommitted
  <1>4. ASSUME NEW i \in Instances, NEW n \in Names, ClaimFile(i, n)
        PROVE  QuietHandlers /\ UNCHANGED <<pf, lastFileUid, outputs, markers>>
    BY <1>4, ClaimQuiet DEF ClaimFile, storageVars
  <1>5. ASSUME NEW i \in Instances, NEW n \in Names, Heartbeat(i, n) \/ Timeout(i, n)
        PROVE  QuietHandlers /\ UNCHANGED <<pf, lastFileUid, outputs, markers>>
    <2>1. UNCHANGED <<pf, lastFileUid, outputs, markers>>
      BY <1>5 DEF Heartbeat, Timeout, storageVars, dbVars
    <2>2. UNCHANGED h \/ \E x : Become(i, n, [h[i][n] EXCEPT !.ctx = x])
      BY <1>5 DEF Heartbeat, Timeout
    <2>3. QED
      BY <2>1, <2>2, CtxQuiet DEF QuietHandlers
  <1>6. ASSUME NEW i \in Instances, Crash(i)
        PROVE  QuietHandlers /\ UNCHANGED <<pf, lastFileUid, outputs, markers>>
    BY <1>6 DEF Crash, TypeOK, QuietHandlers, Idle, Uncommitted, storageVars, dbVars
  <1>7. ASSUME NEW n \in Names, Arrive(n) \/ LeaseExpire(n)
        PROVE  QuietHandlers /\ UNCHANGED <<pf, lastFileUid, outputs, markers>>
    BY <1>7 DEF Arrive, LeaseExpire, QuietHandlers, storageVars, dbVars
  <1>8. CASE UNCHANGED vars
    BY <1>8 DEF vars, QuietHandlers
  <1>9. QED
    BY <1>1, <1>2, <1>3, <1>4, <1>5, <1>6, <1>7, <1>8 DEF Next, Handle, Loud

-----------------------------------------------------------------------------
(* Markers.  A handler about to write a marker has its record.             *)

Marking ==
  \A i \in Instances, n \in Names :
    h[i][n].pc = "mark" =>
      \E r \in pf : r.status = "DONE" /\ r.name = n /\ r.uid = h[i][n].fileUid

LEMMA MarkKept ==
  ASSUME Marking, MarkerImpliesDone, QuietHandlers, pf \subseteq pf', UNCHANGED markers
  PROVE  Marking' /\ MarkerImpliesDone'
  BY DEF Marking, MarkerImpliesDone, QuietHandlers

LEMMA CompleteEffect ==
  ASSUME TypeOK, NEW i \in Instances, NEW n \in Names, CompleteClaimed(i, n)
  PROVE  /\ UNCHANGED <<outputs, markers, lastFileUid>> /\ h[i][n].pc = "commit"
         /\ \/ QuietHandlers /\ UNCHANGED pf
            \/ /\ Moved(i, n, "mark") \/ (InDoubtCommit /\ Moved(i, n, "discardErr"))
               /\ pf' = pf \cup {[name |-> n, uid |-> h[i][n].fileUid, status |-> "DONE",
                                  claim |-> fc[n].uid]}
  <1>1. UNCHANGED <<outputs, markers, lastFileUid>> /\ h[i][n].pc = "commit"
    BY DEF CompleteClaimed, At, storageVars
  <1>2. CASE UNCHANGED pf /\ \E l \in {"discardLost", "discardErr"} : Goto(i, n, l)
    BY <1>1, <1>2, GotoMoves, MovedQuiet DEF Uncommitted
  <1>3. CASE /\ RecordAndRelease(n, h[i][n].fileUid, "DONE")
             /\ Goto(i, n, "mark") \/ (InDoubtCommit /\ Goto(i, n, "discardErr"))
    BY <1>1, <1>3, GotoMoves DEF RecordAndRelease
  <1>4. QED
    BY <1>2, <1>3 DEF CompleteClaimed, NotRecorded

LEMMA DiscardEffect ==
  ASSUME TypeOK, NEW i \in Instances, NEW n \in Names, DiscardOutput(i, n)
  PROVE  /\ QuietHandlers /\ UNCHANGED <<pf, markers, lastFileUid>>
         /\ h[i][n].pc \in {"discardLost", "discardErr"}
         /\ outputs' \in {outputs, outputs \ {<<n, h[i][n].fileUid>>}}
  <1>1. Finish(i, n) \/ Fail(i, n)
    BY DEF DiscardOutput
  <1>2. QuietHandlers
    BY <1>1, FinishEnds, EndedQuiet, FailQuiet
  <1>3. QED
    BY <1>2 DEF DiscardOutput, dbVars

LEMMA QuarantineEffect ==
  ASSUME TypeOK, NEW i \in Instances, NEW n \in Names, QuarantineFile(i, n)
  PROVE  /\ QuietHandlers /\ UNCHANGED <<outputs, markers>>
         /\ \/ UNCHANGED <<pf, lastFileUid>>
            \/ /\ lastFileUid' = NextUid
               /\ pf' = pf \cup {[name |-> n, uid |-> NextUid, status |-> "QUARANTINED",
                                  claim |-> fc[n].uid]}
  <1>1. Finish(i, n) \/ Goto(i, n, "moveQuar")
    BY DEF QuarantineFile
  <1>2. QuietHandlers
    BY <1>1, FinishEnds, EndedQuiet, GotoMoves, MovedQuiet DEF Uncommitted
  <1>3. QED
    BY <1>2 DEF QuarantineFile, RecordAndRelease, storageVars

LEMMA PutEffect ==
  ASSUME TypeOK, NEW i \in Instances, NEW n \in Names, PutOutput(i, n)
  PROVE  /\ UNCHANGED <<pf, markers, lastFileUid>> /\ h[i][n].pc = "put"
         /\ \/ QuietHandlers /\ UNCHANGED outputs
            \/ Moved(i, n, "commit") /\ outputs' = outputs \cup {<<n, h[i][n].fileUid>>}
  <1>1. CASE Goto(i, n, "poison") \/ Fail(i, n)
    <2>1. QuietHandlers
      BY <1>1, GotoMoves, MovedQuiet, FailQuiet DEF Uncommitted
    <2>2. QED
      BY <2>1, GotoMoves DEF PutOutput, At, dbVars
  <1>2. CASE Goto(i, n, "commit")
    BY <1>2, GotoMoves, FailQuiet, MovedQuiet DEF PutOutput, At, dbVars, Uncommitted
  <1>3. QED
    BY <1>1, <1>2 DEF PutOutput

LEMMA AllocEffect ==
  ASSUME TypeOK, NEW i \in Instances, NEW n \in Names, NextFileUID(i, n)
  PROVE  /\ UNCHANGED <<pf, markers, outputs>>
         /\ \/ QuietHandlers /\ UNCHANGED lastFileUid
            \/ /\ lastFileUid' = NextUid /\ Frame(i, n)
               /\ h'[i][n].pc = "open" /\ h'[i][n].fileUid = NextUid
  <1>1. UNCHANGED <<pf, markers, outputs>>
    BY DEF NextFileUID, storageVars
  <1>2. CASE Fail(i, n) /\ UNCHANGED lastFileUid
    BY <1>1, <1>2, FailQuiet
  <1>3. CASE /\ lastFileUid' = NextUid
             /\ Become(i, n, [h[i][n] EXCEPT !.pc = "open", !.fileUid = NextUid])
    <2> DEFINE c == [h[i][n] EXCEPT !.pc = "open", !.fileUid = NextUid]
    <2>1. h[i][n] \in Handler
      BY DEF TypeOK
    <2>2. c.pc = "open" /\ c.fileUid = NextUid
      BY <2>1 DEF Handler
    <2>3. Become(i, n, c)
      BY <1>3
    <2> HIDE DEF c
    <2>4. QED
      BY <1>1, <1>3, <2>2, <2>3, BecomeOne DEF Frame
  <1>4. QED
    BY <1>2, <1>3 DEF NextFileUID

LEMMA MarkStep ==
  ASSUME TypeOK, Marking, MarkerImpliesDone, [Next]_vars
  PROVE  Marking' /\ MarkerImpliesDone'
  <1>1. CASE QuietHandlers /\ UNCHANGED <<pf, lastFileUid, outputs, markers>>
    BY <1>1, MarkKept
  <1>2. ASSUME NEW i \in Instances, NEW n \in Names, CompleteClaimed(i, n)
        PROVE  Marking' /\ MarkerImpliesDone'
    <2>1. CASE QuietHandlers /\ UNCHANGED pf
      BY <1>2, <2>1, CompleteEffect, MarkKept
    <2>2. CASE /\ Moved(i, n, "mark") \/ Moved(i, n, "discardErr")
               /\ pf' = pf \cup {[name |-> n, uid |-> h[i][n].fileUid, status |-> "DONE",
                                  claim |-> fc[n].uid]}
      <3> DEFINE row == [name |-> n, uid |-> h[i][n].fileUid, status |-> "DONE",
                         claim |-> fc[n].uid]
      <3>1. row.name = n /\ row.uid = h[i][n].fileUid /\ row.status = "DONE"
        OBVIOUS
      <3>2. pf \subseteq pf' /\ row \in pf'
        BY <2>2
      <3> HIDE DEF row
      <3>3. ASSUME NEW j \in Instances, NEW k \in Names, h'[j][k].pc = "mark"
            PROVE  \E r \in pf' : r.status = "DONE" /\ r.name = k /\ r.uid = h'[j][k].fileUid
        <4>1. CASE j = i /\ k = n
          BY <2>2, <3>1, <3>2, <4>1 DEF Moved
        <4>2. CASE j # i \/ k # n
          BY <2>2, <3>2, <3>3, <4>2 DEF Marking, Moved, Frame
        <4>3. QED
          BY <4>1, <4>2
      <3>4. MarkerImpliesDone'
        BY <1>2, <3>2, CompleteEffect DEF MarkerImpliesDone
      <3>5. QED
        BY <3>3, <3>4 DEF Marking
    <2>3. QED
      BY <1>2, <2>1, <2>2, CompleteEffect
  <1>3. ASSUME NEW i \in Instances, NEW n \in Names, WriteMarker(i, n)
        PROVE  Marking' /\ MarkerImpliesDone'
    <2>1. Moved(i, n, "dispose") /\ h[i][n].pc = "mark" /\ UNCHANGED pf
      BY <1>3, GotoMoves DEF WriteMarker, At, dbVars
    <2>2. Marking'
      BY <2>1 DEF Marking, Moved, Frame
    <2>3. markers' \subseteq markers \cup {<<n, h[i][n].fileUid>>}
      BY <1>3 DEF WriteMarker
    <2>4. MarkerImpliesDone'
      BY <2>1, <2>3 DEF Marking, MarkerImpliesDone
    <2>5. QED
      BY <2>2, <2>4
  <1>4. ASSUME NEW i \in Instances, NEW n \in Names, DiscardOutput(i, n) \/ QuarantineFile(i, n)
        PROVE  Marking' /\ MarkerImpliesDone'
    <2>1. QuietHandlers /\ UNCHANGED markers /\ pf \subseteq pf'
      BY <1>4, DiscardEffect, QuarantineEffect
    <2>2. QED
      BY <2>1, MarkKept
  <1>5. ASSUME NEW i \in Instances, NEW n \in Names, NextFileUID(i, n) \/ PutOutput(i, n)
        PROVE  Marking' /\ MarkerImpliesDone'
    <2>1. UNCHANGED <<pf, markers>>
      BY <1>5, AllocEffect, PutEffect
    <2>2. \A j \in Instances, k \in Names :
            h'[j][k].pc = "mark" => h[j][k].pc = "mark" /\ h'[j][k].fileUid = h[j][k].fileUid
      BY <1>5, AllocEffect, PutEffect DEF QuietHandlers, Moved, Frame
    <2>3. QED
      BY <2>1, <2>2 DEF Marking, MarkerImpliesDone
  <1>6. QED
    BY <1>1, <1>2, <1>3, <1>4, <1>5, QuietOrLoud DEF Loud

\* A completion marker is only ever evidence of a committed record, whatever breaks.
THEOREM MarkersAreEvidence == Spec => []MarkerImpliesDone
  <1>1. Init => Marking /\ MarkerImpliesDone
    BY DEF Init, Marking, MarkerImpliesDone, Idle
  <1>2. TypeOK /\ Marking /\ MarkerImpliesDone /\ [Next]_vars => Marking' /\ MarkerImpliesDone'
    BY MarkStep
  <1>3. QED
    BY <1>1, <1>2, TypeCorrect, PTL DEF Spec

-----------------------------------------------------------------------------
(* Outputs.  An identity belongs to one attempt, so discarding the output   *)
(* of one attempt never takes the output another attempt recorded.         *)

\* Every identity in use was allocated, and no two handlers use the same one.
HandlersApart ==
  /\ \A i \in Instances, n \in Names : h[i][n].fileUid <= lastFileUid
  /\ \A i, j \in Instances, n, k \in Names :
       h[i][n].fileUid = h[j][k].fileUid /\ h[i][n].fileUid # 0 => i = j /\ n = k

\* An attempt that has not committed has an identity no row carries.
Unrecorded ==
  \A i \in Instances, n \in Names :
    h[i][n].pc \in Uncommitted =>
      h[i][n].fileUid # 0 /\ \A r \in pf : r.uid # h[i][n].fileUid

RowsAllocated == \A r \in pf : r.uid <= lastFileUid

Written ==
  \A i \in Instances, n \in Names :
    h[i][n].pc = "commit" => <<n, h[i][n].fileUid>> \in outputs

OutInv == HandlersApart /\ Unrecorded /\ RowsAllocated /\ Written /\ DoneHasOutput

LEMMA Numbers ==
  ASSUME TypeOK
  PROVE  /\ lastFileUid \in Nat /\ NextUid \in Nat /\ NextUid > lastFileUid
         /\ \A i \in Instances, n \in Names : h[i][n].fileUid \in Nat
         /\ \A r \in pf : r.uid \in Nat
  BY DEF TypeOK, NextUid, Handler, PfRow

LEMMA QuietApart ==
  ASSUME TypeOK, HandlersApart, QuietHandlers, lastFileUid' \in {lastFileUid, NextUid}
  PROVE  HandlersApart'
  BY Numbers DEF HandlersApart, QuietHandlers

LEMMA MovedApart ==
  ASSUME TypeOK, HandlersApart, UNCHANGED lastFileUid,
         NEW i \in Instances, NEW n \in Names, NEW l, Moved(i, n, l)
  PROVE  HandlersApart'
  <1>1. \A j \in Instances, k \in Names : h'[j][k].fileUid = h[j][k].fileUid
    BY DEF Moved, Frame
  <1>2. QED
    BY <1>1 DEF HandlersApart

LEMMA QuietOutputs ==
  ASSUME TypeOK, OutInv, QuietHandlers, UNCHANGED <<pf, lastFileUid>>,
         outputs \subseteq outputs'
  PROVE  OutInv'
  <1>1. HandlersApart'
    BY QuietApart DEF OutInv
  <1>2. Unrecorded'
    BY DEF OutInv, Unrecorded, QuietHandlers
  <1>3. RowsAllocated' /\ DoneHasOutput'
    BY DEF OutInv, RowsAllocated, DoneHasOutput
  <1>4. Written'
    BY DEF OutInv, Written, QuietHandlers, Uncommitted
  <1>5. QED
    BY <1>1, <1>2, <1>3, <1>4 DEF OutInv

LEMMA AllocOutputs ==
  ASSUME TypeOK, OutInv, NEW i \in Instances, NEW n \in Names, NextFileUID(i, n)
  PROVE  OutInv'
  <1>1. CASE QuietHandlers /\ UNCHANGED lastFileUid
    BY <1>1, AllocEffect, QuietOutputs
  <1>2. CASE /\ lastFileUid' = NextUid /\ Frame(i, n)
             /\ h'[i][n].pc = "open" /\ h'[i][n].fileUid = NextUid
    <2>1. UNCHANGED <<pf, outputs>>
      BY AllocEffect
    <2>2. HandlersApart'
      BY <1>2, Numbers DEF OutInv, HandlersApart, Frame
    <2>3. Unrecorded'
      BY <1>2, <2>1, Numbers DEF OutInv, Unrecorded, RowsAllocated, Frame
    <2>4. RowsAllocated' /\ DoneHasOutput'
      BY <1>2, <2>1, Numbers DEF OutInv, RowsAllocated, DoneHasOutput
    <2>5. Written'
      BY <1>2, <2>1 DEF OutInv, Written, Frame
    <2>6. QED
      BY <2>2, <2>3, <2>4, <2>5 DEF OutInv
  <1>3. QED
    BY <1>1, <1>2, AllocEffect

LEMMA PutOutputs ==
  ASSUME TypeOK, OutInv, NEW i \in Instances, NEW n \in Names, PutOutput(i, n)
  PROVE  OutInv'
  <1>1. CASE QuietHandlers /\ UNCHANGED outputs
    BY <1>1, PutEffect, QuietOutputs
  <1>2. CASE Moved(i, n, "commit") /\ outputs' = outputs \cup {<<n, h[i][n].fileUid>>}
    <2>1. UNCHANGED <<pf, lastFileUid>> /\ h[i][n].pc = "put"
      BY PutEffect
    <2>2. HandlersApart'
      BY <1>2, <2>1, MovedApart DEF OutInv
    <2>3. Unrecorded'
      BY <1>2, <2>1 DEF OutInv, Unrecorded, Moved, Frame, Uncommitted
    <2>4. RowsAllocated' /\ DoneHasOutput'
      BY <1>2, <2>1 DEF OutInv, RowsAllocated, DoneHasOutput
    <2>5. Written'
      BY <1>2 DEF OutInv, Written, Moved, Frame
    <2>6. QED
      BY <2>2, <2>3, <2>4, <2>5 DEF OutInv
  <1>3. QED
    BY <1>1, <1>2, PutEffect

LEMMA CompleteOutputs ==
  ASSUME TypeOK, OutInv, NEW i \in Instances, NEW n \in Names, CompleteClaimed(i, n)
  PROVE  OutInv'
  <1>1. CASE QuietHandlers /\ UNCHANGED pf
    BY <1>1, CompleteEffect, QuietOutputs
  <1>2. CASE /\ Moved(i, n, "mark") \/ (InDoubtCommit /\ Moved(i, n, "discardErr"))
             /\ pf' = pf \cup {[name |-> n, uid |-> h[i][n].fileUid, status |-> "DONE",
                                claim |-> fc[n].uid]}
    <2> DEFINE row == [name |-> n, uid |-> h[i][n].fileUid, status |-> "DONE",
                       claim |-> fc[n].uid]
    <2>1. row.name = n /\ row.uid = h[i][n].fileUid
      OBVIOUS
    <2>2. pf' = pf \cup {row}
      BY <1>2
    <2> HIDE DEF row
    <2>3. UNCHANGED <<outputs, lastFileUid>> /\ h[i][n].pc = "commit"
      BY CompleteEffect
    <2>4. HandlersApart'
      BY <1>2, <2>3, MovedApart DEF OutInv
    <2>5. h'[i][n].pc \notin Uncommitted /\ h'[i][n].pc # "commit" /\ Frame(i, n)
      BY <1>2 DEF Moved, Uncommitted
    <2>6. h[i][n].fileUid # 0
      BY <2>3 DEF OutInv, Unrecorded, Uncommitted
    <2>7. \A j \in Instances, k \in Names :
            h'[j][k].pc \in Uncommitted => h'[j][k].fileUid # h[i][n].fileUid
      BY <2>5, <2>6 DEF OutInv, HandlersApart, Frame
    <2>8. Unrecorded'
      BY <2>1, <2>2, <2>5, <2>7 DEF OutInv, Unrecorded, Frame
    <2>9. RowsAllocated'
      BY <2>1, <2>2, <2>3 DEF OutInv, RowsAllocated, HandlersApart
    <2>10. Written'
      BY <2>3, <2>5 DEF OutInv, Written, Frame
    <2>11. DoneHasOutput'
      BY <2>1, <2>2, <2>3 DEF OutInv, DoneHasOutput, Written
    <2>12. QED
      BY <2>4, <2>8, <2>9, <2>10, <2>11 DEF OutInv
  <1>3. QED
    BY <1>1, <1>2, CompleteEffect

LEMMA DiscardOutputs ==
  ASSUME TypeOK, OutInv, InDoubtCommit = FALSE,
         NEW i \in Instances, NEW n \in Names, DiscardOutput(i, n)
  PROVE  OutInv'
  <1>1. CASE UNCHANGED outputs
    BY <1>1, DiscardEffect, QuietOutputs
  <1>2. CASE outputs' = outputs \ {<<n, h[i][n].fileUid>>}
    <2>1. QuietHandlers /\ UNCHANGED <<pf, lastFileUid>>
      BY DiscardEffect
    <2>2. h[i][n].pc \in Uncommitted /\ h[i][n].pc # "commit"
      BY DiscardEffect DEF Uncommitted
    <2>3. \A r \in pf : <<r.name, r.uid>> # <<n, h[i][n].fileUid>>
      BY <2>2 DEF OutInv, Unrecorded
    <2>4. DoneHasOutput'
      BY <1>2, <2>1, <2>3 DEF OutInv, DoneHasOutput
    <2>5. \A j \in Instances, k \in Names :
            h'[j][k].pc = "commit" =>
              /\ h[j][k].pc = "commit" /\ h'[j][k].fileUid = h[j][k].fileUid
              /\ h[j][k].fileUid # 0 /\ ~(j = i /\ k = n)
      BY <2>1, <2>2 DEF QuietHandlers, Uncommitted, OutInv, Unrecorded
    <2>6. \A j \in Instances, k \in Names :
            h'[j][k].pc = "commit" => h[j][k].fileUid # h[i][n].fileUid
      BY <2>5 DEF OutInv, HandlersApart
    <2>7. Written'
      BY <1>2, <2>5, <2>6 DEF OutInv, Written
    <2>8. HandlersApart'
      BY <2>1, QuietApart DEF OutInv
    <2>9. Unrecorded' /\ RowsAllocated'
      BY <2>1 DEF OutInv, Unrecorded, RowsAllocated, QuietHandlers
    <2>10. QED
      BY <2>4, <2>7, <2>8, <2>9 DEF OutInv
  <1>3. QED
    BY <1>1, <1>2, DiscardEffect

LEMMA QuarantineOutputs ==
  ASSUME TypeOK, OutInv, NEW i \in Instances, NEW n \in Names, QuarantineFile(i, n)
  PROVE  OutInv'
  <1>1. CASE UNCHANGED <<pf, lastFileUid>>
    BY <1>1, QuarantineEffect, QuietOutputs
  <1>2. CASE /\ lastFileUid' = NextUid
             /\ pf' = pf \cup {[name |-> n, uid |-> NextUid, status |-> "QUARANTINED",
                                claim |-> fc[n].uid]}
    <2> DEFINE row == [name |-> n, uid |-> NextUid, status |-> "QUARANTINED",
                       claim |-> fc[n].uid]
    <2>1. row.uid = NextUid /\ row.status = "QUARANTINED"
      OBVIOUS
    <2>2. pf' = pf \cup {row}
      BY <1>2
    <2> HIDE DEF row
    <2>3. QuietHandlers /\ UNCHANGED outputs
      BY QuarantineEffect
    <2>4. HandlersApart'
      BY <1>2, <2>3, QuietApart DEF OutInv
    <2>5. \A j \in Instances, k \in Names : h[j][k].fileUid # NextUid
      BY Numbers DEF OutInv, HandlersApart
    <2>6. Unrecorded'
      BY <2>1, <2>2, <2>3, <2>5 DEF OutInv, Unrecorded, QuietHandlers
    <2>7. RowsAllocated'
      BY <1>2, <2>1, <2>2, Numbers DEF OutInv, RowsAllocated
    <2>8. Written'
      BY <2>3 DEF OutInv, Written, QuietHandlers, Uncommitted
    <2>9. DoneHasOutput'
      BY <2>1, <2>2, <2>3 DEF OutInv, DoneHasOutput
    <2>10. QED
      BY <2>4, <2>6, <2>7, <2>8, <2>9 DEF OutInv
  <1>3. QED
    BY <1>1, <1>2, QuarantineEffect

LEMMA OutStep ==
  ASSUME TypeOK, OutInv, InDoubtCommit = FALSE, [Next]_vars
  PROVE  OutInv'
  <1>1. CASE QuietHandlers /\ UNCHANGED <<pf, lastFileUid, outputs, markers>>
    BY <1>1, QuietOutputs
  <1>2. ASSUME NEW i \in Instances, NEW n \in Names, WriteMarker(i, n)
        PROVE  OutInv'
    <2>1. Goto(i, n, "dispose") /\ UNCHANGED <<pf, lastFileUid, outputs>>
      BY <1>2 DEF WriteMarker, dbVars
    <2>2. QuietHandlers
      BY <2>1, GotoMoves, MovedQuiet DEF Uncommitted
    <2>3. QED
      BY <2>1, <2>2, QuietOutputs
  <1>3. QED
    BY <1>1, <1>2, AllocOutputs, PutOutputs, CompleteOutputs, DiscardOutputs,
       QuarantineOutputs, QuietOrLoud DEF Loud

\* As long as no connection breaks over a commit, a file recorded DONE keeps its output:
\* the discard paths of ProcessFile only ever delete what their own attempt wrote.
THEOREM OutputsSurvive == ASSUME InDoubtCommit = FALSE PROVE Spec => []DoneHasOutput
  <1>1. Init => OutInv
    BY DEF Init, OutInv, HandlersApart, Unrecorded, RowsAllocated, Written,
           DoneHasOutput, Idle, Uncommitted
  <1>2. OutInv => DoneHasOutput
    BY DEF OutInv
  <1>3. TypeOK /\ OutInv /\ [Next]_vars => OutInv'
    BY OutStep
  <1>4. QED
    BY <1>1, <1>2, <1>3, TypeCorrect, PTL DEF Spec

-----------------------------------------------------------------------------
(* Without faults a lease that is tended is never lost, so no attempt ends   *)
(* between its output and its record.                                      *)

Before  == {"idle", "listed", "unquar", "unclaimed"}
Leasing == {"alloc", "open", "put", "commit", "discardLost"}
Writing == {"commit", "discardLost", "discardErr"}

Kept(i, n) ==
  /\ h[i][n].pc \in Before => h[i][n].ctx = "live"
  /\ h[i][n].pc \in Leasing => h[i][n].ctx = "live" /\ Owns(i, n) /\ fc[n].live
  /\ h[i][n].pc # "discardErr"

AllKept == \A i \in Instances, n \in Names : Kept(i, n)

\* Every output is recorded, or some handler is still to decide about it.
Tracked ==
  \A o \in outputs :
    \/ \E r \in pf : r.status = "DONE" /\ o = <<r.name, r.uid>>
    \/ \E i \in Instances : h[i][o[1]].fileUid = o[2] /\ h[i][o[1]].pc \in Writing

CalmInv == faults = 0 => AllKept /\ Tracked

\* A step of one handler leaves the leases of the others alone: it touches the row of
\* its own file only, and that one only if it holds it or nobody does.
LeaseFrame(i, n) ==
  /\ \A k \in Names : k # n => fc'[k] = fc[k]
  /\ fc'[n] = fc[n] \/ Owns(i, n) \/ ~(fc[n].held /\ fc[n].live)

LEMMA FaultCounts ==
  ASSUME TypeOK, [Next]_vars, faults' = 0
  PROVE  faults = 0 /\ ~Fault
  <1>1. faults \in Nat
    BY DEF TypeOK
  <1>2. ~Fault
    BY <1>1 DEF Fault
  <1>3. ASSUME NEW i \in Instances, NEW n \in Names, Handle(i, n)
        PROVE  UNCHANGED faults
    BY <1>2, <1>3
    DEF Handle, CheckQuarantined, CheckProcessed, MoveAway, ClaimFile, Claimed, NextFileUID,
        OpenSource, PutOutput, CompleteClaimed, DiscardOutput, WriteMarker, DisposeSource,
        QuarantineFile, HandleFailure, CallFails, StoreCallFails, StoreCallWorks, NoFault
  <1>4. UNCHANGED faults
    BY <1>2, <1>3 DEF Next, vars, Arrive, LeaseExpire, Scan, Heartbeat, Timeout, Crash, NoFault
  <1>5. QED
    BY <1>2, <1>4

LEMMA OthersKept ==
  ASSUME TypeOK, AllKept, NEW i \in Instances, NEW n \in Names, Frame(i, n), LeaseFrame(i, n),
         NEW j \in Instances, NEW k \in Names, j # i \/ k # n
  PROVE  Kept(j, k)'
  <1>1. h'[j][k] = h[j][k] /\ Kept(j, k)
    BY DEF Frame, AllKept
  <1>2. CASE fc'[k] = fc[k]
    BY <1>1, <1>2 DEF Kept, Owns
  <1>3. CASE k = n /\ (Owns(i, n) \/ ~(fc[n].held /\ fc[n].live))
    BY <1>1, <1>3 DEF Kept, Owns
  <1>4. QED
    BY <1>2, <1>3 DEF LeaseFrame

LEMMA EndedKept ==
  ASSUME TypeOK, AllKept, NEW i \in Instances, NEW n \in Names, Ended(i, n), LeaseFrame(i, n)
  PROVE  AllKept'
  <1>1. Kept(i, n)'
    BY DEF Ended, Kept, Idle, Leasing
  <1>2. QED
    BY <1>1, OthersKept DEF AllKept, Ended

LEMMA MovedKept ==
  ASSUME TypeOK, AllKept, NEW i \in Instances, NEW n \in Names, NEW l, Moved(i, n, l),
         LeaseFrame(i, n), l # "discardErr", l \in Before => h[i][n].pc \in Before,
         l \in Leasing => h[i][n].pc \in Leasing /\ UNCHANGED fc
  PROVE  AllKept'
  <1>1. Kept(i, n)'
    BY DEF Moved, AllKept, Kept, Owns
  <1>2. QED
    BY <1>1, OthersKept DEF AllKept, Moved

LEMMA FailKept ==
  ASSUME TypeOK, AllKept, NEW i \in Instances, NEW n \in Names, Fail(i, n), UNCHANGED fc
  PROVE  AllKept'
  <1>1. LeaseFrame(i, n)
    BY DEF LeaseFrame
  <1>2. QED
    BY <1>1, FailMoves, EndedKept, MovedKept DEF Before, Leasing

LEMMA FrameTracked ==
  ASSUME TypeOK, Tracked, NEW i \in Instances, NEW n \in Names, Frame(i, n),
         h[i][n].pc \notin Writing, pf \subseteq pf', UNCHANGED outputs
  PROVE  Tracked'
  <1>1. SUFFICES ASSUME NEW o \in outputs,
                        NEW j \in Instances, h[j][o[1]].fileUid = o[2],
                        h[j][o[1]].pc \in Writing
                 PROVE  h'[j][o[1]] = h[j][o[1]]
    BY DEF Tracked
  <1>2. o[1] \in Names
    BY DEF TypeOK
  <1>3. QED
    BY <1>1, <1>2 DEF Frame

LEMMA ReleaseFrame ==
  ASSUME TypeOK, NEW i \in Instances, NEW n \in Names, Owns(i, n), Release(n)
  PROVE  LeaseFrame(i, n)
  BY DEF LeaseFrame, Release, TypeOK

\* The steps before the claim and the ones that only move the source.
LEMMA WalkCalm ==
  ASSUME TypeOK, AllKept, Tracked, ~Fault, NEW i \in Instances, NEW n \in Names,
         \/ Scan(i, n) \/ CheckQuarantined(i, n) \/ CheckProcessed(i, n) \/ MoveAway(i, n)
         \/ OpenSource(i, n) \/ WriteMarker(i, n) \/ DisposeSource(i, n)
  PROVE  AllKept' /\ Tracked'
  <1>1. UNCHANGED <<fc, pf, outputs>>
    BY DEF Scan, CheckQuarantined, CheckProcessed, MoveAway, OpenSource, WriteMarker,
           DisposeSource, storageVars, dbVars
  <1>2. LeaseFrame(i, n)
    BY <1>1 DEF LeaseFrame
  <1>3. h[i][n].pc \notin Writing
    BY DEF Scan, CheckQuarantined, CheckProcessed, MoveAway, OpenSource, WriteMarker,
           DisposeSource, At, Writing
  <1>4. CASE Finish(i, n)
    BY <1>1, <1>2, <1>3, <1>4, FinishEnds, EndedKept, FrameTracked DEF Ended
  <1>5. CASE Fail(i, n)
    BY <1>1, <1>3, <1>5, FailKept, FailMoves, FrameTracked DEF Ended, Moved
  <1>6. ASSUME NEW l \in {"listed", "requar", "unquar", "rearrival", "unclaimed", "put",
                          "dispose"}, Goto(i, n, l),
               l \in Before => h[i][n].pc \in Before,
               l \in Leasing => h[i][n].pc \in Leasing
        PROVE  AllKept' /\ Tracked'
    <2>1. Moved(i, n, l)
      BY <1>6, GotoMoves
    <2>2. AllKept'
      BY <1>1, <1>2, <1>6, <2>1, MovedKept
    <2>3. QED
      BY <1>1, <1>3, <2>1, <2>2, FrameTracked DEF Moved
  <1>7. CASE Scan(i, n)
    BY <1>6, <1>7 DEF Scan, At, Before, Leasing
  <1>8. CASE CheckQuarantined(i, n)
    BY <1>6, <1>8 DEF CheckQuarantined, At, Before, Leasing
  <1>9. CASE CheckProcessed(i, n)
    BY <1>4, <1>6, <1>9 DEF CheckProcessed, Rearrival, At, Before, Leasing
  <1>10. CASE OpenSource(i, n)
    BY <1>5, <1>6, <1>10 DEF OpenSource, At, Before, Leasing
  <1>11. CASE WriteMarker(i, n)
    BY <1>6, <1>11 DEF WriteMarker, At, Before, Leasing
  <1>12. QED
    BY <1>4, <1>7, <1>8, <1>9, <1>10, <1>11 DEF MoveAway, DisposeSource

\* A claim is granted on a row nobody holds, and its handler starts with a live context.
LEMMA ClaimCalm ==
  ASSUME TypeOK, AllKept, Tracked, ~Fault, NEW i \in Instances, NEW n \in Names,
         ClaimFile(i, n)
  PROVE  AllKept' /\ Tracked'
  <1>1. UNCHANGED <<pf, outputs>> /\ h[i][n].pc = "unclaimed"
    BY DEF ClaimFile, storageVars, At
  <1>2. CASE Finish(i, n) /\ UNCHANGED fc
    <2>1. LeaseFrame(i, n)
      BY <1>2 DEF LeaseFrame
    <2>2. QED
      BY <1>1, <1>2, <2>1, FinishEnds, EndedKept, FrameTracked DEF Ended, Writing
  <1>3. ASSUME NEW row, row.held, row.live, row.owner = i, Claimed(i, n, row),
               ~(fc[n].held /\ fc[n].live)
        PROVE  AllKept' /\ Tracked'
    <2> DEFINE l == IF row.stall >= MaxStall THEN "poison" ELSE "alloc"
               t == [uid |-> row.uid, fence |-> row.fence]
               c == [h[i][n] EXCEPT !.pc = l, !.claim = t]
    <2>1. fc' = [fc EXCEPT ![n] = row] /\ Become(i, n, c)
      BY <1>3 DEF Claimed
    <2>2. LeaseFrame(i, n) /\ fc'[n] = row
      BY <1>3, <2>1 DEF LeaseFrame, TypeOK
    <2>3. h[i][n] \in Handler
      BY DEF TypeOK
    <2>4. c.pc = l /\ c.claim = t /\ c.ctx = h[i][n].ctx
      BY <2>3 DEF Handler
    <2>5. l \in {"poison", "alloc"} /\ t.uid = row.uid /\ t.fence = row.fence
      OBVIOUS
    <2> HIDE DEF l, t, c
    <2>6. Frame(i, n) /\ h'[i][n] = c
      BY <2>1, BecomeOne DEF Frame
    <2>7. h[i][n].ctx = "live"
      BY <1>1 DEF AllKept, Kept, Before
    <2>8. Kept(i, n)'
      BY <1>3, <2>2, <2>4, <2>5, <2>6, <2>7 DEF Kept, Owns, Before, Leasing
    <2>9. AllKept'
      BY <2>2, <2>6, <2>8, OthersKept DEF AllKept
    <2>10. QED
      BY <1>1, <2>6, <2>9, FrameTracked DEF Writing
  <1>4. fc[n] \in FcRow
    BY DEF TypeOK
  <1>5. LET r == FreshRow(i, n) IN r.held /\ r.live /\ r.owner = i
    BY DEF FreshRow
  <1>6. LET r == TakenOverRow(i, n) IN Takeable(n) => r.held /\ r.live /\ r.owner = i
    BY <1>4 DEF TakenOverRow, FcRow, Takeable
  <1>7. QED
    BY <1>2, <1>3, <1>5, <1>6 DEF ClaimFile, Takeable

LEMMA AllocCalm ==
  ASSUME TypeOK, AllKept, Tracked, ~Fault, NEW i \in Instances, NEW n \in Names,
         NextFileUID(i, n)
  PROVE  AllKept' /\ Tracked'
  <1> DEFINE c == [h[i][n] EXCEPT !.pc = "open", !.fileUid = NextUid]
  <1>1. UNCHANGED <<fc, pf, outputs>> /\ h[i][n].pc = "alloc"
    BY DEF NextFileUID, storageVars, At
  <1>2. Kept(i, n) /\ h[i][n].ctx = "live"
    BY <1>1 DEF AllKept, Kept, Leasing
  <1>3. Become(i, n, c)
    BY <1>2 DEF NextFileUID, CallFails, Cancelled
  <1>4. h[i][n] \in Handler
    BY DEF TypeOK
  <1>5. c.pc = "open" /\ c.claim = h[i][n].claim /\ c.ctx = h[i][n].ctx
    BY <1>4 DEF Handler
  <1> HIDE DEF c
  <1>6. Frame(i, n) /\ h'[i][n] = c
    BY <1>3, BecomeOne DEF Frame
  <1>7. LeaseFrame(i, n)
    BY <1>1 DEF LeaseFrame
  <1>8. Kept(i, n)'
    BY <1>1, <1>2, <1>5, <1>6 DEF Kept, Owns, Before, Leasing
  <1>9. AllKept'
    BY <1>6, <1>7, <1>8, OthersKept DEF AllKept
  <1>10. QED
    BY <1>1, <1>6, <1>9, FrameTracked DEF Writing

LEMMA PutCalm ==
  ASSUME TypeOK, AllKept, Tracked, ~Fault, NEW i \in Instances, NEW n \in Names,
         PutOutput(i, n)
  PROVE  AllKept' /\ Tracked'
  <1>1. UNCHANGED <<fc, pf>> /\ h[i][n].pc = "put"
    BY DEF PutOutput, dbVars, At
  <1>2. LeaseFrame(i, n)
    BY <1>1 DEF LeaseFrame
  <1>3. CASE UNCHANGED outputs /\ Fail(i, n)
    BY <1>1, <1>3, FailKept, FailMoves, FrameTracked DEF Ended, Moved, Writing
  <1>4. CASE UNCHANGED outputs /\ Goto(i, n, "poison")
    <2>1. Moved(i, n, "poison")
      BY <1>4, GotoMoves
    <2>2. QED
      BY <1>1, <1>2, <1>4, <2>1, MovedKept, FrameTracked DEF Moved, Before, Leasing, Writing
  <1>5. CASE outputs' = outputs \cup {<<n, h[i][n].fileUid>>} /\ Goto(i, n, "commit")
    <2>1. Moved(i, n, "commit")
      BY <1>5, GotoMoves
    <2>2. AllKept'
      BY <1>1, <1>2, <2>1, MovedKept DEF Before, Leasing
    <2>3. ASSUME NEW o \in outputs, NEW j \in Instances, h[j][o[1]].fileUid = o[2],
                 h[j][o[1]].pc \in Writing
          PROVE  h'[j][o[1]] = h[j][o[1]]
      <3>1. o[1] \in Names
        BY DEF TypeOK
      <3>2. QED
        BY <1>1, <2>1, <2>3, <3>1 DEF Moved, Frame, Writing
    <2>4. h'[i][n].fileUid = h[i][n].fileUid /\ h'[i][n].pc \in Writing
      BY <2>1 DEF Moved, Writing
    <2>5. Tracked'
      BY <1>1, <1>5, <2>3, <2>4 DEF Tracked
    <2>6. QED
      BY <2>2, <2>5
  <1>6. QED
    BY <1>3, <1>4, <1>5 DEF PutOutput

LEMMA CompleteCalm ==
  ASSUME TypeOK, AllKept, Tracked, ~Fault, NEW i \in Instances, NEW n \in Names,
         CompleteClaimed(i, n)
  PROVE  AllKept' /\ Tracked'
  <1>1. UNCHANGED outputs /\ h[i][n].pc = "commit"
    BY DEF CompleteClaimed, storageVars, At
  <1>2. Owns(i, n) /\ ~Cancelled(i, n)
    BY <1>1 DEF AllKept, Kept, Leasing, Cancelled
  <1>3. CASE Goto(i, n, "discardLost") /\ UNCHANGED <<fc, pf>>
    <2>1. Moved(i, n, "discardLost") /\ LeaseFrame(i, n)
      BY <1>3, GotoMoves DEF LeaseFrame
    <2>2. AllKept'
      BY <1>1, <1>3, <2>1, MovedKept DEF Before, Leasing
    <2>3. \A o \in outputs, j \in Instances :
            h[j][o[1]].fileUid = o[2] /\ h[j][o[1]].pc \in Writing =>
              h'[j][o[1]].fileUid = o[2] /\ h'[j][o[1]].pc \in Writing
      <3>1. \A o \in outputs : o[1] \in Names
        BY DEF TypeOK
      <3>2. QED
        BY <2>1, <3>1 DEF Moved, Frame, Writing
    <2>4. Tracked'
      BY <1>1, <1>3, <2>3 DEF Tracked
    <2>5. QED
      BY <2>2, <2>4
  <1>4. CASE RecordAndRelease(n, h[i][n].fileUid, "DONE") /\ Goto(i, n, "mark")
    <2> DEFINE row == [name |-> n, uid |-> h[i][n].fileUid, status |-> "DONE",
                       claim |-> fc[n].uid]
    <2>1. row.name = n /\ row.uid = h[i][n].fileUid /\ row.status = "DONE"
      OBVIOUS
    <2>2. pf' = pf \cup {row}
      BY <1>4 DEF RecordAndRelease
    <2> HIDE DEF row
    <2>3. Moved(i, n, "mark") /\ LeaseFrame(i, n)
      BY <1>2, <1>4, GotoMoves, ReleaseFrame DEF RecordAndRelease
    <2>4. AllKept'
      BY <2>3, MovedKept DEF Before, Leasing
    <2>5. ASSUME NEW o \in outputs, NEW j \in Instances, h[j][o[1]].fileUid = o[2],
                 h[j][o[1]].pc \in Writing
          PROVE  \/ o = <<row.name, row.uid>>
                 \/ h'[j][o[1]] = h[j][o[1]]
      <3>1. o[1] \in Names /\ o = <<o[1], o[2]>>
        BY DEF TypeOK
      <3>2. QED
        BY <2>1, <2>3, <2>5, <3>1 DEF Moved, Frame
    <2>6. Tracked'
      BY <1>1, <2>1, <2>2, <2>5 DEF Tracked
    <2>7. QED
      BY <2>4, <2>6
  <1>5. QED
    BY <1>2, <1>3, <1>4 DEF CompleteClaimed, NotRecorded, CallFails

LEMMA DiscardCalm ==
  ASSUME TypeOK, AllKept, Tracked, ~Fault, NEW i \in Instances, NEW n \in Names,
         DiscardOutput(i, n)
  PROVE  AllKept' /\ Tracked'
  <1>1. UNCHANGED <<fc, pf>> /\ h[i][n].pc = "discardLost"
    BY DEF DiscardOutput, dbVars, AllKept, Kept
  <1>2. h[i][n].ctx = "live"
    BY <1>1 DEF AllKept, Kept, Leasing
  <1>3. outputs' = outputs \ {<<n, h[i][n].fileUid>>} /\ Finish(i, n)
    BY <1>1, <1>2 DEF DiscardOutput, StoreCallFails, Cancelled, At
  <1>4. Ended(i, n) /\ LeaseFrame(i, n)
    BY <1>1, <1>3, FinishEnds DEF LeaseFrame
  <1>5. AllKept'
    BY <1>4, EndedKept
  <1>6. ASSUME NEW o \in outputs', NEW j \in Instances, h[j][o[1]].fileUid = o[2],
               h[j][o[1]].pc \in Writing
        PROVE  h'[j][o[1]] = h[j][o[1]]
    <2>1. o[1] \in Names /\ o = <<o[1], o[2]>> /\ o # <<n, h[i][n].fileUid>>
      BY <1>3 DEF TypeOK
    <2>2. QED
      BY <1>4, <1>6, <2>1 DEF Ended, Frame
  <1>7. Tracked'
    BY <1>1, <1>3, <1>6 DEF Tracked
  <1>8. QED
    BY <1>5, <1>7

\* The two ways a claim ends after a failure.
LEMMA AftermathCalm ==
  ASSUME TypeOK, AllKept, Tracked, ~Fault, NEW i \in Instances, NEW n \in Names,
         QuarantineFile(i, n) \/ HandleFailure(i, n)
  PROVE  AllKept' /\ Tracked'
  <1>1. UNCHANGED outputs /\ pf \subseteq pf' /\ h[i][n].pc \notin Writing
    BY DEF QuarantineFile, HandleFailure, RecordAndRelease, storageVars, At, Writing
  <1>2. LeaseFrame(i, n)
    <2>1. UNCHANGED fc \/ (Owns(i, n) /\ Release(n))
      BY DEF QuarantineFile, HandleFailure, RecordAndRelease
    <2>2. QED
      BY <2>1, ReleaseFrame DEF LeaseFrame
  <1>3. Finish(i, n) \/ Goto(i, n, "moveQuar")
    BY DEF QuarantineFile, HandleFailure
  <1>4. CASE Finish(i, n)
    BY <1>1, <1>2, <1>4, FinishEnds, EndedKept, FrameTracked DEF Ended
  <1>5. CASE Goto(i, n, "moveQuar")
    <2>1. Moved(i, n, "moveQuar")
      BY <1>5, GotoMoves
    <2>2. QED
      BY <1>1, <1>2, <2>1, MovedKept, FrameTracked DEF Moved, Before, Leasing
  <1>6. QED
    BY <1>3, <1>4, <1>5

LEMMA BeatCalm ==
  ASSUME TypeOK, AllKept, Tracked, NEW i \in Instances, NEW n \in Names, Heartbeat(i, n)
  PROVE  AllKept' /\ Tracked'
  <1>1. UNCHANGED <<pf, outputs>> /\ h[i][n].pc \in Running
    BY DEF Heartbeat, storageVars
  <1>2. CASE Owns(i, n) /\ fc' = [fc EXCEPT ![n] = [@ EXCEPT !.live = TRUE]] /\ UNCHANGED h
    <2> DEFINE row == [fc[n] EXCEPT !.live = TRUE]
    <2>1. fc[n] \in FcRow
      BY DEF TypeOK
    <2>2. /\ row.live /\ row.held = fc[n].held /\ row.owner = fc[n].owner
          /\ row.uid = fc[n].uid /\ row.fence = fc[n].fence
      BY <2>1 DEF FcRow
    <2>3. fc' = [fc EXCEPT ![n] = row]
      BY <1>2
    <2> HIDE DEF row
    <2>4. fc'[n] = row /\ \A k \in Names : k # n => fc'[k] = fc[k]
      BY <2>3 DEF TypeOK
    <2>5. ASSUME NEW j \in Instances, NEW k \in Names
          PROVE  Kept(j, k)'
      <3>1. Kept(j, k)
        BY DEF AllKept
      <3>2. QED
        BY <1>2, <2>2, <2>4, <3>1 DEF Kept, Owns
    <2>6. QED
      BY <1>1, <1>2, <2>5 DEF AllKept, Tracked
  <1>3. CASE /\ ~Owns(i, n) /\ UNCHANGED fc
             /\ Become(i, n, [h[i][n] EXCEPT !.ctx = "lost"])
    <2> DEFINE c == [h[i][n] EXCEPT !.ctx = "lost"]
    <2>1. h[i][n] \in Handler
      BY DEF TypeOK
    <2>2. c.pc = h[i][n].pc
      BY <2>1 DEF Handler
    <2>3. Become(i, n, c)
      BY <1>3
    <2> HIDE DEF c
    <2>4. Frame(i, n) /\ h'[i][n].pc = h[i][n].pc
      BY <2>2, <2>3, BecomeOne DEF Frame
    <2>5. LeaseFrame(i, n)
      BY <1>3 DEF LeaseFrame
    <2>6. Kept(i, n)
      BY DEF AllKept
    <2>7. h[i][n].pc \notin Leasing /\ h[i][n].pc \notin Before /\ h[i][n].pc # "discardErr"
      BY <1>1, <1>3, <2>6 DEF Kept, Running, Before
    <2>8. Kept(i, n)'
      BY <2>4, <2>7 DEF Kept
    <2>9. AllKept'
      BY <2>4, <2>5, <2>8, OthersKept DEF AllKept
    <2>10. QED
      BY <1>1, <2>4, <2>7, <2>9, FrameTracked DEF Writing, Leasing
  <1>4. QED
    BY <1>2, <1>3 DEF Heartbeat

\* A lease somebody is tending only runs out through a fault.
LEMMA ExpireCalm ==
  ASSUME TypeOK, AllKept, Tracked, ~Fault, NEW n \in Names, LeaseExpire(n)
  PROVE  AllKept' /\ Tracked'
  <1>1. UNCHANGED <<h, pf, outputs>> /\ ~Tended(n)
    BY DEF LeaseExpire, storageVars
  <1>2. \A k \in Names : k # n => fc'[k] = fc[k]
    BY DEF LeaseExpire, TypeOK
  <1>3. ASSUME NEW j \in Instances, NEW k \in Names
        PROVE  Kept(j, k)'
    <2>1. Kept(j, k)
      BY DEF AllKept
    <2>2. CASE h[j][k].pc \in Leasing
      <3>1. Tended(k)
        BY <2>1, <2>2 DEF Kept, Tended, Cancelled, Leasing, Running
      <3>2. k # n
        BY <1>1, <3>1
      <3>3. QED
        BY <1>1, <1>2, <2>1, <3>2 DEF Kept, Owns
    <2>3. CASE h[j][k].pc \notin Leasing
      BY <1>1, <2>1, <2>3 DEF Kept
    <2>4. QED
      BY <2>2, <2>3
  <1>4. QED
    BY <1>1, <1>3 DEF AllKept, Tracked

LEMMA CalmStep ==
  ASSUME TypeOK, CalmInv, [Next]_vars
  PROVE  CalmInv'
  <1> SUFFICES ASSUME faults' = 0
               PROVE  AllKept' /\ Tracked'
    BY DEF CalmInv
  <1>1. ~Fault /\ AllKept /\ Tracked
    BY FaultCounts DEF CalmInv
  <1>2. ASSUME NEW i \in Instances, NEW n \in Names, Handle(i, n)
        PROVE  AllKept' /\ Tracked'
    BY <1>1, <1>2, WalkCalm, ClaimCalm, AllocCalm, PutCalm, CompleteCalm, DiscardCalm,
       AftermathCalm
    DEF Handle
  <1>3. ASSUME NEW n \in Names, Arrive(n)
        PROVE  AllKept' /\ Tracked'
    BY <1>1, <1>3 DEF Arrive, dbVars, AllKept, Kept, Owns, Tracked
  <1>4. CASE UNCHANGED vars
    BY <1>1, <1>4 DEF vars, AllKept, Kept, Owns, Tracked
  <1>5. QED
    BY <1>1, <1>2, <1>3, <1>4, WalkCalm, BeatCalm, ExpireCalm DEF Next, Timeout, Crash

\* Without faults no output object is ever orphaned, however scans and claims race.
THEOREM CalmRunsLeaveNoOrphan == Spec => []NoFaultNoOrphan
  <1>1. Init => CalmInv
    BY DEF Init, CalmInv, AllKept, Kept, Tracked, Idle, Leasing
  <1>2. CalmInv => NoFaultNoOrphan
    BY DEF CalmInv, Tracked, NoFaultNoOrphan, Writing
  <1>3. TypeOK /\ CalmInv /\ [Next]_vars => CalmInv'
    BY CalmStep
  <1>4. QED
    BY <1>1, <1>2, <1>3, TypeCorrect, PTL DEF Spec
=============================================================================
