-------------------------- MODULE Lifecycle_proofs --------------------------
(***************************************************************************)
(* Types of Lifecycle; what happens to the originals of files: none is     *)
(* lost, and a recorded file that is not marked archived has its own; and  *)
(* how often a file is processed and a UID is issued, restores included.   *)
(***************************************************************************)
EXTENDS Lifecycle, FiniteSetTheorems, TLAPS

-----------------------------------------------------------------------------
(* Passes.                                                                 *)

Kinds  == {"none", "reconcile", "fetch", "archive"}
Steps  == {"none", "recover", "check", "stat", "land", "build", "prune"}
Passes == [kind : Kinds, step : Steps, todo : SUBSET Names, uids : SUBSET Uids,
           rows : SUBSET Row, at : Times]

Frame(i) == \A j \in Instances : j # i => pass'[j] = pass[j]

\* Instance i is in another pass, or in none.
Entered(i, p) == pass' \in [Instances -> Passes] /\ Frame(i) /\ pass'[i] = p

\* The pass of instance i goes on.
Moved(i, step, todo, uids) ==
  /\ pass' \in [Instances -> Passes] /\ Frame(i)
  /\ pass'[i].kind = pass[i].kind /\ pass'[i].rows = pass[i].rows
  /\ pass'[i].step = step /\ pass'[i].todo = todo /\ pass'[i].uids = uids

LEMMA TimesNat == Times \subseteq Nat /\ 0 \in Times /\ Cardinality(Instances) \in Nat
  BY LifecycleAssumption, FS_CardinalityType DEF LifecycleAssumption, Times

LEMMA NoPassTyped == NoPass \in Passes
  BY TimesNat DEF NoPass, Passes, Kinds, Steps

\* A pass as it begins.
Begun(k, s) == [NoPass EXCEPT !.kind = k, !.step = s]

LEMMA BeginsTyped ==
  ASSUME NEW k \in Kinds, NEW s \in Steps
  PROVE  /\ Begun(k, s) \in Passes /\ Begun(k, s).kind = k /\ Begun(k, s).step = s
         /\ Begun(k, s).todo = {} /\ Begun(k, s).uids = {} /\ Begun(k, s).rows = {}
  <1> DEFINE e1 == [NoPass EXCEPT !.kind = k]
             e2 == [e1 EXCEPT !.step = s]
  <1>1. Begun(k, s) = e2
    BY DEF Begun
  <1>2. /\ NoPass \in Passes /\ NoPass.todo = {} /\ NoPass.uids = {} /\ NoPass.rows = {}
    BY NoPassTyped DEF NoPass
  <1>3. /\ e1 \in Passes /\ e1.kind = k /\ e1.todo = {} /\ e1.uids = {} /\ e1.rows = {}
    BY <1>2 DEF Passes
  <1> HIDE DEF e1
  <1>4. /\ e2 \in Passes /\ e2.kind = k /\ e2.step = s
        /\ e2.todo = {} /\ e2.uids = {} /\ e2.rows = {}
    BY <1>3 DEF Passes
  <1>5. QED
    BY <1>1, <1>4

LEMMA Typed == TypeOK => pass \in [Instances -> Passes]
  BY DEF TypeOK, Passes, Kinds, Steps

LEMMA EnterMoves ==
  ASSUME TypeOK, NEW i \in Instances, NEW p \in Passes, pass' = [pass EXCEPT ![i] = p]
  PROVE  Entered(i, p)
  BY Typed DEF Entered, Frame

LEMMA FinishMoves ==
  ASSUME TypeOK, NEW i \in Instances, Finish(i)
  PROVE  Entered(i, NoPass)
  BY NoPassTyped, EnterMoves DEF Finish

LEMMA GotoMoves ==
  ASSUME TypeOK, NEW i \in Instances, NEW s \in Steps, Goto(i, s)
  PROVE  Moved(i, s, pass[i].todo, pass[i].uids)
  <1> DEFINE q == [pass[i] EXCEPT !.step = s]
  <1>1. pass[i] \in Passes
    BY Typed
  <1>2. q \in Passes
    BY <1>1 DEF Passes
  <1>3. /\ q.step = s /\ q.kind = pass[i].kind /\ q.rows = pass[i].rows
        /\ q.todo = pass[i].todo /\ q.uids = pass[i].uids
    BY <1>1 DEF Passes
  <1>4. pass' = [pass EXCEPT ![i] = q]
    BY DEF Goto
  <1> HIDE DEF q
  <1>5. Entered(i, q)
    BY <1>2, <1>4, EnterMoves
  <1>6. QED
    BY <1>3, <1>5 DEF Entered, Moved

LEMMA TodoMoves ==
  ASSUME TypeOK, NEW i \in Instances, NEW x, pass' = [pass EXCEPT ![i].todo = @ \ {x}]
  PROVE  Moved(i, pass[i].step, pass[i].todo \ {x}, pass[i].uids)
  <1> DEFINE q == [pass[i] EXCEPT !.todo = @ \ {x}]
  <1>1. pass[i] \in Passes
    BY Typed
  <1>2. q \in Passes
    BY <1>1 DEF Passes
  <1>3. /\ q.step = pass[i].step /\ q.kind = pass[i].kind /\ q.rows = pass[i].rows
        /\ q.todo = pass[i].todo \ {x} /\ q.uids = pass[i].uids
    BY <1>1 DEF Passes
  <1>4. pass' = [pass EXCEPT ![i] = q]
    OBVIOUS
  <1> HIDE DEF q
  <1>5. Entered(i, q)
    BY <1>2, <1>4, EnterMoves
  <1>6. QED
    BY <1>3, <1>5 DEF Entered, Moved

LEMMA UidsMoves ==
  ASSUME TypeOK, NEW i \in Instances, NEW x, pass' = [pass EXCEPT ![i].uids = @ \ {x}]
  PROVE  Moved(i, pass[i].step, pass[i].todo, pass[i].uids \ {x})
  <1> DEFINE q == [pass[i] EXCEPT !.uids = @ \ {x}]
  <1>1. pass[i] \in Passes
    BY Typed
  <1>2. q \in Passes
    BY <1>1 DEF Passes
  <1>3. /\ q.step = pass[i].step /\ q.kind = pass[i].kind /\ q.rows = pass[i].rows
        /\ q.todo = pass[i].todo /\ q.uids = pass[i].uids \ {x}
    BY <1>1 DEF Passes
  <1>4. pass' = [pass EXCEPT ![i] = q]
    OBVIOUS
  <1> HIDE DEF q
  <1>5. Entered(i, q)
    BY <1>2, <1>4, EnterMoves
  <1>6. QED
    BY <1>3, <1>5 DEF Entered, Moved

LEMMA NextMoves ==
  ASSUME TypeOK, NEW i \in Instances, FetchNext(i)
  PROVE  Moved(i, "check", pass[i].todo \ {Candidate(i)}, pass[i].uids)
  <1> DEFINE c == Candidate(i)
             e1 == [pass EXCEPT ![i].step = "check"]
             e2 == [e1 EXCEPT ![i].todo = @ \ {c}]
  <1>1. pass' = e2
    BY DEF FetchNext
  <1>2. pass \in [Instances -> Passes]
    BY Typed
  <1>3. /\ e1 \in [Instances -> Passes] /\ \A j \in Instances : j # i => e1[j] = pass[j]
        /\ e1[i].step = "check" /\ e1[i].kind = pass[i].kind /\ e1[i].rows = pass[i].rows
        /\ e1[i].todo = pass[i].todo /\ e1[i].uids = pass[i].uids
    BY <1>2 DEF Passes, Steps
  <1> HIDE DEF e1, c
  <1>4. /\ e2 \in [Instances -> Passes] /\ \A j \in Instances : j # i => e2[j] = e1[j]
        /\ e2[i].step = e1[i].step /\ e2[i].kind = e1[i].kind /\ e2[i].rows = e1[i].rows
        /\ e2[i].todo = e1[i].todo \ {c} /\ e2[i].uids = e1[i].uids
    BY <1>3 DEF Passes
  <1> HIDE DEF e2
  <1>5. QED
    BY <1>1, <1>3, <1>4 DEF Moved, Frame, c

LEMMA PruneMoves ==
  ASSUME TypeOK, NEW i \in Instances, GoPrune(i)
  PROVE  Moved(i, "prune", NamesOf(pass[i].rows), pass[i].uids)
  <1> DEFINE t == NamesOf(pass[i].rows)
             e1 == [pass EXCEPT ![i].step = "prune"]
             e2 == [e1 EXCEPT ![i].todo = t]
             e3 == [e2 EXCEPT ![i].at = clock]
  <1>1. pass' = e3
    BY DEF GoPrune
  <1>2. pass \in [Instances -> Passes] /\ clock \in Times
    BY Typed DEF TypeOK
  <1>3. t \subseteq Names
    BY <1>2 DEF NamesOf, Passes, Row
  <1> HIDE DEF t
  <1>4. /\ e1 \in [Instances -> Passes] /\ \A j \in Instances : j # i => e1[j] = pass[j]
        /\ e1[i].step = "prune" /\ e1[i].kind = pass[i].kind /\ e1[i].rows = pass[i].rows
        /\ e1[i].todo = pass[i].todo /\ e1[i].uids = pass[i].uids
    BY <1>2 DEF Passes, Steps
  <1> HIDE DEF e1
  <1>5. /\ e2 \in [Instances -> Passes] /\ \A j \in Instances : j # i => e2[j] = e1[j]
        /\ e2[i].step = e1[i].step /\ e2[i].kind = e1[i].kind /\ e2[i].rows = e1[i].rows
        /\ e2[i].todo = t /\ e2[i].uids = e1[i].uids
    BY <1>3, <1>4 DEF Passes
  <1> HIDE DEF e2
  <1>6. /\ e3 \in [Instances -> Passes] /\ \A j \in Instances : j # i => e3[j] = e2[j]
        /\ e3[i].step = e2[i].step /\ e3[i].kind = e2[i].kind /\ e3[i].rows = e2[i].rows
        /\ e3[i].todo = e2[i].todo /\ e3[i].uids = e2[i].uids
    BY <1>2, <1>5 DEF Passes
  <1> HIDE DEF e3
  <1>7. QED
    BY <1>1, <1>4, <1>5, <1>6 DEF Moved, Frame, t

-----------------------------------------------------------------------------
(* The type invariant.                                                     *)

Placed ==
  /\ remote \subseteq Names /\ input \subseteq Names /\ kept \subseteq Names
  /\ DOMAIN markers \subseteq Uids /\ \A u \in DOMAIN markers : markers[u] \in Names
  /\ archives \in [Times -> SUBSET Names]

Stored ==
  pf \subseteq Row /\ alloc \in 0..MaxUid /\ backup \in [pf : SUBSET Row, alloc : 0..MaxUid]

Living ==
  /\ lock \in Instances \cup {Nobody}
  /\ life \in [Instances -> {"down", "boot", "up", "draining"}]
  /\ upload \in [Instances -> SUBSET Names]
  /\ stuck \in [Instances -> SUBSET Loops]
  /\ faults \in 0..MaxFaults

LEMMA Parts == TypeOK <=> /\ Placed /\ Stored /\ Living
                          /\ pass \in [Instances -> Passes] /\ clock \in Times
  BY DEF TypeOK, Placed, Stored, Living, Passes, Kinds, Steps

\* A reconciliation looks at markers that are there, and a fetch at a file is not over.
PassOK ==
  \A i \in Instances :
    /\ pass[i].uids \subseteq DOMAIN markers
    /\ pass[i].step \in {"stat", "land"} => pass[i].todo # {}

\* Archive runs that are being built, and for which there must be a time stamp yet.
Builders == {i \in Instances : pass[i].step = "build"}

ClockOK == clock \in Times /\ clock + Cardinality(Builders) <= MaxTime + Cardinality(Instances)

TypeInv == TypeOK /\ PassOK /\ ClockOK

LEMMA BuildersCount ==
  /\ IsFiniteSet(Builders) /\ Cardinality(Builders) \in Nat
  /\ Cardinality(Builders) <= Cardinality(Instances)
  <1>1. Builders \subseteq Instances
    BY DEF Builders
  <1>2. QED
    BY <1>1, LifecycleAssumption, FS_Subset, FS_CardinalityType DEF LifecycleAssumption

LEMMA BuildersShrink ==
  ASSUME ClockOK, UNCHANGED clock,
         \A j \in Instances : pass'[j].step = "build" => pass[j].step = "build"
  PROVE  ClockOK'
  <1>1. Builders' \subseteq Builders
    BY DEF Builders
  <1>2. Cardinality(Builders') <= Cardinality(Builders) /\ Cardinality(Builders') \in Nat
    BY <1>1, BuildersCount, FS_Subset, FS_CardinalityType
  <1>3. QED
    BY <1>2, BuildersCount, TimesNat, LifecycleAssumption DEF ClockOK, LifecycleAssumption

LEMMA FaultsType ==
  ASSUME TypeOK, Faulty \/ NoFault
  PROVE  faults' \in 0..MaxFaults
  BY LifecycleAssumption DEF LifecycleAssumption, TypeOK, Faulty, NoFault

\* A pass that goes on, without building anything.
LEMMA MovedInv ==
  ASSUME TypeInv, NEW i \in Instances, NEW s, NEW todo, Moved(i, s, todo, pass'[i].uids),
         pass'[i].uids \subseteq pass[i].uids, s # "build" \/ s = pass[i].step,
         s \in {"stat", "land"} => todo # {},
         UNCHANGED <<markers, clock>>
  PROVE  pass' \in [Instances -> Passes] /\ PassOK' /\ ClockOK'
  <1>1. \A j \in Instances : pass'[j].step = "build" => pass[j].step = "build"
    BY DEF Moved, Frame
  <1>2. PassOK'
    BY DEF Moved, Frame, PassOK, TypeInv
  <1>3. QED
    BY <1>1, <1>2, BuildersShrink DEF TypeInv, Moved

\* A pass that is begun or left.
LEMMA EnteredInv ==
  ASSUME TypeInv, NEW i \in Instances, NEW p \in Passes, Entered(i, p),
         p.uids \subseteq DOMAIN markers, p.step \notin {"stat", "land", "build"},
         UNCHANGED <<markers, clock>>
  PROVE  pass' \in [Instances -> Passes] /\ PassOK' /\ ClockOK'
  <1>1. \A j \in Instances : pass'[j].step = "build" => pass[j].step = "build"
    BY DEF Entered, Frame
  <1>2. PassOK'
    BY DEF Entered, Frame, PassOK, TypeInv
  <1>3. QED
    BY <1>1, <1>2, BuildersShrink DEF TypeInv, Entered

LEMMA FinishInv ==
  ASSUME TypeInv, NEW i \in Instances, Entered(i, NoPass), UNCHANGED <<markers, clock>>
  PROVE  pass' \in [Instances -> Passes] /\ PassOK' /\ ClockOK'
  <1>1. NoPass.uids = {} /\ NoPass.step = "none"
    BY DEF NoPass
  <1>2. QED
    BY <1>1, NoPassTyped, EnteredInv

\* The passes stay, and markers are only added.
LEMMA SameInv ==
  ASSUME TypeInv, UNCHANGED <<pass, clock>>, DOMAIN markers \subseteq DOMAIN markers'
  PROVE  pass' \in [Instances -> Passes] /\ PassOK' /\ ClockOK'
  <1>1. PassOK'
    BY DEF PassOK, TypeInv
  <1>2. QED
    BY <1>1, BuildersShrink, Typed DEF TypeInv

LEMMA RecordedTyped ==
  ASSUME TypeOK, NEW n \in Names, NEW uid \in Uids, NEW marked \in BOOLEAN, Recorded(n, uid, marked)
  PROVE  /\ pf' \subseteq Row
         /\ DOMAIN markers \subseteq DOMAIN markers' /\ DOMAIN markers' \subseteq Uids
         /\ \A u \in DOMAIN markers' : markers'[u] \in Names
  <1>1. [uid |-> uid, name |-> n, status |-> IF n \in BadNames THEN "QUARANTINED" ELSE "DONE"] \in Row
    BY DEF Row
  <1>2. pf' \subseteq Row
    BY <1>1 DEF Recorded, TypeOK
  <1>3. \/ UNCHANGED markers
        \/ markers' = [u \in DOMAIN markers \cup {uid} |-> IF u = uid THEN n ELSE markers[u]]
    BY DEF Recorded
  <1>4. QED
    BY <1>2, <1>3 DEF TypeOK

LEMMA TypeInit == Init => TypeInv
  <1>1. ASSUME Init PROVE Placed
    BY <1>1 DEF Init, Placed
  <1>2. ASSUME Init PROVE Stored
    BY <1>2, LifecycleAssumption DEF Init, Stored, LifecycleAssumption
  <1>3. ASSUME Init PROVE Living
    BY <1>3, LifecycleAssumption DEF Init, Living, LifecycleAssumption
  <1>4. ASSUME Init
        PROVE  pass \in [Instances -> Passes] /\ clock = 0 /\ PassOK
    <2>1. pass = [i \in Instances |-> NoPass] /\ clock = 0
      BY <1>4 DEF Init
    <2>2. NoPass.uids = {} /\ NoPass.step = "none"
      BY DEF NoPass
    <2>3. QED
      BY <2>1, <2>2, NoPassTyped DEF PassOK
  <1>5. ASSUME Init PROVE ClockOK
    BY <1>4, <1>5, BuildersCount, TimesNat, LifecycleAssumption
    DEF ClockOK, LifecycleAssumption
  <1>6. QED
    BY <1>1, <1>2, <1>3, <1>4, <1>5, TimesNat, Parts DEF TypeInv

\* What every action is to show.
Kept == Placed /\ Stored /\ Living /\ pass \in [Instances -> Passes] /\ PassOK /\ ClockOK

LEMMA KeptIsTyped == Kept' => TypeInv'
  BY DEF TypeInv, Kept, ClockOK, TypeOK, Placed, Stored, Living, Passes, Kinds, Steps

LEMMA ReconcileType ==
  ASSUME TypeInv, NEW i \in Instances,
         StartReconcile(i) \/ StartSkipped(i) \/ RecoverProcessedFile(i) \/ ReconcileEnd(i)
  PROVE  Kept'
  <1>0. Placed /\ Stored /\ Living
    BY Parts DEF TypeInv
  <1>1. CASE StartReconcile(i)
    <2> DEFINE b == Begun("reconcile", "recover")
               p == [b EXCEPT !.uids = DOMAIN markers]
    <2>a. b \in Passes /\ b.step = "recover"
      BY BeginsTyped DEF Kinds, Steps
    <2> HIDE DEF b
    <2>1. p.uids = DOMAIN markers /\ p.step = "recover"
      BY <2>a DEF Passes
    <2>2. p \in Passes
      BY <1>0, <2>a DEF Passes, Placed
    <2> HIDE DEF p
    <2>3. Entered(i, p)
      BY <1>1, <2>2, EnterMoves DEF StartReconcile, Begin, TypeInv, p, b, Begun
    <2>4. UNCHANGED <<markers, clock>>
      BY <1>1 DEF StartReconcile, worldVars
    <2>5. Living'
      BY <1>0, <1>1 DEF StartReconcile, Begin, Living
    <2>6. QED
      BY <1>0, <1>1, <2>1, <2>2, <2>3, <2>4, <2>5, EnteredInv
      DEF StartReconcile, Kept, Placed, Stored, worldVars, dbVars
  <1>2. CASE StartSkipped(i)
    <2>1. UNCHANGED <<pass, clock, markers>>
      BY <1>2 DEF StartSkipped, worldVars
    <2>2. Living'
      BY <1>0, <1>2, FaultsType DEF StartSkipped, Living, TypeInv
    <2>3. QED
      BY <1>0, <1>2, <2>1, <2>2, SameInv DEF StartSkipped, Kept, Placed, Stored, worldVars, dbVars
  <1>3. CASE RecoverProcessedFile(i)
    <2>1. PICK uid \in pass[i].uids :
            /\ pass' = [pass EXCEPT ![i].uids = @ \ {uid}]
            /\ \/ /\ pf' = pf \cup {[uid |-> uid, name |-> markers[uid], status |-> "DONE"]}
                  /\ alloc' = Floor(uid)
               \/ UNCHANGED <<pf, alloc>>
            /\ Faulty \/ NoFault
      BY <1>3 DEF RecoverProcessedFile
    <2>2. uid \in DOMAIN markers /\ uid \in Uids /\ markers[uid] \in Names
      BY <1>0 DEF TypeInv, PassOK, Placed
    <2>3. Moved(i, pass[i].step, pass[i].todo, pass[i].uids \ {uid})
      BY <2>1, UidsMoves DEF TypeInv
    <2>4. UNCHANGED <<clock, worldVars, backup, lock, life, upload, stuck>>
      BY <1>3 DEF RecoverProcessedFile
    <2>5. pass[i].step = "recover"
      BY <1>3 DEF RecoverProcessedFile, At
    <2>6. pass' \in [Instances -> Passes] /\ PassOK' /\ ClockOK'
      BY <2>3, <2>4, <2>5, MovedInv DEF Moved, worldVars
    <2>7. [uid |-> uid, name |-> markers[uid], status |-> "DONE"] \in Row
      BY <2>2 DEF Row
    <2>8. Floor(uid) \in 0..MaxUid
      BY <1>0, <2>2, LifecycleAssumption DEF Floor, Stored, Uids, LifecycleAssumption
    <2>9. Stored'
      BY <1>0, <2>1, <2>4, <2>7, <2>8 DEF Stored
    <2>10. Living'
      BY <1>0, <2>1, <2>4, FaultsType DEF Living, TypeInv
    <2>11. QED
      BY <1>0, <2>4, <2>6, <2>9, <2>10 DEF Kept, Placed, worldVars
  <1>4. CASE ReconcileEnd(i)
    <2>1. Entered(i, NoPass) /\ UNCHANGED <<markers, clock>>
      BY <1>4, FinishMoves DEF ReconcileEnd, TypeInv, worldVars
    <2>2. Living'
      BY <1>0, <1>4 DEF ReconcileEnd, Finish, Unlocked, Living
    <2>3. QED
      BY <1>0, <1>4, <2>1, <2>2, FinishInv DEF ReconcileEnd, Kept, Placed, Stored, worldVars, dbVars
  <1>5. QED
    BY <1>1, <1>2, <1>3, <1>4

LEMMA FetchType ==
  ASSUME TypeInv, NEW i \in Instances,
         FetchStart(i) \/ FetchCheck(i) \/ FetchStat(i) \/ FetchOne(i) \/ FetchEnd(i)
  PROVE  Kept'
  <1>0. Placed /\ Stored /\ Living
    BY Parts DEF TypeInv
  <1>1. CASE FetchStart(i)
    <2> DEFINE b == Begun("fetch", "check")
               p == [b EXCEPT !.todo = remote]
    <2>a. b \in Passes /\ b.step = "check" /\ b.uids = {}
      BY BeginsTyped DEF Kinds, Steps
    <2> HIDE DEF b
    <2>1. p.uids = {} /\ p.step = "check"
      BY <2>a DEF Passes
    <2>2. p \in Passes
      BY <1>0, <2>a DEF Passes, Placed
    <2> HIDE DEF p
    <2>3. Entered(i, p)
      BY <1>1, <2>2, EnterMoves DEF FetchStart, Begin, TypeInv, p, b, Begun
    <2>4. UNCHANGED <<markers, clock>>
      BY <1>1 DEF FetchStart, worldVars
    <2>5. Living'
      BY <1>0, <1>1 DEF FetchStart, Begin, Living
    <2>6. QED
      BY <1>0, <1>1, <2>1, <2>2, <2>3, <2>4, <2>5, EnteredInv
      DEF FetchStart, Kept, Placed, Stored, worldVars, dbVars
  <1>2. CASE FetchCheck(i)
    <2>1. UNCHANGED <<markers, clock>> /\ pass[i].todo # {} /\ pass[i].step = "check"
      BY <1>2 DEF FetchCheck, worldVars, At
    <2>2. \/ Moved(i, "check", pass[i].todo \ {Candidate(i)}, pass[i].uids)
          \/ Moved(i, "stat", pass[i].todo, pass[i].uids)
      BY <1>2, <2>1, GotoMoves, TodoMoves DEF FetchCheck, TypeInv, Drop, Steps
    <2>3. pass' \in [Instances -> Passes] /\ PassOK' /\ ClockOK'
      BY <2>1, <2>2, MovedInv DEF Moved
    <2>4. Living'
      BY <1>0, <1>2, FaultsType DEF FetchCheck, Living, TypeInv
    <2>5. QED
      BY <1>0, <1>2, <2>3, <2>4 DEF FetchCheck, Kept, Placed, Stored, worldVars, dbVars
  <1>3. CASE FetchStat(i)
    <2>1. UNCHANGED <<markers, clock>> /\ pass[i].todo # {}
      BY <1>3 DEF FetchStat, worldVars, At, TypeInv, PassOK
    <2>2. \/ Moved(i, "check", pass[i].todo \ {Candidate(i)}, pass[i].uids)
          \/ Moved(i, "land", pass[i].todo, pass[i].uids)
      BY <1>3, GotoMoves, NextMoves DEF FetchStat, TypeInv, Steps
    <2>3. pass' \in [Instances -> Passes] /\ PassOK' /\ ClockOK'
      BY <2>1, <2>2, MovedInv DEF Moved
    <2>4. Living'
      BY <1>0, <1>3, FaultsType DEF FetchStat, Living, TypeInv
    <2>5. QED
      BY <1>0, <1>3, <2>3, <2>4 DEF FetchStat, Kept, Placed, Stored, worldVars, dbVars
  <1>4. CASE FetchOne(i)
    <2>1. UNCHANGED <<markers, clock>> /\ pass[i].todo # {} /\ pass[i].todo \subseteq Names
      BY <1>4, Typed DEF FetchOne, At, TypeInv, PassOK, Passes
    <2>2. Candidate(i) \in Names
      BY <2>1 DEF Candidate
    <2>3. Moved(i, "check", pass[i].todo \ {Candidate(i)}, pass[i].uids)
      BY <1>4, NextMoves DEF FetchOne, TypeInv
    <2>4. pass' \in [Instances -> Passes] /\ PassOK' /\ ClockOK'
      BY <2>1, <2>3, MovedInv DEF Moved
    <2>5. Faulty \/ NoFault
      BY <1>4 DEF FetchOne
    <2>6. Living'
      BY <1>0, <1>4, <2>5, FaultsType DEF FetchOne, Living, TypeInv
    <2>7. remote' \subseteq Names /\ input' \subseteq Names
      BY <1>0, <1>4, <2>2 DEF FetchOne, Placed
    <2>8. QED
      BY <1>0, <1>4, <2>4, <2>6, <2>7 DEF FetchOne, Kept, Placed, Stored, dbVars
  <1>5. CASE FetchEnd(i)
    <2>1. Entered(i, NoPass) /\ UNCHANGED <<markers, clock>>
      BY <1>5, FinishMoves DEF FetchEnd, TypeInv, worldVars
    <2>2. Living'
      BY <1>0, <1>5 DEF FetchEnd, Finish, Unlocked, Living
    <2>3. QED
      BY <1>0, <1>5, <2>1, <2>2, FinishInv DEF FetchEnd, Kept, Placed, Stored, worldVars, dbVars
  <1>6. QED
    BY <1>1, <1>2, <1>3, <1>4, <1>5

LEMMA ProcessType ==
  ASSUME TypeInv, NEW n \in Names, NEW i \in Instances,
         Process(n) \/ Rearrival(n) \/ Upload(i, n)
  PROVE  Kept'
  <1>0. Placed /\ Stored /\ Living
    BY Parts DEF TypeInv
  <1>a. alloc < MaxUid => alloc + 1 \in Uids /\ alloc + 1 \in 0..MaxUid
    BY <1>0, LifecycleAssumption DEF Stored, Uids, LifecycleAssumption
  <1>1. CASE Process(n)
    <2>1. PICK marked, moved \in BOOLEAN :
            /\ Faulty \/ NoFault
            /\ Recorded(n, alloc + 1, marked)
            /\ input' = IF moved THEN input \ {n} ELSE input
            /\ kept'  = IF moved THEN kept \cup {n} ELSE kept
      BY <1>1 DEF Process
    <2>2. /\ alloc' = alloc + 1 /\ alloc < MaxUid
          /\ UNCHANGED <<remote, archives, backup, lock, life, pass, upload, stuck, clock>>
      BY <1>1 DEF Process
    <2>3. /\ pf' \subseteq Row
          /\ DOMAIN markers \subseteq DOMAIN markers' /\ DOMAIN markers' \subseteq Uids
          /\ \A u \in DOMAIN markers' : markers'[u] \in Names
      BY <1>a, <2>1, <2>2, RecordedTyped DEF TypeInv
    <2>4. Placed'
      BY <1>0, <2>1, <2>2, <2>3 DEF Placed
    <2>5. Stored'
      BY <1>0, <1>a, <2>2, <2>3 DEF Stored
    <2>6. Living'
      BY <1>0, <2>1, <2>2, FaultsType DEF Living, TypeInv
    <2>7. QED
      BY <2>2, <2>3, <2>4, <2>5, <2>6, SameInv DEF Kept
  <1>2. CASE Rearrival(n)
    <2>1. UNCHANGED <<pass, clock, markers>>
      BY <1>2 DEF Rearrival
    <2>2. QED
      BY <1>0, <1>2, <2>1, SameInv DEF Rearrival, Kept, Placed, Stored, Living, dbVars
  <1>3. CASE Upload(i, n)
    <2>1. UNCHANGED <<pass, clock, markers>>
      BY <1>3 DEF Upload, worldVars
    <2>2. QED
      BY <1>0, <1>3, <2>1, SameInv DEF Upload, Kept, Placed, Stored, Living, worldVars, dbVars
  <1>4. QED
    BY <1>1, <1>2, <1>3

LEMMA UploadType ==
  ASSUME TypeInv, NEW i \in Instances, UploadRecord(i)
  PROVE  Kept'
  <1>0. Placed /\ Stored /\ Living
    BY Parts DEF TypeInv
  <1>a. alloc < MaxUid => alloc + 1 \in Uids /\ alloc + 1 \in 0..MaxUid
    BY <1>0, LifecycleAssumption DEF Stored, Uids, LifecycleAssumption
  <1>1. PICK m \in upload[i], marked \in BOOLEAN, moved \in BOOLEAN :
          /\ alloc' = alloc + 1
          /\ \/ UNCHANGED <<pf, markers, kept>>
             \/ Recorded(m, alloc + 1, marked) /\ kept' = IF moved THEN kept \cup {m} ELSE kept
    BY DEF UploadRecord
  <1>2. m \in Names
    BY <1>0 DEF Living
  <1>3. /\ alloc < MaxUid /\ upload' = [upload EXCEPT ![i] = {}]
        /\ UNCHANGED <<remote, input, archives, backup, lock, life, pass, stuck, clock>>
        /\ Faulty \/ NoFault
    BY DEF UploadRecord
  <1>4. /\ pf' \subseteq Row
        /\ DOMAIN markers \subseteq DOMAIN markers' /\ DOMAIN markers' \subseteq Uids
        /\ \A u \in DOMAIN markers' : markers'[u] \in Names
    BY <1>0, <1>a, <1>1, <1>2, <1>3, RecordedTyped DEF TypeInv, Placed, Stored
  <1>5. Placed'
    BY <1>0, <1>1, <1>2, <1>3, <1>4 DEF Placed
  <1>6. Stored'
    BY <1>0, <1>a, <1>1, <1>3, <1>4 DEF Stored
  <1>7. Living'
    BY <1>0, <1>3, FaultsType DEF Living, TypeInv
  <1>8. QED
    BY <1>3, <1>4, <1>5, <1>6, <1>7, SameInv DEF Kept

LEMMA ArchiveType ==
  ASSUME TypeInv, NEW i \in Instances,
         ArchiveStart(i) \/ ArchiveBuild(i) \/ ArchivePrune(i) \/ MarkArchived(i)
  PROVE  Kept'
  <1>0. Placed /\ Stored /\ Living /\ clock \in Times
    BY Parts DEF TypeInv
  <1>1. CASE ArchiveStart(i)
    <2>1. PICK aged \in SUBSET {r \in Archivable : Present(r)} :
            Begin(i, [NoPass EXCEPT !.kind = "archive", !.step = "build", !.rows = aged])
      BY <1>1 DEF ArchiveStart
    <2> DEFINE b == Begun("archive", "build")
               p == [b EXCEPT !.rows = aged]
    <2>2. b \in Passes /\ b.step = "build" /\ b.uids = {}
      BY BeginsTyped DEF Kinds, Steps
    <2>3. aged \subseteq Row
      BY <1>0 DEF Archivable, Stored
    <2>4. lock = Nobody /\ lock' = i /\ pass' = [pass EXCEPT ![i] = p]
      BY <2>1 DEF Begin, Begun
    <2> HIDE DEF b
    <2>5. p \in Passes /\ p.step = "build" /\ p.uids = {}
      BY <2>2, <2>3 DEF Passes
    <2> HIDE DEF p
    <2>6. Entered(i, p)
      BY <2>4, <2>5, EnterMoves DEF TypeInv
    <2>7. UNCHANGED <<markers, clock>> /\ clock < MaxTime
      BY <1>1 DEF ArchiveStart, worldVars
    <2>8. PassOK'
      BY <2>5, <2>6, <2>7 DEF Entered, Frame, PassOK, TypeInv
    <2>9. Builders' \subseteq Instances
      BY DEF Builders
    <2>10. Cardinality(Builders') \in Nat /\ Cardinality(Builders') <= Cardinality(Instances)
      BY <2>9, LifecycleAssumption, FS_Subset, FS_CardinalityType DEF LifecycleAssumption
    <2>11. ClockOK'
      BY <1>0, <2>7, <2>10, TimesNat, LifecycleAssumption DEF ClockOK, LifecycleAssumption
    <2>12. Living'
      BY <1>0, <1>1, <2>4 DEF ArchiveStart, Living
    <2>13. QED
      BY <1>0, <1>1, <2>6, <2>8, <2>11, <2>12
      DEF ArchiveStart, Kept, Entered, Placed, Stored, worldVars, dbVars
  <1>2. CASE ArchiveBuild(i)
    <2> DEFINE members == NamesOf(pass[i].rows)
    <2>1. members \subseteq Names
      BY Typed DEF TypeInv, Passes, Row, NamesOf
    <2> HIDE DEF members
    <2>2. \/ archives' = [archives EXCEPT ![clock] = members] /\ clock' \in Stamp
          \/ UNCHANGED <<archives, clock>>
      BY <1>2 DEF ArchiveBuild, members
    <2>3. (GoPrune(i) /\ UNCHANGED lock) \/ Finish(i)
      BY <1>2 DEF ArchiveBuild, GoPrune, Abort
    <2>4. /\ UNCHANGED <<remote, input, kept, markers, dbVars, life, upload, stuck>>
          /\ Faulty \/ NoFault
      BY <1>2 DEF ArchiveBuild
    <2>5. /\ pass' \in [Instances -> Passes] /\ Frame(i)
          /\ pass'[i].uids \subseteq pass[i].uids /\ pass'[i].step \in {"prune", "none"}
      <3>1. NoPass.uids = {} /\ NoPass.step = "none"
        BY DEF NoPass
      <3>2. QED
        BY <2>3, <3>1, PruneMoves, FinishMoves DEF TypeInv, Moved, Entered
    <2>6. PassOK'
      BY <2>4, <2>5 DEF Frame, PassOK, TypeInv
    <2>7. Builders' = Builders \ {i} /\ i \in Builders
      BY <1>2, <2>5 DEF Builders, Frame, ArchiveBuild, At
    <2>8. Cardinality(Builders') = Cardinality(Builders) - 1
      BY <2>7, BuildersCount, FS_RemoveElement
    <2>9. clock' \in {clock, clock + 1}
      BY <2>2 DEF Stamp
    <2>10. Cardinality(Builders) >= 1
      BY <2>7, <2>8, BuildersCount, FS_RemoveElement, FS_EmptySet
    <2>11. ClockOK'
      BY <1>0, <2>8, <2>9, <2>10, BuildersCount, TimesNat, LifecycleAssumption
      DEF ClockOK, TypeInv, Times, LifecycleAssumption
    <2>12. archives' \in [Times -> SUBSET Names]
      BY <1>0, <2>1, <2>2 DEF Placed
    <2>13. lock' \in Instances \cup {Nobody}
      BY <1>0, <2>3 DEF Living, Finish, Unlocked
    <2>14. Living'
      BY <1>0, <2>4, <2>13, FaultsType DEF Living, TypeInv
    <2>15. QED
      BY <1>0, <2>4, <2>5, <2>6, <2>11, <2>12, <2>14 DEF Kept, Placed, Stored, dbVars
  <1>3. CASE ArchivePrune(i)
    <2>1. PICK n \in pass[i].todo : Drop(i, n)
      BY <1>3 DEF ArchivePrune
    <2>2. UNCHANGED <<markers, clock>> /\ pass[i].step = "prune" /\ kept' \subseteq kept
      BY <1>3 DEF ArchivePrune, At
    <2>3. Moved(i, "prune", pass[i].todo \ {n}, pass[i].uids)
      BY <2>1, <2>2, TodoMoves DEF Drop, TypeInv
    <2>4. pass' \in [Instances -> Passes] /\ PassOK' /\ ClockOK'
      BY <2>2, <2>3, MovedInv DEF Moved
    <2>5. Faulty \/ NoFault
      BY <1>3 DEF ArchivePrune
    <2>6. Living'
      BY <1>0, <1>3, <2>5, FaultsType DEF ArchivePrune, Living, TypeInv
    <2>7. QED
      BY <1>0, <1>3, <2>2, <2>4, <2>6 DEF ArchivePrune, Kept, Placed, Stored, dbVars
  <1>4. CASE MarkArchived(i)
    <2>1. Entered(i, NoPass) /\ UNCHANGED <<markers, clock>>
      BY <1>4, FinishMoves DEF MarkArchived, TypeInv, worldVars
    <2>2. pass' \in [Instances -> Passes] /\ PassOK' /\ ClockOK'
      BY <2>1, FinishInv
    <2>3. Faulty \/ NoFault
      BY <1>4 DEF MarkArchived
    <2>4. Living'
      BY <1>0, <1>4, <2>3, FaultsType DEF MarkArchived, Finish, Unlocked, Living, TypeInv
    <2>5. \A r \in Row : [r EXCEPT !.status = "ARCHIVED"] \in Row
      BY DEF Row
    <2>6. pf' \subseteq Row
      BY <1>0, <1>4, <2>5 DEF MarkArchived, Stored
    <2>7. QED
      BY <1>0, <1>4, <2>2, <2>4, <2>6 DEF MarkArchived, Kept, Placed, Stored, worldVars
  <1>5. QED
    BY <1>1, <1>2, <1>3, <1>4

LEMMA EndsType ==
  ASSUME TypeInv, NEW i \in Instances, NEW loop \in Loops,
         LockLost(i) \/ Hang(i, loop) \/ Terminate(i) \/ Exit(i) \/ Crash(i)
  PROVE  Kept'
  <1>0. Placed /\ Stored /\ Living
    BY Parts DEF TypeInv
  <1>1. CASE LockLost(i) \/ Hang(i, loop) \/ Terminate(i)
    <2>1. UNCHANGED <<pass, clock, markers>>
      BY <1>1 DEF LockLost, Hang, Terminate, worldVars
    <2>2. Faulty \/ NoFault
      BY <1>1 DEF LockLost, Hang, Terminate, NoFault
    <2>3. Living'
      BY <1>0, <1>1, <2>2, FaultsType DEF LockLost, Hang, Terminate, Living, TypeInv
    <2>4. QED
      BY <1>0, <1>1, <2>1, <2>3, SameInv
      DEF LockLost, Hang, Terminate, Kept, Placed, Stored, worldVars, dbVars
  <1>2. CASE Exit(i) \/ Crash(i)
    <2>1. Gone(i) /\ (Faulty \/ NoFault)
      BY <1>2 DEF Exit, Crash
    <2>2. Entered(i, NoPass) /\ UNCHANGED <<markers, clock>>
      BY <2>1, NoPassTyped, EnterMoves DEF Gone, TypeInv, worldVars
    <2>3. Living'
      BY <1>0, <2>1, FaultsType DEF Gone, Living, TypeInv
    <2>4. QED
      BY <1>0, <2>1, <2>2, <2>3, FinishInv DEF Gone, Kept, Placed, Stored, worldVars, dbVars
  <1>3. QED
    BY <1>1, <1>2

LEMMA TypeStep == TypeInv /\ [Next]_vars => TypeInv'
  <1> SUFFICES ASSUME TypeInv, [Next]_vars
               PROVE  Kept'
    BY KeptIsTyped
  <1>1. ASSUME NEW i \in Instances, Step(i)
        PROVE  Kept'
    <2>1. "watcher" \in Loops
      BY DEF Loops
    <2>2. QED
      BY <1>1, <2>1, ReconcileType, FetchType, ArchiveType, EndsType, UploadType DEF Step
  <1>2. ASSUME NEW i \in Instances, NEW loop \in Loops, Hang(i, loop)
        PROVE  Kept'
    BY <1>2, EndsType
  <1>3. ASSUME NEW i \in Instances, NEW n \in Names, Upload(i, n)
        PROVE  Kept'
    BY <1>3, ProcessType
  <1>4. ASSUME NEW n \in Names, Process(n) \/ Rearrival(n)
        PROVE  Kept'
    <2>1. PICK i \in Instances : TRUE
      BY <1>4 DEF Process, Rearrival
    <2>2. QED
      BY <1>4, <2>1, ProcessType
  <1>5. ASSUME Backup
        PROVE  Kept'
    <2>1. UNCHANGED <<pass, clock, markers>>
      BY <1>5 DEF Backup, worldVars
    <2>2. Stored'
      BY <1>5, Parts DEF Backup, Stored, TypeInv
    <2>3. QED
      BY <1>5, <2>1, <2>2, SameInv, Parts DEF Backup, Kept, Placed, Living, worldVars, TypeInv
  <1>6. ASSUME Restore
        PROVE  Kept'
    <2>1. UNCHANGED <<pass, clock, markers>>
      BY <1>6 DEF Restore, worldVars
    <2>2. Stored'
      BY <1>6, Parts DEF Restore, Stored, TypeInv
    <2>3. Living'
      BY <1>6, Parts, FaultsType DEF Restore, Living, TypeInv
    <2>4. QED
      BY <1>6, <2>1, <2>2, <2>3, SameInv, Parts DEF Restore, Kept, Placed, worldVars, TypeInv
  <1>7. ASSUME UNCHANGED vars
        PROVE  Kept'
    BY <1>7, SameInv, Parts DEF vars, worldVars, dbVars, Kept, Placed, Stored, Living, TypeInv
  <1>8. QED
    BY <1>1, <1>2, <1>3, <1>4, <1>5, <1>6, <1>7 DEF Next

LEMMA TypesStay == Spec => []TypeInv
  BY TypeInit, TypeStep, PTL DEF Spec

\* The variables of fetcher, archiver, reconciliation and drain keep their types; above
\* all, no archive run is without a time stamp, and no recovered UID beyond its bound.
THEOREM TypeCorrect == Spec => []TypeOK
  BY TypesStay, PTL DEF TypeInv

-----------------------------------------------------------------------------
(* No original is lost.                                                    *)

Remembered == {"runs", "archived", "landed", "restored", "behind", "starts", "uploads"}

LEMMA RememberOne ==
  ASSUME DOMAIN history = Remembered, NEW f \in Remembered \ {"landed"}, NEW v,
         history' = [history EXCEPT ![f] = v]
  PROVE  DOMAIN history' = Remembered /\ history'.landed = history.landed
  BY Zenon DEF Remembered

LEMMA RememberTwo ==
  ASSUME DOMAIN history = Remembered, NEW f \in Remembered \ {"landed"}, NEW v,
         NEW g \in Remembered \ {"landed"}, NEW x,
         history' = [[history EXCEPT ![f] = v] EXCEPT ![g] = x]
  PROVE  DOMAIN history' = Remembered /\ history'.landed = history.landed
  <1> DEFINE e == [history EXCEPT ![f] = v]
  <1>1. DOMAIN e = Remembered /\ e.landed = history.landed
    BY Zenon DEF Remembered
  <1>2. history' = [e EXCEPT ![g] = x]
    BY Zenon
  <1> HIDE DEF e
  <1>3. DOMAIN history' = Remembered /\ history'.landed = e.landed
    BY <1>1, <1>2, Zenon DEF Remembered
  <1>4. QED
    BY <1>1, <1>3

LEMMA RecordedLanded ==
  ASSUME DOMAIN history = Remembered, NEW n, NEW uid, NEW marked, Recorded(n, uid, marked)
  PROVE  DOMAIN history' = Remembered /\ history'.landed = history.landed
  <1>1. PICK v, x : history' = [[history EXCEPT !["runs"] = v] EXCEPT !["behind"] = x]
    BY Zenon DEF Recorded
  <1>2. QED
    BY <1>1, RememberTwo DEF Remembered

\* Only a fetch adds a file to those that have landed.
LEMMA LandedStays ==
  ASSUME DOMAIN history = Remembered, [Next]_vars
  PROVE  /\ DOMAIN history' = Remembered
         /\ history'.landed = history.landed \/ \E i \in Instances : FetchOne(i)
  <1>1. ASSUME NEW i \in Instances, StartReconcile(i)
        PROVE  DOMAIN history' = Remembered /\ history'.landed = history.landed
    BY <1>1, Zenon DEF StartReconcile, Remembered
  <1>2. ASSUME NEW i \in Instances, StartSkipped(i)
        PROVE  DOMAIN history' = Remembered /\ history'.landed = history.landed
    <2>1. PICK v, x : history' = [[history EXCEPT !["starts"] = v] EXCEPT !["behind"] = x]
      BY <1>2, Zenon DEF StartSkipped
    <2>2. QED
      BY <2>1, RememberTwo DEF Remembered
  <1>3. ASSUME NEW i \in Instances, RecoverProcessedFile(i)
        PROVE  DOMAIN history' = Remembered /\ history'.landed = history.landed
    <2>1. UNCHANGED history \/ \E v : history' = [history EXCEPT !["behind"] = v]
      BY <1>3, Zenon DEF RecoverProcessedFile
    <2>2. QED
      BY <2>1, RememberOne DEF Remembered
  <1>4. ASSUME NEW i \in Instances, FetchOne(i)
        PROVE  DOMAIN history' = Remembered
    BY <1>4, Zenon DEF FetchOne
  <1>5. ASSUME NEW n \in Names, Process(n)
        PROVE  DOMAIN history' = Remembered /\ history'.landed = history.landed
    BY <1>5, RecordedLanded DEF Process
  <1>6. ASSUME NEW i \in Instances, UploadRecord(i)
        PROVE  DOMAIN history' = Remembered /\ history'.landed = history.landed
    BY <1>6, RecordedLanded DEF UploadRecord
  <1>7. ASSUME NEW i \in Instances, NEW n \in Names, Upload(i, n)
        PROVE  DOMAIN history' = Remembered /\ history'.landed = history.landed
    BY <1>7, Zenon DEF Upload, Remembered
  <1>8. ASSUME NEW i \in Instances, MarkArchived(i)
        PROVE  DOMAIN history' = Remembered /\ history'.landed = history.landed
    BY <1>8, Zenon DEF MarkArchived, Remembered
  <1>9. ASSUME Restore
        PROVE  DOMAIN history' = Remembered /\ history'.landed = history.landed
    <2>1. PICK v, x : history' = [[history EXCEPT !["restored"] = v] EXCEPT !["behind"] = x]
      BY <1>9, Zenon DEF Restore
    <2>2. QED
      BY <2>1, RememberTwo DEF Remembered
  <1>10. ASSUME NEW i \in Instances,
                \/ ReconcileEnd(i) \/ FetchStart(i) \/ FetchCheck(i) \/ FetchStat(i) \/ FetchEnd(i)
                \/ ArchiveStart(i) \/ ArchiveBuild(i) \/ ArchivePrune(i) \/ LockLost(i)
                \/ Terminate(i) \/ Exit(i) \/ Crash(i)
         PROVE  UNCHANGED history
    BY <1>10 DEF ReconcileEnd, FetchStart, FetchCheck, FetchStat, FetchEnd, ArchiveStart,
                 ArchiveBuild, ArchivePrune, LockLost, Terminate, Exit, Crash, Gone
  <1>11. ASSUME NEW i \in Instances, NEW loop \in Loops, Hang(i, loop)
         PROVE  UNCHANGED history
    BY <1>11 DEF Hang
  <1>12. ASSUME NEW n \in Names, Rearrival(n)
         PROVE  UNCHANGED history
    BY <1>12 DEF Rearrival
  <1>13. Backup \/ UNCHANGED vars => UNCHANGED history
    BY DEF Backup, vars
  <1>14. QED
    BY <1>1, <1>2, <1>3, <1>4, <1>5, <1>6, <1>7, <1>8, <1>9, <1>10, <1>11, <1>12, <1>13
    DEF Next, Step

\* The originals: what has landed is somewhere; an archive object is written once, at a
\* time stamp of its own; and what a pass is about to delete has been archived.
KeepInv ==
  /\ DOMAIN history = Remembered
  /\ OriginalsKept
  /\ \A t \in Times : t >= clock => archives[t] = {}
  /\ \A i \in Instances : pass[i].step = "prune" => pass[i].todo \subseteq Archived

\* A step that leaves the archives alone and removes nothing from the areas.
Keeps ==
  /\ UNCHANGED <<archives, clock>>
  /\ input \cup kept \subseteq input' \cup kept'
  /\ \A i \in Instances : pass'[i].step = "prune" =>
        pass[i].step = "prune" /\ pass'[i].todo \subseteq pass[i].todo

LEMMA ReconcileKeeps ==
  ASSUME TypeInv, NEW i \in Instances,
         StartReconcile(i) \/ StartSkipped(i) \/ RecoverProcessedFile(i) \/ ReconcileEnd(i)
  PROVE  Keeps
  <1>1. UNCHANGED <<worldVars, clock>>
    BY DEF StartReconcile, StartSkipped, RecoverProcessedFile, ReconcileEnd
  <1>2. CASE StartReconcile(i)
    <2>1. PICK p : pass' = [pass EXCEPT ![i] = p] /\ p.step = "recover"
      <3> DEFINE b == Begun("reconcile", "recover")
                 p == [b EXCEPT !.uids = DOMAIN markers]
      <3>1. b \in Passes /\ b.step = "recover"
        BY BeginsTyped DEF Kinds, Steps
      <3>2. pass' = [pass EXCEPT ![i] = p]
        BY <1>2 DEF StartReconcile, Begin, Begun
      <3> HIDE DEF b
      <3>3. p.step = "recover"
        BY <3>1 DEF Passes
      <3>4. QED
        BY <3>2, <3>3
    <2>2. QED
      BY <1>1, <2>1, Typed DEF Keeps, worldVars, TypeInv
  <1>3. CASE StartSkipped(i)
    BY <1>1, <1>3 DEF StartSkipped, Keeps, worldVars
  <1>4. CASE RecoverProcessedFile(i)
    <2>1. PICK uid \in pass[i].uids : pass' = [pass EXCEPT ![i].uids = @ \ {uid}]
      BY <1>4 DEF RecoverProcessedFile
    <2>2. QED
      BY <1>1, <2>1, UidsMoves DEF Moved, Frame, Keeps, worldVars, TypeInv
  <1>5. CASE ReconcileEnd(i)
    <2>1. Entered(i, NoPass) /\ NoPass.step = "none"
      BY <1>5, FinishMoves DEF ReconcileEnd, TypeInv, NoPass
    <2>2. QED
      BY <1>1, <2>1 DEF Entered, Frame, Keeps, worldVars
  <1>6. QED
    BY <1>2, <1>3, <1>4, <1>5

LEMMA FetchKeeps ==
  ASSUME TypeInv, NEW i \in Instances,
         FetchStart(i) \/ FetchCheck(i) \/ FetchStat(i) \/ FetchOne(i) \/ FetchEnd(i)
  PROVE  Keeps
  <1>1. UNCHANGED <<kept, archives, clock>> /\ input \subseteq input'
    BY DEF FetchStart, FetchCheck, FetchStat, FetchOne, FetchEnd, worldVars
  <1>2. CASE FetchStart(i)
    <2>1. PICK p : pass' = [pass EXCEPT ![i] = p] /\ p.step = "check"
      <3> DEFINE b == Begun("fetch", "check")
                 p == [b EXCEPT !.todo = remote]
      <3>1. b \in Passes /\ b.step = "check"
        BY BeginsTyped DEF Kinds, Steps
      <3>2. pass' = [pass EXCEPT ![i] = p]
        BY <1>2 DEF FetchStart, Begin, Begun
      <3> HIDE DEF b
      <3>3. p.step = "check"
        BY <3>1 DEF Passes
      <3>4. QED
        BY <3>2, <3>3
    <2>2. QED
      BY <1>1, <2>1, Typed DEF Keeps, TypeInv
  <1>3. CASE FetchCheck(i)
    <2>1. \/ Moved(i, "check", pass[i].todo \ {Candidate(i)}, pass[i].uids)
          \/ Moved(i, "stat", pass[i].todo, pass[i].uids)
      BY <1>3, GotoMoves, TodoMoves DEF FetchCheck, TypeInv, Drop, Steps, At
    <2>2. QED
      BY <1>1, <2>1 DEF Keeps, Moved, Frame
  <1>4. CASE FetchStat(i)
    <2>1. \/ Moved(i, "check", pass[i].todo \ {Candidate(i)}, pass[i].uids)
          \/ Moved(i, "land", pass[i].todo, pass[i].uids)
      BY <1>4, GotoMoves, NextMoves DEF FetchStat, TypeInv, Steps
    <2>2. QED
      BY <1>1, <2>1 DEF Keeps, Moved, Frame
  <1>5. CASE FetchOne(i)
    <2>1. Moved(i, "check", pass[i].todo \ {Candidate(i)}, pass[i].uids)
      BY <1>5, NextMoves DEF FetchOne, TypeInv
    <2>2. QED
      BY <1>1, <2>1 DEF Keeps, Moved, Frame
  <1>6. CASE FetchEnd(i)
    <2>1. Entered(i, NoPass) /\ NoPass.step = "none"
      BY <1>6, FinishMoves DEF FetchEnd, TypeInv, NoPass
    <2>2. QED
      BY <1>1, <2>1 DEF Entered, Frame, Keeps
  <1>7. QED
    BY <1>2, <1>3, <1>4, <1>5, <1>6

LEMMA EndsKeep ==
  ASSUME TypeInv, NEW i \in Instances,
         LockLost(i) \/ Terminate(i) \/ Exit(i) \/ Crash(i) \/ UploadRecord(i)
         \/ ArchiveStart(i) \/ MarkArchived(i)
  PROVE  Keeps
  <1>1. CASE LockLost(i) \/ Terminate(i)
    BY <1>1 DEF LockLost, Terminate, Keeps, worldVars
  <1>2. CASE Exit(i) \/ Crash(i)
    <2>1. Entered(i, NoPass) /\ NoPass.step = "none" /\ UNCHANGED <<worldVars, clock>>
      BY <1>2, NoPassTyped, EnterMoves DEF Exit, Crash, Gone, TypeInv, NoPass
    <2>2. QED
      BY <2>1 DEF Entered, Frame, Keeps, worldVars
  <1>3. CASE UploadRecord(i)
    <2>1. UNCHANGED <<input, archives, pass, clock>> /\ kept \subseteq kept'
      BY <1>3 DEF UploadRecord
    <2>2. QED
      BY <2>1 DEF Keeps
  <1>4. CASE ArchiveStart(i)
    <2>1. PICK aged : Begin(i, [NoPass EXCEPT !.kind = "archive", !.step = "build", !.rows = aged])
      BY <1>4 DEF ArchiveStart
    <2> DEFINE b == Begun("archive", "build")
               p == [b EXCEPT !.rows = aged]
    <2>2. b \in Passes /\ b.step = "build"
      BY BeginsTyped DEF Kinds, Steps
    <2>3. pass' = [pass EXCEPT ![i] = p]
      BY <2>1 DEF Begin, Begun
    <2> HIDE DEF b
    <2>4. p.step = "build"
      BY <2>2 DEF Passes
    <2> HIDE DEF p
    <2>5. UNCHANGED <<worldVars, clock>>
      BY <1>4 DEF ArchiveStart
    <2>6. QED
      BY <2>3, <2>4, <2>5, Typed DEF Keeps, TypeInv, worldVars
  <1>5. CASE MarkArchived(i)
    <2>1. Entered(i, NoPass) /\ NoPass.step = "none" /\ UNCHANGED <<worldVars, clock>>
      BY <1>5, FinishMoves DEF MarkArchived, TypeInv, NoPass
    <2>2. QED
      BY <2>1 DEF Entered, Frame, Keeps, worldVars
  <1>6. QED
    BY <1>1, <1>2, <1>3, <1>4, <1>5

LEMMA OthersKeep ==
  ASSUME TypeInv, NEW n \in Names, NEW i, NEW loop,
         \/ Hang(i, loop) \/ Upload(i, n) \/ Process(n) \/ Rearrival(n)
         \/ Backup \/ Restore \/ UNCHANGED vars
  PROVE  Keeps
  <1>1. CASE Process(n)
    <2>1. /\ UNCHANGED <<archives, pass, clock>>
          /\ \/ UNCHANGED <<input, kept>>
             \/ input' = input \ {n} /\ kept' = kept \cup {n}
             \/ UNCHANGED input /\ kept' = kept \cup {n}
      BY <1>1 DEF Process
    <2>2. QED
      BY <2>1 DEF Keeps
  <1>2. CASE Rearrival(n)
    BY <1>2 DEF Rearrival, Keeps
  <1>3. CASE Hang(i, loop) \/ Upload(i, n) \/ Backup \/ Restore \/ UNCHANGED vars
    BY <1>3 DEF Hang, Upload, Backup, Restore, vars, Keeps, worldVars
  <1>4. QED
    BY <1>1, <1>2, <1>3

LEMMA KeepsKeep ==
  ASSUME TypeInv, KeepInv, [Next]_vars, Keeps
  PROVE  KeepInv'
  <1>1. DOMAIN history' = Remembered
    BY LandedStays DEF KeepInv
  <1>2. Archived' = Archived
    BY DEF Keeps, Archived
  <1>3. OriginalsKept'
    <2>1. CASE history'.landed = history.landed
      BY <1>2, <2>1 DEF KeepInv, OriginalsKept, Keeps
    <2>2. CASE \E i \in Instances : FetchOne(i)
      <3>1. PICK i \in Instances : FetchOne(i)
        BY <2>2
      <3> DEFINE n == Candidate(i)
      <3>2. \/ input' = input \cup {n} /\ history' = [history EXCEPT !.landed = @ \cup {n}]
            \/ UNCHANGED <<input, history>>
        BY <3>1 DEF FetchOne
      <3> HIDE DEF n
      <3>3. \/ input' = input \cup {n} /\ history'.landed = history.landed \cup {n}
            \/ UNCHANGED <<input, history>>
        BY <3>2, Zenon DEF KeepInv, Remembered
      <3>4. UNCHANGED kept
        BY <3>1 DEF FetchOne
      <3>5. QED
        BY <1>2, <3>3, <3>4 DEF KeepInv, OriginalsKept
    <2>3. QED
      BY <2>1, <2>2, LandedStays DEF KeepInv
  <1>4. QED
    BY <1>1, <1>2, <1>3 DEF KeepInv, Keeps

LEMMA BuildKeeps ==
  ASSUME TypeInv, TypeInv', KeepInv, SameSecond = FALSE, NEW i \in Instances, ArchiveBuild(i)
  PROVE  KeepInv'
  <1> DEFINE members == NamesOf(pass[i].rows)
  <1>1. /\ clock \in Times /\ Times \subseteq Nat /\ clock' \in Times
        /\ archives \in [Times -> SUBSET Names]
    BY TimesNat DEF TypeInv, TypeOK
  <1>2. UNCHANGED <<input, kept, history>>
    BY DEF ArchiveBuild
  <1>3. \/ archives' = [archives EXCEPT ![clock] = members] /\ clock' = clock + 1
        \/ UNCHANGED <<archives, clock>>
    BY DEF ArchiveBuild, Stamp
  <1>4. \/ /\ archives' = [archives EXCEPT ![clock] = members]
           /\ Moved(i, "prune", members, pass[i].uids)
        \/ Entered(i, NoPass) /\ NoPass.step = "none"
    BY PruneMoves, FinishMoves DEF ArchiveBuild, Abort, TypeInv, NoPass
  <1> HIDE DEF members
  <1>5. \A t \in Times : archives'[t] = archives[t] \/ (t = clock /\ archives[t] = {})
    BY <1>1, <1>3 DEF KeepInv
  <1>6. DOMAIN archives = Times /\ DOMAIN archives' = Times
    BY <1>1, <1>3
  <1>7. Archived \subseteq Archived'
    BY <1>5, <1>6 DEF Archived
  <1>8. archives' = [archives EXCEPT ![clock] = members] => members \subseteq Archived'
    BY <1>1, <1>6 DEF Archived
  <1>9. ASSUME NEW t \in Times, t >= clock'
        PROVE  archives'[t] = {}
    <2>1. CASE UNCHANGED <<archives, clock>>
      BY <1>9, <2>1 DEF KeepInv
    <2>2. CASE archives' = [archives EXCEPT ![clock] = members] /\ clock' = clock + 1
      <3>1. t >= clock + 1 /\ t \in Nat /\ clock \in Nat
        BY <1>1, <1>9, <2>2
      <3>2. t >= clock /\ t # clock
        BY <3>1
      <3>3. QED
        BY <1>1, <2>2, <3>2 DEF KeepInv
    <2>3. QED
      BY <1>3, <2>1, <2>2
  <1>10. \A j \in Instances : pass'[j].step = "prune" => pass'[j].todo \subseteq Archived'
    <2>1. \A j \in Instances : j # i => pass'[j] = pass[j]
      BY <1>4 DEF Moved, Entered, Frame
    <2>2. pass'[i].step = "prune" => pass'[i].todo \subseteq Archived'
      BY <1>4, <1>8 DEF Moved, Entered
    <2>3. QED
      BY <1>7, <2>1, <2>2 DEF KeepInv
  <1>11. QED
    BY <1>2, <1>7, <1>9, <1>10 DEF KeepInv, OriginalsKept

LEMMA PruneKeeps ==
  ASSUME TypeInv, KeepInv, NEW i \in Instances, ArchivePrune(i)
  PROVE  KeepInv'
  <1>1. PICK n \in pass[i].todo :
          /\ Drop(i, n)
          /\ kept' = kept \ {n} \/ UNCHANGED kept
    BY DEF ArchivePrune
  <1>2. /\ UNCHANGED <<input, archives, clock, history>> /\ pass[i].step = "prune"
    BY DEF ArchivePrune, At
  <1>3. n \in Archived /\ Archived' = Archived
    BY <1>1, <1>2 DEF KeepInv, Archived
  <1>4. Moved(i, "prune", pass[i].todo \ {n}, pass[i].uids)
    BY <1>1, <1>2, TodoMoves DEF Drop, TypeInv
  <1>5. \A j \in Instances : pass'[j].step = "prune" =>
           pass[j].step = "prune" /\ pass'[j].todo \subseteq pass[j].todo
    BY <1>2, <1>4 DEF Moved, Frame
  <1>6. QED
    BY <1>1, <1>2, <1>3, <1>5 DEF KeepInv, OriginalsKept

LEMMA KeepInit == Init => KeepInv
  <1> SUFFICES ASSUME Init
               PROVE  KeepInv
    OBVIOUS
  <1>1. DOMAIN history = Remembered /\ history.landed = {}
    BY DEF Init, Fresh, Remembered
  <1>2. \A t \in Times : archives[t] = {}
    BY DEF Init
  <1>3. \A i \in Instances : pass[i].step = "none"
    BY DEF Init, NoPass
  <1>4. QED
    BY <1>1, <1>2, <1>3 DEF KeepInv, OriginalsKept

LEMMA KeepStep ==
  ASSUME SameSecond = FALSE
  PROVE  TypeInv /\ TypeInv' /\ KeepInv /\ [Next]_vars => KeepInv'
  <1> SUFFICES ASSUME TypeInv, TypeInv', KeepInv, [Next]_vars
               PROVE  KeepInv'
    OBVIOUS
  <1>1. ASSUME NEW i \in Instances, Step(i)
        PROVE  KeepInv'
    BY <1>1, ReconcileKeeps, FetchKeeps, EndsKeep, BuildKeeps, PruneKeeps, KeepsKeep DEF Step
  <1>2. ASSUME NEW i \in Instances, NEW loop \in Loops, Hang(i, loop)
        PROVE  KeepInv'
    BY <1>2, KeepsKeep DEF Keeps, Hang, worldVars
  <1>3. ASSUME NEW i \in Instances, NEW n \in Names, Upload(i, n)
        PROVE  KeepInv'
    BY <1>3, OthersKeep, KeepsKeep
  <1>4. ASSUME NEW n \in Names, Process(n) \/ Rearrival(n)
        PROVE  KeepInv'
    BY <1>4, OthersKeep, KeepsKeep
  <1>5. ASSUME Backup \/ Restore \/ UNCHANGED vars
        PROVE  KeepInv'
    BY <1>5, KeepsKeep DEF Keeps, Backup, Restore, vars, worldVars
  <1>6. QED
    BY <1>1, <1>2, <1>3, <1>4, <1>5 DEF Next

\* A file that landed is never lost, whatever crashes, lost lock sessions, failing calls
\* and restores come in between (archivePipeline prunes only what it has offloaded), as
\* long as no two archive runs bear the same second.
THEOREM OriginalsSurvive == ASSUME SameSecond = FALSE PROVE Spec => []OriginalsKept
  <1>1. Init => KeepInv
    BY KeepInit
  <1>2. TypeInv /\ TypeInv' /\ KeepInv /\ [Next]_vars => KeepInv'
    BY KeepStep
  <1>3. KeepInv => OriginalsKept
    BY DEF KeepInv
  <1>4. QED
    BY <1>1, <1>2, <1>3, TypesStay, PTL DEF Spec

-----------------------------------------------------------------------------
(* Rows and originals, when nothing fails.                                 *)

\* The pass that holds the lock is the only one.
Alone == \A i \in Instances : pass[i].kind # "none" => lock = i

Unstuck == \A i \in Instances : stuck[i] = {}

\* Every marker has a row, so that nothing needs to be recovered.
Marked == \A u \in DOMAIN markers : \E r \in pf : r.uid = u

\* A name has one row that is not archived.
OnePerName == \A r, s \in Archivable : r.name = s.name => r = s

GoodOnes ==
  /\ \A r \in pf : r.status = "QUARANTINED" => r.name \in BadNames
  /\ \A i \in Instances : upload[i] \subseteq Names \ BadNames

\* What an archive pass works on: rows that are not archived, whose originals it has not
\* begun to delete before it was built.
Working(i) ==
  pass[i].kind = "archive" =>
    /\ pass[i].rows \subseteq Archivable
    /\ pass[i].step = "build" => NamesOf(pass[i].rows) \subseteq kept
    /\ pass[i].step = "prune" => pass[i].todo \subseteq NamesOf(pass[i].rows)

Covered ==
  \A r \in Archivable :
    \/ r.name \in input \cup kept
    \/ \E i \in Instances : pass[i].kind = "archive" /\ r \in pass[i].rows

RowsInv ==
  /\ Alone /\ Unstuck /\ Marked /\ OnePerName /\ GoodOnes
  /\ \A i \in Instances : Working(i)
  /\ Covered

LEMMA FaultyCounts ==
  ASSUME TypeOK, Faulty
  PROVE  faults' # 0
  BY DEF TypeOK, Faulty

LEMMA AloneOnly ==
  ASSUME RowsInv, NEW i \in Instances, NEW j \in Instances,
         pass[i].kind # "none", pass[j].kind # "none"
  PROVE  i = j
  BY DEF RowsInv, Alone

\* The records stay, nothing leaves the areas, and the archive passes are as they were.
Steady ==
  /\ UNCHANGED <<pf, markers>>
  /\ kept \subseteq kept' /\ input \cup kept \subseteq input' \cup kept'
  /\ UNCHANGED stuck
  /\ \A i \in Instances : upload'[i] \subseteq Names \ BadNames
  /\ \A i \in Instances : pass'[i] = pass[i] \/ (pass[i].kind # "archive" /\ pass'[i].kind # "archive")

LEMMA SteadyRows ==
  ASSUME RowsInv, Steady, Alone'
  PROVE  RowsInv'
  <1>1. Archivable' = Archivable
    BY DEF Steady, Archivable
  <1>2. Unstuck' /\ Marked' /\ OnePerName' /\ GoodOnes'
    BY <1>1 DEF RowsInv, Steady, Unstuck, Marked, OnePerName, GoodOnes
  <1>3. \A i \in Instances : Working(i)'
    BY <1>1 DEF RowsInv, Steady, Working
  <1>4. Covered'
    BY <1>1 DEF RowsInv, Steady, Covered
  <1>5. QED
    BY <1>2, <1>3, <1>4 DEF RowsInv

\* A pass begins when there is none.
LEMMA BeginsAlone ==
  ASSUME TypeOK, RowsInv, NEW i \in Instances, NEW p \in Passes, Begin(i, p)
  PROVE  /\ Alone' /\ Entered(i, p) /\ \A j \in Instances : pass[j].kind = "none"
  <1>1. \A j \in Instances : pass[j].kind = "none"
    BY LifecycleAssumption DEF RowsInv, Alone, Begin, LifecycleAssumption
  <1>2. Entered(i, p) /\ lock' = i
    BY EnterMoves DEF Begin
  <1>3. QED
    BY <1>1, <1>2 DEF Alone, Entered, Frame

LEMMA EndsAlone ==
  ASSUME TypeOK, RowsInv, NEW i \in Instances, Entered(i, NoPass),
         lock' = lock \/ (lock = i /\ lock' = Nobody)
  PROVE  Alone'
  <1>1. NoPass.kind = "none"
    BY DEF NoPass
  <1>2. QED
    BY <1>1 DEF RowsInv, Alone, Entered, Frame

LEMMA MovesAlone ==
  ASSUME RowsInv, NEW i \in Instances, NEW s, NEW t, NEW u, Moved(i, s, t, u), UNCHANGED lock
  PROVE  Alone'
  BY DEF RowsInv, Alone, Moved, Frame

LEMMA ReconcileRows ==
  ASSUME TypeInv, RowsInv, faults' = 0, NEW i \in Instances,
         StartReconcile(i) \/ StartSkipped(i) \/ RecoverProcessedFile(i) \/ ReconcileEnd(i)
  PROVE  RowsInv'
  <1>0. TypeOK /\ UNCHANGED <<worldVars, upload, stuck>>
    BY DEF TypeInv, StartReconcile, StartSkipped, RecoverProcessedFile, ReconcileEnd
  <1>1. CASE StartReconcile(i)
    <2> DEFINE b == Begun("reconcile", "recover")
               p == [b EXCEPT !.uids = DOMAIN markers]
    <2>1. b \in Passes /\ b.kind = "reconcile"
      BY BeginsTyped DEF Kinds, Steps
    <2>2. Begin(i, p)
      BY <1>1 DEF StartReconcile, Begun
    <2> HIDE DEF b
    <2>3. p \in Passes /\ p.kind = "reconcile"
      BY <1>0, <2>1 DEF Passes, TypeOK
    <2> HIDE DEF p
    <2>4. Alone' /\ Entered(i, p) /\ \A j \in Instances : pass[j].kind = "none"
      BY <1>0, <2>2, <2>3, BeginsAlone
    <2>5. Steady
      BY <1>0, <1>1, <2>3, <2>4
      DEF StartReconcile, Steady, Entered, Frame, worldVars, dbVars, RowsInv, GoodOnes
    <2>6. QED
      BY <2>4, <2>5, SteadyRows
  <1>2. CASE StartSkipped(i)
    <2>1. Steady /\ Alone'
      BY <1>0, <1>2 DEF StartSkipped, Steady, worldVars, dbVars, RowsInv, GoodOnes, Alone
    <2>2. QED
      BY <2>1, SteadyRows
  <1>3. CASE RecoverProcessedFile(i)
    <2>1. PICK uid \in pass[i].uids :
            /\ pass' = [pass EXCEPT ![i].uids = @ \ {uid}]
            /\ Recoverable(uid, markers[uid]) \/ UNCHANGED pf \/ Faulty
      BY <1>3 DEF RecoverProcessedFile
    <2>2. uid \in DOMAIN markers
      BY DEF TypeInv, PassOK
    <2>3. UNCHANGED pf /\ UNCHANGED lock /\ pass[i].kind = "reconcile"
      BY <1>0, <1>3, <2>1, <2>2, FaultyCounts
      DEF RecoverProcessedFile, At, Recoverable, UniqueViolation, RowsInv, Marked
    <2>4. Moved(i, pass[i].step, pass[i].todo, pass[i].uids \ {uid})
      BY <1>0, <2>1, UidsMoves
    <2>5. Steady
      BY <1>0, <2>3, <2>4 DEF Steady, Moved, Frame, worldVars, RowsInv, GoodOnes
    <2>6. QED
      BY <2>3, <2>4, <2>5, MovesAlone, SteadyRows
  <1>4. CASE ReconcileEnd(i)
    <2>1. Entered(i, NoPass) /\ pass[i].kind = "reconcile" /\ NoPass.kind = "none"
      BY <1>0, <1>4, FinishMoves DEF ReconcileEnd, At, NoPass
    <2>2. Alone'
      BY <1>0, <1>4, <2>1, EndsAlone DEF ReconcileEnd, Finish, Unlocked
    <2>3. Steady
      BY <1>0, <1>4, <2>1
      DEF ReconcileEnd, Steady, Entered, Frame, worldVars, dbVars, RowsInv, GoodOnes
    <2>4. QED
      BY <2>2, <2>3, SteadyRows
  <1>5. QED
    BY <1>1, <1>2, <1>3, <1>4

LEMMA FetchRows ==
  ASSUME TypeInv, RowsInv, faults' = 0, NEW i \in Instances,
         FetchStart(i) \/ FetchCheck(i) \/ FetchStat(i) \/ FetchOne(i) \/ FetchEnd(i)
  PROVE  RowsInv'
  <1>0. /\ TypeOK /\ UNCHANGED <<kept, markers, pf, upload, stuck>>
        /\ input \subseteq input'
    BY DEF TypeInv, FetchStart, FetchCheck, FetchStat, FetchOne, FetchEnd, worldVars, dbVars
  <1>1. CASE FetchStart(i)
    <2> DEFINE b == Begun("fetch", "check")
               p == [b EXCEPT !.todo = remote]
    <2>1. b \in Passes /\ b.kind = "fetch"
      BY BeginsTyped DEF Kinds, Steps
    <2>2. Begin(i, p)
      BY <1>1 DEF FetchStart, Begun
    <2> HIDE DEF b
    <2>3. p \in Passes /\ p.kind = "fetch"
      BY <1>0, <2>1 DEF Passes, TypeOK
    <2> HIDE DEF p
    <2>4. Alone' /\ Entered(i, p) /\ \A j \in Instances : pass[j].kind = "none"
      BY <1>0, <2>2, <2>3, BeginsAlone
    <2>5. Steady
      BY <1>0, <2>3, <2>4 DEF Steady, Entered, Frame, RowsInv, GoodOnes
    <2>6. QED
      BY <2>4, <2>5, SteadyRows
  <1>2. CASE FetchCheck(i) \/ FetchStat(i) \/ FetchOne(i)
    <2>1. pass[i].kind = "fetch" /\ UNCHANGED lock
      BY <1>2 DEF FetchCheck, FetchStat, FetchOne, At
    <2>2. \E s \in Steps, t \in SUBSET Names : Moved(i, s, t, pass[i].uids)
      <3>1. pass[i].todo \subseteq Names /\ pass[i].step \in Steps
        BY <1>0, Typed DEF Passes
      <3>2. \/ Goto(i, "stat") \/ Goto(i, "land") \/ FetchNext(i)
            \/ pass' = [pass EXCEPT ![i].todo = @ \ {Candidate(i)}]
        BY <1>2 DEF FetchCheck, FetchStat, FetchOne, Drop
      <3>3. QED
        BY <1>0, <3>1, <3>2, GotoMoves, NextMoves, TodoMoves DEF Steps
    <2>3. Alone'
      BY <2>1, <2>2, MovesAlone
    <2>4. Steady
      BY <1>0, <2>1, <2>2 DEF Steady, Moved, Frame, RowsInv, GoodOnes
    <2>5. QED
      BY <2>3, <2>4, SteadyRows
  <1>3. CASE FetchEnd(i)
    <2>1. Entered(i, NoPass) /\ pass[i].kind = "fetch" /\ NoPass.kind = "none"
      BY <1>0, <1>3, FinishMoves DEF FetchEnd, At, NoPass
    <2>2. Alone'
      BY <1>0, <1>3, <2>1, EndsAlone DEF FetchEnd, Finish, Unlocked
    <2>3. Steady
      BY <1>0, <2>1 DEF Steady, Entered, Frame, RowsInv, GoodOnes
    <2>4. QED
      BY <2>2, <2>3, SteadyRows
  <1>4. QED
    BY <1>1, <1>2, <1>3

\* A file that has no row yet gets one, and its original is put away.
LEMMA RecordedRows ==
  ASSUME TypeOK, RowsInv, NEW n \in Names, NEW uid, NEW marked, Recorded(n, uid, marked),
         ~Settled(n), kept' = kept \cup {n}, input \cup kept \subseteq input' \cup kept',
         UNCHANGED <<lock, pass, stuck>>,
         \A i \in Instances : upload'[i] \subseteq Names \ BadNames
  PROVE  RowsInv'
  <1> DEFINE new == [uid |-> uid, name |-> n,
                     status |-> IF n \in BadNames THEN "QUARANTINED" ELSE "DONE"]
  <1>1. /\ new.uid = uid /\ new.name = n
        /\ new.status \in {"DONE", "QUARANTINED"}
        /\ new.status = "QUARANTINED" => n \in BadNames
    OBVIOUS
  <1>2. pf' = pf \cup {new}
    BY DEF Recorded
  <1>3. \/ UNCHANGED markers
        \/ markers' = [u \in DOMAIN markers \cup {uid} |-> IF u = uid THEN n ELSE markers[u]]
    BY DEF Recorded
  <1> HIDE DEF new
  <1>4. Archivable' = Archivable \cup {new}
    BY <1>1, <1>2 DEF Archivable
  <1>5. \A r \in Archivable : r.name # n
    BY DEF Archivable, Settled, AlreadyProcessed, AlreadyQuarantined, Has, TypeOK, Row
  <1>6. Alone' /\ Unstuck'
    BY DEF RowsInv, Alone, Unstuck
  <1>7. Marked'
    BY <1>1, <1>2, <1>3 DEF RowsInv, Marked
  <1>8. OnePerName'
    BY <1>1, <1>4, <1>5 DEF RowsInv, OnePerName
  <1>9. GoodOnes'
    BY <1>1, <1>2 DEF RowsInv, GoodOnes
  <1>10. \A i \in Instances : Working(i)'
    BY <1>4 DEF RowsInv, Working
  <1>11. Covered'
    BY <1>1, <1>4 DEF RowsInv, Covered
  <1>12. QED
    BY <1>6, <1>7, <1>8, <1>9, <1>10, <1>11 DEF RowsInv

LEMMA ProcessRows ==
  ASSUME TypeInv, RowsInv, faults' = 0, NEW n \in Names, NEW i \in Instances,
         Process(n) \/ Rearrival(n) \/ Upload(i, n) \/ UploadRecord(i)
  PROVE  RowsInv'
  <1>0. TypeOK /\ UNCHANGED <<lock, pass, stuck>>
    BY DEF TypeInv, Process, Rearrival, Upload, UploadRecord
  <1>1. CASE Process(n)
    <2>1. PICK marked, moved \in BOOLEAN :
            /\ IF marked /\ moved THEN NoFault ELSE Faulty
            /\ Recorded(n, alloc + 1, marked)
            /\ input' = IF moved THEN input \ {n} ELSE input
            /\ kept'  = IF moved THEN kept \cup {n} ELSE kept
      BY <1>1 DEF Process
    <2>2. moved
      BY <1>0, <2>1, FaultyCounts
    <2>3. ~Settled(n) /\ UNCHANGED upload
      BY <1>1 DEF Process
    <2>4. \A j \in Instances : upload'[j] \subseteq Names \ BadNames
      BY <2>3 DEF RowsInv, GoodOnes
    <2>5. QED
      BY <1>0, <2>1, <2>2, <2>3, <2>4, RecordedRows
  <1>2. CASE Rearrival(n)
    <2>1. Steady /\ Alone'
      BY <1>0, <1>2 DEF Rearrival, Steady, dbVars, RowsInv, GoodOnes, Alone
    <2>2. QED
      BY <2>1, SteadyRows
  <1>3. CASE Upload(i, n)
    <2>1. /\ upload' = [upload EXCEPT ![i] = {n}] /\ n \notin BadNames
          /\ upload \in [Instances -> SUBSET Names]
          /\ UNCHANGED <<worldVars, dbVars>>
      BY <1>0, <1>3 DEF Upload, TypeOK
    <2>2. \A j \in Instances : upload'[j] \subseteq Names \ BadNames
      BY <2>1 DEF RowsInv, GoodOnes
    <2>3. Steady /\ Alone'
      BY <1>0, <2>1, <2>2 DEF Steady, worldVars, dbVars, RowsInv, Alone
    <2>4. QED
      BY <2>3, SteadyRows
  <1>4. CASE UploadRecord(i)
    <2>1. PICK m \in upload[i] :
            IF UniqueViolation(alloc + 1, m)
            THEN UNCHANGED <<pf, markers, kept, history>>
            ELSE Recorded(m, alloc + 1, TRUE) /\ kept' = kept \cup {m}
      <3>1. ~Faulty
        BY FaultyCounts DEF TypeInv
      <3>2. QED
        BY <1>4, <3>1 DEF UploadRecord
    <2>2. upload' = [upload EXCEPT ![i] = {}] /\ UNCHANGED input
      BY <1>4 DEF UploadRecord
    <2>3. \A j \in Instances : upload'[j] \subseteq Names \ BadNames
      BY <1>0, <2>2 DEF RowsInv, GoodOnes, TypeOK
    <2>4. m \in Names \ BadNames
      BY DEF RowsInv, GoodOnes
    <2>5. CASE UniqueViolation(alloc + 1, m)
      <3>1. Steady /\ Alone'
        BY <1>0, <2>1, <2>2, <2>3, <2>5 DEF Steady, RowsInv, Alone
      <3>2. QED
        BY <3>1, SteadyRows
    <2>6. CASE ~UniqueViolation(alloc + 1, m)
      <3>1. ~Settled(m)
        BY <2>4, <2>6
        DEF UniqueViolation, Settled, AlreadyQuarantined, Has, RowsInv, GoodOnes
      <3>2. Recorded(m, alloc + 1, TRUE) /\ kept' = kept \cup {m}
        BY <2>1, <2>6
      <3>3. QED
        BY <1>0, <2>2, <2>3, <2>4, <3>1, <3>2, RecordedRows
    <2>7. QED
      BY <2>5, <2>6
  <1>5. QED
    BY <1>1, <1>2, <1>3, <1>4

\* Of an archive pass that goes on, the rows are the only ones in a pass.
LEMMA BuildRows ==
  ASSUME TypeInv, RowsInv, faults' = 0, NEW i \in Instances, ArchiveStart(i) \/ ArchiveBuild(i)
  PROVE  RowsInv'
  <1>0. TypeOK /\ UNCHANGED <<input, kept, markers, pf, upload, stuck>>
    BY DEF TypeInv, ArchiveStart, ArchiveBuild, worldVars, dbVars
  <1>1. /\ Archivable' = Archivable /\ Unstuck' /\ Marked' /\ OnePerName' /\ GoodOnes'
    BY <1>0 DEF Archivable, RowsInv, Unstuck, Marked, OnePerName, GoodOnes
  <1>2. CASE ArchiveStart(i)
    <2> DEFINE b == Begun("archive", "build")
    <2>1. b \in Passes /\ b.kind = "archive" /\ b.step = "build"
      BY BeginsTyped DEF Kinds, Steps
    <2>2. PICK aged \in SUBSET {r \in Archivable : Present(r)} :
            Begin(i, [b EXCEPT !.rows = aged])
      BY <1>2 DEF ArchiveStart, Begun
    <2> DEFINE p == [b EXCEPT !.rows = aged]
    <2> HIDE DEF b
    <2>3. aged \subseteq Row
      BY <1>0 DEF Archivable, TypeOK
    <2>4. p \in Passes /\ p.kind = "archive" /\ p.step = "build" /\ p.rows = aged
      BY <2>1, <2>3 DEF Passes
    <2>5. Begin(i, p)
      BY <2>2
    <2> HIDE DEF p
    <2>6. Alone' /\ Entered(i, p) /\ \A j \in Instances : pass[j].kind = "none"
      BY <1>0, <2>4, <2>5, BeginsAlone
    <2>7. pass'[i] = p /\ \A j \in Instances : j # i => pass'[j].kind = "none"
      BY <2>6 DEF Entered, Frame
    <2>8. NamesOf(aged) \subseteq kept
      BY DEF NamesOf, Present
    <2>9. \A j \in Instances : Working(j)'
      BY <1>0, <1>1, <2>4, <2>7, <2>8 DEF Working, NamesOf
    <2>10. Covered'
      BY <1>0, <1>1, <2>6 DEF RowsInv, Covered
    <2>11. QED
      BY <1>1, <2>6, <2>9, <2>10 DEF RowsInv
  <1>3. CASE ArchiveBuild(i)
    <2>1. pass[i].kind = "archive" /\ pass[i].step = "build"
      BY <1>3 DEF ArchiveBuild, At
    <2>2. NamesOf(pass[i].rows) \subseteq kept
      BY <2>1 DEF RowsInv, Working
    <2>3. GoPrune(i)
      BY <1>0, <1>3, <2>2, FaultyCounts DEF ArchiveBuild
    <2>4. Moved(i, "prune", NamesOf(pass[i].rows), pass[i].uids) /\ UNCHANGED lock
      BY <1>0, <2>3, PruneMoves DEF GoPrune
    <2>5. Alone'
      BY <2>4, MovesAlone
    <2>6. /\ \A j \in Instances : j # i => pass'[j] = pass[j]
          /\ pass'[i].kind = "archive" /\ pass'[i].rows = pass[i].rows
          /\ pass'[i].step = "prune" /\ pass'[i].todo = NamesOf(pass[i].rows)
      BY <2>1, <2>4 DEF Moved, Frame
    <2>7. \A j \in Instances : Working(j)'
      BY <1>0, <1>1, <2>1, <2>6 DEF RowsInv, Working, NamesOf
    <2>8. Covered'
      BY <1>0, <1>1, <2>1, <2>6 DEF RowsInv, Covered
    <2>9. QED
      BY <1>1, <2>5, <2>7, <2>8 DEF RowsInv
  <1>4. QED
    BY <1>2, <1>3

LEMMA PruneRows ==
  ASSUME TypeInv, RowsInv, faults' = 0, NEW i \in Instances, ArchivePrune(i)
  PROVE  RowsInv'
  <1>1. PICK n \in pass[i].todo : Drop(i, n) /\ (kept' = kept \ {n} \/ UNCHANGED kept)
    BY DEF ArchivePrune
  <1>2. /\ pass[i].kind = "archive" /\ pass[i].step = "prune"
        /\ UNCHANGED <<input, markers, pf, lock, upload, stuck>>
    BY DEF ArchivePrune, At, dbVars
  <1>3. Moved(i, "prune", pass[i].todo \ {n}, pass[i].uids)
    BY <1>1, <1>2, TodoMoves DEF Drop, TypeInv
  <1>4. /\ \A j \in Instances : j # i => pass'[j] = pass[j]
        /\ pass'[i].kind = "archive" /\ pass'[i].rows = pass[i].rows
        /\ pass'[i].step = "prune" /\ pass'[i].todo = pass[i].todo \ {n}
    BY <1>2, <1>3 DEF Moved, Frame
  <1>5. Archivable' = Archivable /\ Alone' /\ Unstuck' /\ Marked' /\ OnePerName' /\ GoodOnes'
    BY <1>2, <1>3, MovesAlone
    DEF Archivable, RowsInv, Unstuck, Marked, OnePerName, GoodOnes
  <1>6. PICK s \in pass[i].rows : s.name = n
    BY <1>2 DEF RowsInv, Working, NamesOf
  <1>7. s \in Archivable
    BY <1>2, <1>6 DEF RowsInv, Working
  <1>8. \A j \in Instances : pass[j].kind = "archive" => j = i
    BY <1>2, AloneOnly
  <1>9. \A j \in Instances : Working(j)'
    BY <1>2, <1>4, <1>5, <1>8 DEF RowsInv, Working, NamesOf
  <1>10. ASSUME NEW r \in Archivable, r.name \notin input' \cup kept'
         PROVE  r \in pass[i].rows
    <2>1. CASE r.name = n
      BY <1>6, <1>7, <2>1 DEF RowsInv, OnePerName
    <2>2. CASE r.name # n
      BY <1>1, <1>2, <1>8, <1>10, <2>2 DEF RowsInv, Covered
    <2>3. QED
      BY <2>1, <2>2
  <1>11. Covered'
    BY <1>4, <1>5, <1>10 DEF Covered
  <1>12. QED
    BY <1>5, <1>9, <1>11 DEF RowsInv

LEMMA ArchivedRows ==
  ASSUME TypeInv, RowsInv, faults' = 0, NEW i \in Instances, MarkArchived(i)
  PROVE  RowsInv'
  <1> DEFINE flip(r) == IF r.uid \in Flipped(i) THEN [r EXCEPT !.status = "ARCHIVED"] ELSE r
  <1>0. /\ TypeOK /\ pf \subseteq Row
        /\ UNCHANGED <<input, kept, markers, upload, stuck>> /\ pass[i].kind = "archive"
    BY DEF TypeInv, TypeOK, MarkArchived, At, worldVars
  <1>1. pf' = {flip(r) : r \in pf}
    BY <1>0, FaultyCounts DEF MarkArchived
  <1>2. Entered(i, NoPass) /\ NoPass.kind = "none" /\ lock' = Unlocked(i)
    BY <1>0, FinishMoves DEF MarkArchived, Finish, NoPass
  <1>3. Alone'
    BY <1>0, <1>2, EndsAlone DEF Unlocked
  <1>4. \A r \in pf : /\ flip(r).uid = r.uid /\ flip(r).name = r.name
                      /\ flip(r) = r \/ flip(r).status = "ARCHIVED"
                      /\ r \in pass[i].rows => flip(r).status = "ARCHIVED"
    BY <1>0 DEF Flipped, Row
  <1> HIDE DEF flip
  <1>5. \A r \in Archivable' : r \in Archivable /\ r \notin pass[i].rows
    BY <1>1, <1>4 DEF Archivable
  <1>6. Unstuck'
    BY <1>0 DEF RowsInv, Unstuck
  <1>7. Marked'
    BY <1>0, <1>1, <1>4 DEF RowsInv, Marked
  <1>8. OnePerName'
    BY <1>5 DEF RowsInv, OnePerName
  <1>9. GoodOnes'
    BY <1>0, <1>1, <1>4 DEF RowsInv, GoodOnes
  <1>10. \A j \in Instances : pass[j].kind = "archive" => j = i
    BY <1>0, AloneOnly
  <1>11. \A j \in Instances : pass'[j].kind # "archive"
    BY <1>2, <1>10 DEF Entered, Frame
  <1>12. \A j \in Instances : Working(j)'
    BY <1>11 DEF Working
  <1>13. Covered'
    BY <1>0, <1>5, <1>10 DEF RowsInv, Covered
  <1>14. QED
    BY <1>3, <1>6, <1>7, <1>8, <1>9, <1>12, <1>13 DEF RowsInv

LEMMA EndRows ==
  ASSUME TypeInv, RowsInv, faults' = 0, NEW i \in Instances,
         Terminate(i) \/ Exit(i) \/ Backup \/ UNCHANGED vars
  PROVE  RowsInv'
  <1>1. CASE Terminate(i) \/ Backup \/ UNCHANGED vars
    <2>1. UNCHANGED <<input, kept, markers, pf, lock, pass, upload, stuck>>
      BY <1>1 DEF Terminate, Backup, vars, worldVars, dbVars
    <2>2. Steady /\ Alone'
      BY <2>1 DEF Steady, RowsInv, GoodOnes, Alone
    <2>3. QED
      BY <2>2, SteadyRows
  <1>2. CASE Exit(i)
    <2>1. stuck[i] = {} /\ TimedOut(i) = {}
      BY DEF RowsInv, Unstuck, TimedOut
    <2>2. pass[i].kind # "archive"
      BY <1>2 DEF Exit, NoPass
    <2>3. /\ pass' = [pass EXCEPT ![i] = NoPass] /\ lock' = (IF lock = i THEN Nobody ELSE lock)
          /\ upload' = [upload EXCEPT ![i] = {}] /\ stuck' = [stuck EXCEPT ![i] = {}]
          /\ UNCHANGED <<input, kept, markers, pf>>
      BY <1>2 DEF Exit, Gone, worldVars, dbVars
    <2>4. Entered(i, NoPass) /\ NoPass.kind = "none"
      BY <2>3, NoPassTyped, EnterMoves DEF TypeInv, NoPass
    <2>5. Alone'
      BY <2>3, <2>4, EndsAlone DEF TypeInv
    <2>6. UNCHANGED stuck
      BY <2>1, <2>3 DEF TypeInv, TypeOK
    <2>7. \A j \in Instances : upload'[j] \subseteq Names \ BadNames
      BY <2>3 DEF TypeInv, TypeOK, RowsInv, GoodOnes
    <2>8. Steady
      BY <2>2, <2>3, <2>4, <2>6, <2>7 DEF Steady, Entered, Frame
    <2>9. QED
      BY <2>5, <2>8, SteadyRows
  <1>3. QED
    BY <1>1, <1>2

\* The invariant of a system in which nothing has failed yet.
CalmInv == faults = 0 => RowsInv

LEMMA CalmBefore ==
  ASSUME TypeInv, [Next]_vars, faults' = 0
  PROVE  faults = 0
  <1>1. UNCHANGED faults \/ Faulty
    BY DEF Next, Step, StartReconcile, StartSkipped, RecoverProcessedFile, ReconcileEnd,
           FetchStart, FetchCheck, FetchStat, FetchOne, FetchEnd, Process, Rearrival, Upload,
           UploadRecord, ArchiveStart, ArchiveBuild, ArchivePrune, MarkArchived, LockLost, Hang,
           Terminate, Exit, Crash, Backup, Restore, NoFault, vars
  <1>2. QED
    BY <1>1, FaultyCounts DEF TypeInv

LEMMA CalmInit == Init => CalmInv
  <1> SUFFICES ASSUME Init
               PROVE  RowsInv
    BY DEF CalmInv
  <1>1. \A i \in Instances : pass[i].kind = "none" /\ stuck[i] = {} /\ upload[i] = {}
    BY DEF Init, NoPass
  <1>2. pf = {} /\ DOMAIN markers = {}
    BY DEF Init
  <1>3. QED
    BY <1>1, <1>2 DEF RowsInv, Alone, Unstuck, Marked, OnePerName, GoodOnes, Working, Covered,
                      Archivable

LEMMA CalmStep == TypeInv /\ CalmInv /\ [Next]_vars => CalmInv'
  <1> SUFFICES ASSUME TypeInv, RowsInv, [Next]_vars, faults' = 0
               PROVE  RowsInv'
    BY CalmBefore DEF CalmInv
  <1>0. ~Faulty
    BY FaultyCounts DEF TypeInv
  <1>1. ASSUME NEW i \in Instances, Step(i)
        PROVE  RowsInv'
    <2>1. \/ StartReconcile(i) \/ StartSkipped(i) \/ RecoverProcessedFile(i) \/ ReconcileEnd(i)
          \/ FetchStart(i) \/ FetchCheck(i) \/ FetchStat(i) \/ FetchOne(i) \/ FetchEnd(i)
          \/ UploadRecord(i) \/ ArchiveStart(i) \/ ArchiveBuild(i) \/ ArchivePrune(i)
          \/ MarkArchived(i) \/ Terminate(i) \/ Exit(i)
      BY <1>0, <1>1 DEF Step, LockLost, Crash
    <2>2. CASE UploadRecord(i)
      <3>1. PICK n \in upload[i] : TRUE
        BY <2>2 DEF UploadRecord
      <3>2. n \in Names
        BY DEF TypeInv, TypeOK
      <3>3. QED
        BY <2>2, <3>2, ProcessRows
    <2>3. QED
      BY <2>1, <2>2, ReconcileRows, FetchRows, BuildRows, PruneRows, ArchivedRows, EndRows
  <1>2. ASSUME NEW i \in Instances, NEW n \in Names, Upload(i, n)
        PROVE  RowsInv'
    BY <1>2, ProcessRows
  <1>3. ASSUME NEW n \in Names, Process(n) \/ Rearrival(n)
        PROVE  RowsInv'
    <2>1. PICK i \in Instances : life[i] = "up"
      BY <1>3 DEF Process, Rearrival
    <2>2. QED
      BY <1>3, ProcessRows
  <1>4. ASSUME Backup \/ UNCHANGED vars
        PROVE  RowsInv'
    <2>1. UNCHANGED <<input, kept, markers, pf, lock, pass, upload, stuck>>
      BY <1>4 DEF Backup, vars, worldVars
    <2>2. Steady /\ Alone'
      BY <2>1 DEF Steady, RowsInv, GoodOnes, Alone
    <2>3. QED
      BY <2>2, SteadyRows
  <1>5. QED
    BY <1>0, <1>1, <1>2, <1>3, <1>4 DEF Next, Hang, Restore

\* As long as nothing fails, a recorded file that is not marked archived has its original
\* in the input, done or quarantine area, or is being archived: of the prune and of
\* MarkArchived, in whatever pass, only the pass's own rows are in between.
THEOREM CalmArchives == Spec => []RowsHaveOriginals
  <1>1. CalmInv => RowsHaveOriginals
    BY DEF CalmInv, RowsInv, Covered, Archivable, RowsHaveOriginals
  <1>2. QED
    BY <1>1, CalmInit, CalmStep, TypesStay, PTL DEF Spec

-----------------------------------------------------------------------------
(* How often a file is processed, and what its UID is.                     *)

HasRow(uid, n) == \E s \in pf : s.uid = uid /\ s.name = n

Open(n) == n \notin history.archived

\* A marker a restart has looked at, or need not look at.
Handled(u) == Open(markers[u]) => AlreadyProcessed(markers[u]) /\ u <= alloc

Ready == ~history.restored \/ \E i \in Instances : life[i] \in {"up", "draining"}

Told ==
  /\ DOMAIN history = Remembered
  /\ history.runs \in [Names -> Nat] /\ history.archived \subseteq Names

\* The rows of a database, as it is or as it was backed up.
Sound(rows, top) ==
  \A r \in rows :
    /\ r.uid <= top /\ \A s \in rows : s.uid = r.uid => s = r
    /\ r.status = "ARCHIVED" => r.name \in history.archived
    /\ r.status = "QUARANTINED" => r.name \in BadNames
    /\ history.runs[r.name] > 0

\* An instance that is down has no pass, and what a pass archives has rows.
Works ==
  \A i \in Instances :
    /\ life[i] = "down" => pass[i].kind # "reconcile" /\ pass[i].rows = {}
    /\ upload[i] \cap BadNames = {}
    /\ \A a \in pass[i].rows : HasRow(a.uid, a.name)

Marks == \A u \in DOMAIN markers : markers[u] \notin BadNames /\ history.runs[markers[u]] > 0

\* Until the restore the database knows everything the backup and the markers do.
Original ==
  ~history.restored =>
    /\ ~history.behind /\ backup.alloc <= alloc
    /\ \A b \in backup.pf : HasRow(b.uid, b.name)
    /\ \A u \in DOMAIN markers : u <= alloc
    /\ \A r \in pf : r.uid \in DOMAIN markers => markers[r.uid] = r.name

\* A row and a marker of one UID are of one file, unless the marker's was archived.
Faithful ==
  \A r \in pf : r.uid \in DOMAIN markers =>
    markers[r.uid] = r.name \/ ~Open(markers[r.uid])

\* A file that was never archived has one marker, of the UID of its row.
Single ==
  \A u \in DOMAIN markers : Open(markers[u]) =>
    /\ \A v \in DOMAIN markers : markers[v] = markers[u] => v = u
    /\ \A r \in pf : r.name = markers[u] => r.uid = u

\* It was processed once, and then it has its row, or a marker to get it back from.
AtMostOnce ==
  \A n \in Names \ BadNames : Open(n) =>
    /\ history.runs[n] <= 1
    /\ history.runs[n] = 1 =>
         \/ AlreadyProcessed(n)
         \/ history.restored /\ \E u \in DOMAIN markers : markers[u] = n

\* Where files are processed, all markers have been looked at.
Caught == Ready => \A u \in DOMAIN markers : Handled(u)

Catching ==
  \A i \in Instances : pass[i].kind = "reconcile" =>
    \A u \in DOMAIN markers \ pass[i].uids : Handled(u)

Known == ~history.behind => Faithful /\ Single /\ AtMostOnce /\ Caught /\ Catching

OnceInv ==
  /\ Told /\ Sound(pf, alloc) /\ Sound(backup.pf, backup.alloc)
  /\ Works /\ Marks /\ Original /\ Known

-----------------------------------------------------------------------------
(* What each step does to passes and lives.                                *)

\* No pass begins: one goes on, or is left.
Passive(i) ==
  \/ UNCHANGED pass
  \/ Entered(i, NoPass)
  \/ \E s \in Steps, t \in SUBSET Names : Moved(i, s, t, pass[i].uids)

LEMMA FetchPassive ==
  ASSUME TypeInv, NEW i \in Instances,
         FetchCheck(i) \/ FetchStat(i) \/ FetchOne(i) \/ FetchEnd(i)
  PROVE  Passive(i)
  <1>1. TypeOK /\ pass[i].todo \subseteq Names /\ pass[i].step \in Steps
    BY Typed DEF TypeInv, Passes
  <1>2. \/ Goto(i, "stat") \/ Goto(i, "land") \/ FetchNext(i) \/ Finish(i)
        \/ pass' = [pass EXCEPT ![i].todo = @ \ {Candidate(i)}]
    BY DEF FetchCheck, FetchStat, FetchOne, FetchEnd, Drop
  <1>3. QED
    BY <1>1, <1>2, GotoMoves, NextMoves, TodoMoves, FinishMoves DEF Steps, Passive

LEMMA ArchivePassive ==
  ASSUME TypeInv, NEW i \in Instances, ArchiveBuild(i) \/ ArchivePrune(i) \/ MarkArchived(i)
  PROVE  Passive(i)
  <1>1. /\ TypeOK /\ pass[i].todo \subseteq Names /\ pass[i].step \in Steps
        /\ pass[i].rows \subseteq Row
    BY Typed DEF TypeInv, Passes
  <1>2. NamesOf(pass[i].rows) \subseteq Names
    BY <1>1 DEF NamesOf, Row
  <1>3. \/ GoPrune(i) \/ Finish(i)
        \/ \E n \in pass[i].todo : pass' = [pass EXCEPT ![i].todo = @ \ {n}]
    BY DEF ArchiveBuild, ArchivePrune, MarkArchived, Abort, Drop
  <1>4. QED
    BY <1>1, <1>2, <1>3, PruneMoves, TodoMoves, FinishMoves DEF Steps, Passive

LEMMA OtherPassive ==
  ASSUME TypeInv, NEW i \in Instances, NEW n, NEW loop,
         \/ StartSkipped(i) \/ ReconcileEnd(i) \/ UploadRecord(i) \/ LockLost(i)
         \/ Terminate(i) \/ Exit(i) \/ Crash(i) \/ Hang(i, loop) \/ Upload(i, n)
         \/ Process(n) \/ Rearrival(n) \/ Backup \/ Restore \/ UNCHANGED vars
  PROVE  Passive(i)
  <1>1. CASE ReconcileEnd(i)
    BY <1>1, FinishMoves DEF ReconcileEnd, TypeInv, Passive
  <1>2. CASE Exit(i) \/ Crash(i)
    BY <1>2, NoPassTyped, EnterMoves DEF Exit, Crash, Gone, TypeInv, Passive
  <1>3. QED
    BY <1>1, <1>2 DEF StartSkipped, UploadRecord, LockLost, Terminate, Hang, Upload, Process,
                      Rearrival, Backup, Restore, vars, Passive

\* The passes of a step, and what they still have to do with rows and markers.
Tame ==
  \A j \in Instances :
    /\ \A a \in pass'[j].rows : HasRow(a.uid, a.name)
    /\ life'[j] = "down" => pass'[j].kind # "reconcile" /\ pass'[j].rows = {}
    /\ upload'[j] \cap BadNames = {}

Plain ==
  \A j \in Instances :
    /\ pass'[j].kind = "reconcile" => pass[j].kind = "reconcile" /\ pass'[j].uids = pass[j].uids
    /\ life'[j] \in {"up", "draining"} => life[j] \in {"up", "draining"}

Uploads == \A j \in Instances : upload'[j] \subseteq upload[j] \/ upload'[j] \cap BadNames = {}

LEMMA PassiveTame ==
  ASSUME Works, NEW i \in Instances, Passive(i), Uploads,
         \A j \in Instances : life'[j] = "down" =>
           life[j] = "down" \/ (j = i /\ Entered(i, NoPass))
  PROVE  Tame
  <1>1. NoPass.rows = {} /\ NoPass.kind = "none"
    BY DEF NoPass
  <1>2. \A j \in Instances : pass'[j].rows = pass[j].rows \/ pass'[j].rows = {}
    BY <1>1 DEF Passive, Entered, Moved, Frame
  <1>3. \A j \in Instances : pass'[j].kind = pass[j].kind \/ pass'[j].kind = "none"
    BY <1>1 DEF Passive, Entered, Moved, Frame
  <1>4. \A j \in Instances : life'[j] = "down" => pass'[j].kind # "reconcile" /\ pass'[j].rows = {}
    BY <1>1, <1>2, <1>3 DEF Works, Entered
  <1>5. QED
    BY <1>2, <1>4 DEF Works, Tame, Uploads
\* A reconciliation, a fetch or an archive pass as it begins.
LEMMA BeginsTame ==
  ASSUME TypeInv, Works, NEW i \in Instances,
         StartReconcile(i) \/ FetchStart(i) \/ ArchiveStart(i)
  PROVE  /\ Tame /\ Frame(i)
         /\ pass'[i].kind = "reconcile" => StartReconcile(i)
         /\ StartReconcile(i) => pass'[i].uids = DOMAIN markers
  <1>0. TypeOK /\ UNCHANGED upload
    BY DEF TypeInv, StartReconcile, FetchStart, ArchiveStart
  <1>1. PICK p \in Passes :
          /\ Begin(i, p) /\ \A a \in p.rows : HasRow(a.uid, a.name)
          /\ p.kind = "reconcile" => StartReconcile(i)
          /\ StartReconcile(i) => p.uids = DOMAIN markers
          /\ life'[i] # "down"
    <2>1. CASE StartReconcile(i)
      <3> DEFINE b == Begun("reconcile", "recover")
                 p == [b EXCEPT !.uids = DOMAIN markers]
      <3>1. b \in Passes /\ b.rows = {}
        BY BeginsTyped DEF Kinds, Steps
      <3>2. Begin(i, p) /\ life' = [life EXCEPT ![i] = "boot"]
        BY <2>1 DEF StartReconcile, Begun
      <3> HIDE DEF b
      <3>3. p \in Passes /\ p.rows = {} /\ p.uids = DOMAIN markers
        BY <1>0, <3>1 DEF Passes, TypeOK
      <3>4. life'[i] = "boot"
        BY <1>0, <3>2 DEF TypeOK
      <3> HIDE DEF p
      <3>5. QED
        BY <2>1, <3>2, <3>3, <3>4
    <2>2. CASE FetchStart(i)
      <3> DEFINE b == Begun("fetch", "check")
                 p == [b EXCEPT !.todo = remote]
      <3>1. b \in Passes /\ b.kind = "fetch" /\ b.rows = {}
        BY BeginsTyped DEF Kinds, Steps
      <3>2. Begin(i, p) /\ life'[i] = "up"
        BY <2>2 DEF FetchStart, Begun
      <3> HIDE DEF b
      <3>3. p \in Passes /\ p.kind = "fetch" /\ p.rows = {}
        BY <1>0, <3>1 DEF Passes, TypeOK
      <3>4. ~StartReconcile(i)
        BY <2>2 DEF StartReconcile, Starts, FetchStart
      <3> HIDE DEF p
      <3>5. QED
        BY <3>2, <3>3, <3>4
    <2>3. CASE ArchiveStart(i)
      <3> DEFINE b == Begun("archive", "build")
      <3>1. b \in Passes /\ b.kind = "archive"
        BY BeginsTyped DEF Kinds, Steps
      <3>2. PICK aged \in SUBSET {r \in Archivable : Present(r)} :
              Begin(i, [b EXCEPT !.rows = aged])
        BY <2>3 DEF ArchiveStart, Begun
      <3> DEFINE p == [b EXCEPT !.rows = aged]
      <3> HIDE DEF b
      <3>3. aged \subseteq pf /\ aged \subseteq Row
        BY <1>0 DEF Archivable, TypeOK
      <3>4. p \in Passes /\ p.kind = "archive" /\ p.rows = aged
        BY <3>1, <3>3 DEF Passes
      <3>5. \A a \in aged : HasRow(a.uid, a.name)
        BY <3>3 DEF HasRow
      <3>6. ~StartReconcile(i) /\ life'[i] = "up"
        BY <2>3 DEF StartReconcile, Starts, ArchiveStart
      <3>7. Begin(i, p)
        BY <3>2
      <3> HIDE DEF p
      <3>8. QED
        BY <3>4, <3>5, <3>6, <3>7
    <2>4. QED
      BY <2>1, <2>2, <2>3
  <1>2. Entered(i, p)
    BY <1>0, <1>1, EnterMoves DEF Begin
  <1>3. \A j \in Instances : j # i => life'[j] = life[j]
    BY <1>0 DEF StartReconcile, FetchStart, ArchiveStart, TypeOK
  <1>4. Tame
    BY <1>0, <1>1, <1>2, <1>3 DEF Tame, Works, Entered, Frame
  <1>5. QED
    BY <1>1, <1>2, <1>4 DEF Entered

LEMMA RecoverMoves ==
  ASSUME TypeInv, NEW i \in Instances, RecoverProcessedFile(i)
  PROVE  /\ Frame(i) /\ pass'[i].kind = pass[i].kind /\ pass'[i].rows = pass[i].rows
         /\ UNCHANGED <<life, upload, markers, backup>>
         /\ pass[i].kind = "reconcile"
         /\ \E uid \in pass[i].uids :
              /\ uid \in DOMAIN markers /\ pass'[i].uids = pass[i].uids \ {uid}
              /\ \/ /\ Recoverable(uid, markers[uid])
                    /\ pf' = pf \cup {[uid |-> uid, name |-> markers[uid], status |-> "DONE"]}
                    /\ alloc' = Floor(uid) /\ UNCHANGED history
                 \/ ~Recoverable(uid, markers[uid]) /\ UNCHANGED <<pf, alloc, history>>
                 \/ /\ UNCHANGED <<pf, alloc>>
                    /\ history' = [history EXCEPT !.behind = @ \/ history.restored]
  <1>1. PICK uid \in pass[i].uids :
          /\ pass' = [pass EXCEPT ![i].uids = @ \ {uid}]
          /\ \/ /\ Recoverable(uid, markers[uid])
                /\ pf' = pf \cup {[uid |-> uid, name |-> markers[uid], status |-> "DONE"]}
                /\ alloc' = Floor(uid) /\ UNCHANGED history
             \/ ~Recoverable(uid, markers[uid]) /\ UNCHANGED <<pf, alloc, history>>
             \/ /\ UNCHANGED <<pf, alloc>>
                /\ history' = [history EXCEPT !.behind = @ \/ history.restored]
    BY Zenon DEF RecoverProcessedFile
  <1>2. Moved(i, pass[i].step, pass[i].todo, pass[i].uids \ {uid})
    BY <1>1, UidsMoves DEF TypeInv
  <1>3. uid \in DOMAIN markers
    BY DEF TypeInv, PassOK
  <1>4. UNCHANGED <<life, upload, markers, backup>> /\ pass[i].kind = "reconcile"
    BY DEF RecoverProcessedFile, At, worldVars
  <1>5. /\ Frame(i) /\ pass'[i].kind = pass[i].kind /\ pass'[i].rows = pass[i].rows
        /\ pass'[i].uids = pass[i].uids \ {uid}
    BY <1>2 DEF Moved
  <1>6. QED
    BY <1>1, <1>3, <1>4, <1>5, Zenon
LEMMA LeaveTame ==
  ASSUME TypeInv, Works, NEW i \in Instances,
         FetchCheck(i) \/ FetchStat(i) \/ FetchOne(i) \/ FetchEnd(i) \/ ArchiveBuild(i)
         \/ ArchivePrune(i) \/ MarkArchived(i) \/ StartSkipped(i) \/ ReconcileEnd(i)
         \/ UploadRecord(i) \/ LockLost(i) \/ Terminate(i) \/ Exit(i) \/ Crash(i)
  PROVE  Tame
  <1>1. Passive(i)
    BY FetchPassive, ArchivePassive, OtherPassive
  <1>2. /\ life \in [Instances -> {"down", "boot", "up", "draining"}]
        /\ upload \in [Instances -> SUBSET Names]
    BY DEF TypeInv, TypeOK
  <1>3. CASE Exit(i) \/ Crash(i)
    <2>1. Entered(i, NoPass)
      BY <1>3, NoPassTyped, EnterMoves DEF Exit, Crash, Gone, TypeInv
    <2>2. \A j \in Instances : j # i => life'[j] = life[j] /\ upload'[j] = upload[j]
      BY <1>2, <1>3 DEF Exit, Crash, Gone
    <2>3. upload'[i] = {}
      BY <1>2, <1>3 DEF Exit, Crash, Gone
    <2>4. Uploads
      BY <2>2, <2>3 DEF Uploads
    <2>5. QED
      BY <1>1, <2>1, <2>2, <2>4, PassiveTame
  <1>4. CASE ~(Exit(i) \/ Crash(i))
    <2>1. \A j \in Instances : life'[j] = "down" => life[j] = "down"
      BY <1>2, <1>4 DEF FetchCheck, FetchStat, FetchOne, FetchEnd, ArchiveBuild, ArchivePrune,
         MarkArchived, StartSkipped, ReconcileEnd, UploadRecord, LockLost, Terminate
    <2>2. Uploads
      BY <1>2, <1>4 DEF FetchCheck, FetchStat, FetchOne, FetchEnd, ArchiveBuild, ArchivePrune,
         MarkArchived, StartSkipped, ReconcileEnd, UploadRecord, LockLost, Terminate, Uploads
    <2>3. QED
      BY <1>1, <2>1, <2>2, PassiveTame
  <1>5. QED
    BY <1>3, <1>4

LEMMA TameStep ==
  ASSUME TypeInv, Works, [Next]_vars
  PROVE  Tame
  <1>1. ASSUME NEW i \in Instances, Step(i)
        PROVE  Tame
    <2>1. CASE RecoverProcessedFile(i)
      BY <2>1, RecoverMoves DEF Tame, Works, Frame
    <2>2. QED
      BY <1>1, <2>1, BeginsTame, LeaveTame DEF Step
  <1>2. ASSUME NEW i \in Instances, NEW n \in Names, Upload(i, n)
        PROVE  Tame
    <2>1. Uploads /\ UNCHANGED life
      BY <1>2 DEF Upload, Uploads, TypeInv, TypeOK
    <2>2. Passive(i)
      BY <1>2, OtherPassive
    <2>3. QED
      BY <2>1, <2>2, PassiveTame
  <1>3. ASSUME UNCHANGED <<pass, life, upload>>
        PROVE  Tame
    BY <1>3 DEF Tame, Works
  <1>4. ASSUME NEW i \in Instances, NEW loop \in Loops, Hang(i, loop)
        PROVE  UNCHANGED <<pass, life, upload>>
    BY <1>4 DEF Hang
  <1>5. ASSUME NEW n \in Names, Process(n) \/ Rearrival(n)
        PROVE  UNCHANGED <<pass, life, upload>>
    BY <1>5 DEF Process, Rearrival
  <1>6. Backup \/ Restore \/ UNCHANGED vars => UNCHANGED <<pass, life, upload>>
    BY DEF Backup, Restore, vars
  <1>7. QED
    BY <1>1, <1>2, <1>3, <1>4, <1>5, <1>6 DEF Next

LEMMA PassivePlain ==
  ASSUME NEW i \in Instances, Passive(i),
         \A j \in Instances : life'[j] \in {"up", "draining"} => life[j] \in {"up", "draining"}
  PROVE  Plain
  <1>1. NoPass.kind = "none"
    BY DEF NoPass
  <1>2. QED
    BY <1>1 DEF Passive, Plain, Entered, Moved, Frame

\* Only a start of an instance, and what follows of its reconciliation, is not plain.
LEMMA PlainStep ==
  ASSUME TypeInv, Works, [Next]_vars
  PROVE  \/ Plain
         \/ \E i \in Instances : StartReconcile(i) \/ StartSkipped(i)
                                 \/ RecoverProcessedFile(i) \/ ReconcileEnd(i)
  <1>0. life \in [Instances -> {"down", "boot", "up", "draining"}]
    BY DEF TypeInv, TypeOK
  <1>1. ASSUME NEW i \in Instances, FetchStart(i) \/ ArchiveStart(i)
        PROVE  Plain
    <2>1. ~StartReconcile(i) /\ UNCHANGED life
      BY <1>1 DEF StartReconcile, Starts, FetchStart, ArchiveStart
    <2>2. QED
      BY <1>1, <2>1, BeginsTame DEF Plain, Frame
  <1>2. ASSUME NEW i \in Instances,
               \/ FetchCheck(i) \/ FetchStat(i) \/ FetchOne(i) \/ FetchEnd(i) \/ ArchiveBuild(i)
               \/ ArchivePrune(i) \/ MarkArchived(i) \/ UploadRecord(i) \/ LockLost(i)
               \/ Terminate(i) \/ Exit(i) \/ Crash(i)
        PROVE  Plain
    <2>1. Passive(i)
      BY <1>2, FetchPassive, ArchivePassive, OtherPassive
    <2>2. \A j \in Instances : life'[j] \in {"up", "draining"} => life[j] \in {"up", "draining"}
      BY <1>0, <1>2 DEF FetchCheck, FetchStat, FetchOne, FetchEnd, ArchiveBuild, ArchivePrune,
         MarkArchived, UploadRecord, LockLost, Terminate, Exit, Crash, Gone
    <2>3. QED
      BY <2>1, <2>2, PassivePlain
  <1>3. ASSUME UNCHANGED <<pass, life>>
        PROVE  Plain
    BY <1>3 DEF Plain
  <1>4. ASSUME NEW i \in Instances, NEW loop \in Loops, Hang(i, loop)
        PROVE  UNCHANGED <<pass, life>>
    BY <1>4 DEF Hang
  <1>5. ASSUME NEW i \in Instances, NEW n \in Names, Upload(i, n)
        PROVE  UNCHANGED <<pass, life>>
    BY <1>5 DEF Upload
  <1>6. ASSUME NEW n \in Names, Process(n) \/ Rearrival(n)
        PROVE  UNCHANGED <<pass, life>>
    BY <1>6 DEF Process, Rearrival
  <1>7. Backup \/ Restore \/ UNCHANGED vars => UNCHANGED <<pass, life>>
    BY DEF Backup, Restore, vars
  <1>8. QED
    BY <1>1, <1>2, <1>3, <1>4, <1>5, <1>6, <1>7 DEF Next, Step

-----------------------------------------------------------------------------
(* What each step remembers.                                               *)

\* Nothing of what was processed or archived is new.
Recalls ==
  /\ DOMAIN history' = Remembered
  /\ history'.runs = history.runs /\ history'.archived = history.archived
  /\ history'.restored <=> history.restored
  /\ history.behind => history'.behind
  /\ ~history.restored /\ ~history.behind => ~history'.behind

LEMMA SameRecalls == DOMAIN history = Remembered /\ UNCHANGED history => Recalls
  BY DEF Recalls

LEMMA CountRecalls ==
  ASSUME DOMAIN history = Remembered, NEW f \in {"starts", "uploads", "landed"}, NEW v,
         history' = [history EXCEPT ![f] = v]
  PROVE  Recalls
  BY Zenon DEF Remembered, Recalls

LEMMA BehindRecalls ==
  ASSUME DOMAIN history = Remembered,
         history' = [history EXCEPT !.behind = @ \/ history.restored]
  PROVE  Recalls /\ (history.restored => history'.behind)
  BY Zenon DEF Remembered, Recalls

LEMMA SkipRecalls ==
  ASSUME DOMAIN history = Remembered,
         history' = [history EXCEPT !.starts = @ + 1, !.behind = @ \/ history.restored]
  PROVE  Recalls /\ (history.restored => history'.behind)
  <1> DEFINE e == [history EXCEPT !.starts = @ + 1]
  <1>1. /\ DOMAIN e = Remembered /\ e.runs = history.runs /\ e.archived = history.archived
        /\ e.restored = history.restored /\ e.behind = history.behind
    BY Zenon DEF Remembered
  <1>2. history' = [e EXCEPT !.behind = @ \/ history.restored]
    BY Zenon
  <1> HIDE DEF e
  <1>3. /\ DOMAIN history' = Remembered /\ history'.runs = e.runs
        /\ history'.archived = e.archived /\ history'.restored = e.restored
        /\ history'.behind <=> e.behind \/ history.restored
    BY <1>1, <1>2, Zenon DEF Remembered
  <1>4. QED
    BY <1>1, <1>3, Zenon DEF Recalls
\* What a processed file leaves in the books.
LEMMA RecordedRecalls ==
  ASSUME DOMAIN history = Remembered, NEW n, NEW uid, NEW marked, Recorded(n, uid, marked)
  PROVE  /\ DOMAIN history' = Remembered
         /\ history'.runs = [history.runs EXCEPT ![n] = @ + 1]
         /\ history'.archived = history.archived
         /\ history'.restored <=> history.restored
         /\ history'.behind <=> history.behind \/ (history.restored /\ ~marked)
  <1> DEFINE e == [history EXCEPT !.runs[n] = @ + 1]
  <1>1. /\ DOMAIN e = Remembered /\ e.runs = [history.runs EXCEPT ![n] = @ + 1]
        /\ e.archived = history.archived
        /\ e.restored = history.restored /\ e.behind = history.behind
    BY Zenon DEF Remembered
  <1>2. history' = [e EXCEPT !.behind = @ \/ (history.restored /\ ~marked)]
    BY Zenon DEF Recorded
  <1> HIDE DEF e
  <1>3. /\ DOMAIN history' = Remembered /\ history'.runs = e.runs
        /\ history'.archived = e.archived /\ history'.restored = e.restored
        /\ history'.behind <=> e.behind \/ (history.restored /\ ~marked)
    BY <1>1, <1>2, Zenon DEF Remembered
  <1>4. QED
    BY <1>1, <1>3, Zenon

LEMMA ArchivedRecalls ==
  ASSUME DOMAIN history = Remembered, NEW new,
         history' = [history EXCEPT !.archived = @ \cup new]
  PROVE  /\ DOMAIN history' = Remembered
         /\ history'.runs = history.runs
         /\ history'.archived = history.archived \cup new
         /\ history'.restored <=> history.restored
         /\ history'.behind <=> history.behind
  BY Zenon DEF Remembered

LEMMA RestoreRecalls ==
  ASSUME DOMAIN history = Remembered, Restore
  PROVE  /\ DOMAIN history' = Remembered
         /\ history'.runs = history.runs
         /\ history'.archived = history.archived
         /\ history'.restored
         /\ history'.behind <=> \E r \in pf \ backup.pf :
                                   r.status # "QUARANTINED" /\ r.uid \notin DOMAIN markers
  <1> DEFINE e == [history EXCEPT !.restored = TRUE]
             lost == \E r \in pf \ backup.pf :
                       r.status # "QUARANTINED" /\ r.uid \notin DOMAIN markers
  <1>1. /\ DOMAIN e = Remembered /\ e.runs = history.runs /\ e.archived = history.archived
        /\ e.restored = TRUE
    BY Zenon DEF Remembered
  <1>2. history' = [e EXCEPT !.behind = lost]
    BY Zenon DEF Restore
  <1> HIDE DEF e, lost
  <1>3. /\ DOMAIN history' = Remembered /\ history'.runs = e.runs
        /\ history'.archived = e.archived /\ history'.restored = e.restored
        /\ history'.behind = lost
    BY <1>1, <1>2, Zenon DEF Remembered
  <1>4. (history'.behind <=> lost) /\ history'.restored
    BY <1>1, <1>3, Zenon
  <1>5. QED
    BY <1>1, <1>3, <1>4, Zenon DEF lost

-----------------------------------------------------------------------------
(* Steps that record nothing.                                              *)

Quiet == UNCHANGED <<pf, alloc, backup, markers>> /\ Recalls

LEMMA QuietOnce ==
  ASSUME OnceInv, Quiet, Tame, ~history'.behind => Caught' /\ Catching'
  PROVE  OnceInv'
  <1>1. Told' /\ Marks'
    BY DEF OnceInv, Told, Marks, Quiet, Recalls
  <1>2. Sound(pf, alloc)' /\ Sound(backup.pf, backup.alloc)'
    BY DEF OnceInv, Sound, Quiet, Recalls
  <1>3. Works'
    BY DEF Works, Tame, HasRow, Quiet
  <1>4. Original'
    BY DEF OnceInv, Original, HasRow, Quiet, Recalls
  <1>5. ASSUME ~history'.behind
        PROVE  Faithful' /\ Single' /\ AtMostOnce'
    <2>1. ~history.behind /\ Faithful /\ Single /\ AtMostOnce
      BY <1>5 DEF OnceInv, Known, Quiet, Recalls
    <2>2. Faithful' /\ Single'
      BY <2>1 DEF Faithful, Single, Open, Quiet, Recalls
    <2>3. AtMostOnce'
      BY <2>1 DEF AtMostOnce, Open, AlreadyProcessed, Has, Quiet, Recalls
    <2>4. QED
      BY <2>2, <2>3
  <1>6. QED
    BY <1>1, <1>2, <1>3, <1>4, <1>5 DEF OnceInv, Known

LEMMA QuietHandled ==
  ASSUME Quiet, NEW u
  PROVE  Handled(u)' <=> Handled(u)
  BY DEF Handled, Open, AlreadyProcessed, Has, Quiet, Recalls

LEMMA PlainOnce ==
  ASSUME OnceInv, Quiet, Tame, Plain
  PROVE  OnceInv'
  <1>1. ASSUME ~history'.behind
        PROVE  Caught' /\ Catching'
    <2>1. Caught /\ Catching /\ DOMAIN markers' = DOMAIN markers
      BY <1>1 DEF OnceInv, Known, Quiet, Recalls
    <2>2. Ready' => Ready
      BY DEF Ready, Quiet, Recalls, Plain
    <2>3. Caught'
      BY <2>1, <2>2, QuietHandled DEF Caught
    <2>4. Catching'
      BY <2>1, QuietHandled DEF Catching, Plain
    <2>5. QED
      BY <2>3, <2>4
  <1>2. QED
    BY <1>1, QuietOnce

\* Where nothing was restored, or somebody works, all markers have been looked at.
LEMMA ReadyHandled ==
  ASSUME OnceInv, ~history.behind, Ready, NEW u \in DOMAIN markers
  PROVE  Handled(u)
  BY DEF OnceInv, Known, Caught

LEMMA StartsOnce ==
  ASSUME TypeInv, OnceInv, Tame, NEW i \in Instances,
         StartReconcile(i) \/ StartSkipped(i) \/ ReconcileEnd(i)
  PROVE  OnceInv'
  <1>0. /\ DOMAIN history = Remembered
        /\ life \in [Instances -> {"down", "boot", "up", "draining"}]
    BY DEF OnceInv, Told, TypeInv, TypeOK
  <1>1. CASE StartReconcile(i)
    <2>1. Recalls
      BY <1>0, <1>1, CountRecalls, Zenon DEF StartReconcile
    <2>2. Quiet
      BY <1>1, <2>1 DEF StartReconcile, Quiet, worldVars, dbVars
    <2>3. /\ \A j \in Instances : j # i => pass'[j] = pass[j]
          /\ pass'[i].uids = DOMAIN markers
      BY <1>1, BeginsTame DEF OnceInv, Frame
    <2>4. \A j \in Instances : life'[j] \in {"up", "draining"} => life[j] \in {"up", "draining"}
      BY <1>0, <1>1 DEF StartReconcile
    <2>5. ASSUME ~history'.behind
          PROVE  Caught' /\ Catching'
      <3>1. Caught /\ Catching /\ DOMAIN markers' = DOMAIN markers
        BY <2>2, <2>5 DEF OnceInv, Known, Quiet, Recalls
      <3>2. Ready' => Ready
        BY <2>2, <2>4 DEF Ready, Quiet, Recalls
      <3>3. Caught'
        BY <2>2, <3>1, <3>2, QuietHandled DEF Caught
      <3>4. Catching'
        BY <2>2, <2>3, <3>1, QuietHandled DEF Catching
      <3>5. QED
        BY <3>3, <3>4
    <2>6. QED
      BY <2>2, <2>5, QuietOnce
  <1>2. CASE StartSkipped(i)
    <2>1. Recalls /\ (history.restored => history'.behind)
      BY <1>0, <1>2, SkipRecalls, Zenon DEF StartSkipped
    <2>2. Quiet /\ UNCHANGED pass
      BY <1>2, <2>1 DEF StartSkipped, Quiet, worldVars, dbVars
    <2>3. ASSUME ~history'.behind
          PROVE  Caught' /\ Catching'
      <3>1. Caught /\ Catching /\ DOMAIN markers' = DOMAIN markers /\ ~history.restored
        BY <2>1, <2>2, <2>3 DEF OnceInv, Known, Quiet, Recalls
      <3>2. Caught'
        BY <2>2, <3>1, QuietHandled DEF Caught, Ready
      <3>3. Catching'
        BY <2>2, <3>1, QuietHandled DEF Catching
      <3>4. QED
        BY <3>2, <3>3
    <2>4. QED
      BY <2>2, <2>3, QuietOnce
  <1>3. CASE ReconcileEnd(i)
    <2>1. Quiet
      BY <1>0, <1>3, SameRecalls DEF ReconcileEnd, Quiet, worldVars, dbVars
    <2>2. /\ pass[i].kind = "reconcile" /\ pass[i].uids = {}
          /\ \A j \in Instances : j # i => pass'[j] = pass[j]
          /\ pass'[i].kind # "reconcile"
      BY <1>3, FinishMoves DEF ReconcileEnd, At, TypeInv, Entered, Frame, NoPass
    <2>3. ASSUME ~history'.behind
          PROVE  Caught' /\ Catching'
      <3>1. Catching /\ DOMAIN markers' = DOMAIN markers
        BY <2>1, <2>3 DEF OnceInv, Known, Quiet, Recalls
      <3>2. \A u \in DOMAIN markers : Handled(u)
        BY <2>2, <3>1 DEF Catching
      <3>3. Caught' /\ Catching'
        BY <2>1, <3>1, <3>2, QuietHandled DEF Caught, Catching
      <3>4. QED
        BY <3>3
    <2>4. QED
      BY <2>1, <2>3, QuietOnce
  <1>4. QED
    BY <1>1, <1>2, <1>3
-----------------------------------------------------------------------------
(* Steps that record something.                                            *)

LEMMA HandledStays ==
  ASSUME TypeOK, NEW u, Handled(u), pf \subseteq pf', alloc' \in Nat, alloc <= alloc',
         markers'[u] = markers[u], history'.archived = history.archived, u \in Uids
  PROVE  Handled(u)'
  <1>1. alloc \in Nat /\ u \in Nat
    BY DEF TypeOK, Uids
  <1>2. QED
    BY <1>1 DEF Handled, Open, AlreadyProcessed, Has

\* The marker of a UID that is taken, or of a file that has been processed, is handled.
LEMMA ViolationHandled ==
  ASSUME TypeOK, OnceInv, ~history.behind, NEW u \in DOMAIN markers,
         UniqueViolation(u, markers[u])
  PROVE  Handled(u)
  <1> SUFFICES ASSUME Open(markers[u])
               PROVE  AlreadyProcessed(markers[u]) /\ u <= alloc
    BY DEF Handled
  <1>1. Faithful /\ Single /\ Sound(pf, alloc) /\ markers[u] \notin BadNames
    BY DEF OnceInv, Known, Marks
  <1>2. PICK r \in pf : r.uid = u \/ (r.name = markers[u] /\ r.status = "DONE")
    BY DEF UniqueViolation, AlreadyProcessed, Has
  <1>3. r.uid = u /\ r.name = markers[u]
    BY <1>1, <1>2 DEF Single, Faithful
  <1>4. r.status = "DONE" /\ r.uid <= alloc
    BY <1>1, <1>3 DEF Sound, TypeOK, Row, Open
  <1>5. QED
    BY <1>3, <1>4 DEF AlreadyProcessed, Has

\* A marker brings back the row of its file.
LEMMA RecoverOnce ==
  ASSUME TypeInv, OnceInv, Tame, NEW i \in Instances, RecoverProcessedFile(i)
  PROVE  OnceInv'
  <1>0. /\ TypeOK /\ DOMAIN history = Remembered
        /\ UNCHANGED <<life, markers, backup>>
    BY RecoverMoves DEF TypeInv, OnceInv, Told
  <1>1. PICK uid \in DOMAIN markers :
          /\ \A j \in Instances : pass'[j].kind = "reconcile" =>
               pass[j].kind = "reconcile" /\ pass[j].uids \ {uid} \subseteq pass'[j].uids
          /\ \/ /\ Recoverable(uid, markers[uid])
                /\ pf' = pf \cup {[uid |-> uid, name |-> markers[uid], status |-> "DONE"]}
                /\ alloc' = Floor(uid) /\ UNCHANGED history
             \/ ~Recoverable(uid, markers[uid]) /\ UNCHANGED <<pf, alloc, history>>
             \/ /\ UNCHANGED <<pf, alloc>>
                /\ history' = [history EXCEPT !.behind = @ \/ history.restored]
    <2>1. PICK uid \in pass[i].uids :
            /\ uid \in DOMAIN markers /\ pass'[i].uids = pass[i].uids \ {uid}
            /\ \/ /\ Recoverable(uid, markers[uid])
                  /\ pf' = pf \cup {[uid |-> uid, name |-> markers[uid], status |-> "DONE"]}
                  /\ alloc' = Floor(uid) /\ UNCHANGED history
               \/ ~Recoverable(uid, markers[uid]) /\ UNCHANGED <<pf, alloc, history>>
               \/ /\ UNCHANGED <<pf, alloc>>
                  /\ history' = [history EXCEPT !.behind = @ \/ history.restored]
      BY RecoverMoves, Zenon
    <2>2. \A j \in Instances : pass'[j].kind = "reconcile" =>
            pass[j].kind = "reconcile" /\ pass[j].uids \ {uid} \subseteq pass'[j].uids
      BY <2>1, RecoverMoves DEF Frame
    <2>3. QED
      BY <2>1, <2>2, Zenon
  <1>2. CASE UNCHANGED <<pf, alloc>> /\ history' = [history EXCEPT !.behind = @ \/ history.restored]
    <2>1. Recalls /\ (history.restored => history'.behind)
      BY <1>0, <1>2, BehindRecalls, Zenon
    <2>2. Quiet
      BY <1>0, <1>2, <2>1 DEF Quiet
    <2>3. ASSUME ~history'.behind
          PROVE  Caught' /\ Catching'
      <3>1. Caught /\ Ready
        BY <2>1, <2>3 DEF OnceInv, Known, Recalls, Ready
      <3>2. QED
        BY <1>0, <2>2, <3>1, QuietHandled DEF Caught, Catching
    <2>4. QED
      BY <2>2, <2>3, QuietOnce
  <1>3. CASE ~Recoverable(uid, markers[uid]) /\ UNCHANGED <<pf, alloc, history>>
    <2>1. Quiet
      BY <1>0, <1>3, SameRecalls DEF Quiet
    <2>2. ASSUME ~history'.behind
          PROVE  Caught' /\ Catching'
      <3>1. Caught /\ Catching /\ ~history.behind
        BY <1>3, <2>2 DEF OnceInv, Known
      <3>2. Handled(uid)
        BY <1>0, <1>3, <3>1, ViolationHandled DEF Recoverable
      <3>3. Ready' => Ready
        BY <1>0, <1>3 DEF Ready
      <3>4. Caught'
        BY <1>0, <2>1, <3>1, <3>3, QuietHandled DEF Caught
      <3>5. Catching'
        BY <1>0, <1>1, <2>1, <3>1, <3>2, QuietHandled DEF Catching
      <3>6. QED
        BY <3>4, <3>5
    <2>3. QED
      BY <2>1, <2>2, QuietOnce
  <1>4. CASE /\ Recoverable(uid, markers[uid])
             /\ pf' = pf \cup {[uid |-> uid, name |-> markers[uid], status |-> "DONE"]}
             /\ alloc' = Floor(uid) /\ UNCHANGED history
    <2> DEFINE n == markers[uid]
               new == [uid |-> uid, name |-> n, status |-> "DONE"]
    <2>1. new.uid = uid /\ new.name = n /\ new.status = "DONE" /\ pf' = pf \cup {new}
      BY <1>4
    <2>2. /\ uid \in Nat /\ alloc \in Nat /\ alloc' \in Nat /\ alloc <= alloc' /\ uid <= alloc'
          /\ pf \subseteq Row /\ DOMAIN markers \subseteq Uids
      BY <1>0, <1>4 DEF Floor, TypeOK, Uids
    <2>3. \A r \in pf : r.uid # uid
      BY <1>4 DEF Recoverable, UniqueViolation
    <2>4. history' = history /\ markers' = markers /\ backup' = backup
      BY <1>0, <1>4
    <2> HIDE DEF new
    <2>5. Told' /\ Marks'
      BY <2>4, Zenon DEF OnceInv, Told, Marks
    <2>6. Sound(pf, alloc)'
      <3>1. Sound(pf, alloc) /\ history.runs[n] > 0
        BY DEF OnceInv, Marks
      <3>2. \A r \in pf : r.uid \in Nat
        BY <2>2 DEF Row, Uids
      <3>3. QED
        BY <2>1, <2>2, <2>3, <2>4, <3>1, <3>2 DEF Sound
    <2>7. Sound(backup.pf, backup.alloc)'
      BY <2>4, Zenon DEF OnceInv, Sound
    <2>8. \A u, m : HasRow(u, m) => HasRow(u, m)'
      BY <2>1 DEF HasRow
    <2>9. Works'
      BY <2>8 DEF Tame, Works
    <2>10. Original'
      <3>1. backup.alloc \in Nat
        BY <1>0 DEF TypeOK
      <3>2. \A u \in DOMAIN markers : u \in Nat
        BY <2>2 DEF Uids
      <3>3. QED
        BY <2>1, <2>2, <2>4, <2>8, <3>1, <3>2 DEF OnceInv, Original
    <2>11. ASSUME ~history'.behind
           PROVE  Faithful' /\ Single' /\ AtMostOnce' /\ Caught' /\ Catching'
      <3>1. Faithful /\ Single /\ AtMostOnce /\ Caught /\ Catching
        BY <2>4, <2>11 DEF OnceInv, Known
      <3>2. Faithful'
        BY <2>1, <2>4, <3>1 DEF Faithful, Open
      <3>3. Single'
        BY <2>1, <2>4, <3>1 DEF Single, Open
      <3>4. \A m : AlreadyProcessed(m) => AlreadyProcessed(m)'
        BY <2>1 DEF AlreadyProcessed, Has
      <3>5. AtMostOnce'
        BY <2>4, <3>1, <3>4 DEF AtMostOnce, Open
      <3>6. \A u \in DOMAIN markers : Handled(u) => Handled(u)'
        BY <1>0, <2>1, <2>2, <2>4, HandledStays
      <3>7. Handled(uid)'
        BY <2>1, <2>2, <2>4 DEF Handled, AlreadyProcessed, Has
      <3>8. Caught'
        BY <1>0, <2>4, <3>1, <3>6 DEF Caught, Ready
      <3>9. Catching'
        BY <1>1, <2>4, <3>1, <3>6, <3>7 DEF Catching
      <3>10. QED
        BY <3>2, <3>3, <3>5, <3>8, <3>9
    <2>12. QED
      BY <2>5, <2>6, <2>7, <2>9, <2>10, <2>11 DEF OnceInv, Known
  <1>5. QED
    BY <1>1, <1>2, <1>3, <1>4
\* A file that was never archived, has no row and is good has not been processed before.
LEMMA FirstRun ==
  ASSUME OnceInv, Ready, ~history.behind, NEW n \in Names \ BadNames, Open(n), ~AlreadyProcessed(n)
  PROVE  history.runs[n] = 0
  <1>1. AtMostOnce /\ history.runs[n] \in Nat
    BY DEF OnceInv, Known, Told
  <1>2. \A u \in DOMAIN markers : markers[u] # n
    BY ReadyHandled DEF Handled
  <1>3. history.runs[n] # 1
    BY <1>1, <1>2 DEF AtMostOnce
  <1>4. history.runs[n] <= 1
    BY <1>1 DEF AtMostOnce
  <1>5. QED
    BY <1>1, <1>3, <1>4

\* The verdict on a file, whose UID is new to rows and markers of files not archived.
LEMMA RecordedOnce ==
  ASSUME TypeInv, OnceInv, Tame, Ready, NEW n \in Names, NEW marked,
         Recorded(n, alloc + 1, marked), alloc' = alloc + 1, ~Settled(n), UNCHANGED backup
  PROVE  OnceInv'
  <1> DEFINE k == alloc + 1
             bad == n \in BadNames
             new == [uid |-> k, name |-> n, status |-> IF bad THEN "QUARANTINED" ELSE "DONE"]
  <1>1. /\ new.uid = k /\ new.name = n /\ pf' = pf \cup {new}
        /\ new.status = IF bad THEN "QUARANTINED" ELSE "DONE"
    BY DEF Recorded
  <1>2. \/ (bad \/ ~marked) /\ markers' = markers
        \/ /\ ~bad /\ marked
           /\ markers' = [u \in DOMAIN markers \cup {k} |-> IF u = k THEN n ELSE markers[u]]
    BY DEF Recorded
  <1>3. /\ DOMAIN history = Remembered /\ history.runs \in [Names -> Nat]
        /\ history.archived \subseteq Names
    BY DEF OnceInv, Told
  <1>4. /\ DOMAIN history' = Remembered
        /\ history'.runs = [history.runs EXCEPT ![n] = @ + 1]
        /\ history'.archived = history.archived
        /\ history'.restored <=> history.restored
        /\ history'.behind <=> history.behind \/ (history.restored /\ ~marked)
    BY <1>3, RecordedRecalls
  <1>5. /\ history'.runs \in [Names -> Nat] /\ history'.runs[n] = history.runs[n] + 1
        /\ \A m \in Names : m # n => history'.runs[m] = history.runs[m]
        /\ \A m \in Names : history.runs[m] \in Nat /\ history'.runs[m] >= history.runs[m]
    BY <1>3, <1>4
  <1>6. /\ alloc \in Nat /\ k \in Nat /\ k > alloc /\ pf \subseteq Row /\ backup.pf \subseteq Row
        /\ \A u \in DOMAIN markers : u \in Nat /\ markers[u] \in Names
        /\ \A r \in pf : r.uid \in Nat /\ r.name \in Names
        /\ backup.alloc \in Nat /\ DOMAIN markers \subseteq Uids /\ k \in Nat
    BY DEF TypeInv, TypeOK, Row, Uids
  <1>7. Sound(pf, alloc) /\ Sound(backup.pf, backup.alloc) /\ Marks /\ Original
    BY DEF OnceInv
  <1>8. \A r \in pf : r.uid # k /\ r.uid <= alloc /\ history.runs[r.name] > 0
    BY <1>6, <1>7 DEF Sound
  <1>9. DOMAIN markers' \subseteq DOMAIN markers \cup {k}
    BY <1>2
  <1>10. \A u \in DOMAIN markers : u # k => u \in DOMAIN markers' /\ markers'[u] = markers[u]
    BY <1>2
  <1>11. k \in DOMAIN markers' =>
           \/ ~bad /\ marked /\ markers'[k] = n
           \/ (bad \/ ~marked) /\ k \in DOMAIN markers /\ markers'[k] = markers[k]
    BY <1>2
  <1> HIDE DEF new, bad, k
  <1>12. Told'
    BY <1>3, <1>4, <1>5 DEF Told
  <1>13. Sound(pf, alloc)'
    BY <1>1, <1>4, <1>5, <1>6, <1>7, <1>8 DEF Sound, bad, k
  <1>14. Sound(backup.pf, backup.alloc)'
    BY <1>4, <1>5, <1>6, <1>7 DEF Sound, Row
  <1>15. \A u, m : HasRow(u, m) => HasRow(u, m)'
    BY <1>1 DEF HasRow
  <1>16. Works'
    BY <1>15 DEF Tame, Works
  <1>17. Marks'
    BY <1>2, <1>5, <1>6, <1>7 DEF Marks, bad
  <1>18. Original'
    <2> SUFFICES ASSUME ~history'.restored
                 PROVE  /\ ~history'.behind /\ backup.alloc <= k
                        /\ \A b \in backup.pf : HasRow(b.uid, b.name)'
                        /\ \A u \in DOMAIN markers' : u <= k
                        /\ \A r \in pf' : r.uid \in DOMAIN markers' => markers'[r.uid] = r.name
      BY DEF Original, k
    <2>1. /\ ~history.behind /\ backup.alloc <= alloc
          /\ \A b \in backup.pf : HasRow(b.uid, b.name)
          /\ \A u \in DOMAIN markers : u <= alloc
          /\ \A r \in pf : r.uid \in DOMAIN markers => markers[r.uid] = r.name
      BY <1>4, <1>7 DEF Original
    <2>2. k \notin DOMAIN markers
      BY <1>6, <2>1
    <2>3. \A r \in pf' : r.uid \in DOMAIN markers' => markers'[r.uid] = r.name
      BY <1>1, <1>8, <1>9, <1>10, <1>11, <2>1, <2>2
    <2>4. \A u \in DOMAIN markers' : u <= k
      BY <1>6, <1>9, <2>1
    <2>5. QED
      BY <1>4, <1>6, <1>15, <2>1, <2>3, <2>4
  <1>19. ASSUME ~history'.behind
         PROVE  Faithful' /\ Single' /\ AtMostOnce' /\ Caught' /\ Catching'
    <2>1. ~history.behind /\ Faithful /\ Single /\ AtMostOnce
      BY <1>4, <1>19 DEF OnceInv, Known
    <2>2. \A m : Open(m)' <=> Open(m)
      BY <1>4 DEF Open
    <2>3. ~bad /\ Open(n) => history.runs[n] = 0
      BY <2>1, FirstRun DEF Settled, bad
    <2>4. k \in DOMAIN markers => ~Open(markers[k])
      BY <1>6, <2>1, ReadyHandled DEF Handled
    <2>5. Faithful'
      <3>1. \A r \in pf : r.uid \in DOMAIN markers' =>
              markers'[r.uid] = r.name \/ ~Open(markers'[r.uid])
        BY <1>8, <1>9, <1>10, <2>1 DEF Faithful
      <3>2. k \in DOMAIN markers' => markers'[k] = n \/ ~Open(markers'[k])
        BY <1>11, <2>4
      <3>3. QED
        BY <1>1, <2>2, <3>1, <3>2 DEF Faithful
    <2>6. ASSUME NEW u \in DOMAIN markers, markers[u] = n, Open(n)
          PROVE  FALSE
      BY <1>7, <2>3, <2>6 DEF Marks, bad
    <2>7. Single'
      <3> SUFFICES ASSUME NEW u \in DOMAIN markers', Open(markers'[u])
                   PROVE  /\ \A v \in DOMAIN markers' : markers'[v] = markers'[u] => v = u
                          /\ \A r \in pf' : r.name = markers'[u] => r.uid = u
        BY <2>2 DEF Single
      <3>1. CASE u \in DOMAIN markers /\ u # k
        <4>1. markers'[u] = markers[u] /\ markers[u] # n
          BY <1>10, <2>6, <3>1
        <4>2. /\ \A v \in DOMAIN markers : markers[v] = markers[u] => v = u
              /\ \A r \in pf : r.name = markers[u] => r.uid = u
          BY <2>1, <3>1, <4>1 DEF Single
        <4>3. k \in DOMAIN markers' => markers'[k] # markers[u]
          BY <1>11, <2>4, <4>1
        <4>4. \A v \in DOMAIN markers' : markers'[v] = markers[u] => v = u
          BY <1>9, <1>10, <4>2, <4>3
        <4>5. QED
          BY <1>1, <4>1, <4>2, <4>4
      <3>2. CASE u = k
        <4>1. ~bad /\ markers'[u] = n
          BY <1>11, <2>4, <3>2
        <4>2. \A v \in DOMAIN markers' : markers'[v] = n => v = u
          BY <1>9, <1>10, <2>6, <3>2, <4>1
        <4>3. \A r \in pf : r.name # n
          BY <1>5, <1>8, <2>3, <4>1
        <4>4. QED
          BY <1>1, <3>2, <4>1, <4>2, <4>3
      <3>3. QED
        BY <1>9, <3>1, <3>2
    <2>8. \A m : AlreadyProcessed(m) => AlreadyProcessed(m)'
      BY <1>1 DEF AlreadyProcessed, Has
    <2>9. ~bad => AlreadyProcessed(n)'
      BY <1>1 DEF AlreadyProcessed, Has
    <2>10. AtMostOnce'
      <3> SUFFICES ASSUME NEW m \in Names \ BadNames, Open(m)
                   PROVE  /\ history'.runs[m] <= 1
                          /\ history'.runs[m] = 1 =>
                               \/ AlreadyProcessed(m)'
                               \/ history'.restored /\ \E u \in DOMAIN markers' : markers'[u] = m
        BY <2>2 DEF AtMostOnce
      <3>1. CASE m = n
        BY <1>5, <2>3, <2>9, <3>1 DEF bad
      <3>2. CASE m # n
        <4>1. history'.runs[m] = history.runs[m] /\ history.runs[m] <= 1
          BY <1>5, <2>1, <3>2 DEF AtMostOnce
        <4>2. ASSUME history.runs[m] = 1, ~AlreadyProcessed(m)
              PROVE  FALSE
          BY <2>1, <4>2, FirstRun
        <4>3. QED
          BY <2>8, <4>1, <4>2
      <3>3. QED
        BY <3>1, <3>2
    <2>11. ASSUME NEW u \in DOMAIN markers'
           PROVE  Handled(u)'
      <3>1. CASE u = k /\ markers'[k] = n /\ ~bad
        BY <1>6, <2>9, <3>1 DEF Handled, k
      <3>2. CASE u \in DOMAIN markers /\ markers'[u] = markers[u]
        <4>1. Handled(u) /\ u \in Uids
          BY <1>6, <2>1, <3>2, ReadyHandled
        <4>2. TypeOK /\ pf \subseteq pf' /\ alloc' \in Nat /\ alloc <= alloc'
          BY <1>1, <1>6 DEF TypeInv, k
        <4>3. QED
          BY <1>4, <3>2, <4>1, <4>2, HandledStays
      <3>3. QED
        BY <1>9, <1>10, <1>11, <3>1, <3>2
    <2>12. Caught' /\ Catching'
      BY <2>11 DEF Caught, Catching
    <2>13. QED
      BY <2>5, <2>7, <2>10, <2>12
  <1>20. QED
    BY <1>12, <1>13, <1>14, <1>16, <1>17, <1>18, <1>19 DEF OnceInv, Known
\* The rows of an archive pass become ARCHIVED, and their files are from then on.
LEMMA ArchivedOnce ==
  ASSUME TypeInv, OnceInv, Tame, Plain, NEW i \in Instances, MarkArchived(i)
  PROVE  OnceInv'
  <1> DEFINE flip(r) == IF r.uid \in Flipped(i) THEN [r EXCEPT !.status = "ARCHIVED"] ELSE r
             gone == NamesOf(pass[i].rows)
  <1>0. /\ TypeOK /\ pf \subseteq Row /\ DOMAIN history = Remembered
        /\ UNCHANGED <<markers, alloc, backup, life>>
    BY DEF TypeInv, TypeOK, MarkArchived, OnceInv, Told, worldVars
  <1>1. CASE UNCHANGED <<pf, history>>
    <2>1. Quiet
      BY <1>0, <1>1, SameRecalls DEF Quiet
    <2>2. QED
      BY <2>1, PlainOnce
  <1>2. CASE /\ pf' = {flip(r) : r \in pf}
             /\ history' = [history EXCEPT !.archived = @ \cup gone]
    <2>1. /\ DOMAIN history' = Remembered /\ history'.runs = history.runs
          /\ history'.archived = history.archived \cup gone
          /\ history'.restored <=> history.restored
          /\ history'.behind <=> history.behind
      BY <1>0, <1>2, ArchivedRecalls, Zenon
    <2>2. Sound(pf, alloc) /\ Sound(backup.pf, backup.alloc) /\ Works /\ Marks /\ Original
      BY DEF OnceInv
    <2>3. \A r \in pf : r.uid \in Flipped(i) => r.name \in gone
      <3>1. ASSUME NEW r \in pf, NEW a \in pass[i].rows, a.uid = r.uid
            PROVE  r.name \in gone
        BY <2>2, <3>1 DEF Works, HasRow, Sound, NamesOf
      <3>2. QED
        BY <3>1 DEF Flipped
    <2>4. \A r \in pf : /\ flip(r).uid = r.uid /\ flip(r).name = r.name
                        /\ \/ flip(r) = r /\ r.uid \notin Flipped(i)
                           \/ flip(r).status = "ARCHIVED" /\ r.name \in gone
      BY <1>0, <2>3 DEF Row
    <2>5. pf' = {flip(r) : r \in pf}
      BY <1>2
    <2> HIDE DEF flip, gone
    <2>6. gone \subseteq Names
      BY <1>0, Typed DEF gone, NamesOf, Passes, Row
    <2>7. Told' /\ Marks'
      BY <1>0, <2>1, <2>2, <2>6 DEF Told, Marks, OnceInv
    <2>8. Sound(pf, alloc)'
      BY <1>0, <2>1, <2>2, <2>4, <2>5 DEF Sound
    <2>9. Sound(backup.pf, backup.alloc)'
      BY <1>0, <2>1, <2>2 DEF Sound
    <2>10. \A u, m : HasRow(u, m) => HasRow(u, m)'
      BY <2>4, <2>5 DEF HasRow
    <2>11. Works'
      BY <2>10 DEF Tame, Works
    <2>12. Original'
      BY <1>0, <2>1, <2>2, <2>4, <2>5, <2>10 DEF Original
    <2>13. ASSUME ~history'.behind
           PROVE  Faithful' /\ Single' /\ AtMostOnce' /\ Caught' /\ Catching'
      <3>1. Faithful /\ Single /\ AtMostOnce /\ Caught /\ Catching
        BY <2>1, <2>13 DEF OnceInv, Known
      <3>2. \A m : Open(m)' <=> Open(m) /\ m \notin gone
        BY <2>1 DEF Open
      <3>3. Faithful' /\ Single'
        BY <1>0, <2>4, <2>5, <3>1, <3>2 DEF Faithful, Single
      <3>4. \A m : m \notin gone /\ AlreadyProcessed(m) => AlreadyProcessed(m)'
        BY <2>4, <2>5 DEF AlreadyProcessed, Has
      <3>5. AtMostOnce'
        BY <1>0, <2>1, <3>1, <3>2, <3>4 DEF AtMostOnce
      <3>6. \A u \in DOMAIN markers : Handled(u) => Handled(u)'
        BY <1>0, <3>2, <3>4 DEF Handled
      <3>7. Caught'
        BY <1>0, <2>1, <3>1, <3>6 DEF Caught, Ready
      <3>8. Catching'
        BY <1>0, <3>1, <3>6 DEF Catching, Plain
      <3>9. QED
        BY <3>3, <3>5, <3>7, <3>8
    <2>14. QED
      BY <2>7, <2>8, <2>9, <2>11, <2>12, <2>13 DEF OnceInv, Known
  <1>3. QED
    BY <1>1, <1>2 DEF MarkArchived

LEMMA BackupOnce ==
  ASSUME TypeInv, OnceInv, Backup
  PROVE  OnceInv'
  <1>1. /\ backup'.pf = pf /\ backup'.alloc = alloc /\ alloc \in Nat
        /\ UNCHANGED <<pf, alloc, markers, history, pass, life, upload>>
    BY DEF Backup, TypeInv, TypeOK, worldVars
  <1>2. /\ history' = history /\ markers' = markers /\ pf' = pf /\ alloc' = alloc
        /\ pass' = pass /\ life' = life
    BY <1>1
  <1>3. Told' /\ Marks' /\ Sound(pf, alloc)'
    BY <1>2, Zenon DEF OnceInv, Told, Marks, Sound
  <1>4. Sound(backup.pf, backup.alloc)'
    BY <1>1, <1>2, Zenon DEF OnceInv, Sound
  <1>5. Works'
    BY <1>1 DEF OnceInv, Works, HasRow
  <1>6. Original'
    BY <1>1, <1>2 DEF OnceInv, Original, HasRow
  <1>7. Known'
    <2>1. (Faithful' <=> Faithful) /\ (Single' <=> Single)
      BY <1>2, Zenon DEF Faithful, Single, Open
    <2>2. AtMostOnce' <=> AtMostOnce
      BY <1>2, Zenon DEF AtMostOnce, Open, AlreadyProcessed, Has
    <2>3. \A u : Handled(u)' <=> Handled(u)
      BY <1>2, Zenon DEF Handled, Open, AlreadyProcessed, Has
    <2>4. (Caught' <=> Caught) /\ (Catching' <=> Catching)
      BY <1>2, <2>3 DEF Caught, Catching, Ready
    <2>5. history'.behind <=> history.behind
      BY <1>2, Zenon
    <2>6. QED
      BY <2>1, <2>2, <2>4, <2>5 DEF OnceInv, Known
  <1>8. QED
    BY <1>3, <1>4, <1>5, <1>6, <1>7 DEF OnceInv

\* What the restored database does not know has markers, or is forgotten for good.
LEMMA RestoreOnce ==
  ASSUME TypeInv, OnceInv, Restore
  PROVE  OnceInv'
  <1>1. /\ pf' = backup.pf /\ alloc' = backup.alloc /\ ~history.restored
        /\ UNCHANGED <<backup, markers, pass, life, upload>>
        /\ \A i \in Instances : life[i] = "down"
    BY DEF Restore, worldVars
  <1>2. /\ DOMAIN history' = Remembered
        /\ history'.runs = history.runs /\ history'.archived = history.archived
        /\ history'.restored
        /\ history'.behind <=> \E r \in pf \ backup.pf :
                                 r.status # "QUARANTINED" /\ r.uid \notin DOMAIN markers
    BY RestoreRecalls DEF OnceInv, Told
  <1>3. Sound(pf, alloc) /\ Sound(backup.pf, backup.alloc) /\ Works /\ Marks /\ Told
    BY DEF OnceInv
  <1>4. /\ ~history.behind /\ \A b \in backup.pf : HasRow(b.uid, b.name)
        /\ \A r \in pf : r.uid \in DOMAIN markers => markers[r.uid] = r.name
    BY <1>1 DEF OnceInv, Original
  <1>5. Faithful /\ Single /\ AtMostOnce
    BY <1>4 DEF OnceInv, Known
  <1>6. Told' /\ Marks'
    BY <1>1, <1>2, <1>3 DEF Told, Marks
  <1>7. Sound(pf, alloc)' /\ Sound(backup.pf, backup.alloc)'
    BY <1>1, <1>2, <1>3 DEF Sound
  <1>8. Works'
    BY <1>1, <1>3 DEF Works
  <1>9. Original' /\ ~Ready'
    BY <1>1, <1>2 DEF Original, Ready
  <1>10. Caught' /\ Catching'
    BY <1>1, <1>3, <1>9 DEF Caught, Catching, Works
  <1>11. \A m : Open(m)' <=> Open(m)
    BY <1>2 DEF Open
  <1>12. Faithful'
    BY <1>1, <1>4, <1>11 DEF Faithful, HasRow
  <1>13. Single'
    BY <1>1, <1>4, <1>5, <1>11 DEF Single, HasRow
  <1>14. ASSUME ~history'.behind
         PROVE  AtMostOnce'
    <2> SUFFICES ASSUME NEW m \in Names \ BadNames, Open(m), history.runs[m] = 1,
                        ~AlreadyProcessed(m)'
                 PROVE  \E u \in DOMAIN markers : markers[u] = m
      BY <1>1, <1>2, <1>5, <1>11 DEF AtMostOnce
    <2>1. PICK r \in pf : r.name = m /\ r.status = "DONE"
      BY <1>1, <1>5 DEF AtMostOnce, AlreadyProcessed, Has
    <2>2. r \notin backup.pf
      BY <1>1, <2>1 DEF AlreadyProcessed, Has
    <2>3. r.uid \in DOMAIN markers
      BY <1>2, <1>14, <2>1, <2>2
    <2>4. QED
      BY <1>4, <2>1, <2>3
  <1>15. QED
    BY <1>6, <1>7, <1>8, <1>9, <1>10, <1>12, <1>13, <1>14 DEF OnceInv, Known
-----------------------------------------------------------------------------
(* What follows.                                                           *)

\* Steps that record nothing and leave history, or add to its counters, as they are.
LEMMA QuietStep ==
  ASSUME TypeInv, DOMAIN history = Remembered, NEW i \in Instances,
         FetchStart(i) \/ FetchCheck(i) \/ FetchStat(i) \/ FetchOne(i) \/ FetchEnd(i)
         \/ ArchiveStart(i) \/ ArchiveBuild(i) \/ ArchivePrune(i) \/ LockLost(i) \/ Terminate(i)
         \/ Exit(i) \/ Crash(i)
  PROVE  Quiet
  <1>1. UNCHANGED <<pf, alloc, backup, markers>>
    BY DEF FetchStart, FetchCheck, FetchStat, FetchOne, FetchEnd, ArchiveStart, ArchiveBuild,
           ArchivePrune, LockLost, Terminate, Exit, Crash, Gone, worldVars, dbVars
  <1>2. CASE FetchOne(i)
    <2>1. UNCHANGED history \/ \E v : history' = [history EXCEPT !["landed"] = v]
      BY <1>2, Zenon DEF FetchOne
    <2>2. QED
      BY <1>1, <2>1, CountRecalls, SameRecalls DEF Quiet
  <1>3. CASE ~FetchOne(i)
    <2>1. UNCHANGED history
      BY <1>3 DEF FetchStart, FetchCheck, FetchStat, FetchEnd, ArchiveStart, ArchiveBuild,
                  ArchivePrune, LockLost, Terminate, Exit, Crash, Gone
    <2>2. QED
      BY <1>1, <2>1, SameRecalls DEF Quiet
  <1>4. QED
    BY <1>2, <1>3

\* The verdict on an uploaded file; it may also have been recorded in the meantime.
LEMMA UploadOnce ==
  ASSUME TypeInv, OnceInv, Tame, Plain, NEW i \in Instances, UploadRecord(i)
  PROVE  OnceInv'
  <1>1. PICK n \in upload[i] :
          /\ alloc' = alloc + 1 /\ UNCHANGED backup
          /\ \/ UNCHANGED <<pf, markers, history>>
             \/ /\ ~UniqueViolation(alloc + 1, n)
                /\ \E marked \in BOOLEAN : Recorded(n, alloc + 1, marked)
    BY DEF UploadRecord
  <1>2. n \in Names /\ n \notin BadNames /\ Ready
    BY DEF UploadRecord, TypeInv, TypeOK, OnceInv, Works, Ready
  <1>3. CASE ~UniqueViolation(alloc + 1, n) /\ \E marked \in BOOLEAN : Recorded(n, alloc + 1, marked)
    <2>0. PICK marked \in BOOLEAN : Recorded(n, alloc + 1, marked)
      BY <1>3
    <2>1. ~Settled(n)
      BY <1>2, <1>3 DEF UniqueViolation, Settled, AlreadyQuarantined, Has, OnceInv, Sound
    <2>2. QED
      BY <1>1, <1>2, <2>0, <2>1, RecordedOnce
  <1>4. CASE UNCHANGED <<pf, markers, history>>
    <2>1. /\ alloc \in Nat /\ alloc' \in Nat /\ alloc <= alloc'
          /\ \A r \in pf : r.uid \in Nat
          /\ \A u \in DOMAIN markers : u \in Nat /\ u \in Uids
          /\ backup.alloc \in Nat /\ backup' = backup /\ TypeOK
      BY <1>1 DEF TypeInv, TypeOK, Row, Uids
    <2>2. history' = history /\ markers' = markers /\ pf' = pf /\ backup' = backup
      BY <1>1, <1>4
    <2>3. Told' /\ Marks' /\ Sound(backup.pf, backup.alloc)'
      BY <2>2, Zenon DEF OnceInv, Told, Marks, Sound
    <2>4. Sound(pf, alloc)'
      BY <2>1, <2>2 DEF OnceInv, Sound
    <2>5. Works'
      BY <2>2 DEF Tame, Works, HasRow
    <2>6. Original'
      BY <2>1, <2>2 DEF OnceInv, Original, HasRow
    <2>7. ASSUME ~history'.behind
          PROVE  Faithful' /\ Single' /\ AtMostOnce' /\ Caught' /\ Catching'
      <3>1. Faithful /\ Single /\ AtMostOnce /\ Caught /\ Catching
        BY <2>2, <2>7 DEF OnceInv, Known
      <3>2. Faithful' /\ Single'
        BY <2>2, <3>1 DEF Faithful, Single, Open
      <3>3. AtMostOnce'
        BY <2>2, <3>1 DEF AtMostOnce, Open, AlreadyProcessed, Has
      <3>4. \A u \in DOMAIN markers : Handled(u) => Handled(u)'
        BY <2>1, <2>2, HandledStays
      <3>5. Caught'
        BY <1>2, <2>2, <3>1, <3>4 DEF Caught
      <3>6. Catching'
        BY <2>2, <3>1, <3>4 DEF Catching, Plain
      <3>7. QED
        BY <3>2, <3>3, <3>5, <3>6
    <2>8. QED
      BY <2>3, <2>4, <2>5, <2>6, <2>7 DEF OnceInv, Known
  <1>5. QED
    BY <1>1, <1>3, <1>4

LEMMA OnceStep == TypeInv /\ OnceInv /\ [Next]_vars => OnceInv'
  <1> SUFFICES ASSUME TypeInv, OnceInv, [Next]_vars
               PROVE  OnceInv'
    OBVIOUS
  <1>0. Tame /\ DOMAIN history = Remembered
    BY TameStep DEF OnceInv, Told
  <1>1. ASSUME NEW i \in Instances,
               StartReconcile(i) \/ StartSkipped(i) \/ RecoverProcessedFile(i) \/ ReconcileEnd(i)
        PROVE  OnceInv'
    BY <1>0, <1>1, StartsOnce, RecoverOnce
  <1> SUFFICES ASSUME Plain
               PROVE  OnceInv'
    BY <1>1, PlainStep DEF OnceInv
  <1>2. Quiet => OnceInv'
    BY <1>0, PlainOnce
  <1>3. ASSUME NEW i \in Instances, Step(i)
        PROVE  OnceInv'
    BY <1>0, <1>1, <1>2, <1>3, QuietStep, UploadOnce, ArchivedOnce DEF Step
  <1>4. ASSUME NEW i \in Instances, NEW loop \in Loops, Hang(i, loop)
        PROVE  Quiet
    BY <1>0, <1>4, SameRecalls DEF Hang, Quiet, worldVars, dbVars
  <1>5. ASSUME NEW i \in Instances, NEW n \in Names, Upload(i, n)
        PROVE  Quiet
    <2>1. Recalls
      BY <1>0, <1>5, CountRecalls, Zenon DEF Upload
    <2>2. QED
      BY <1>5, <2>1 DEF Upload, Quiet, worldVars, dbVars
  <1>6. ASSUME NEW n \in Names, Rearrival(n)
        PROVE  Quiet
    BY <1>0, <1>6, SameRecalls DEF Rearrival, Quiet, dbVars
  <1>7. ASSUME NEW n \in Names, Process(n)
        PROVE  OnceInv'
    <2>1. PICK marked \in BOOLEAN : Recorded(n, alloc + 1, marked)
      BY <1>7 DEF Process
    <2>2. alloc' = alloc + 1 /\ ~Settled(n) /\ UNCHANGED backup /\ Ready
      BY <1>7 DEF Process, Ready
    <2>3. QED
      BY <1>0, <2>1, <2>2, RecordedOnce
  <1>8. UNCHANGED vars => Quiet
    BY <1>0, SameRecalls DEF vars, worldVars, dbVars, Quiet
  <1>9. QED
    BY <1>2, <1>3, <1>4, <1>5, <1>6, <1>7, <1>8, BackupOnce, RestoreOnce DEF Next

LEMMA OnceInit == Init => OnceInv
  <1> SUFFICES ASSUME Init
               PROVE  OnceInv
    OBVIOUS
  <1>1. /\ pf = {} /\ DOMAIN markers = {} /\ alloc = 0 /\ backup.pf = {} /\ backup.alloc = 0
        /\ history = Fresh
    BY DEF Init
  <1>2. \A i \in Instances : pass[i].kind = "none" /\ pass[i].rows = {} /\ upload[i] = {}
    BY DEF Init, NoPass
  <1>3. /\ DOMAIN history = Remembered /\ history.runs = [n \in Names |-> 0]
        /\ history.archived = {} /\ history.restored = FALSE /\ history.behind = FALSE
    BY <1>1, Zenon DEF Fresh, Remembered
  <1>4. Told /\ Marks /\ Works /\ Sound(pf, alloc) /\ Sound(backup.pf, backup.alloc)
    BY <1>1, <1>2, <1>3 DEF Told, Marks, Works, Sound
  <1>5. Original
    BY <1>1, <1>3 DEF Original
  <1>6. Faithful /\ Single /\ AtMostOnce /\ Caught /\ Catching
    BY <1>1, <1>3 DEF Faithful, Single, AtMostOnce, Caught, Catching
  <1>7. QED
    BY <1>4, <1>5, <1>6 DEF OnceInv, Known

LEMMA OnceKept == Spec => [](TypeInv /\ OnceInv)
  BY TypeInit, TypeStep, OnceInit, OnceStep, PTL DEF Spec

\* A fetched file is processed once, through crashes, drains, uploads, archive runs and a
\* restore of the database: it is processed again only if it had been archived, or if its
\* record was lost and its marker not written, or not looked at before files were processed.
THEOREM FilesProcessedOnce == Spec => []ProcessedOnce
  <1>1. TypeInv /\ OnceInv => ProcessedOnce
    <2> SUFFICES ASSUME OnceInv, NEW n \in Names, history.runs[n] > 1,
                        n \notin history.archived, n \notin BadNames, ~history.behind
                 PROVE  FALSE
      BY DEF ProcessedOnce
    <2>1. history.runs[n] \in Nat /\ history.runs[n] <= 1
      BY DEF OnceInv, Known, AtMostOnce, Told, Open
    <2>2. QED
      BY <2>1
  <1>2. QED
    BY <1>1, OnceKept, PTL

\* No UID is issued that a completion marker holds, also after a restore: whoever takes a
\* UID, all markers have been looked at, and the allocator is beyond them.
THEOREM MarkersKeepTheirUids == Spec => UidsNotReissued
  <1>1. TypeInv /\ OnceInv /\ [Next]_vars =>
          [alloc' > alloc /\ UNCHANGED pass =>
             alloc' \notin DOMAIN markers \/ history.behind \/ history.archived # {}]_vars
    <2> SUFFICES ASSUME TypeInv, OnceInv, [Next]_vars, alloc' > alloc, UNCHANGED pass,
                        ~history.behind, history.archived = {}
                 PROVE  alloc' \notin DOMAIN markers
      OBVIOUS
    <2>1. alloc \in Nat /\ alloc' # alloc /\ \A u \in DOMAIN markers : u \in Nat
      BY DEF TypeInv, TypeOK, Uids
    <2>2. Ready
      <3>1. ASSUME NEW i \in Instances, Step(i)
            PROVE  Ready
        <4>1. ~RecoverProcessedFile(i)
          <5>1. ASSUME RecoverProcessedFile(i)
                PROVE  FALSE
            <6>1. PICK uid \in pass[i].uids : pass'[i].uids = pass[i].uids \ {uid}
              BY <5>1, RecoverMoves
            <6>2. QED
              BY <6>1
          <5>2. QED
            BY <5>1
        <4>2. UploadRecord(i)
          BY <2>1, <3>1, <4>1 DEF Step, StartReconcile, StartSkipped, ReconcileEnd, FetchStart,
             FetchCheck, FetchStat, FetchOne, FetchEnd, ArchiveStart, ArchiveBuild, ArchivePrune,
             MarkArchived, LockLost, Terminate, Exit, Crash, Gone, dbVars
        <4>3. QED
          BY <4>2 DEF UploadRecord, Ready
      <3>2. ASSUME NEW n \in Names, Process(n)
            PROVE  Ready
        BY <3>2 DEF Process, Ready
      <3>3. ASSUME Restore
            PROVE  FALSE
        BY <2>1, <3>3 DEF Restore, OnceInv, Original, TypeInv, TypeOK
      <3>4. QED
        BY <2>1, <3>1, <3>2, <3>3 DEF Next, Hang, Upload, Rearrival, Backup, vars, dbVars
    <2>3. \A u \in DOMAIN markers : u <= alloc
      BY <2>2, ReadyHandled DEF Handled, Open
    <2>4. QED
      BY <2>1, <2>3
  <1>2. QED
    BY <1>1, OnceKept, PTL DEF Spec, UidsNotReissued
=============================================================================
