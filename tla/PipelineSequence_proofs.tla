----------------------- MODULE PipelineSequence_proofs -----------------------
(***************************************************************************)
(* Theorems about PipelineConfig that relate a document to what the engine *)
(* has done with it: which batches leave gaps in a destination's sequence, *)
(* when a destination keeps one sequence, and that numbers stay in bounds. *)
(***************************************************************************)
EXTENDS PipelineConfig_proofs

-----------------------------------------------------------------------------
(* What happened, part by part.                                            *)

IsLog(h) ==
  /\ IsRecord(h)
  /\ h.version = [p \in Pipelines |-> h.version[p]] /\ \A p \in Pipelines : h.version[p] \in Nat
  /\ h.raced = [p \in Pipelines |-> h.raced[p]]
  /\ h.named = [p \in Pipelines |-> h.named[p]] /\ \A p \in Pipelines : IsFiniteSet(h.named[p])
  /\ h.used = [p \in Pipelines |-> h.used[p]]
  /\ \A p \in Pipelines : h.used[p] = [d \in DestNames |-> h.used[p][d]]
  /\ h.batches \in Nat

\* The parts one record has in common with another.
SameBatches(h, g) == h.batches = g.batches /\ h.closed = g.closed
SameUse(h, g)     == h.used = g.used

\* One document is written once more.
Bumped(h, g, p) ==
  \A q \in Pipelines : h.version[q] = IF q = p THEN g.version[q] + 1 ELSE g.version[q]

\* A name is added to those of one pipeline.
Called(h, g, p, n) ==
  \A q \in Pipelines : h.named[q] = IF q = p THEN g.named[q] \cup {n} ELSE g.named[q]

\* Writing with a copy that is out of date is remembered.
Races(h, g, p, late) ==
  \A q \in Pipelines : ~h.raced[q] => ~g.raced[q] /\ (q = p => ~late)

\* One part of the record, for one pipeline.
PutVersion(h, p, v) == [h EXCEPT !.version[p] = v]
PutNames(h, p, s)   == [h EXCEPT !.named[p] = s]
PutRaced(h, p, r)   == [h EXCEPT !.raced[p] = r]
PutUse(h, p, f)     == [h EXCEPT !.used[p] = f]

LEMMA VersionPart ==
  ASSUME NEW h, IsLog(h), NEW p, NEW v \in Nat
  PROVE  LET e == PutVersion(h, p, v)
         IN /\ IsLog(e) /\ SameBatches(e, h) /\ SameUse(e, h) /\ e.raced = h.raced /\ e.named = h.named
            /\ \A q \in Pipelines : e.version[q] = IF q = p THEN v ELSE h.version[q]
  <1> DEFINE e == PutVersion(h, p, v)
  <1>1. /\ IsRecord(e) /\ SameBatches(e, h) /\ SameUse(e, h) /\ e.raced = h.raced /\ e.named = h.named
        /\ e.version = [h.version EXCEPT ![p] = v]
    BY DEF PutVersion, IsLog, IsRecord, SameBatches, SameUse
  <1> HIDE DEF e
  <1>2. \A q \in Pipelines : e.version[q] = IF q = p THEN v ELSE h.version[q]
    BY <1>1 DEF IsLog
  <1>3. e.version = [q \in Pipelines |-> e.version[q]]
    BY <1>1 DEF IsLog
  <1>4. IsLog(e)
    BY <1>1, <1>2, <1>3 DEF IsLog, SameBatches, SameUse
  <1>5. QED
    BY <1>1, <1>2, <1>4 DEF e

LEMMA NamedPart ==
  ASSUME NEW h, IsLog(h), NEW p, NEW s, IsFiniteSet(s)
  PROVE  LET e == PutNames(h, p, s)
         IN /\ IsLog(e) /\ SameBatches(e, h) /\ SameUse(e, h) /\ e.raced = h.raced
            /\ e.version = h.version
            /\ \A q \in Pipelines : e.named[q] = IF q = p THEN s ELSE h.named[q]
  <1> DEFINE e == PutNames(h, p, s)
  <1>1. /\ IsRecord(e) /\ SameBatches(e, h) /\ SameUse(e, h) /\ e.raced = h.raced
        /\ e.version = h.version
        /\ e.named = [h.named EXCEPT ![p] = s]
    BY DEF PutNames, IsLog, IsRecord, SameBatches, SameUse
  <1> HIDE DEF e
  <1>2. \A q \in Pipelines : e.named[q] = IF q = p THEN s ELSE h.named[q]
    BY <1>1 DEF IsLog
  <1>3. e.named = [q \in Pipelines |-> e.named[q]]
    BY <1>1 DEF IsLog
  <1>4. IsLog(e)
    BY <1>1, <1>2, <1>3 DEF IsLog, SameBatches, SameUse
  <1>5. QED
    BY <1>1, <1>2, <1>4 DEF e

LEMMA RacedPart ==
  ASSUME NEW h, IsLog(h), NEW p, NEW r
  PROVE  LET e == PutRaced(h, p, r)
         IN /\ IsLog(e) /\ SameBatches(e, h) /\ SameUse(e, h) /\ e.version = h.version
            /\ e.named = h.named
            /\ \A q \in Pipelines : e.raced[q] = IF q = p THEN r ELSE h.raced[q]
  <1> DEFINE e == PutRaced(h, p, r)
  <1>1. /\ IsRecord(e) /\ SameBatches(e, h) /\ SameUse(e, h) /\ e.version = h.version
        /\ e.named = h.named
        /\ e.raced = [h.raced EXCEPT ![p] = r]
    BY DEF PutRaced, IsLog, IsRecord, SameBatches, SameUse
  <1> HIDE DEF e
  <1>2. \A q \in Pipelines : e.raced[q] = IF q = p THEN r ELSE h.raced[q]
    BY <1>1 DEF IsLog
  <1>3. e.raced = [q \in Pipelines |-> e.raced[q]]
    BY <1>1 DEF IsLog
  <1>4. IsLog(e)
    BY <1>1, <1>2, <1>3 DEF IsLog, SameBatches, SameUse
  <1>5. QED
    BY <1>1, <1>2, <1>4 DEF e

LEMMA UsedPart ==
  ASSUME NEW h, IsLog(h), NEW p, NEW f, f = [d \in DestNames |-> f[d]]
  PROVE  LET e == PutUse(h, p, f)
         IN /\ IsLog(e) /\ SameBatches(e, h) /\ e.version = h.version
            /\ e.named = h.named /\ e.raced = h.raced
            /\ \A q \in Pipelines : e.used[q] = IF q = p THEN f ELSE h.used[q]
  <1> DEFINE e == PutUse(h, p, f)
  <1>1. /\ IsRecord(e) /\ SameBatches(e, h) /\ e.version = h.version
        /\ e.named = h.named /\ e.raced = h.raced
        /\ e.used = [h.used EXCEPT ![p] = f]
    BY DEF PutUse, IsLog, IsRecord, SameBatches
  <1> HIDE DEF e
  <1>2. \A q \in Pipelines : e.used[q] = IF q = p THEN f ELSE h.used[q]
    BY <1>1 DEF IsLog
  <1>3. e.used = [q \in Pipelines |-> e.used[q]]
    BY <1>1 DEF IsLog
  <1>4. ASSUME NEW q \in Pipelines PROVE e.used[q] = [d \in DestNames |-> e.used[q][d]]
    <2>1. CASE q = p
      <3>1. e.used[q] = f
        BY <1>2, <2>1
      <3>2. QED
        BY <3>1
    <2>2. CASE q # p
      <3>1. e.used[q] = h.used[q]
        BY <1>2, <2>2
      <3>2. QED
        BY <3>1 DEF IsLog
    <2>3. QED
      BY <2>1, <2>2
  <1>5. IsLog(e)
    BY <1>1, <1>3, <1>4 DEF IsLog, SameBatches
  <1>6. QED
    BY <1>1, <1>2, <1>5 DEF e

LEMMA OneMore ==
  ASSUME NEW S, IsFiniteSet(S), NEW x
  PROVE  IsFiniteSet(S \cup {x})
  BY FS_AddElement

\* What the steps do to it.
LEMMA LogCreate ==
  ASSUME IsLog(history), NEW p \in Pipelines, NEW n, NEW input, NEW dests,
         CreatePipeline(p, n, input, dests)
  PROVE  /\ IsLog(history') /\ SameBatches(history', history) /\ SameUse(history', history)
         /\ history'.raced = history.raced
         /\ Bumped(history', history, p) /\ Called(history', history, p, n)
  <1> DEFINE w == history.writes + 1
             v == history.version[p] + 1
             m == history.named[p] \cup {n}
             e1 == [history EXCEPT !.writes = w]
             e2 == PutVersion(e1, p, v)
             e3 == PutNames(e2, p, m)
  <1>1. history' = e3
    BY Zenon DEF CreatePipeline, PutVersion, PutNames
  <1>2. v \in Nat /\ IsFiniteSet(m)
    <2>1. IsFiniteSet(history.named[p]) /\ history.version[p] \in Nat
      BY DEF IsLog
    <2>2. IsFiniteSet(m)
      BY <2>1, OneMore, Zenon
    <2>3. QED
      BY <2>1, <2>2
  <1> HIDE DEF w, v, m
  <1>3. /\ IsLog(e1) /\ SameBatches(e1, history) /\ SameUse(e1, history)
        /\ e1.raced = history.raced /\ e1.named = history.named /\ e1.version = history.version
    BY DEF IsLog, IsRecord, SameBatches, SameUse
  <1> HIDE DEF e1
  <1>4. /\ IsLog(e2) /\ SameBatches(e2, e1) /\ SameUse(e2, e1) /\ e2.raced = e1.raced /\ e2.named = e1.named
        /\ \A q \in Pipelines : e2.version[q] = IF q = p THEN v ELSE e1.version[q]
    BY <1>2, <1>3, VersionPart
  <1> HIDE DEF e2
  <1>5. /\ IsLog(e3) /\ SameBatches(e3, e2) /\ SameUse(e3, e2) /\ e3.raced = e2.raced
        /\ e3.version = e2.version
        /\ \A q \in Pipelines : e3.named[q] = IF q = p THEN m ELSE e2.named[q]
    BY <1>2, <1>4, NamedPart
  <1> HIDE DEF e3
  <1>6. QED
    BY <1>1, <1>3, <1>4, <1>5 DEF SameBatches, SameUse, Bumped, Called, m, v

\* A document is written back from a copy.
LEMMA LogWrite ==
  ASSUME IsLog(history), NEW u, desk[u].pl \in Pipelines,
         EnsureWrite(u) \/ SetPipelineEnabled(u)
  PROVE  /\ IsLog(history') /\ SameBatches(history', history) /\ SameUse(history', history)
         /\ history'.named = history.named
         /\ Bumped(history', history, desk[u].pl)
         /\ Races(history', history, desk[u].pl, Stale(u))
  <1> DEFINE p == desk[u].pl
             r == history.raced[p] \/ Stale(u)
             v == history.version[p] + 1
             e1 == PutVersion(history, p, v)
             e2 == PutRaced(e1, p, r)
  <1>1. history' = e2
    BY Zenon DEF EnsureWrite, SetPipelineEnabled, PutVersion, PutRaced
  <1>2. v \in Nat
    BY DEF IsLog
  <1>3. r = (history.raced[p] \/ Stale(u))
    OBVIOUS
  <1> HIDE DEF p, r, v
  <1>4. /\ IsLog(e1) /\ SameBatches(e1, history) /\ SameUse(e1, history)
        /\ e1.raced = history.raced /\ e1.named = history.named
        /\ \A q \in Pipelines : e1.version[q] = IF q = p THEN v ELSE history.version[q]
    BY <1>2, VersionPart
  <1> HIDE DEF e1
  <1>5. /\ IsLog(e2) /\ SameBatches(e2, e1) /\ SameUse(e2, e1) /\ e2.version = e1.version
        /\ e2.named = e1.named
        /\ \A q \in Pipelines : e2.raced[q] = IF q = p THEN r ELSE e1.raced[q]
    BY <1>4, RacedPart
  <1> HIDE DEF e2
  <1>6. Races(history', history, p, Stale(u))
    <2>1. ASSUME NEW q \in Pipelines, ~history'.raced[q] PROVE ~history.raced[q] /\ (q = p => ~Stale(u))
      <3>1. CASE q = p
        <4>1. history'.raced[p] = r
          BY <1>1, <1>5, <3>1
        <4>2. ~r
          BY <2>1, <3>1, <4>1, Zenon
        <4>3. QED
          BY <3>1, <4>2, Zenon DEF r
      <3>2. CASE q # p
        <4>1. history'.raced[q] = history.raced[q]
          BY <1>1, <1>4, <1>5, <3>2
        <4>2. QED
          BY <2>1, <3>2, <4>1, Zenon
      <3>3. QED
        BY <3>1, <3>2
    <2>2. QED
      BY <2>1 DEF Races
  <1>7. QED
    BY <1>1, <1>4, <1>5, <1>6 DEF SameBatches, SameUse, Bumped, v, p

\* Structural edits of a pipeline whose batch is open are remembered as well.
LateSave(u) ==
  \/ Stale(u)
  \/ batch[desk[u].pl] # 0 /\ StructuralChange(doc[desk[u].pl], desk[u].doc)

LEMMA LogSave ==
  ASSUME IsLog(history), NEW u, desk[u].pl \in Pipelines, Save(u),
         \A q \in Pipelines \ {desk[u].pl} : name[q] # desk[u].name
  PROVE  /\ IsLog(history') /\ SameBatches(history', history) /\ SameUse(history', history)
         /\ Bumped(history', history, desk[u].pl)
         /\ Called(history', history, desk[u].pl, desk[u].name)
         /\ Races(history', history, desk[u].pl, LateSave(u))
  <1> DEFINE p == desk[u].pl
             r == history.raced[p] \/ (Stale(u)
                    \/ (batch[p] # 0 /\ StructuralChange(doc[p], desk[u].doc)))
             m == history.named[p] \cup {desk[u].name}
             v == history.version[p] + 1
             e1 == PutVersion(history, p, v)
             e2 == PutNames(e1, p, m)
             e3 == PutRaced(e2, p, r)
  <1>1. history' = e3
    BY Zenon DEF Save, PutVersion, PutNames, PutRaced
  <1>2. v \in Nat /\ IsFiniteSet(m)
    <2>1. IsFiniteSet(history.named[p]) /\ history.version[p] \in Nat
      BY DEF IsLog
    <2>2. IsFiniteSet(m)
      BY <2>1, OneMore, Zenon
    <2>3. QED
      BY <2>1, <2>2
  <1> HIDE DEF p, r, v, m
  <1>3. /\ IsLog(e1) /\ SameBatches(e1, history) /\ SameUse(e1, history)
        /\ e1.raced = history.raced /\ e1.named = history.named
        /\ \A q \in Pipelines : e1.version[q] = IF q = p THEN v ELSE history.version[q]
    BY <1>2, VersionPart
  <1> HIDE DEF e1
  <1>4. /\ IsLog(e2) /\ SameBatches(e2, e1) /\ SameUse(e2, e1) /\ e2.raced = e1.raced
        /\ e2.version = e1.version
        /\ \A q \in Pipelines : e2.named[q] = IF q = p THEN m ELSE e1.named[q]
    BY <1>2, <1>3, NamedPart
  <1> HIDE DEF e2
  <1>5. /\ IsLog(e3) /\ SameBatches(e3, e2) /\ SameUse(e3, e2) /\ e3.version = e2.version
        /\ e3.named = e2.named
        /\ \A q \in Pipelines : e3.raced[q] = IF q = p THEN r ELSE e2.raced[q]
    BY <1>4, RacedPart
  <1> HIDE DEF e3
  <1>6. Races(history', history, p, LateSave(u))
    <2>1. ASSUME NEW q \in Pipelines, ~history'.raced[q] PROVE ~history.raced[q] /\ (q = p => ~LateSave(u))
      <3>1. CASE q = p
        <4>1. history'.raced[p] = r
          BY <1>1, <1>5, <3>1
        <4>2. ~r
          BY <2>1, <3>1, <4>1, Zenon
        <4>3. QED
          BY <3>1, <4>2, Zenon DEF r, p, LateSave
      <3>2. CASE q # p
        <4>1. history'.raced[q] = history.raced[q]
          BY <1>1, <1>3, <1>4, <1>5, <3>2
        <4>2. QED
          BY <2>1, <3>2, <4>1, Zenon
      <3>3. QED
        BY <3>1, <3>2
    <2>2. QED
      BY <2>1 DEF Races
  <1>7. QED
    BY <1>1, <1>3, <1>4, <1>5, <1>6 DEF SameBatches, SameUse, Bumped, Called, v, m, p

\* Everything but the number of requests stays as it is.
SameLog(h, g) ==
  /\ SameBatches(h, g) /\ SameUse(h, g)
  /\ h.version = g.version /\ h.raced = g.raced /\ h.named = g.named

LEMMA LogAsk ==
  ASSUME IsLog(history), UNCHANGED history \/ \E u, p : Toggle(u, p) \/ OpenPage(u, p)
  PROVE  IsLog(history') /\ SameLog(history', history)
  <1>1. CASE UNCHANGED history
    <2>1. history' = history
      BY <1>1
    <2>2. QED
      BY <2>1, Zenon DEF SameLog, SameBatches, SameUse
  <1>2. CASE history' = [history EXCEPT !.writes = history.writes + 1]
    BY <1>2 DEF IsLog, IsRecord, SameLog, SameBatches, SameUse
  <1>3. QED
    BY <1>1, <1>2, Zenon DEF Toggle, OpenPage

LEMMA LogForm ==
  ASSUME IsLog(history), NEW p, FormBatch(p), ~UNCHANGED history
  PROVE  /\ IsLog(history') /\ SameUse(history', history)
         /\ history'.version = history.version /\ history'.raced = history.raced
         /\ history'.named = history.named /\ history'.closed = history.closed
         /\ history'.batches = history.batches + 1
         /\ batch' = [batch EXCEPT ![p] = history.batches + 1] /\ UNCHANGED scan
         /\ history.batches < MaxBatches
  <1>1. /\ history' = [history EXCEPT !.batches = history.batches + 1]
        /\ batch' = [batch EXCEPT ![p] = history.batches + 1] /\ UNCHANGED scan
        /\ history.batches < MaxBatches
    BY Zenon DEF FormBatch
  <1>2. QED
    BY <1>1 DEF IsLog, IsRecord, SameUse

LEMMA LogClose ==
  ASSUME IsLog(history), NEW p, CloseBatch(p), ~UNCHANGED history
  PROVE  /\ IsLog(history') /\ SameUse(history', history)
         /\ history'.version = history.version /\ history'.raced = history.raced
         /\ history'.named = history.named /\ history'.batches = history.batches
         /\ history'.closed = history.closed \cup {batch[p]}
         /\ Complete(p) /\ batch' = [batch EXCEPT ![p] = 0]
  <1>1. /\ history' = [history EXCEPT !.closed = history.closed \cup {batch[p]}]
        /\ Complete(p) /\ batch' = [batch EXCEPT ![p] = 0]
    BY Zenon DEF CloseBatch
  <1>2. QED
    BY <1>1 DEF IsLog, IsRecord, SameUse

\* The rows a scan has used.
UsesRows(h, g, p, outs) ==
  \A q \in Pipelines, d \in DestNames :
    h.used[q][d] = IF q = p /\ d \in DOMAIN outs THEN g.used[q][d] \cup {outs[d]} ELSE g.used[q][d]

LEMMA LogReserve ==
  ASSUME IsLog(history), NEW p \in Pipelines, ReserveDelivery(p)
  PROVE  /\ IsLog(history') /\ SameBatches(history', history)
         /\ history'.version = history.version /\ history'.named = history.named
         /\ UsesRows(history', history, p, scan[p].outs)
         /\ Races(history', history, p, scan[p].outs # doc[p].outs)
  <1> DEFINE late == scan[p].outs # doc[p].outs
             r == history.raced[p] \/ late
             f == [d \in DestNames |-> IF d \in DOMAIN scan[p].outs
                                       THEN history.used[p][d] \cup {scan[p].outs[d]}
                                       ELSE history.used[p][d]]
             e1 == PutUse(history, p, f)
             e2 == PutRaced(e1, p, r)
  <1>1. history' = e2
    BY Zenon DEF ReserveDelivery, PutUse, PutRaced
  <1>2. f = [d \in DestNames |-> f[d]]
    OBVIOUS
  <1>3. \A d \in DestNames : f[d] = IF d \in DOMAIN scan[p].outs
                                    THEN history.used[p][d] \cup {scan[p].outs[d]}
                                    ELSE history.used[p][d]
    OBVIOUS
  <1> HIDE DEF r, f, late
  <1>4. /\ IsLog(e1) /\ SameBatches(e1, history) /\ e1.version = history.version
        /\ e1.named = history.named /\ e1.raced = history.raced
        /\ \A q \in Pipelines : e1.used[q] = IF q = p THEN f ELSE history.used[q]
    BY <1>2, UsedPart
  <1> HIDE DEF e1
  <1>5. /\ IsLog(e2) /\ SameBatches(e2, e1) /\ SameUse(e2, e1) /\ e2.version = e1.version
        /\ e2.named = e1.named
        /\ \A q \in Pipelines : e2.raced[q] = IF q = p THEN r ELSE e1.raced[q]
    BY <1>4, RacedPart
  <1> HIDE DEF e2
  <1>6. Races(history', history, p, late)
    <2>1. ASSUME NEW q \in Pipelines, ~history'.raced[q] PROVE ~history.raced[q] /\ (q = p => ~late)
      <3>1. CASE q = p
        <4>1. history'.raced[p] = r
          BY <1>1, <1>5, <3>1
        <4>2. ~r
          BY <2>1, <3>1, <4>1, Zenon
        <4>3. QED
          BY <3>1, <4>2, Zenon DEF r
      <3>2. CASE q # p
        <4>1. history'.raced[q] = history.raced[q]
          BY <1>1, <1>4, <1>5, <3>2
        <4>2. QED
          BY <2>1, <3>2, <4>1, Zenon
      <3>3. QED
        BY <3>1, <3>2
    <2>2. QED
      BY <2>1 DEF Races
  <1>7. UsesRows(history', history, p, scan[p].outs)
    BY <1>1, <1>3, <1>4, <1>5 DEF SameUse, UsesRows
  <1>8. QED
    BY <1>1, <1>4, <1>5, <1>6, <1>7 DEF SameBatches, late

-----------------------------------------------------------------------------
(* What a request does to documents and copies.                            *)

Publishes(p, d) == \A q \in Pipelines : doc'[q] = IF q = p THEN d ELSE doc[q]
Takes(u, c)     == \A v \in Requests : desk'[v] = IF v = u THEN c ELSE desk[v]

\* A copy that was made of a document just now.
Made(c, kind, p) == c.kind = kind /\ c.pl = p /\ c.read = history.version[p]

LEMMA TakesOne ==
  ASSUME Copies, NEW u, NEW c, IsCopy(c), IsDoc(c.doc), Taken(u, c)
  PROVE  Takes(u, c)
  BY TakenOne DEF Takes

LEMMA MadeCopy ==
  ASSUME NEW k, NEW p, NEW n, NEW d, IsDoc(d)
  PROVE  LET c == Copy(k, p, n, d)
         IN IsCopy(c) /\ IsDoc(c.doc) /\ c.doc = d /\ c.name = n /\ Made(c, k, p)
  BY DEF IsCopy, Copy, Made

LEMMA CreateEffect ==
  ASSUME Copies, NEW p \in Pipelines, NEW n, NEW input, NEW dests,
         CreatePipeline(p, n, input, dests)
  PROVE  \E new \in NewRows(dests) :
           /\ Publishes(p, [enabled |-> TRUE, input |-> input, outs |-> new])
           /\ rows' = rows \cup RowsFor(new, n, dests)
  <1>1. PICK new \in NewRows(dests) :
          /\ rows' = rows \cup RowsFor(new, n, dests)
          /\ Published(p, [enabled |-> TRUE, input |-> input, outs |-> new])
    BY DEF CreatePipeline, Published, RowsFor
  <1> DEFINE d == [enabled |-> TRUE, input |-> input, outs |-> new]
  <1>2. IsDoc(d)
    BY DEF IsDoc
  <1> HIDE DEF d
  <1>3. Publishes(p, d)
    BY <1>1, <1>2, PublishedOne DEF Publishes, d
  <1>4. QED
    BY <1>1, <1>3 DEF d

\* One output of the copy has got a row; it is an old one or an added one.
Ensures(u, p, c, x) ==
  /\ Takes(u, c) /\ Made(c, "ensure", p) /\ doc[p].outs[x] = 0 /\ c.name = name[p]
  /\ x \in DOMAIN doc[p].outs /\ DOMAIN c.doc.outs = DOMAIN doc[p].outs
  /\ \A y \in DOMAIN doc[p].outs \ {x} : c.doc.outs[y] = doc[p].outs[y]
  /\ \/ UNCHANGED rows
     \/ \E new \in NewRows({x}) : rows' = rows \cup RowsFor(new, name[p], {x})

LEMMA EnsureEffect ==
  ASSUME Copies, NEW u, NEW p \in Pipelines, EnsureDestinations(u, p)
  PROVE  \E c, x : Ensures(u, p, c, x)
  <1>1. PICK x \in DOMAIN doc[p].outs :
          /\ doc[p].outs[x] = 0
          /\ \/ /\ \E uid \in OwnRows(p, x) :
                     Taken(u, Copy("ensure", p, name[p], [doc[p] EXCEPT !.outs[x] = uid]))
                /\ UNCHANGED rows
             \/ \E new \in NewRows({x}) :
                  /\ rows' = rows \cup {[uid |-> new[x], name |-> name[p] \o x]}
                  /\ Taken(u, Copy("ensure", p, name[p], [doc[p] EXCEPT !.outs[x] = new[x]]))
    BY DEF EnsureDestinations, Take, Taken
  <1>2. PICK uid :
          /\ Taken(u, Copy("ensure", p, name[p], [doc[p] EXCEPT !.outs[x] = uid]))
          /\ \/ UNCHANGED rows
             \/ \E new \in NewRows({x}) : rows' = rows \cup RowsFor(new, name[p], {x})
    <2>1. \A new : RowsFor(new, name[p], {x}) = {[uid |-> new[x], name |-> name[p] \o x]}
      BY DEF RowsFor
    <2>2. QED
      BY <1>1, <2>1
  <1> DEFINE d == [doc[p] EXCEPT !.outs[x] = uid]
             c == Copy("ensure", p, name[p], d)
  <1>3. IsDoc(doc[p])
    BY DEF Copies
  <1>4. IsDoc(d) /\ DOMAIN d.outs = DOMAIN doc[p].outs
    BY <1>3, SameDomain
  <1>5. \A y \in DOMAIN doc[p].outs \ {x} : d.outs[y] = doc[p].outs[y]
    BY <1>3, OneRow
  <1>6. Taken(u, c)
    BY <1>2
  <1> HIDE DEF d
  <1>7. IsCopy(c) /\ IsDoc(c.doc) /\ c.doc = d /\ c.name = name[p] /\ Made(c, "ensure", p)
    BY <1>4, MadeCopy
  <1> HIDE DEF c
  <1>8. Takes(u, c)
    BY <1>6, <1>7, TakesOne
  <1>9. QED
    BY <1>1, <1>2, <1>4, <1>5, <1>7, <1>8 DEF Ensures

LEMMA ToggleEffect ==
  ASSUME Copies, NEW u, NEW p \in Pipelines, Toggle(u, p)
  PROVE  \E c : Takes(u, c) /\ Made(c, "toggle", p) /\ c.doc.outs = doc[p].outs
  <1> DEFINE d == [doc[p] EXCEPT !.enabled = ~@]
             c == Copy("toggle", p, name[p], d)
  <1>1. IsDoc(d) /\ d.outs = doc[p].outs
    BY SameColumns DEF Copies
  <1>2. Taken(u, c)
    BY DEF Toggle, Take, Taken
  <1> HIDE DEF d
  <1>3. IsCopy(c) /\ IsDoc(c.doc) /\ c.doc = d /\ Made(c, "toggle", p)
    BY <1>1, MadeCopy
  <1> HIDE DEF c
  <1>4. Takes(u, c)
    BY <1>2, <1>3, TakesOne
  <1>5. QED
    BY <1>1, <1>3, <1>4

LEMMA PageEffect ==
  ASSUME Copies, NEW u, NEW p \in Pipelines, OpenPage(u, p)
  PROVE  \E c : Takes(u, c) /\ Made(c, "page", p)
  <1>1. IsDoc(doc[p])
    BY DEF Copies
  <1>2. \A d \in Revised(doc[p]) : IsDoc(d)
    <2>1. \A b : IsDoc([doc[p] EXCEPT !.enabled = b])
      BY <1>1, SameColumns
    <2>2. \A f : IsDoc([doc[p] EXCEPT !.input = f])
      BY <1>1, SameInput
    <2>3. \A o : IsDoc([doc[p] EXCEPT !.outs = o])
      BY <1>1, SameOuts
    <2>4. QED
      BY <2>1, <2>2, <2>3 DEF Revised
  <1>3. PICK n, d : IsDoc(d) /\ Taken(u, Copy("page", p, n, d))
    BY <1>1, <1>2 DEF OpenPage, Take, Taken
  <1> DEFINE c == Copy("page", p, n, d)
  <1>4. IsCopy(c) /\ IsDoc(c.doc) /\ Made(c, "page", p)
    BY <1>3, MadeCopy
  <1>5. Taken(u, c)
    BY <1>3
  <1> HIDE DEF c
  <1>6. QED
    BY <1>4, <1>5, TakesOne

LEMMA WriteEffect ==
  ASSUME Copies, NEW u \in Requests, EnsureWrite(u) \/ SetPipelineEnabled(u)
  PROVE  Takes(u, Idle) /\ Publishes(desk[u].pl, desk[u].doc)
  <1>1. Taken(u, Idle) /\ Published(desk[u].pl, desk[u].doc)
    BY DEF EnsureWrite, SetPipelineEnabled, Write, Take, Published, Taken
  <1>2. IsDoc(desk[u].doc)
    BY DEF Copies
  <1>3. QED
    BY <1>1, <1>2, IdleCopy, TakesOne, PublishedOne DEF Publishes

LEMMA UpdateEffect ==
  ASSUME Copies, NEW u \in Requests, UpdatePipeline(u)
  PROVE  \/ Takes(u, Idle)
         \/ \E c : /\ Takes(u, c) /\ Made(c, "save", desk[u].pl) /\ c.name = desk[u].name
                   /\ c.doc.outs = Reclaimed(desk[u].pl, Merged(desk[u].pl, desk[u].doc).outs)
  <1> DEFINE p == desk[u].pl
             after == Merged(p, desk[u].doc)
             d == [after EXCEPT !.outs = Reclaimed(p, after.outs)]
             c == Copy("save", p, desk[u].name, d)
  <1>1. IsDoc(after)
    BY SameOuts DEF Copies, Merged
  <1>2. Taken(u, c) \/ Taken(u, Idle)
    BY DEF UpdatePipeline, Take, Taken
  <1>3. IsDoc(d) /\ d.outs = Reclaimed(p, after.outs)
    <2> HIDE DEF after
    <2>1. QED
      BY <1>1, SameOuts
  <1> HIDE DEF after, d
  <1>4. /\ IsCopy(c) /\ IsDoc(c.doc) /\ c.doc = d /\ c.name = desk[u].name
        /\ Made(c, "save", p)
    BY <1>3, MadeCopy
  <1> HIDE DEF c
  <1>5. CASE Taken(u, Idle)
    BY <1>5, IdleCopy, TakesOne
  <1>6. CASE Taken(u, c)
    <2>1. Takes(u, c)
      BY <1>4, <1>6, TakesOne
    <2>2. c.doc.outs = Reclaimed(p, after.outs)
      BY <1>3, <1>4
    <2>3. QED
      BY <1>4, <2>1, <2>2 DEF after
  <1>7. QED
    BY <1>2, <1>5, <1>6

\* The outputs a save writes: new destinations get rows.
Filled(outs, new) == [d \in DOMAIN outs |-> IF outs[d] # 0 THEN outs[d] ELSE new[d]]

LEMMA SaveEffect ==
  ASSUME Copies, NEW u \in Requests, Save(u)
  PROVE  /\ Takes(u, Idle)
         /\ \/ /\ \A q \in Pipelines \ {desk[u].pl} : name[q] # desk[u].name
               /\ name' = [name EXCEPT ![desk[u].pl] = desk[u].name]
               /\ \E new \in NewRows(NewDests(desk[u].doc.outs)) :
                    /\ rows' = rows \cup RowsFor(new, desk[u].name, NewDests(desk[u].doc.outs))
                    /\ \E d : d.outs = Filled(desk[u].doc.outs, new) /\ Publishes(desk[u].pl, d)
            \/ UNCHANGED <<name, doc, rows, history>>
  <1> DEFINE p == desk[u].pl
             outs == desk[u].doc.outs
  <1>1. Taken(u, Idle)
    BY DEF Save, Write, Take, Taken
  <1>2. Takes(u, Idle)
    BY <1>1, IdleCopy, TakesOne
  <1>3. ASSUME \A q \in Pipelines \ {p} : name[q] # desk[u].name
        PROVE  /\ name' = [name EXCEPT ![p] = desk[u].name]
               /\ \E new \in NewRows(NewDests(outs)) :
                    /\ rows' = rows \cup RowsFor(new, desk[u].name, NewDests(outs))
                    /\ \E d : d.outs = Filled(outs, new) /\ Publishes(p, d)
    <2>1. name' = [name EXCEPT ![p] = desk[u].name]
      BY <1>3 DEF Save
    <2>2. PICK new \in NewRows(NewDests(outs)) :
            /\ rows' = rows \cup RowsFor(new, desk[u].name, NewDests(outs))
            /\ Published(p, [desk[u].doc EXCEPT !.outs = Filled(outs, new)])
      BY <1>3 DEF Save, Write, Published, RowsFor, Filled
    <2> DEFINE d == [desk[u].doc EXCEPT !.outs = Filled(outs, new)]
    <2>3. IsDoc(d) /\ d.outs = Filled(outs, new)
      BY SameOuts DEF Copies
    <2>4. Published(p, d)
      BY <2>2
    <2> HIDE DEF d
    <2>5. Publishes(p, d)
      BY <2>3, <2>4, PublishedOne DEF Publishes
    <2>6. QED
      BY <2>1, <2>2, <2>3, <2>5
  <1>4. CASE \E q \in Pipelines \ {p} : name[q] = desk[u].name
    BY <1>2, <1>4 DEF Save
  <1>5. QED
    BY <1>2, <1>3, <1>4

-----------------------------------------------------------------------------
(* Copies that are not out of date.  One that was read for a row that was    *)
(* missing still finds it missing, and one that flips the flag has the        *)
(* destinations of today.                                                  *)

LogInv == OwnInv /\ IsLog(history)

FreshCopy(c) ==
  c.kind # "none" =>
    /\ c.read <= history.version[c.pl]
    /\ c.read = history.version[c.pl] =>
         /\ c.kind = "ensure" => NeedsRows(c.pl)
         /\ c.kind = "toggle" => c.doc.outs = doc[c.pl].outs

FreshInv == \A u \in Requests : desk[u].read \in Nat /\ FreshCopy(desk[u])

\* The steps, sorted by what they can change.
RequestStarts(u, p) == EnsureDestinations(u, p) \/ Toggle(u, p) \/ OpenPage(u, p)
WritesBack(u)       == EnsureWrite(u) \/ SetPipelineEnabled(u)
EngineMoves(p)      == EngineStep(p) \/ Crash(p)

LEMMA NextMoves ==
  ASSUME [Next]_vars
  PROVE  \/ \E p \in Pipelines, n \in PlNames, input \in SUBSET Fields, dests \in SUBSET DestNames :
              CreatePipeline(p, n, input, dests)
         \/ \E u \in Requests, p \in Pipelines : RequestStarts(u, p)
         \/ \E u \in Requests : WritesBack(u)
         \/ \E u \in Requests : UpdatePipeline(u)
         \/ \E u \in Requests : Save(u)
         \/ \E p \in Pipelines : EngineMoves(p)
         \/ UNCHANGED vars
  BY Zenon DEF Next, AdminStep, DeskStep, RequestStarts, WritesBack, EngineMoves

\* The engine writes neither documents nor copies of requests.
LEMMA LogEngine ==
  ASSUME IsLog(history), NEW p \in Pipelines, EngineMoves(p)
  PROVE  /\ IsLog(history') /\ UNCHANGED adminVars
         /\ history'.version = history.version /\ history'.named = history.named
         /\ \A q \in Pipelines : ~history'.raced[q] => ~history.raced[q]
  <1>1. UNCHANGED adminVars
    BY DEF EngineMoves, EngineStep, Scan, FormBatch, ReserveDelivery, ProcessBatch, CloseBatch, Crash
  <1>2. UNCHANGED history \/ FormBatch(p) \/ ReserveDelivery(p) \/ CloseBatch(p)
    BY DEF EngineMoves, EngineStep, Scan, ProcessBatch, Crash
  <1>3. CASE UNCHANGED history
    <2>1. history' = history
      BY <1>3
    <2>2. QED
      BY <1>1, <2>1, Zenon
  <1>4. CASE FormBatch(p) /\ ~UNCHANGED history
    <2>1. /\ IsLog(history') /\ history'.version = history.version
          /\ history'.named = history.named /\ history'.raced = history.raced
      BY <1>4, LogForm
    <2>2. QED
      BY <1>1, <2>1, Zenon
  <1>5. CASE ReserveDelivery(p)
    BY <1>1, <1>5, LogReserve DEF Races
  <1>6. CASE CloseBatch(p) /\ ~UNCHANGED history
    <2>1. /\ IsLog(history') /\ history'.version = history.version
          /\ history'.named = history.named /\ history'.raced = history.raced
      BY <1>6, LogClose
    <2>2. QED
      BY <1>1, <2>1, Zenon
  <1>7. QED
    BY <1>2, <1>3, <1>4, <1>5, <1>6

\* A request works on a pipeline there is.
LEMMA DeskPipeline ==
  ASSUME OwnInv, NEW u \in Requests, desk[u].kind # "none"
  PROVE  desk[u].pl \in Pipelines /\ Exists(desk[u].pl) /\ desk[u].name \in PlNames
  BY DEF OwnInv, CopyIn, Present

LEMMA LogStep == OwnInv /\ IsLog(history) /\ [Next]_vars => IsLog(history')
  <1> SUFFICES ASSUME OwnInv, IsLog(history), [Next]_vars PROVE IsLog(history')
    OBVIOUS
  <1>1. ASSUME NEW p \in Pipelines, NEW n, NEW input, NEW dests, CreatePipeline(p, n, input, dests)
        PROVE  IsLog(history')
    BY <1>1, LogCreate
  <1>2. ASSUME NEW u \in Requests, NEW p \in Pipelines, RequestStarts(u, p) PROVE IsLog(history')
    BY <1>2, LogAsk DEF RequestStarts, EnsureDestinations
  <1>3. ASSUME NEW u \in Requests, WritesBack(u) PROVE IsLog(history')
    <2>1. desk[u].pl \in Pipelines
      BY <1>3, DeskPipeline DEF WritesBack, EnsureWrite, SetPipelineEnabled
    <2>2. QED
      BY <1>3, <2>1, LogWrite DEF WritesBack
  <1>4. ASSUME NEW u \in Requests, UpdatePipeline(u) PROVE IsLog(history')
    BY <1>4, LogAsk DEF UpdatePipeline
  <1>5. ASSUME NEW u \in Requests, Save(u) PROVE IsLog(history')
    <2>1. desk[u].pl \in Pipelines
      BY <1>5, DeskPipeline DEF Save
    <2>2. CASE UNCHANGED history
      BY <2>2, LogAsk
    <2>3. CASE \A q \in Pipelines \ {desk[u].pl} : name[q] # desk[u].name
      BY <1>5, <2>1, <2>3, LogSave
    <2>4. QED
      BY <1>5, <2>2, <2>3 DEF Save
  <1>6. ASSUME NEW p \in Pipelines, EngineMoves(p) PROVE IsLog(history')
    BY <1>6, LogEngine
  <1>7. CASE UNCHANGED vars
    BY <1>7, LogAsk DEF vars
  <1>8. QED
    BY <1>1, <1>2, <1>3, <1>4, <1>5, <1>6, <1>7, NextMoves

\* Documents that are written once more make every copy of them out of date.
LEMMA FreshBump ==
  ASSUME OwnInv, IsLog(history), FreshInv, NEW p \in Pipelines, Bumped(history', history, p),
         \A q \in Pipelines \ {p} : doc'[q] = doc[q],
         \A v \in Requests : desk'[v] \in {desk[v], Idle}
  PROVE  FreshInv'
  <1>1. ASSUME NEW v \in Requests PROVE desk'[v].read \in Nat /\ FreshCopy(desk[v])'
    <2>1. CASE desk'[v] = Idle
      BY <2>1 DEF Idle, FreshCopy
    <2>2. CASE desk'[v] = desk[v] /\ desk[v].kind # "none"
      <3>1. desk[v].pl \in Pipelines /\ desk[v].read \in Nat
        BY <2>2, DeskPipeline DEF FreshInv
      <3>2. history.version[desk[v].pl] \in Nat /\ desk[v].read <= history.version[desk[v].pl]
        BY <2>2, <3>1 DEF IsLog, FreshInv, FreshCopy
      <3>3. CASE desk[v].pl = p
        <4>1. history'.version[p] = history.version[p] + 1
          BY DEF Bumped
        <4>2. QED
          BY <2>2, <3>1, <3>2, <3>3, <4>1 DEF FreshCopy
      <3>4. CASE desk[v].pl # p
        <4>1. history'.version[desk[v].pl] = history.version[desk[v].pl]
          BY <3>1, <3>4 DEF Bumped
        <4>2. doc'[desk[v].pl] = doc[desk[v].pl]
          BY <3>1, <3>4
        <4>3. QED
          BY <2>2, <3>1, <4>1, <4>2 DEF FreshInv, FreshCopy, NeedsRows
      <3>5. QED
        BY <3>3, <3>4
    <2>3. CASE desk'[v] = desk[v] /\ desk[v].kind = "none"
      BY <2>3 DEF FreshInv, FreshCopy
    <2>4. QED
      BY <2>1, <2>2, <2>3
  <1>2. QED
    BY <1>1 DEF FreshInv

LEMMA FreshTake ==
  ASSUME FreshInv, UNCHANGED doc, history'.version = history.version, NEW u, NEW c,
         Takes(u, c), c.read \in Nat, FreshCopy(c)
  PROVE  FreshInv'
  <1>1. ASSUME NEW v \in Requests PROVE desk'[v].read \in Nat /\ FreshCopy(desk[v])'
    BY <1>1 DEF FreshInv, FreshCopy, Takes, NeedsRows
  <1>2. QED
    BY <1>1 DEF FreshInv

LEMMA FreshIdle == Idle.read \in Nat /\ FreshCopy(Idle)
  BY DEF Idle, FreshCopy

LEMMA FreshStep == OwnInv /\ IsLog(history) /\ FreshInv /\ [Next]_vars => FreshInv'
  <1> SUFFICES ASSUME OwnInv, IsLog(history), FreshInv, [Next]_vars PROVE FreshInv'
    OBVIOUS
  <1>c. Copies
    BY DEF OwnInv, ColumnsInv
  <1>i. Idle.read \in Nat /\ FreshCopy(Idle)
    BY FreshIdle
  <1>1. ASSUME NEW p \in Pipelines, NEW n, NEW input, NEW dests, CreatePipeline(p, n, input, dests)
        PROVE  FreshInv'
    <2>1. Bumped(history', history, p)
      BY <1>1, LogCreate
    <2>2. \A q \in Pipelines \ {p} : doc'[q] = doc[q]
      BY <1>1, <1>c, CreateEffect DEF Publishes
    <2>3. UNCHANGED desk
      BY <1>1 DEF CreatePipeline
    <2>4. QED
      BY <2>1, <2>2, <2>3, FreshBump
  <1>2. ASSUME NEW u \in Requests, NEW p \in Pipelines, RequestStarts(u, p) PROVE FreshInv'
    <2>1. UNCHANGED doc /\ history'.version = history.version
      BY <1>2, LogAsk DEF RequestStarts, EnsureDestinations, Toggle, OpenPage, SameLog
    <2>2. history.version[p] \in Nat
      BY DEF IsLog
    <2>3. CASE EnsureDestinations(u, p)
      <3>1. PICK c : Takes(u, c) /\ Made(c, "ensure", p)
        BY <1>c, <2>3, EnsureEffect DEF Ensures
      <3>2. NeedsRows(p)
        BY <2>3 DEF EnsureDestinations
      <3>3. c.read \in Nat /\ FreshCopy(c)
        BY <2>2, <3>1, <3>2 DEF Made, FreshCopy
      <3>4. QED
        BY <2>1, <3>1, <3>3, FreshTake
    <2>4. CASE Toggle(u, p)
      <3>1. PICK c : Takes(u, c) /\ Made(c, "toggle", p) /\ c.doc.outs = doc[p].outs
        BY <1>c, <2>4, ToggleEffect
      <3>2. c.read \in Nat /\ FreshCopy(c)
        BY <2>2, <3>1 DEF Made, FreshCopy
      <3>3. QED
        BY <2>1, <3>1, <3>2, FreshTake
    <2>5. CASE OpenPage(u, p)
      <3>1. PICK c : Takes(u, c) /\ Made(c, "page", p)
        BY <1>c, <2>5, PageEffect
      <3>2. c.read \in Nat /\ FreshCopy(c)
        BY <2>2, <3>1 DEF Made, FreshCopy
      <3>3. QED
        BY <2>1, <3>1, <3>2, FreshTake
    <2>6. QED
      BY <1>2, <2>3, <2>4, <2>5 DEF RequestStarts
  <1>3. ASSUME NEW u \in Requests, WritesBack(u) PROVE FreshInv'
    <2>1. desk[u].pl \in Pipelines
      BY <1>3, DeskPipeline DEF WritesBack, EnsureWrite, SetPipelineEnabled
    <2>2. Bumped(history', history, desk[u].pl)
      BY <1>3, <2>1, LogWrite DEF WritesBack
    <2>3. Takes(u, Idle) /\ Publishes(desk[u].pl, desk[u].doc)
      BY <1>3, <1>c, WriteEffect DEF WritesBack
    <2>4. QED
      BY <2>1, <2>2, <2>3, FreshBump DEF Takes, Publishes
  <1>4. ASSUME NEW u \in Requests, UpdatePipeline(u) PROVE FreshInv'
    <2>1. UNCHANGED <<doc, history>>
      BY <1>4 DEF UpdatePipeline
    <2>2. desk[u].pl \in Pipelines
      BY <1>4, DeskPipeline DEF UpdatePipeline
    <2>3. CASE Takes(u, Idle)
      BY <1>i, <2>1, <2>3, FreshTake
    <2>4. ASSUME NEW c, Takes(u, c), Made(c, "save", desk[u].pl) PROVE FreshInv'
      <3>1. c.read \in Nat /\ FreshCopy(c)
        BY <2>2, <2>4 DEF Made, FreshCopy, IsLog
      <3>2. QED
        BY <2>1, <2>4, <3>1, FreshTake
    <2>5. QED
      BY <1>4, <1>c, <2>3, <2>4, UpdateEffect
  <1>5. ASSUME NEW u \in Requests, Save(u) PROVE FreshInv'
    <2>1. desk[u].pl \in Pipelines
      BY <1>5, DeskPipeline DEF Save
    <2>2. Takes(u, Idle)
      BY <1>5, <1>c, SaveEffect
    <2>3. CASE UNCHANGED <<doc, history>>
      BY <1>i, <2>2, <2>3, FreshTake
    <2>4. CASE /\ \A q \in Pipelines \ {desk[u].pl} : name[q] # desk[u].name
               /\ \E d : Publishes(desk[u].pl, d)
      <3>1. Bumped(history', history, desk[u].pl)
        BY <1>5, <2>1, <2>4, LogSave
      <3>2. QED
        BY <2>1, <2>2, <2>4, <3>1, FreshBump DEF Takes, Publishes
    <2>5. QED
      BY <1>5, <1>c, <2>3, <2>4, SaveEffect
  <1>6. ASSUME NEW p \in Pipelines, EngineMoves(p) PROVE FreshInv'
    <2>1. UNCHANGED <<desk, doc>> /\ history'.version = history.version
      BY <1>6, LogEngine DEF adminVars
    <2>2. QED
      BY <2>1 DEF FreshInv, FreshCopy, NeedsRows
  <1>7. CASE UNCHANGED vars
    <2>1. UNCHANGED <<desk, doc, history>>
      BY <1>7 DEF vars, adminVars
    <2>2. QED
      BY <2>1 DEF FreshInv, FreshCopy, NeedsRows
  <1>8. QED
    BY <1>1, <1>2, <1>3, <1>4, <1>5, <1>6, <1>7, NextMoves

-----------------------------------------------------------------------------
(* Open batches.                                                           *)

BatchesOk ==
  /\ batch = [p \in Pipelines |-> batch[p]]
  /\ \A p \in Pipelines :
       /\ batch[p] \in Nat /\ batch[p] <= history.batches /\ batch[p] \notin history.closed
       /\ batch[p] # 0 \/ scan[p].step # "idle" => Exists(p)
       /\ scan[p].step \in {"idle", "listed", "reserved", "written"}
       /\ scan[p].step = "idle" => scan[p] = NoScan
       /\ scan[p].step \in {"reserved", "written"} => batch[p] # 0
  /\ \A p, q \in Pipelines : p # q /\ batch[p] # 0 => batch[p] # batch[q]
  /\ \A b \in history.closed : b \in Nat /\ 1 <= b /\ b <= history.batches
  /\ \A x \in dels : x.batch \in Nat /\ 1 <= x.batch /\ x.batch <= history.batches
  /\ history.batches <= MaxBatches

OpenInv == DeliveryInv /\ IsLog(history) /\ FreshInv /\ BatchesOk

\* What an administrator does leaves the engine alone.
AdminOnly ==
  /\ UNCHANGED engineVars
  /\ SameBatches(history', history) /\ SameUse(history', history)
  /\ Present \subseteq Present'
  /\ \A q \in Pipelines : /\ ~history'.raced[q] => ~history.raced[q]
                          /\ history.named[q] \subseteq history'.named[q]

LEMMA NoChangeAdmin ==
  ASSUME history' = history, name' = name, UNCHANGED engineVars
  PROVE  AdminOnly
  <1>1. \A q \in Pipelines : /\ ~history'.raced[q] => ~history.raced[q]
                             /\ history.named[q] \subseteq history'.named[q]
    BY Zenon
  <1>2. QED
    BY <1>1 DEF AdminOnly, SameBatches, SameUse, Present, Exists

LEMMA Renaming ==
  ASSUME OwnInv, NEW p \in Pipelines, NEW n \in PlNames, name' = [name EXCEPT ![p] = n]
  PROVE  /\ Present' = Present \cup {p} /\ name' = [q \in Pipelines |-> name'[q]]
         /\ \A q \in Pipelines : name'[q] = IF q = p THEN n ELSE name[q]
  <1>1. n # << >>
    BY ConfigAssumption DEF ConfigAssumption
  <1>2. \A q \in Pipelines : name'[q] = IF q = p THEN n ELSE name[q]
    BY DEF OwnInv, NamesOk
  <1>3. name' = [q \in Pipelines |-> name'[q]]
    BY DEF OwnInv, NamesOk
  <1>4. QED
    BY <1>1, <1>2, <1>3 DEF Present, Exists

LEMMA AdminMoves ==
  ASSUME OwnInv, IsLog(history), [Next]_vars
  PROVE  AdminOnly \/ \E p \in Pipelines : EngineMoves(p)
  <1>c. Copies
    BY DEF OwnInv, ColumnsInv
  <1>1. ASSUME NEW p \in Pipelines, NEW n \in PlNames, NEW input, NEW dests,
               CreatePipeline(p, n, input, dests)
        PROVE  AdminOnly
    <2>1. /\ SameBatches(history', history) /\ SameUse(history', history)
          /\ history'.raced = history.raced /\ Called(history', history, p, n)
      BY <1>1, LogCreate
    <2>2. Present \subseteq Present'
      BY <1>1, Renaming DEF CreatePipeline
    <2>3. \A q \in Pipelines : ~history'.raced[q] => ~history.raced[q]
      BY <2>1, Zenon
    <2>4. UNCHANGED engineVars
      BY <1>1 DEF CreatePipeline
    <2>5. QED
      BY <2>1, <2>2, <2>3, <2>4 DEF AdminOnly, Called
  <1>2. ASSUME NEW u \in Requests, NEW p \in Pipelines, RequestStarts(u, p) PROVE AdminOnly
    <2>1. SameLog(history', history)
      BY <1>2, LogAsk DEF RequestStarts, EnsureDestinations
    <2>2. UNCHANGED name /\ UNCHANGED engineVars
      BY <1>2 DEF RequestStarts, EnsureDestinations, Toggle, OpenPage
    <2>3. \A q \in Pipelines : ~history'.raced[q] => ~history.raced[q]
      BY <2>1, Zenon DEF SameLog
    <2>4. QED
      BY <2>1, <2>2, <2>3 DEF SameLog, AdminOnly, Present, Exists
  <1>3. ASSUME NEW u \in Requests, WritesBack(u) PROVE AdminOnly
    <2>1. desk[u].pl \in Pipelines
      BY <1>3, DeskPipeline DEF WritesBack, EnsureWrite, SetPipelineEnabled
    <2>2. /\ SameBatches(history', history) /\ SameUse(history', history)
          /\ history'.named = history.named
          /\ Races(history', history, desk[u].pl, Stale(u))
      BY <1>3, <2>1, LogWrite DEF WritesBack
    <2>3. UNCHANGED name /\ UNCHANGED engineVars
      BY <1>3 DEF WritesBack, EnsureWrite, SetPipelineEnabled
    <2>4. QED
      BY <2>2, <2>3 DEF AdminOnly, Races, Present, Exists
  <1>4. ASSUME NEW u \in Requests, UpdatePipeline(u) PROVE AdminOnly
    BY <1>4, NoChangeAdmin DEF UpdatePipeline
  <1>5. ASSUME NEW u \in Requests, Save(u) PROVE AdminOnly
    <2>1. desk[u].pl \in Pipelines /\ desk[u].name \in PlNames
      BY <1>5, DeskPipeline DEF Save
    <2>2. CASE UNCHANGED <<name, history>>
      BY <1>5, <2>2, NoChangeAdmin DEF Save
    <2>3. CASE /\ \A q \in Pipelines \ {desk[u].pl} : name[q] # desk[u].name
               /\ name' = [name EXCEPT ![desk[u].pl] = desk[u].name]
      <3>1. /\ SameBatches(history', history) /\ SameUse(history', history)
            /\ Called(history', history, desk[u].pl, desk[u].name)
            /\ Races(history', history, desk[u].pl, LateSave(u))
        BY <1>5, <2>1, <2>3, LogSave
      <3>2. Present \subseteq Present'
        BY <2>1, <2>3, Renaming
      <3>3. UNCHANGED engineVars
        BY <1>5 DEF Save
      <3>4. QED
        BY <3>1, <3>2, <3>3 DEF AdminOnly, Called, Races
    <2>4. QED
      BY <1>5, <1>c, <2>2, <2>3, SaveEffect
  <1>6. CASE UNCHANGED vars
    <2>1. history' = history /\ name' = name /\ UNCHANGED engineVars
      BY <1>6 DEF vars, adminVars
    <2>2. QED
      BY <2>1, NoChangeAdmin
  <1>7. QED
    BY <1>1, <1>2, <1>3, <1>4, <1>5, <1>6, NextMoves

\* What the engine does to a copy.
Scans(p, s) ==
  /\ scan' = [q \in Pipelines |-> scan'[q]]
  /\ \A q \in Pipelines : scan'[q] = IF q = p THEN s ELSE scan[q]

LEMMA ScansOne ==
  ASSUME DeliveryInv, NEW p, NEW s, scan' = [scan EXCEPT ![p] = s]
  PROVE  Scans(p, s)
  BY DEF DeliveryInv, Scans

Stepped(p, step) == scan' = [scan EXCEPT ![p].step = step]

LEMMA StepOne ==
  ASSUME DeliveryInv, NEW p \in Pipelines, NEW step, Stepped(p, step)
  PROVE  \E s : Scans(p, s) /\ s.step = step /\ s.outs = scan[p].outs
  <1> DEFINE s == [scan[p] EXCEPT !.step = step]
  <1>1. scan' = [scan EXCEPT ![p] = s]
    BY DEF Stepped
  <1>2. s.step = step /\ s.outs = scan[p].outs
    BY DEF DeliveryInv, IsScan
  <1> HIDE DEF s
  <1>3. QED
    BY <1>1, <1>2, ScansOne

LEMMA IdleScan == NoScan.step = "idle" /\ DOMAIN NoScan.outs = {}
  BY DEF NoScan

LEMMA OpenAdmin ==
  ASSUME BatchesOk, AdminOnly
  PROVE  BatchesOk'
  <1>1. /\ UNCHANGED <<batch, scan, dels>> /\ history'.batches = history.batches
        /\ history'.closed = history.closed
    BY DEF AdminOnly, engineVars, SameBatches
  <1>2. \A p \in Pipelines : Exists(p) => Exists(p)'
    BY DEF AdminOnly, Present
  <1>3. QED
    BY <1>1, <1>2 DEF BatchesOk

\* A step of one pipeline's copy that changes no batch.
LEMMA OpenScan ==
  ASSUME BatchesOk, NEW p \in Pipelines, NEW s, Scans(p, s), UNCHANGED <<name, batch, history>>,
         \A x \in dels' : x.batch \in Nat /\ 1 <= x.batch /\ x.batch <= history.batches,
         s.step \in {"idle", "listed", "reserved", "written"}, s.step = "idle" => s = NoScan,
         s.step # "idle" => Exists(p),
         s.step \in {"reserved", "written"} => batch[p] # 0
  PROVE  BatchesOk'
  BY DEF BatchesOk, Scans, Exists

\* New deliveries are of the batch and the destinations of the copy.
LEMMA ReservedDels ==
  ASSUME DeliveryInv, NEW p \in Pipelines, ReserveDelivery(p)
  PROVE  /\ dels \subseteq dels'
         /\ \A x \in dels' \ dels : x.batch = batch[p] /\ x.uid \in UidsOf(scan[p].outs)
  <1>1. PICK new \in SUBSET UidsOf(scan[p].outs) :
          dels' = dels \cup {[uid |-> uid, batch |-> batch[p], number |-> seq[uid] + 1,
                              done |-> FALSE] : uid \in new}
    BY DEF ReserveDelivery
  <1>2. QED
    BY <1>1

\* A delivery that was made stays made.
LEMMA WrittenDels ==
  ASSUME DeliveryInv, NEW p \in Pipelines, ProcessBatch(p)
  PROVE  \A x \in dels' :
           \/ x \in dels
           \/ x.done /\ \E y \in dels : x.uid = y.uid /\ x.batch = y.batch
  <1>1. PICK ok \in SUBSET dels : dels' = (dels \ ok) \cup {[y EXCEPT !.done = TRUE] : y \in ok}
    BY DEF ProcessBatch, Owed
  <1>2. \A y \in dels : LET x == [y EXCEPT !.done = TRUE]
                        IN x.done = TRUE /\ x.uid = y.uid /\ x.batch = y.batch
    BY DEF DeliveryInv, IsDel
  <1>3. QED
    BY <1>1, <1>2

LEMMA FormCases ==
  ASSUME IsLog(history), NEW p, FormBatch(p)
  PROVE  \/ ~UNCHANGED history
         \/ UNCHANGED <<batch, history>> /\ scan' = [scan EXCEPT ![p] = NoScan]
  <1>1. CASE history' = [history EXCEPT !.batches = history.batches + 1]
    <2>1. history'.batches = history.batches + 1 /\ history.batches \in Nat
      BY <1>1 DEF IsLog, IsRecord
    <2>2. QED
      BY <2>1
  <1>2. QED
    BY <1>1 DEF FormBatch

LEMMA OpenEngine ==
  ASSUME DeliveryInv, IsLog(history), BatchesOk, NEW p \in Pipelines, EngineMoves(p)
  PROVE  BatchesOk'
  <1>1. UNCHANGED name
    BY LogEngine DEF adminVars
  <1>2. CASE Scan(p)
    <2> DEFINE s == [step |-> "listed", outs |-> doc[p].outs]
    <2>1. Scans(p, s) /\ s.step = "listed"
      BY <1>2, ScansOne DEF Scan
    <2>2. UNCHANGED <<name, batch, history, dels>> /\ Exists(p)
      BY <1>1, <1>2 DEF Scan, Listed
    <2> HIDE DEF s
    <2>3. QED
      BY <2>1, <2>2, OpenScan DEF BatchesOk
  <1>3. CASE FormBatch(p) /\ ~UNCHANGED history
    <2>1. /\ history'.closed = history.closed
          /\ history'.batches = history.batches + 1
          /\ batch' = [batch EXCEPT ![p] = history.batches + 1] /\ UNCHANGED scan
          /\ history.batches < MaxBatches
      BY <1>3, LogForm
    <2>2. UNCHANGED dels /\ scan[p].step = "listed"
      BY <1>3 DEF FormBatch
    <2>3. /\ batch' = [q \in Pipelines |-> batch'[q]]
          /\ \A q \in Pipelines : batch'[q] = IF q = p THEN history.batches + 1 ELSE batch[q]
      BY <2>1 DEF BatchesOk
    <2>4. history.batches \in Nat /\ MaxBatches \in Nat
      BY ConfigAssumption DEF IsLog, ConfigAssumption
    <2>5. \A q \in Pipelines :
            /\ batch'[q] \in Nat /\ batch'[q] <= history'.batches /\ batch'[q] \notin history'.closed
            /\ batch'[q] # 0 \/ scan'[q].step # "idle" => Exists(q)'
            /\ scan'[q].step \in {"idle", "listed", "reserved", "written"}
            /\ scan'[q].step = "idle" => scan'[q] = NoScan
            /\ scan'[q].step \in {"reserved", "written"} => batch'[q] # 0
      BY <1>1, <2>1, <2>2, <2>3, <2>4 DEF BatchesOk, Exists
    <2>6. \A q, r \in Pipelines : q # r /\ batch'[q] # 0 => batch'[q] # batch'[r]
      BY <2>3, <2>4 DEF BatchesOk
    <2>7. \A b \in history'.closed : b \in Nat /\ 1 <= b /\ b <= history'.batches
      BY <2>1, <2>4 DEF BatchesOk
    <2>8. \A x \in dels' : x.batch \in Nat /\ 1 <= x.batch /\ x.batch <= history'.batches
      BY <2>1, <2>2, <2>4 DEF BatchesOk
    <2>9. QED
      BY <2>1, <2>3, <2>4, <2>5, <2>6, <2>7, <2>8 DEF BatchesOk
  <1>4. CASE UNCHANGED <<batch, dels, history>> /\ scan' = [scan EXCEPT ![p] = NoScan]
    <2>1. Scans(p, NoScan)
      BY <1>4, ScansOne
    <2>2. QED
      BY <1>1, <1>4, <2>1, IdleScan, OpenScan DEF BatchesOk
  <1>5. CASE ReserveDelivery(p)
    <2>1. IsLog(history') /\ SameBatches(history', history)
      BY <1>5, LogReserve
    <2>2. PICK s : Scans(p, s) /\ s.step = "reserved"
      <3>1. Stepped(p, "reserved")
        BY <1>5 DEF ReserveDelivery, Stepped
      <3>2. QED
        BY <3>1, StepOne
    <2>3. UNCHANGED <<name, batch>> /\ batch[p] # 0
      BY <1>1, <1>5 DEF ReserveDelivery
    <2>4. \A x \in dels' : x.batch \in Nat /\ 1 <= x.batch /\ x.batch <= history.batches
      BY <1>5, <2>3, ReservedDels DEF BatchesOk
    <2>5. QED
      BY <2>1, <2>2, <2>3, <2>4 DEF BatchesOk, Scans, Exists, SameBatches
  <1>6. CASE ProcessBatch(p)
    <2>1. PICK s : Scans(p, s) /\ s.step = "written"
      <3>1. Stepped(p, "written")
        BY <1>6 DEF ProcessBatch, Stepped
      <3>2. QED
        BY <3>1, StepOne
    <2>2. UNCHANGED <<name, batch, history>> /\ scan[p].step = "reserved"
      BY <1>1, <1>6 DEF ProcessBatch
    <2>3. \A x \in dels' : x.batch \in Nat /\ 1 <= x.batch /\ x.batch <= history.batches
      BY <1>6, WrittenDels DEF BatchesOk
    <2>4. QED
      BY <2>1, <2>2, <2>3, OpenScan DEF BatchesOk
  <1>7. CASE CloseBatch(p)
    <2>1. Scans(p, NoScan) /\ UNCHANGED dels /\ scan[p].step = "written"
      BY <1>7, ScansOne DEF CloseBatch
    <2>2. \/ UNCHANGED <<batch, history>>
          \/ UNCHANGED history /\ batch' = [batch EXCEPT ![p] = 0]
          \/ /\ history'.closed = history.closed \cup {batch[p]}
             /\ history'.batches = history.batches /\ batch' = [batch EXCEPT ![p] = 0]
      BY <1>7, LogClose DEF CloseBatch
    <2>3. CASE UNCHANGED <<batch, history>>
      BY <1>1, <2>1, <2>3, IdleScan, OpenScan DEF BatchesOk
    <2>4. CASE /\ history'.batches = history.batches /\ batch' = [batch EXCEPT ![p] = 0]
               /\ history'.closed \in {history.closed, history.closed \cup {batch[p]}}
      <3>1. /\ batch' = [q \in Pipelines |-> batch'[q]]
            /\ \A q \in Pipelines : batch'[q] = IF q = p THEN 0 ELSE batch[q]
        BY <2>4 DEF BatchesOk
      <3>2. batch[p] \in Nat /\ batch[p] # 0 /\ batch[p] <= history.batches
        BY <2>1 DEF BatchesOk
      <3>3. \A b \in history'.closed : b \in Nat /\ 1 <= b /\ b <= history'.batches
        BY <2>4, <3>2 DEF BatchesOk
      <3>4. \A q \in Pipelines :
              /\ batch'[q] \in Nat /\ batch'[q] <= history'.batches
              /\ batch'[q] \notin history'.closed
        <4>1. 0 \notin history'.closed
          BY <3>3
        <4>2. ASSUME NEW q \in Pipelines \ {p} PROVE batch[q] \notin history'.closed
          <5>1. batch[q] # batch[p]
            BY <3>2 DEF BatchesOk
          <5>2. batch[q] \notin history.closed
            BY DEF BatchesOk
          <5>3. QED
            BY <2>4, <5>1, <5>2
        <4>3. \A q \in Pipelines : batch'[q] \notin history'.closed
          BY <3>1, <4>1, <4>2
        <4>4. \A q \in Pipelines : batch'[q] \in Nat /\ batch'[q] <= history'.batches
          BY <2>4, <3>1 DEF BatchesOk, IsLog
        <4>5. QED
          BY <4>3, <4>4
      <3>5. \A q \in Pipelines :
              /\ batch'[q] # 0 \/ scan'[q].step # "idle" => Exists(q)'
              /\ scan'[q].step \in {"idle", "listed", "reserved", "written"}
              /\ scan'[q].step = "idle" => scan'[q] = NoScan
              /\ scan'[q].step \in {"reserved", "written"} => batch'[q] # 0
        BY <1>1, <2>1, <3>1, IdleScan DEF BatchesOk, Exists, Scans
      <3>6. \A q, r \in Pipelines : q # r /\ batch'[q] # 0 => batch'[q] # batch'[r]
        BY <3>1 DEF BatchesOk
      <3>7. \A x \in dels' : x.batch \in Nat /\ 1 <= x.batch /\ x.batch <= history'.batches
        BY <2>1, <2>4 DEF BatchesOk
      <3>8. QED
        BY <2>4, <3>1, <3>3, <3>4, <3>5, <3>6, <3>7 DEF BatchesOk
    <2>5. QED
      BY <2>2, <2>3, <2>4
  <1>8. QED
    BY <1>2, <1>3, <1>4, <1>5, <1>6, <1>7, FormCases
    DEF EngineMoves, EngineStep, FormBatch, Crash

LEMMA OpenStep == OpenInv /\ [Next]_vars => OpenInv'
  <1> SUFFICES ASSUME OpenInv, [Next]_vars PROVE OpenInv'
    OBVIOUS
  <1>1. OwnInv
    BY DEF OpenInv, DeliveryInv
  <1>2. DeliveryInv' /\ IsLog(history)' /\ FreshInv'
    BY <1>1, DeliveryStep, LogStep, FreshStep DEF OpenInv
  <1>3. BatchesOk'
    BY <1>1, AdminMoves, OpenAdmin, OpenEngine DEF OpenInv
  <1>4. QED
    BY <1>2, <1>3 DEF OpenInv

-----------------------------------------------------------------------------
(* Calm pipelines.  As long as no write and no attempt used a copy that was   *)
(* out of date, the destinations of an open batch are those of the document. *)

Calm(p) ==
  /\ batch[p] # 0 \/ scan[p].step # "idle" => ~NeedsRows(p)
  /\ batch[p] # 0 => \A x \in dels : x.batch = batch[p] => x.uid \in UidsOf(doc[p].outs)
  /\ scan[p].step \in {"reserved", "written"} => UidsOf(scan[p].outs) = UidsOf(doc[p].outs)

CalmInv == \A p \in Pipelines : ~history.raced[p] => Calm(p)

\* A document that is written does not change the rows of an open batch.
KeepsRows(p) ==
  /\ batch[p] # 0 \/ scan[p].step # "idle" => 0 \notin UidsOf(doc'[p].outs)
  /\ batch[p] # 0 => UidsOf(doc'[p].outs) = UidsOf(doc[p].outs)

LEMMA CalmAdmin ==
  ASSUME BatchesOk, CalmInv, AdminOnly, \A p \in Pipelines : ~history'.raced[p] => KeepsRows(p)
  PROVE  CalmInv'
  <1>1. UNCHANGED <<batch, scan, dels>>
    BY DEF AdminOnly, engineVars
  <1>2. ASSUME NEW p \in Pipelines, ~history'.raced[p] PROVE Calm(p)'
    <2>1. KeepsRows(p) /\ Calm(p)
      BY <1>2 DEF AdminOnly, CalmInv
    <2>2. (NeedsRows(p))' <=> 0 \in UidsOf(doc'[p].outs)
      BY DEF NeedsRows, UidsOf
    <2>3. scan[p].step \in {"reserved", "written"} => batch[p] # 0
      BY DEF BatchesOk
    <2>4. QED
      BY <1>1, <2>1, <2>2, <2>3 DEF KeepsRows, Calm, UidsOf
  <1>3. QED
    BY <1>2 DEF CalmInv

LEMMA SameKeeps ==
  ASSUME CalmInv, NEW p \in Pipelines, ~history.raced[p], doc'[p].outs = doc[p].outs
  PROVE  KeepsRows(p)
  BY DEF CalmInv, Calm, KeepsRows, NeedsRows

LEMMA FilledRows ==
  ASSUME NEW outs, NEW new \in NewRows(NewDests(outs))
  PROVE  /\ DOMAIN Filled(outs, new) = DOMAIN outs
         /\ \A d \in DOMAIN outs :
              /\ Filled(outs, new)[d] # 0
              /\ outs[d] # 0 => Filled(outs, new)[d] = outs[d]
              /\ outs[d] = 0 => d \in NewDests(outs) /\ Filled(outs, new)[d] = new[d]
  BY DEF NewRows, NewDests, Filled

LEMMA CalmAdminStep ==
  ASSUME OpenInv, CalmInv, [Next]_vars, AdminOnly
  PROVE  CalmInv' \/ \E p \in Pipelines : EngineMoves(p)
  <1>o. OwnInv /\ IsLog(history) /\ FreshInv /\ BatchesOk /\ Copies
    BY DEF OpenInv, DeliveryInv, OwnInv, ColumnsInv
  <1>r. \A q \in Pipelines : ~history'.raced[q] => ~history.raced[q]
    BY DEF AdminOnly
  <1>s. ASSUME UNCHANGED doc PROVE CalmInv'
    <2>1. \A q \in Pipelines : doc'[q].outs = doc[q].outs
      BY <1>s
    <2>2. QED
      BY <1>o, <1>r, <2>1, SameKeeps, CalmAdmin
  <1>1. ASSUME NEW p \in Pipelines, NEW n, NEW input, NEW dests, CreatePipeline(p, n, input, dests)
        PROVE  CalmInv'
    <2>1. \A q \in Pipelines \ {p} : doc'[q].outs = doc[q].outs
      BY <1>1, <1>o, CreateEffect DEF Publishes
    <2>2. batch[p] = 0 /\ scan[p].step = "idle"
      BY <1>1, <1>o DEF CreatePipeline, BatchesOk
    <2>3. \A q \in Pipelines : ~history'.raced[q] => KeepsRows(q)
      BY <1>r, <2>1, <2>2, SameKeeps DEF KeepsRows
    <2>4. QED
      BY <1>o, <2>3, CalmAdmin
  <1>2. ASSUME NEW u \in Requests, NEW p \in Pipelines, RequestStarts(u, p) PROVE CalmInv'
    BY <1>2, <1>s DEF RequestStarts, EnsureDestinations, Toggle, OpenPage
  <1>3. ASSUME NEW u \in Requests, WritesBack(u) PROVE CalmInv'
    <2> DEFINE p == desk[u].pl
    <2>1. p \in Pipelines /\ desk[u].kind \in {"ensure", "toggle"}
      BY <1>3, <1>o, DeskPipeline DEF WritesBack, EnsureWrite, SetPipelineEnabled
    <2>2. Races(history', history, p, Stale(u))
      BY <1>3, <1>o, <2>1, LogWrite DEF WritesBack
    <2>3. \A q \in Pipelines : doc'[q] = IF q = p THEN desk[u].doc ELSE doc[q]
      BY <1>3, <1>o, WriteEffect DEF WritesBack, Publishes
    <2>4. ASSUME ~history'.raced[p] PROVE KeepsRows(p)
      <3>1. ~Stale(u) /\ ~history.raced[p]
        BY <2>1, <2>2, <2>4 DEF Races
      <3>2. /\ desk[u].kind = "ensure" => NeedsRows(p)
            /\ desk[u].kind = "toggle" => desk[u].doc.outs = doc[p].outs
        BY <1>o, <2>1, <3>1 DEF FreshInv, FreshCopy, Stale
      <3>3. CASE NeedsRows(p)
        BY <2>1, <3>1, <3>3 DEF CalmInv, Calm, KeepsRows
      <3>4. CASE desk[u].doc.outs = doc[p].outs
        BY <2>1, <2>3, <3>1, <3>4, SameKeeps
      <3>5. QED
        BY <2>1, <3>2, <3>3, <3>4
    <2>5. \A q \in Pipelines : ~history'.raced[q] => KeepsRows(q)
      BY <1>r, <2>3, <2>4, SameKeeps
    <2>6. QED
      BY <1>o, <2>5, CalmAdmin
  <1>4. ASSUME NEW u \in Requests, UpdatePipeline(u) PROVE CalmInv'
    BY <1>4, <1>s DEF UpdatePipeline
  <1>5. ASSUME NEW u \in Requests, Save(u) PROVE CalmInv'
    <2> DEFINE p == desk[u].pl
               outs == desk[u].doc.outs
    <2>1. p \in Pipelines
      BY <1>5, <1>o, DeskPipeline DEF Save
    <2>2. CASE UNCHANGED doc
      BY <1>s, <2>2
    <2>3. ASSUME \A q \in Pipelines \ {p} : name[q] # desk[u].name,
                 NEW new \in NewRows(NewDests(outs)), NEW d, d.outs = Filled(outs, new),
                 Publishes(p, d)
          PROVE  CalmInv'
      <3>1. Races(history', history, p, LateSave(u))
        BY <1>5, <1>o, <2>1, <2>3, LogSave
      <3>2. \A q \in Pipelines : doc'[q] = IF q = p THEN d ELSE doc[q]
        BY <2>3 DEF Publishes
      <3>3. 0 \notin UidsOf(doc'[p].outs)
        BY <2>1, <2>3, <3>2, FilledRows DEF UidsOf
      <3>4. ASSUME ~history'.raced[p] PROVE KeepsRows(p)
        <4>1. ~LateSave(u) /\ ~history.raced[p]
          BY <2>1, <3>1, <3>4 DEF Races
        <4>2. ASSUME batch[p] # 0 PROVE UidsOf(doc'[p].outs) = UidsOf(doc[p].outs)
          <5>1. outs = doc[p].outs
            BY <4>1, <4>2 DEF LateSave, StructuralChange
          <5>2. 0 \notin UidsOf(outs)
            BY <2>1, <4>1, <4>2, <5>1 DEF CalmInv, Calm, NeedsRows
          <5>3. \A x \in DOMAIN outs : Filled(outs, new)[x] = outs[x]
            BY <2>3, <5>2, FilledRows DEF UidsOf
          <5>4. DOMAIN Filled(outs, new) = DOMAIN outs
            BY <2>3, FilledRows
          <5>5. doc'[p].outs = Filled(outs, new)
            BY <2>1, <2>3, <3>2
          <5> HIDE DEF outs
          <5>6. QED
            BY <5>1, <5>3, <5>4, <5>5 DEF UidsOf
        <4>3. QED
          BY <3>3, <4>2 DEF KeepsRows
      <3>5. \A q \in Pipelines : ~history'.raced[q] => KeepsRows(q)
        BY <1>r, <3>2, <3>4, SameKeeps
      <3>6. QED
        BY <1>o, <3>5, CalmAdmin
    <2>4. QED
      BY <1>5, <1>o, <2>2, <2>3, SaveEffect
  <1>6. CASE UNCHANGED vars
    BY <1>6, <1>s DEF vars, adminVars
  <1>7. QED
    BY <1>1, <1>2, <1>3, <1>4, <1>5, <1>6, NextMoves

LEMMA CalmEngine ==
  ASSUME OpenInv, CalmInv, NEW p \in Pipelines, EngineMoves(p)
  PROVE  CalmInv'
  <1>o. /\ DeliveryInv /\ IsLog(history) /\ BatchesOk
        /\ UNCHANGED doc /\ \A q \in Pipelines : ~history'.raced[q] => ~history.raced[q]
    BY LogEngine DEF OpenInv, adminVars
  <1>s. ASSUME NEW s, Scans(p, s), UNCHANGED <<batch, history>>,
               s.step # "idle" /\ ~history.raced[p] => ~NeedsRows(p),
               s.step \in {"reserved", "written"} /\ ~history.raced[p] =>
                 UidsOf(s.outs) = UidsOf(doc[p].outs),
               \A x \in dels' : x \in dels \/ \E y \in dels : x.uid = y.uid /\ x.batch = y.batch
        PROVE  CalmInv'
    <2>1. ASSUME NEW q \in Pipelines, ~history'.raced[q] PROVE Calm(q)'
      <3>1. Calm(q)
        BY <1>o, <2>1 DEF CalmInv
      <3>2. scan'[q] = IF q = p THEN s ELSE scan[q]
        BY <1>s DEF Scans
      <3>3. (NeedsRows(q))' <=> NeedsRows(q)
        BY <1>o DEF NeedsRows
      <3>4. batch'[q] # 0 \/ scan'[q].step # "idle" => ~(NeedsRows(q))'
        BY <1>o, <1>s, <2>1, <3>1, <3>2, <3>3 DEF Calm
      <3>5. batch'[q] # 0 => \A x \in dels' : x.batch = batch'[q] => x.uid \in UidsOf(doc'[q].outs)
        BY <1>o, <1>s, <3>1 DEF Calm
      <3>6. scan'[q].step \in {"reserved", "written"} => UidsOf(scan'[q].outs) = UidsOf(doc'[q].outs)
        BY <1>o, <1>s, <2>1, <3>1, <3>2 DEF Calm
      <3>7. QED
        BY <3>4, <3>5, <3>6 DEF Calm, UidsOf
    <2>2. QED
      BY <2>1 DEF CalmInv
  <1>1. CASE Scan(p)
    <2> DEFINE s == [step |-> "listed", outs |-> doc[p].outs]
    <2>1. Scans(p, s) /\ s.step = "listed"
      BY <1>1, <1>o, ScansOne DEF Scan
    <2>2. UNCHANGED <<batch, history, dels>> /\ ~NeedsRows(p)
      BY <1>1 DEF Scan, Listed
    <2> HIDE DEF s
    <2>3. QED
      BY <1>s, <2>1, <2>2
  <1>2. CASE FormBatch(p) /\ ~UNCHANGED history
    <2>1. /\ history'.raced = history.raced
          /\ batch' = [batch EXCEPT ![p] = history.batches + 1] /\ UNCHANGED scan
      BY <1>2, <1>o, LogForm
    <2>2. UNCHANGED dels /\ scan[p].step = "listed"
      BY <1>2 DEF FormBatch
    <2>3. \A q \in Pipelines : batch'[q] = IF q = p THEN history.batches + 1 ELSE batch[q]
      BY <1>o, <2>1 DEF BatchesOk
    <2>4. \A x \in dels : x.batch # history.batches + 1
      BY <1>o DEF BatchesOk, IsLog
    <2>5. ASSUME NEW q \in Pipelines, ~history'.raced[q] PROVE Calm(q)'
      <3>1. Calm(q)
        BY <1>o, <2>5 DEF CalmInv
      <3>2. (NeedsRows(q))' <=> NeedsRows(q)
        BY <1>o DEF NeedsRows
      <3>3. batch'[q] # 0 \/ scan'[q].step # "idle" => ~(NeedsRows(q))'
        BY <2>1, <2>2, <2>3, <3>1, <3>2 DEF Calm
      <3>4. batch'[q] # 0 => \A x \in dels' : x.batch = batch'[q] => x.uid \in UidsOf(doc'[q].outs)
        BY <1>o, <2>2, <2>3, <2>4, <3>1 DEF Calm
      <3>5. scan'[q].step \in {"reserved", "written"} => UidsOf(scan'[q].outs) = UidsOf(doc'[q].outs)
        BY <1>o, <2>1, <3>1 DEF Calm
      <3>6. QED
        BY <3>3, <3>4, <3>5 DEF Calm, UidsOf
    <2>6. QED
      BY <2>5 DEF CalmInv
  <1>3. CASE UNCHANGED <<batch, dels, history>> /\ scan' = [scan EXCEPT ![p] = NoScan]
    <2>1. Scans(p, NoScan)
      BY <1>3, <1>o, ScansOne
    <2>2. QED
      BY <1>3, <1>s, <2>1, IdleScan
  <1>4. CASE ReserveDelivery(p)
    <2>1. Races(history', history, p, scan[p].outs # doc[p].outs)
      BY <1>4, <1>o, LogReserve
    <2>2. PICK s : Scans(p, s) /\ s.step = "reserved" /\ s.outs = scan[p].outs
      <3>1. Stepped(p, "reserved")
        BY <1>4 DEF ReserveDelivery, Stepped
      <3>2. QED
        BY <1>o, <3>1, StepOne
    <2>3. UNCHANGED batch /\ batch[p] # 0
      BY <1>4 DEF ReserveDelivery
    <2>4. \A x \in dels' : x \in dels \/ (x.batch = batch[p] /\ x.uid \in UidsOf(scan[p].outs))
      BY <1>4, <1>o, ReservedDels
    <2>5. ASSUME NEW q \in Pipelines, ~history'.raced[q] PROVE Calm(q)'
      <3>1. Calm(q) /\ (q = p => scan[p].outs = doc[p].outs)
        BY <1>o, <2>1, <2>5 DEF CalmInv, Races
      <3>2. (NeedsRows(q))' <=> NeedsRows(q)
        BY <1>o DEF NeedsRows
      <3>3. scan'[q] = IF q = p THEN s ELSE scan[q]
        BY <2>2 DEF Scans
      <3>4. batch'[q] # 0 \/ scan'[q].step # "idle" => ~(NeedsRows(q))'
        BY <2>3, <3>1, <3>2, <3>3 DEF Calm
      <3>5. ASSUME batch'[q] # 0, NEW x \in dels', x.batch = batch'[q]
            PROVE  x.uid \in UidsOf(doc'[q].outs)
        <4>1. CASE x \in dels
          BY <1>o, <2>3, <3>1, <3>5, <4>1 DEF Calm
        <4>2. CASE x.batch = batch[p] /\ x.uid \in UidsOf(scan[p].outs)
          <5>1. q = p
            BY <1>o, <2>3, <3>5, <4>2 DEF BatchesOk
          <5>2. QED
            BY <1>o, <3>1, <4>2, <5>1
        <4>3. QED
          BY <2>4, <4>1, <4>2
      <3>6. scan'[q].step \in {"reserved", "written"} => UidsOf(scan'[q].outs) = UidsOf(doc'[q].outs)
        BY <1>o, <2>2, <3>1, <3>3 DEF Calm
      <3>7. QED
        BY <3>4, <3>5, <3>6 DEF Calm, UidsOf
    <2>6. QED
      BY <2>5 DEF CalmInv
  <1>5. CASE ProcessBatch(p)
    <2>1. PICK s : Scans(p, s) /\ s.step = "written" /\ s.outs = scan[p].outs
      <3>1. Stepped(p, "written")
        BY <1>5 DEF ProcessBatch, Stepped
      <3>2. QED
        BY <1>o, <3>1, StepOne
    <2>2. UNCHANGED <<batch, history>> /\ scan[p].step = "reserved"
      BY <1>5 DEF ProcessBatch
    <2>3. \A x \in dels' : x \in dels \/ \E y \in dels : x.uid = y.uid /\ x.batch = y.batch
      <3>1. \A x \in dels' : x \in dels \/ (x.done /\ \E y \in dels : x.uid = y.uid /\ x.batch = y.batch)
        BY <1>5, <1>o, WrittenDels
      <3>2. QED
        BY <3>1
    <2>4. ~history.raced[p] => UidsOf(s.outs) = UidsOf(doc[p].outs) /\ ~NeedsRows(p)
      BY <2>1, <2>2 DEF CalmInv, Calm
    <2>5. QED
      BY <1>s, <2>1, <2>2, <2>3, <2>4
  <1>6. CASE CloseBatch(p)
    <2>1. Scans(p, NoScan) /\ UNCHANGED dels
      BY <1>6, <1>o, ScansOne DEF CloseBatch
    <2>2. UNCHANGED batch \/ batch' = [batch EXCEPT ![p] = 0]
      BY <1>6 DEF CloseBatch
    <2>3. \A q \in Pipelines : batch'[q] \in {batch[q], 0}
      BY <1>o, <2>2 DEF BatchesOk
    <2>4. ASSUME NEW q \in Pipelines, ~history'.raced[q] PROVE Calm(q)'
      <3>1. Calm(q)
        BY <1>o, <2>4 DEF CalmInv
      <3>2. (NeedsRows(q))' <=> NeedsRows(q)
        BY <1>o DEF NeedsRows
      <3>3. scan'[q] = IF q = p THEN NoScan ELSE scan[q]
        BY <2>1 DEF Scans
      <3>4. QED
        BY <1>o, <2>1, <2>3, <3>1, <3>2, <3>3, IdleScan DEF Calm, UidsOf
    <2>5. QED
      BY <2>4 DEF CalmInv
  <1>7. QED
    BY <1>o, <1>1, <1>2, <1>3, <1>4, <1>5, <1>6, FormCases
    DEF EngineMoves, EngineStep, FormBatch, Crash

LEMMA GapStep == OpenInv /\ CalmInv /\ GapsOnlyFromAbandoned /\ [Next]_vars => GapsOnlyFromAbandoned'
  <1> SUFFICES ASSUME OpenInv, CalmInv, GapsOnlyFromAbandoned, [Next]_vars,
                      \A p \in Pipelines : ~history'.raced[p],
                      NEW x \in dels', x.batch \in history'.closed
               PROVE  x.done
    BY DEF GapsOnlyFromAbandoned
  <1>o. OwnInv /\ DeliveryInv /\ IsLog(history) /\ BatchesOk
    BY DEF OpenInv, DeliveryInv
  <1>1. CASE AdminOnly
    BY <1>1 DEF AdminOnly, engineVars, SameBatches, GapsOnlyFromAbandoned
  <1>2. ASSUME NEW p \in Pipelines, EngineMoves(p) PROVE x.done
    <2>1. UNCHANGED doc /\ \A q \in Pipelines : ~history.raced[q]
      BY <1>2, <1>o, LogEngine DEF adminVars
    <2>2. \A y \in dels : y.batch \in history.closed => y.done
      BY <2>1 DEF GapsOnlyFromAbandoned
    <2>3. CASE UNCHANGED history /\ UNCHANGED dels
      BY <2>2, <2>3
    <2>4. CASE FormBatch(p) /\ ~UNCHANGED history
      BY <1>o, <2>2, <2>4, LogForm DEF FormBatch
    <2>5. CASE ReserveDelivery(p)
      <3>1. history'.closed = history.closed
        BY <1>o, <2>5, LogReserve DEF SameBatches
      <3>2. x \notin dels => x.batch = batch[p]
        BY <1>o, <2>5, ReservedDels
      <3>3. QED
        BY <1>o, <2>2, <3>1, <3>2 DEF BatchesOk
    <2>6. CASE ProcessBatch(p)
      <3>1. x \in dels \/ x.done
        BY <1>o, <2>6, WrittenDels
      <3>2. UNCHANGED history
        BY <2>6 DEF ProcessBatch
      <3>3. QED
        BY <2>2, <3>1, <3>2
    <2>7. CASE CloseBatch(p) /\ ~UNCHANGED history
      <3>1. history'.closed = history.closed \cup {batch[p]} /\ Complete(p)
        BY <1>o, <2>7, LogClose
      <3>2. UNCHANGED dels /\ scan[p].step = "written"
        BY <2>7 DEF CloseBatch
      <3>3. CASE x.batch \in history.closed
        BY <2>2, <3>2, <3>3
      <3>4. CASE x.batch = batch[p]
        <4>1. batch[p] # 0 /\ Calm(p)
          BY <1>o, <2>1, <3>2 DEF BatchesOk, CalmInv
        <4>2. x.uid \in UidsOf(scan[p].outs)
          BY <3>2, <3>4, <4>1 DEF Calm
        <4>3. QED
          BY <3>1, <3>2, <3>4, <4>2 DEF Complete, Owed
      <3>5. QED
        BY <3>1, <3>3, <3>4
    <2>8. QED
      BY <1>2, <2>3, <2>4, <2>5, <2>6, <2>7
      DEF EngineMoves, EngineStep, Scan, FormBatch, CloseBatch, Crash
  <1>3. QED
    BY <1>o, <1>1, <1>2, AdminMoves

GapInv == OpenInv /\ CalmInv /\ GapsOnlyFromAbandoned

LEMMA GapInvStep == GapInv /\ [Next]_vars => GapInv'
  <1> SUFFICES ASSUME GapInv, [Next]_vars PROVE GapInv'
    OBVIOUS
  <1>1. CalmInv'
    <2>1. OwnInv /\ IsLog(history)
      BY DEF GapInv, OpenInv, DeliveryInv
    <2>2. QED
      BY <2>1, AdminMoves, CalmAdminStep, CalmEngine DEF GapInv
  <1>2. QED
    BY <1>1, OpenStep, GapStep DEF GapInv

LEMMA LogInit == Init => IsLog(history)
  <1> SUFFICES ASSUME Init PROVE IsLog(history)
    OBVIOUS
  <1>1. \A p \in Pipelines : IsFiniteSet({name[p]} \ {<< >>})
    <2>1. \A p \in Pipelines : IsFiniteSet({name[p]})
      BY FS_Singleton
    <2>2. \A p \in Pipelines : {name[p]} \ {<< >>} \subseteq {name[p]}
      OBVIOUS
    <2>3. QED
      BY <2>1, <2>2, FS_Subset
  <1>2. QED
    BY <1>1 DEF Init, IsLog, IsRecord

LEMMA GapInvInit == Init => GapInv
  <1> SUFFICES ASSUME Init PROVE GapInv
    OBVIOUS
  <1>1. DeliveryInv /\ IsLog(history)
    BY DeliveryInit, LogInit
  <1>2. FreshInv
    BY FreshIdle DEF Init, FreshInv
  <1>3. /\ batch = [p \in Pipelines |-> 0] /\ scan = [p \in Pipelines |-> NoScan] /\ dels = {}
        /\ history.batches = 0 /\ history.closed = {}
    BY DEF Init
  <1>4. BatchesOk
    BY <1>3, IdleScan, ConfigAssumption DEF BatchesOk, ConfigAssumption
  <1>5. CalmInv
    BY <1>3, IdleScan DEF CalmInv, Calm
  <1>6. GapsOnlyFromAbandoned
    BY <1>3 DEF GapsOnlyFromAbandoned
  <1>7. QED
    BY <1>1, <1>2, <1>4, <1>5, <1>6 DEF GapInv, OpenInv

\* A number that a destination's sequence has given out is delivered by the time its
\* batch is closed, unless a copy that was out of date was written or used.
THEOREM GapsComeFromAbandoned == Spec => []GapsOnlyFromAbandoned
  <1>1. GapInv => GapsOnlyFromAbandoned
    BY DEF GapInv
  <1>2. QED
    BY <1>1, GapInvInit, GapInvStep, PTL DEF Spec

-----------------------------------------------------------------------------
(* Rows by name.  Only the destination of a legacy pipeline has a row whose  *)
(* name is not the one of today; every other destination has at most one row, *)
(* and that one is found by its name when the destination comes back.      *)

Exempt(p, d) == p \in Legacy /\ d = Default

Zeros(p, outs) == \A d \in DOMAIN outs : outs[d] = 0 => Exempt(p, d)

ZerosInv ==
  /\ \A p \in Pipelines : Zeros(p, doc[p].outs)
  /\ \A u \in Requests : desk[u].kind \in {"ensure", "toggle"} => Zeros(desk[u].pl, desk[u].doc.outs)

LEMMA ZerosStep == OwnInv /\ ZerosInv /\ [Next]_vars => ZerosInv'
  <1> SUFFICES ASSUME OwnInv, ZerosInv, [Next]_vars PROVE ZerosInv'
    OBVIOUS
  <1>c. Copies
    BY DEF OwnInv, ColumnsInv
  <1>d. ASSUME NEW p \in Pipelines, NEW d, Publishes(p, d), Zeros(p, d.outs)
        PROVE  \A q \in Pipelines : Zeros(q, doc'[q].outs)
    BY <1>d DEF ZerosInv, Publishes
  <1>t. ASSUME NEW u, NEW c, Takes(u, c),
               c.kind \in {"ensure", "toggle"} => Zeros(c.pl, c.doc.outs)
        PROVE  \A v \in Requests :
                 desk'[v].kind \in {"ensure", "toggle"} => Zeros(desk'[v].pl, desk'[v].doc.outs)
    BY <1>t DEF ZerosInv, Takes
  <1>i. Idle.kind = "none"
    BY DEF Idle
  <1>q. ASSUME \A q \in Pipelines : Zeros(q, doc'[q].outs),
               \A v \in Requests :
                 desk'[v].kind \in {"ensure", "toggle"} => Zeros(desk'[v].pl, desk'[v].doc.outs)
        PROVE  ZerosInv'
    BY <1>q DEF ZerosInv, Zeros
  <1>1. ASSUME NEW p \in Pipelines, NEW n, NEW input, NEW dests, CreatePipeline(p, n, input, dests)
        PROVE  ZerosInv'
    <2>1. PICK new \in NewRows(dests) :
            Publishes(p, [enabled |-> TRUE, input |-> input, outs |-> new])
      BY <1>1, <1>c, CreateEffect
    <2>2. Zeros(p, new)
      BY DEF NewRows, Zeros
    <2>3. UNCHANGED desk
      BY <1>1 DEF CreatePipeline
    <2>4. \A q \in Pipelines : Zeros(q, doc'[q].outs)
      BY <1>d, <2>1, <2>2
    <2>5. QED
      BY <2>3, <2>4 DEF ZerosInv, Zeros
  <1>2. ASSUME NEW u \in Requests, NEW p \in Pipelines, RequestStarts(u, p) PROVE ZerosInv'
    <2>1. UNCHANGED doc
      BY <1>2 DEF RequestStarts, EnsureDestinations, Toggle, OpenPage
    <2>2. \E c : /\ Takes(u, c)
                 /\ c.kind \in {"ensure", "toggle"} => Zeros(c.pl, c.doc.outs)
      <3>1. CASE EnsureDestinations(u, p)
        <4>1. PICK c, x : Ensures(u, p, c, x)
          BY <1>c, <3>1, EnsureEffect
        <4>2. Zeros(p, c.doc.outs)
          BY <4>1 DEF ZerosInv, Zeros, Ensures
        <4>3. QED
          BY <4>1, <4>2 DEF Made, Ensures
      <3>2. CASE Toggle(u, p)
        BY <1>c, <3>2, ToggleEffect DEF Made, ZerosInv
      <3>3. CASE OpenPage(u, p)
        BY <1>c, <3>3, PageEffect DEF Made
      <3>4. QED
        BY <1>2, <3>1, <3>2, <3>3 DEF RequestStarts
    <2>3. \A v \in Requests :
            desk'[v].kind \in {"ensure", "toggle"} => Zeros(desk'[v].pl, desk'[v].doc.outs)
      BY <1>t, <2>2
    <2>4. QED
      BY <2>1, <2>3 DEF ZerosInv, Zeros
  <1>3. ASSUME NEW u \in Requests, WritesBack(u) PROVE ZerosInv'
    <2>1. desk[u].pl \in Pipelines /\ desk[u].kind \in {"ensure", "toggle"}
      BY <1>3, DeskPipeline DEF WritesBack, EnsureWrite, SetPipelineEnabled
    <2>2. Takes(u, Idle) /\ Publishes(desk[u].pl, desk[u].doc)
      BY <1>3, <1>c, WriteEffect DEF WritesBack
    <2>3. Zeros(desk[u].pl, desk[u].doc.outs)
      BY <2>1 DEF ZerosInv
    <2>4. QED
      BY <1>d, <1>i, <1>q, <1>t, <2>1, <2>2, <2>3
  <1>4. ASSUME NEW u \in Requests, UpdatePipeline(u) PROVE ZerosInv'
    <2>1. UNCHANGED doc
      BY <1>4 DEF UpdatePipeline
    <2>2. \A v \in Requests :
            desk'[v].kind \in {"ensure", "toggle"} => Zeros(desk'[v].pl, desk'[v].doc.outs)
      BY <1>4, <1>c, <1>i, <1>t, UpdateEffect DEF Made
    <2>3. QED
      BY <2>1, <2>2 DEF ZerosInv, Zeros
  <1>5. ASSUME NEW u \in Requests, Save(u) PROVE ZerosInv'
    <2>1. desk[u].pl \in Pipelines
      BY <1>5, DeskPipeline DEF Save
    <2>2. Takes(u, Idle)
      BY <1>5, <1>c, SaveEffect
    <2>3. CASE UNCHANGED doc
      BY <1>i, <1>t, <2>2, <2>3 DEF ZerosInv, Zeros
    <2>4. ASSUME NEW new \in NewRows(NewDests(desk[u].doc.outs)),
                 NEW d, d.outs = Filled(desk[u].doc.outs, new), Publishes(desk[u].pl, d)
          PROVE  ZerosInv'
      <3>1. Zeros(desk[u].pl, d.outs)
        BY <2>4, FilledRows DEF Zeros
      <3>2. QED
        BY <1>d, <1>i, <1>q, <1>t, <2>1, <2>2, <2>4, <3>1
    <2>5. QED
      BY <1>5, <1>c, <2>3, <2>4, SaveEffect
  <1>6. ASSUME UNCHANGED <<desk, doc>> PROVE ZerosInv'
    BY <1>6 DEF ZerosInv, Zeros
  <1>7. QED
    BY <1>1, <1>2, <1>3, <1>4, <1>5, <1>6, NextMoves, LogEngine
    DEF EngineMoves, EngineStep, Scan, FormBatch, ReserveDelivery, ProcessBatch, CloseBatch, Crash,
        vars, adminVars

\* Names of rows.
LEMMA ConcatCancel ==
  ASSUME NEW n \in Seq(STRING), NEW d \in Seq(STRING), NEW e \in Seq(STRING), n \o d = n \o e
  PROVE  d = e
  <1>1. Len(n \o d) = Len(n) + Len(d) /\ Len(n \o e) = Len(n) + Len(e)
    OBVIOUS
  <1>2. Len(d) = Len(e)
    BY <1>1
  <1>3. \A i \in 1..Len(d) : (n \o d)[Len(n) + i] = d[i]
    OBVIOUS
  <1>4. \A i \in 1..Len(e) : (n \o e)[Len(n) + i] = e[i]
    OBVIOUS
  <1>5. \A i \in 1..Len(d) : d[i] = e[i]
    BY <1>2, <1>3, <1>4
  <1>6. QED
    BY <1>2, <1>5

LEMMA SameRowName ==
  ASSUME NEW n \in PlNames, NEW m \in PlNames, NEW d \in DestNames, NEW e \in DestNames,
         n \o d = m \o e
  PROVE  IsPrefix(n, m) \/ IsPrefix(m, n)
  <1>1. /\ n \in Seq(STRING) /\ m \in Seq(STRING) /\ d \in Seq(STRING) /\ e \in Seq(STRING)
    BY ConfigAssumption DEF ConfigAssumption
  <1>2. IsPrefix(n, n \o d) /\ IsPrefix(m, m \o e) /\ n \o d \in Seq(STRING)
    BY <1>1, PrefixConcat
  <1>3. QED
    BY <1>1, <1>2, PrefixesCompare

\* Nothing is between this pipeline and its rows.
Quiet(p) ==
  /\ ~history.raced[p]
  /\ \A n, m \in history.named[p] : n = m
  /\ \A q \in Pipelines \ {p} : ~Related(p, q)

NamedIn(R, n, p, outs) ==
  \A d \in DOMAIN outs :
    outs[d] = 0 \/ Exempt(p, d) \/ \E r \in R : r.uid = outs[d] /\ r.name = n \o d

\* There is no row yet for the new destinations of a save.
NoneYet(R, n, p, outs) ==
  \A d \in NewDests(outs) : ~Exempt(p, d) => \A r \in R : r.name # n \o d

OneEach(R, n, p) ==
  \A d \in DestNames : ~Exempt(p, d) =>
    \A r, x \in R : r.name = n \o d /\ x.name = n \o d => r = x

UsedNamed(R, n, p, used) ==
  \A d \in DestNames : ~Exempt(p, d) =>
    \A uid \in used[d] : \E r \in R : r.uid = uid /\ r.name = n \o d

RowsInOrder(p) ==
  /\ NamedIn(rows, name[p], p, doc[p].outs)
  /\ NamedIn(rows, name[p], p, scan[p].outs)
  /\ \A u \in Requests : desk[u].pl = p =>
       /\ Writes(desk[u]) => NamedIn(rows, name[p], p, desk[u].doc.outs)
       /\ desk[u].kind = "save" /\ ~Stale(u) => NoneYet(rows, name[p], p, desk[u].doc.outs)
  /\ OneEach(rows, name[p], p)
  /\ UsedNamed(rows, name[p], p, history.used[p])

NotYet(p) == history.named[p] = {} /\ \A d \in DestNames : history.used[p][d] = {}

RowInv == \A r \in rows : \E q \in Pipelines : \E m \in history.named[q] : IsPrefix(m, r.name)

SequenceInv ==
  /\ OpenInv /\ ZerosInv /\ RowInv
  /\ \A p \in Pipelines : IF Exists(p) THEN Quiet(p) => RowsInOrder(p) ELSE NotYet(p)

\* What a step has to leave as it is.
NoNewRow(p, n) ==
  \A r \in rows' \ rows : \A d \in DestNames : ~Exempt(p, d) => r.name # n \o d

LEMMA InOrderKept ==
  ASSUME NEW p \in Pipelines, RowsInOrder(p), name'[p] = name[p],
         rows \subseteq rows', NoNewRow(p, name[p]),
         \A u \in Requests : DOMAIN desk'[u].doc.outs \subseteq DestNames,
         NamedIn(rows, name[p], p, doc'[p].outs),
         NamedIn(rows, name[p], p, scan'[p].outs),
         \A u \in Requests : desk'[u].pl = p =>
           \/ desk'[u] = desk[u] /\ history'.version[p] = history.version[p]
           \/ /\ Writes(desk'[u]) => NamedIn(rows, name[p], p, desk'[u].doc.outs)
              /\ desk'[u].kind = "save" /\ desk'[u].read = history'.version[p] =>
                   NoneYet(rows, name[p], p, desk'[u].doc.outs),
         UsedNamed(rows, name[p], p, history'.used[p])
  PROVE  RowsInOrder(p)'
  <1>1. ASSUME NEW outs, NamedIn(rows, name[p], p, outs) PROVE NamedIn(rows', name[p], p, outs)
    BY <1>1 DEF NamedIn
  <1>2. ASSUME NEW outs, DOMAIN outs \subseteq DestNames, NoneYet(rows, name[p], p, outs)
        PROVE  NoneYet(rows', name[p], p, outs)
    BY <1>2 DEF NoneYet, NewDests, NoNewRow
  <1>3. OneEach(rows', name[p], p)
    BY DEF RowsInOrder, OneEach, NoNewRow
  <1>4. UsedNamed(rows', name[p], p, history'.used[p])
    BY DEF UsedNamed
  <1>5. NamedIn(rows', name[p], p, doc'[p].outs) /\ NamedIn(rows', name[p], p, scan'[p].outs)
    BY <1>1
  <1>6. ASSUME NEW u \in Requests, desk'[u].pl = p
        PROVE  /\ Writes(desk'[u]) => NamedIn(rows', name[p], p, desk'[u].doc.outs)
               /\ desk'[u].kind = "save" /\ desk'[u].read = history'.version[p] =>
                    NoneYet(rows', name[p], p, desk'[u].doc.outs)
    <2>1. /\ Writes(desk'[u]) => NamedIn(rows, name[p], p, desk'[u].doc.outs)
          /\ desk'[u].kind = "save" /\ desk'[u].read = history'.version[p] =>
               NoneYet(rows, name[p], p, desk'[u].doc.outs)
      BY <1>6 DEF RowsInOrder, Stale
    <2>2. QED
      BY <1>1, <1>2, <2>1
  <1>7. QED
    BY <1>3, <1>4, <1>5, <1>6 DEF RowsInOrder, Stale, Writes

LEMMA NamesGrow ==
  ASSUME OwnInv, IsLog(history), [Next]_vars
  PROVE  /\ Present \subseteq Present'
         /\ \A q \in Pipelines : /\ ~history'.raced[q] => ~history.raced[q]
                                 /\ history.named[q] \subseteq history'.named[q]
  <1>1. ASSUME NEW p \in Pipelines, EngineMoves(p)
        PROVE  /\ Present \subseteq Present'
               /\ \A q \in Pipelines : /\ ~history'.raced[q] => ~history.raced[q]
                                       /\ history.named[q] \subseteq history'.named[q]
    <2>1. UNCHANGED name
      BY <1>1, LogEngine DEF adminVars
    <2>2. Present' = Present
      BY <2>1 DEF Present, Exists
    <2>3. QED
      BY <1>1, <2>2, LogEngine
  <1>2. QED
    BY <1>1, AdminMoves DEF AdminOnly

\* A pipeline that nothing is between after a step was one before, and has its name.
LEMMA QuietBefore ==
  ASSUME OwnInv, OwnInv', IsLog(history), [Next]_vars, NEW p \in Pipelines, Exists(p), Quiet(p)'
  PROVE  /\ Quiet(p) /\ name'[p] = name[p]
         /\ name[p] \in history'.named[p] /\ name[p] \in PlNames
  <1>1. Quiet(p)
    BY NamesGrow DEF Quiet, Related
  <1>2. Exists(p)'
    BY NamesGrow DEF Present
  <1>3. name[p] \in history.named[p] /\ name'[p] \in history'.named[p] /\ history.named[p] \subseteq PlNames
    BY <1>2 DEF OwnInv, NamesOk
  <1>4. name[p] \in history'.named[p]
    BY <1>3, NamesGrow
  <1>5. QED
    BY <1>1, <1>3, <1>4 DEF Quiet

\* The rows another pipeline adds have other names.
LEMMA OtherRows ==
  ASSUME OwnInv', NEW p \in Pipelines, NEW q \in Pipelines, p # q, Quiet(p)',
         NEW n, n \in history'.named[p], NEW m, m \in history'.named[q],
         NEW new, NEW dests, dests \subseteq DestNames, rows' = rows \cup RowsFor(new, m, dests)
  PROVE  NoNewRow(p, n)
  <1>1. n \in PlNames /\ m \in PlNames
    BY DEF OwnInv, NamesOk
  <1>2. ~(IsPrefix(n, m) \/ IsPrefix(m, n))
    BY DEF Quiet, Related
  <1>3. ASSUME NEW r \in rows' \ rows, NEW d \in DestNames PROVE r.name # n \o d
    <2>1. PICK e \in dests : r.name = m \o e
      BY <1>3 DEF RowsFor
    <2>2. QED
      BY <1>1, <1>2, <2>1, SameRowName
  <1>4. QED
    BY <1>3 DEF NoNewRow

\* The row a legacy pipeline's own upgrade adds is the exempt one.
LEMMA UpgradeRow ==
  ASSUME NEW p \in Pipelines, NEW n \in PlNames, NEW x \in DestNames, Exempt(p, x), NEW new,
         rows' = rows \cup RowsFor(new, n, {x})
  PROVE  NoNewRow(p, n)
  <1>1. ASSUME NEW r \in rows' \ rows, NEW d \in DestNames, ~Exempt(p, d) PROVE r.name # n \o d
    <2>1. r.name = n \o x
      BY <1>1 DEF RowsFor
    <2>2. n \in Seq(STRING) /\ d \in Seq(STRING) /\ x \in Seq(STRING)
      BY ConfigAssumption DEF ConfigAssumption
    <2>3. d # x
      BY <1>1
    <2>4. QED
      BY <2>1, <2>2, <2>3, ConcatCancel
  <1>2. QED
    BY <1>1 DEF NoNewRow

\* Rows are only added for a pipeline, under a name it has.
LEMMA RowInvStep == OwnInv /\ OwnInv' /\ IsLog(history) /\ RowInv /\ [Next]_vars => RowInv'
  <1> SUFFICES ASSUME OwnInv, OwnInv', IsLog(history), RowInv, [Next]_vars PROVE RowInv'
    OBVIOUS
  <1>c. Copies
    BY DEF OwnInv, ColumnsInv
  <1>s. \A r \in rows : \E q \in Pipelines : \E m \in history'.named[q] : IsPrefix(m, r.name)
    BY NamesGrow DEF RowInv
  <1>a. ASSUME NEW q \in Pipelines, NEW m, m \in history'.named[q], NEW new, NEW dests,
               dests \subseteq DestNames, rows' = rows \cup RowsFor(new, m, dests)
        PROVE  RowInv'
    <2>1. m \in Seq(STRING)
      BY <1>a, ConfigAssumption DEF OwnInv, NamesOk, ConfigAssumption
    <2>2. \A e \in dests : IsPrefix(m, m \o e)
      BY <1>a, <2>1, PrefixConcat, ConfigAssumption DEF ConfigAssumption
    <2>3. ASSUME NEW r \in RowsFor(new, m, dests) PROVE IsPrefix(m, r.name)
      <3>1. PICK e \in dests : r = [uid |-> new[e], name |-> m \o e]
        BY DEF RowsFor
      <3>2. r.name = m \o e
        BY <3>1
      <3>3. QED
        BY <2>2, <3>2
    <2>4. ASSUME NEW r \in rows'
          PROVE  \E o \in Pipelines : \E l \in history'.named[o] : IsPrefix(l, r.name)
      <3>1. CASE r \in rows
        BY <1>s, <3>1
      <3>2. CASE r \in RowsFor(new, m, dests)
        BY <1>a, <2>3, <3>2
      <3>3. QED
        BY <1>a, <3>1, <3>2
    <2>5. QED
      BY <2>4 DEF RowInv
  <1>1. ASSUME NEW p \in Pipelines, NEW n, NEW input, NEW dests, CreatePipeline(p, n, input, dests),
               dests \subseteq DestNames
        PROVE  RowInv'
    <2>1. Called(history', history, p, n)
      BY <1>1, LogCreate
    <2>2. n \in history'.named[p]
      BY <2>1 DEF Called
    <2>3. PICK new \in NewRows(dests) : rows' = rows \cup RowsFor(new, n, dests)
      BY <1>1, <1>c, CreateEffect
    <2>4. QED
      BY <1>1, <1>a, <2>2, <2>3
  <1>2. ASSUME NEW u \in Requests, NEW p \in Pipelines, EnsureDestinations(u, p) PROVE RowInv'
    <2>1. PICK c, x : Ensures(u, p, c, x)
      BY <1>2, <1>c, EnsureEffect
    <2>2. x \in DestNames
      BY <2>1 DEF Ensures, OwnInv, DocIn
    <2>3. name[p] \in history'.named[p]
      BY <1>2 DEF EnsureDestinations, OwnInv, NamesOk
    <2>4. QED
      BY <1>a, <1>s, <2>1, <2>2, <2>3 DEF Ensures, RowInv
  <1>3. ASSUME NEW u \in Requests, Save(u) PROVE RowInv'
    <2>1. desk[u].pl \in Pipelines /\ NewDests(desk[u].doc.outs) \subseteq DestNames
      BY <1>3, DeskPipeline DEF Save, NewDests, OwnInv, CopyIn
    <2>2. CASE UNCHANGED rows
      BY <1>s, <2>2 DEF RowInv
    <2>3. ASSUME \A q \in Pipelines \ {desk[u].pl} : name[q] # desk[u].name,
                 NEW new, rows' = rows \cup RowsFor(new, desk[u].name, NewDests(desk[u].doc.outs))
          PROVE  RowInv'
      <3>1. desk[u].name \in history'.named[desk[u].pl]
        BY <1>3, <2>1, <2>3, LogSave DEF Called
      <3>2. QED
        BY <1>a, <2>1, <2>3, <3>1
    <2>4. QED
      BY <1>3, <1>c, <2>2, <2>3, SaveEffect
  <1>4. ASSUME UNCHANGED rows PROVE RowInv'
    BY <1>s, <1>4 DEF RowInv
  <1>5. QED
    BY <1>1, <1>2, <1>3, <1>4, NextMoves, LogEngine
    DEF RequestStarts, Toggle, OpenPage, WritesBack, EnsureWrite, SetPipelineEnabled,
        UpdatePipeline, vars, adminVars

\* A step that comes before a state in which nothing is between a pipeline and its rows.
Before(p) ==
  /\ OpenInv /\ OwnInv' /\ ZerosInv /\ Exists(p) /\ RowsInOrder(p) /\ Quiet(p)' /\ rows \subseteq rows'
  /\ name'[p] = name[p] /\ name[p] \in history'.named[p] /\ name[p] \in PlNames

LEMMA BeforeFacts ==
  ASSUME NEW p \in Pipelines, Before(p)
  PROVE  /\ OwnInv /\ DeliveryInv /\ IsLog(history) /\ FreshInv /\ BatchesOk /\ Copies
         /\ \A u \in Requests : DOMAIN desk'[u].doc.outs \subseteq DestNames
         /\ NamedIn(rows, name[p], p, doc[p].outs) /\ NamedIn(rows, name[p], p, scan[p].outs)
         /\ UsedNamed(rows, name[p], p, history.used[p])
         /\ \A r, x \in rows' : r.uid = x.uid => r = x
         /\ \A d \in DOMAIN doc[p].outs : d \in DestNames
  BY DEF Before, OpenInv, DeliveryInv, OwnInv, ColumnsInv, CopyIn, RowsInOrder, UidsUnique, DocIn

\* Once the document is written again, every other copy is out of date.
LEMMA LateAfter ==
  ASSUME OwnInv, IsLog(history), FreshInv, NEW v \in Requests, desk[v].kind # "none",
         Bumped(history', history, desk[v].pl)
  PROVE  desk[v].read # history'.version[desk[v].pl]
  <1>1. desk[v].pl \in Pipelines /\ desk[v].read \in Nat
    BY DeskPipeline DEF FreshInv
  <1>2. desk[v].read <= history.version[desk[v].pl] /\ history.version[desk[v].pl] \in Nat
    BY <1>1 DEF FreshInv, FreshCopy, IsLog
  <1>3. QED
    BY <1>1, <1>2 DEF Bumped

LEMMA InOrderCreate ==
  ASSUME NEW p \in Pipelines, Before(p), NEW q \in Pipelines, NEW n, NEW input, NEW dests,
         CreatePipeline(q, n, input, dests), dests \subseteq DestNames
  PROVE  RowsInOrder(p)'
  <1>f. /\ IsLog(history) /\ Copies /\ \A u \in Requests : DOMAIN desk'[u].doc.outs \subseteq DestNames
        /\ NamedIn(rows, name[p], p, doc[p].outs) /\ NamedIn(rows, name[p], p, scan[p].outs)
        /\ UsedNamed(rows, name[p], p, history.used[p])
    BY BeforeFacts
  <1>1. p # q
    BY DEF CreatePipeline, Before
  <1>2. Called(history', history, q, n) /\ Bumped(history', history, q) /\ SameUse(history', history)
    BY <1>f, LogCreate
  <1>3. PICK new \in NewRows(dests) :
          /\ Publishes(q, [enabled |-> TRUE, input |-> input, outs |-> new])
          /\ rows' = rows \cup RowsFor(new, n, dests)
    BY <1>f, CreateEffect
  <1>4. NoNewRow(p, name[p])
    <2>1. n \in history'.named[q]
      BY <1>2 DEF Called
    <2>2. QED
      BY <1>1, <1>3, <2>1, OtherRows DEF Before
  <1>5. UNCHANGED <<desk, scan>>
    BY DEF CreatePipeline, engineVars
  <1>6. doc'[p] = doc[p] /\ history'.version[p] = history.version[p] /\ history'.used[p] = history.used[p]
    BY <1>1, <1>2, <1>3 DEF Publishes, Bumped, SameUse
  <1>7. QED
    BY <1>f, <1>4, <1>5, <1>6, InOrderKept DEF Before

LEMMA InOrderStart ==
  ASSUME NEW p \in Pipelines, Before(p), NEW u \in Requests, NEW q \in Pipelines,
         RequestStarts(u, q)
  PROVE  RowsInOrder(p)'
  <1>f. /\ IsLog(history) /\ Copies /\ \A v \in Requests : DOMAIN desk'[v].doc.outs \subseteq DestNames
        /\ NamedIn(rows, name[p], p, doc[p].outs) /\ NamedIn(rows, name[p], p, scan[p].outs)
        /\ UsedNamed(rows, name[p], p, history.used[p])
        /\ \A d \in DOMAIN doc[p].outs : d \in DestNames
    BY BeforeFacts
  <1>1. UNCHANGED <<doc, scan>> /\ SameLog(history', history)
    BY <1>f, LogAsk DEF RequestStarts, EnsureDestinations, Toggle, OpenPage, engineVars
  <1>2. /\ doc'[p].outs = doc[p].outs /\ scan'[p].outs = scan[p].outs
        /\ history'.version[p] = history.version[p] /\ history'.used[p] = history.used[p]
    BY <1>1 DEF SameLog, SameUse
  <1>c. ASSUME NEW c, Takes(u, c), NoNewRow(p, name[p]),
               c.pl = p => /\ Writes(c) => NamedIn(rows, name[p], p, c.doc.outs)
                           /\ c.kind # "save"
        PROVE  RowsInOrder(p)'
    <2>1. \A v \in Requests : desk'[v].pl = p =>
            \/ desk'[v] = desk[v] /\ history'.version[p] = history.version[p]
            \/ /\ Writes(desk'[v]) => NamedIn(rows, name[p], p, desk'[v].doc.outs)
               /\ desk'[v].kind = "save" /\ desk'[v].read = history'.version[p] =>
                    NoneYet(rows, name[p], p, desk'[v].doc.outs)
      BY <1>2, <1>c DEF Takes
    <2>2. QED
      BY <1>f, <1>2, <1>c, <2>1, InOrderKept DEF Before
  <1>3. CASE EnsureDestinations(u, q)
    <2>1. PICK c, x : Ensures(u, q, c, x)
      BY <1>f, <1>3, EnsureEffect
    <2>2. x \in DestNames /\ Exempt(q, x)
      BY <2>1, BeforeFacts DEF Ensures, Before, ZerosInv, Zeros, OwnInv, DocIn
    <2>3. NoNewRow(p, name[p])
      <3>1. CASE UNCHANGED rows
        BY <3>1 DEF NoNewRow
      <3>2. ASSUME NEW new, rows' = rows \cup RowsFor(new, name[q], {x}) PROVE NoNewRow(p, name[p])
        <4>1. CASE p = q
          BY <2>2, <3>2, <4>1, UpgradeRow DEF Before
        <4>2. CASE p # q
          <5>1. name[q] \in history.named[q]
            BY <1>3, BeforeFacts DEF EnsureDestinations, OwnInv, NamesOk
          <5>2. name[q] \in history'.named[q]
            BY <1>1, <5>1 DEF SameLog
          <5>3. {x} \subseteq DestNames
            BY <2>2
          <5>4. QED
            BY <3>2, <4>2, <5>2, <5>3, OtherRows DEF Before
        <4>3. QED
          BY <4>1, <4>2
      <3>3. QED
        BY <2>1, <3>1, <3>2 DEF Ensures
    <2>4. c.pl = p => NamedIn(rows, name[p], p, c.doc.outs)
      BY <1>f, <2>1, <2>2 DEF Ensures, Made, NamedIn
    <2>5. QED
      BY <1>c, <2>1, <2>3, <2>4 DEF Ensures, Made
  <1>4. CASE Toggle(u, q)
    <2>1. PICK c : Takes(u, c) /\ Made(c, "toggle", q) /\ c.doc.outs = doc[q].outs
      BY <1>f, <1>4, ToggleEffect
    <2>2. NoNewRow(p, name[p])
      BY <1>4 DEF Toggle, NoNewRow
    <2>3. QED
      BY <1>c, <1>f, <2>1, <2>2 DEF Made
  <1>5. CASE OpenPage(u, q)
    <2>1. PICK c : Takes(u, c) /\ Made(c, "page", q)
      BY <1>f, <1>5, PageEffect
    <2>2. NoNewRow(p, name[p])
      BY <1>5 DEF OpenPage, NoNewRow
    <2>3. QED
      BY <1>c, <2>1, <2>2 DEF Made, Writes
  <1>6. QED
    BY <1>3, <1>4, <1>5 DEF RequestStarts

LEMMA InOrderWrite ==
  ASSUME NEW p \in Pipelines, Before(p), NEW u \in Requests, WritesBack(u)
  PROVE  RowsInOrder(p)'
  <1>f. /\ OwnInv /\ IsLog(history) /\ FreshInv /\ Copies
        /\ \A v \in Requests : DOMAIN desk'[v].doc.outs \subseteq DestNames
        /\ NamedIn(rows, name[p], p, doc[p].outs) /\ NamedIn(rows, name[p], p, scan[p].outs)
        /\ UsedNamed(rows, name[p], p, history.used[p])
    BY BeforeFacts
  <1>1. desk[u].pl \in Pipelines /\ Writes(desk[u])
    BY <1>f, DeskPipeline DEF WritesBack, EnsureWrite, SetPipelineEnabled, Writes
  <1>2. Bumped(history', history, desk[u].pl) /\ SameUse(history', history)
    BY <1>f, <1>1, LogWrite DEF WritesBack
  <1>3. Takes(u, Idle) /\ Publishes(desk[u].pl, desk[u].doc)
    BY <1>f, WriteEffect DEF WritesBack
  <1>4. UNCHANGED <<rows, scan>>
    BY DEF WritesBack, EnsureWrite, SetPipelineEnabled, engineVars
  <1>5. NamedIn(rows, name[p], p, doc'[p].outs)
    BY <1>f, <1>1, <1>3 DEF Publishes, Before, RowsInOrder
  <1>6. \A v \in Requests : desk'[v].pl = p =>
            \/ desk'[v] = desk[v] /\ history'.version[p] = history.version[p]
            \/ /\ Writes(desk'[v]) => NamedIn(rows, name[p], p, desk'[v].doc.outs)
               /\ desk'[v].kind = "save" /\ desk'[v].read = history'.version[p] =>
                    NoneYet(rows, name[p], p, desk'[v].doc.outs)
    <2>1. ASSUME NEW v \in Requests, desk'[v] = desk[v], desk[v].pl = p
          PROVE  \/ history'.version[p] = history.version[p]
                 \/ /\ Writes(desk[v]) => NamedIn(rows, name[p], p, desk[v].doc.outs)
                    /\ desk[v].kind # "save" \/ desk[v].read # history'.version[p]
      <3>1. CASE desk[u].pl # p
        BY <1>2, <3>1 DEF Bumped
      <3>2. CASE desk[u].pl = p
        BY <1>f, <1>2, <2>1, <3>2, LateAfter DEF Before, RowsInOrder
      <3>3. QED
        BY <3>1, <3>2
    <2>2. \A v \in Requests : desk'[v] = desk[v] \/ desk'[v] = Idle
      BY <1>3 DEF Takes
    <2>3. ~Writes(Idle) /\ Idle.kind # "save"
      BY DEF Idle, Writes
    <2>4. QED
      BY <2>1, <2>2, <2>3
  <1>7. history'.used[p] = history.used[p] /\ NoNewRow(p, name[p])
    BY <1>2, <1>4 DEF SameUse, NoNewRow
  <1>8. QED
    BY <1>f, <1>4, <1>5, <1>6, <1>7, InOrderKept DEF Before

\* The rows of a save that was checked just now: a destination has the row of its name,
\* or it has none because there is none.
LEMMA ReclaimedRows ==
  ASSUME NEW p \in Pipelines, RowsTyped, NamedIn(rows, name[p], p, doc[p].outs),
         NEW posted, IsDoc(posted)
  PROVE  LET outs == Reclaimed(p, Merged(p, posted).outs)
         IN NamedIn(rows, name[p], p, outs) /\ NoneYet(rows, name[p], p, outs)
  <1> DEFINE old == Merged(p, posted).outs
             outs == Reclaimed(p, old)
  <1>1. \A d \in DOMAIN old : (d \in DOMAIN doc[p].outs /\ old[d] = doc[p].outs[d]) \/ old[d] = 0
    <2> DEFINE o == [d \in DOMAIN posted.outs |->
                       IF d \in DOMAIN doc[p].outs THEN doc[p].outs[d] ELSE 0]
    <2>1. old = o
      BY SameOuts DEF Merged
    <2>2. \A d \in DOMAIN o : (d \in DOMAIN doc[p].outs /\ o[d] = doc[p].outs[d]) \/ o[d] = 0
      OBVIOUS
    <2>3. QED
      BY <2>1, <2>2
  <1> HIDE DEF old
  <1>2. ASSUME NEW d \in DOMAIN old, FormerRows(p, d) # {}
        PROVE  LET uid == CHOOSE uid \in FormerRows(p, d) :
                            \A other \in FormerRows(p, d) : other <= uid
               IN uid # 0 /\ \E r \in rows : r.uid = uid /\ r.name = name[p] \o d
    <2>1. FormerRows(p, d) \subseteq Uids /\ 0 \notin FormerRows(p, d)
      BY DEF FormerRows, RowsTyped
    <2>2. \E uid \in FormerRows(p, d) : \A other \in FormerRows(p, d) : other <= uid
      BY <1>2, <2>1, LastRow
    <2>3. \A uid \in FormerRows(p, d) : \E r \in rows : r.uid = uid /\ r.name = name[p] \o d
      BY DEF FormerRows
    <2>4. QED
      BY <2>1, <2>2, <2>3
  <1>3. \A d \in DOMAIN old :
          \/ outs[d] = old[d] /\ (old[d] # 0 \/ FormerRows(p, d) = {})
          \/ outs[d] # 0 /\ \E r \in rows : r.uid = outs[d] /\ r.name = name[p] \o d
    BY <1>2 DEF Reclaimed
  <1>4. DOMAIN outs = DOMAIN old
    BY DEF Reclaimed
  <1>5. \A d : FormerRows(p, d) = {} => \A r \in rows : r.name # name[p] \o d
    BY DEF FormerRows
  <1> HIDE DEF outs
  <1>6. NamedIn(rows, name[p], p, outs)
    BY <1>1, <1>3, <1>4 DEF NamedIn
  <1>7. NoneYet(rows, name[p], p, outs)
    BY <1>3, <1>4, <1>5 DEF NoneYet, NewDests
  <1>8. QED
    BY <1>6, <1>7 DEF outs, old

LEMMA InOrderUpdate ==
  ASSUME NEW p \in Pipelines, Before(p), NEW u \in Requests, UpdatePipeline(u)
  PROVE  RowsInOrder(p)'
  <1>f. /\ OwnInv /\ IsLog(history) /\ Copies
        /\ \A v \in Requests : DOMAIN desk'[v].doc.outs \subseteq DestNames
        /\ NamedIn(rows, name[p], p, doc[p].outs) /\ NamedIn(rows, name[p], p, scan[p].outs)
        /\ UsedNamed(rows, name[p], p, history.used[p])
    BY BeforeFacts
  <1>1. UNCHANGED <<doc, rows, scan>> /\ history' = history
    BY DEF UpdatePipeline, engineVars
  <1>2. /\ doc'[p].outs = doc[p].outs /\ scan'[p].outs = scan[p].outs /\ NoNewRow(p, name[p])
        /\ history'.version[p] = history.version[p] /\ history'.used[p] = history.used[p]
    BY <1>1, Zenon DEF NoNewRow
  <1>c. ASSUME NEW c, Takes(u, c),
               c.pl = p => /\ Writes(c) => NamedIn(rows, name[p], p, c.doc.outs)
                           /\ c.kind = "save" => NoneYet(rows, name[p], p, c.doc.outs)
        PROVE  RowsInOrder(p)'
    <2>1. \A v \in Requests : desk'[v].pl = p =>
            \/ desk'[v] = desk[v] /\ history'.version[p] = history.version[p]
            \/ /\ Writes(desk'[v]) => NamedIn(rows, name[p], p, desk'[v].doc.outs)
               /\ desk'[v].kind = "save" /\ desk'[v].read = history'.version[p] =>
                    NoneYet(rows, name[p], p, desk'[v].doc.outs)
      BY <1>2, <1>c DEF Takes
    <2>2. QED
      BY <1>f, <1>2, <1>c, <2>1, InOrderKept DEF Before
  <1>3. CASE Takes(u, Idle)
    BY <1>c, <1>3 DEF Idle, Writes
  <1>4. ASSUME NEW c, Takes(u, c), Made(c, "save", desk[u].pl),
               c.doc.outs = Reclaimed(desk[u].pl, Merged(desk[u].pl, desk[u].doc).outs)
        PROVE  RowsInOrder(p)'
    <2>1. RowsTyped /\ IsDoc(desk[u].doc)
      BY <1>f DEF OwnInv, Copies
    <2>2. c.pl = p => NamedIn(rows, name[p], p, c.doc.outs) /\ NoneYet(rows, name[p], p, c.doc.outs)
      BY <1>f, <1>4, <2>1, ReclaimedRows DEF Made
    <2>3. QED
      BY <1>c, <1>4, <2>2
  <1>5. QED
    BY <1>f, <1>3, <1>4, UpdateEffect

\* A save that is not out of date adds one row for each destination that has none.
LEMMA AddedOneEach ==
  ASSUME NEW p \in Pipelines, NEW n \in PlNames, NEW outs, DOMAIN outs \subseteq DestNames, NEW new,
         rows' = rows \cup RowsFor(new, n, NewDests(outs)),
         OneEach(rows, n, p), NoneYet(rows, n, p, outs)
  PROVE  OneEach(rows', n, p)
  <1>1. ASSUME NEW x \in DestNames, ~Exempt(p, x), NEW r \in rows', r.name = n \o x
        PROVE  \/ r \in rows /\ x \notin NewDests(outs)
               \/ r = [uid |-> new[x], name |-> n \o x] /\ x \in NewDests(outs)
    <2>1. CASE r \in rows
      BY <1>1, <2>1 DEF NoneYet
    <2>2. ASSUME NEW e \in NewDests(outs), r = [uid |-> new[e], name |-> n \o e]
          PROVE  r = [uid |-> new[x], name |-> n \o x] /\ x \in NewDests(outs)
      <3>1. n \o e = n \o x
        BY <1>1, <2>2
      <3>2. n \in Seq(STRING) /\ e \in Seq(STRING) /\ x \in Seq(STRING)
        BY ConfigAssumption DEF ConfigAssumption, NewDests
      <3>3. e = x
        BY <3>1, <3>2, ConcatCancel
      <3>4. QED
        BY <2>2, <3>3
    <2>3. QED
      BY <1>1, <2>1, <2>2 DEF RowsFor
  <1>2. QED
    BY <1>1 DEF OneEach

LEMMA NamedGrow ==
  ASSUME NEW R, NEW S, R \subseteq S, NEW n, NEW p, NEW outs, NamedIn(R, n, p, outs)
  PROVE  NamedIn(S, n, p, outs)
  BY DEF NamedIn

LEMMA FilledNamed ==
  ASSUME NEW p \in Pipelines, NEW n, NEW outs, NEW new \in NewRows(NewDests(outs)),
         rows' = rows \cup RowsFor(new, n, NewDests(outs)), NamedIn(rows, n, p, outs)
  PROVE  NamedIn(rows', n, p, Filled(outs, new))
  <1> DEFINE o == Filled(outs, new)
  <1>1. DOMAIN o = DOMAIN outs
    BY DEF Filled
  <1>2. ASSUME NEW x \in DOMAIN outs, outs[x] # 0
        PROVE  o[x] = 0 \/ Exempt(p, x) \/ \E r \in rows' : r.uid = o[x] /\ r.name = n \o x
    BY <1>2 DEF Filled, NamedIn
  <1>3. ASSUME NEW x \in DOMAIN outs, outs[x] = 0
        PROVE  \E r \in rows' : r.uid = o[x] /\ r.name = n \o x
    <2>1. o[x] = new[x]
      BY <1>3 DEF Filled
    <2>2. [uid |-> new[x], name |-> n \o x] \in rows'
      BY <1>3 DEF RowsFor, NewDests
    <2>3. QED
      BY <2>1, <2>2
  <1>4. QED
    BY <1>1, <1>2, <1>3 DEF NamedIn

LEMMA InOrderSave ==
  ASSUME NEW p \in Pipelines, Before(p), NEW u \in Requests, Save(u)
  PROVE  RowsInOrder(p)'
  <1> DEFINE outs == desk[u].doc.outs
  <1>f. /\ OwnInv /\ IsLog(history) /\ FreshInv /\ Copies
        /\ \A v \in Requests : DOMAIN desk'[v].doc.outs \subseteq DestNames
        /\ NamedIn(rows, name[p], p, doc[p].outs) /\ NamedIn(rows, name[p], p, scan[p].outs)
        /\ UsedNamed(rows, name[p], p, history.used[p])
    BY BeforeFacts
  <1>1. desk[u].pl \in Pipelines /\ desk[u].kind = "save" /\ DOMAIN outs \subseteq DestNames
    BY <1>f, DeskPipeline DEF Save, OwnInv, CopyIn
  <1>2. Takes(u, Idle) /\ UNCHANGED scan /\ ~Writes(Idle) /\ Idle.kind # "save"
    BY <1>f, SaveEffect DEF Save, engineVars, Idle, Writes
  <1>3. CASE UNCHANGED <<name, doc, rows, history>>
    <2>1. history' = history
      BY <1>3
    <2>2. /\ doc'[p].outs = doc[p].outs /\ scan'[p].outs = scan[p].outs /\ NoNewRow(p, name[p])
          /\ history'.version[p] = history.version[p] /\ history'.used[p] = history.used[p]
      BY <1>2, <1>3, <2>1, Zenon DEF NoNewRow
    <2>3. QED
      BY <1>f, <1>2, <2>2, InOrderKept DEF Before, Takes
  <1>4. ASSUME \A q \in Pipelines \ {desk[u].pl} : name[q] # desk[u].name,
               name' = [name EXCEPT ![desk[u].pl] = desk[u].name],
               NEW new \in NewRows(NewDests(outs)),
               rows' = rows \cup RowsFor(new, desk[u].name, NewDests(outs)),
               NEW d, d.outs = Filled(outs, new), Publishes(desk[u].pl, d)
        PROVE  RowsInOrder(p)'
    <2>1. /\ Bumped(history', history, desk[u].pl) /\ SameUse(history', history)
          /\ Called(history', history, desk[u].pl, desk[u].name)
          /\ Races(history', history, desk[u].pl, LateSave(u))
      BY <1>f, <1>1, <1>4, LogSave
    <2>2. history'.used[p] = history.used[p] /\ NewDests(outs) \subseteq DestNames
      BY <1>1, <2>1 DEF SameUse, NewDests
    <2>3. CASE desk[u].pl # p
      <3>1. NoNewRow(p, name[p])
        <4>1. desk[u].name \in history'.named[desk[u].pl]
          BY <1>1, <2>1 DEF Called
        <4>2. QED
          BY <1>1, <1>4, <2>2, <2>3, <4>1, OtherRows DEF Before
      <3>2. doc'[p] = doc[p] /\ history'.version[p] = history.version[p]
        BY <1>4, <2>1, <2>3 DEF Publishes, Bumped
      <3>3. QED
        BY <1>f, <1>2, <2>2, <3>1, <3>2, InOrderKept DEF Before, Takes
    <2>4. CASE desk[u].pl = p
      <3>1. name[p] = desk[u].name /\ ~Stale(u) /\ name'[p] = name[p] /\ rows \subseteq rows'
        BY <1>4, <2>1, <2>4 DEF Before, Quiet, Races, LateSave, OwnInv, NamesOk
      <3>2. NamedIn(rows, name[p], p, outs) /\ NoneYet(rows, name[p], p, outs)
        BY <1>1, <2>4, <3>1 DEF Before, RowsInOrder, Writes
      <3>3. NamedIn(rows', name[p], p, doc'[p].outs)
        BY <1>4, <2>4, <3>1, <3>2, FilledNamed DEF Publishes
      <3>4. NamedIn(rows', name[p], p, scan'[p].outs)
        BY <1>f, <1>2, <3>1, NamedGrow
      <3>5. ASSUME NEW v \in Requests, desk'[v].pl = p
            PROVE  /\ Writes(desk'[v]) => NamedIn(rows', name[p], p, desk'[v].doc.outs)
                   /\ desk'[v].kind = "save" => desk'[v].read # history'.version[p]
        <4>1. CASE desk'[v] = Idle
          BY <1>2, <4>1
        <4>2. CASE desk'[v] = desk[v]
          <5>1. Writes(desk[v]) => NamedIn(rows', name[p], p, desk[v].doc.outs)
            BY <3>1, <3>5, <4>2, NamedGrow DEF Before, RowsInOrder
          <5>2. desk[v].kind = "save" => desk[v].read # history'.version[p]
            BY <1>f, <2>1, <2>4, <3>5, <4>2, LateAfter
          <5>3. QED
            BY <4>2, <5>1, <5>2
        <4>3. QED
          BY <1>2, <4>1, <4>2 DEF Takes
      <3>6. OneEach(rows', name[p], p)
        BY <1>1, <1>4, <3>1, <3>2, AddedOneEach DEF Before, RowsInOrder
      <3>7. UsedNamed(rows', name[p], p, history'.used[p])
        BY <1>f, <2>2, <3>1 DEF UsedNamed
      <3>8. QED
        BY <3>1, <3>3, <3>4, <3>5, <3>6, <3>7 DEF RowsInOrder, Stale, Writes
    <2>5. QED
      BY <2>3, <2>4
  <1>5. QED
    BY <1>f, <1>3, <1>4, SaveEffect

\* What the engine does to a copy and to the record of the rows it used.
LEMMA EngineCopies ==
  ASSUME DeliveryInv, IsLog(history), NEW q \in Pipelines, EngineMoves(q), NEW p \in Pipelines
  PROVE  \/ scan'[p].outs = scan[p].outs
         \/ DOMAIN scan'[p].outs = {}
         \/ scan'[p].outs = doc[p].outs
  <1>1. CASE scan' = [scan EXCEPT ![q] = NoScan]
    <2>1. Scans(q, NoScan)
      BY <1>1, ScansOne
    <2>2. QED
      BY <2>1, IdleScan DEF Scans
  <1>2. CASE Scan(q)
    <2> DEFINE s == [step |-> "listed", outs |-> doc[q].outs]
    <2>1. Scans(q, s) /\ s.outs = doc[q].outs
      BY <1>2, ScansOne DEF Scan
    <2> HIDE DEF s
    <2>2. QED
      BY <2>1 DEF Scans
  <1>3. ASSUME NEW step, Stepped(q, step) PROVE scan'[p].outs = scan[p].outs
    <2>1. PICK s : Scans(q, s) /\ s.outs = scan[q].outs
      BY <1>3, StepOne
    <2>2. QED
      BY <2>1 DEF Scans
  <1>4. CASE UNCHANGED scan
    BY <1>4
  <1>5. QED
    BY <1>1, <1>2, <1>3, <1>4
    DEF EngineMoves, EngineStep, FormBatch, ReserveDelivery, ProcessBatch, CloseBatch, Crash, Stepped

LEMMA EngineUse ==
  ASSUME IsLog(history), BatchesOk, NEW q \in Pipelines, EngineMoves(q)
  PROVE  \/ SameUse(history', history)
         \/ Exists(q) /\ UsesRows(history', history, q, scan[q].outs)
  <1>1. CASE UNCHANGED history
    <2>1. history' = history
      BY <1>1
    <2>2. QED
      BY <2>1, Zenon DEF SameUse
  <1>2. CASE FormBatch(q) /\ ~UNCHANGED history
    BY <1>2, LogForm
  <1>3. CASE ReserveDelivery(q)
    BY <1>3, LogReserve DEF BatchesOk, ReserveDelivery
  <1>4. CASE CloseBatch(q) /\ ~UNCHANGED history
    BY <1>4, LogClose
  <1>5. QED
    BY <1>1, <1>2, <1>3, <1>4 DEF EngineMoves, EngineStep, Scan, ProcessBatch, Crash

LEMMA InOrderEngine ==
  ASSUME NEW p \in Pipelines, Before(p), NEW q \in Pipelines, EngineMoves(q)
  PROVE  RowsInOrder(p)'
  <1>f. /\ DeliveryInv /\ IsLog(history) /\ BatchesOk /\ OwnInv
        /\ \A v \in Requests : DOMAIN desk'[v].doc.outs \subseteq DestNames
        /\ NamedIn(rows, name[p], p, doc[p].outs) /\ NamedIn(rows, name[p], p, scan[p].outs)
        /\ UsedNamed(rows, name[p], p, history.used[p])
    BY BeforeFacts
  <1>1. UNCHANGED adminVars /\ history'.version = history.version
    BY <1>f, LogEngine
  <1>2. /\ UNCHANGED <<doc, rows, desk>> /\ NoNewRow(p, name[p])
        /\ doc'[p].outs = doc[p].outs /\ history'.version[p] = history.version[p]
    BY <1>1 DEF adminVars, NoNewRow
  <1>3. NamedIn(rows, name[p], p, scan'[p].outs)
    <2>1. CASE DOMAIN scan'[p].outs = {}
      BY <2>1 DEF NamedIn
    <2>2. QED
      BY <1>f, <2>1, EngineCopies
  <1>4. UsedNamed(rows, name[p], p, history'.used[p])
    <2>1. CASE SameUse(history', history)
      BY <1>f, <2>1 DEF SameUse
    <2>2. CASE UsesRows(history', history, q, scan[q].outs)
      <3>1. ASSUME NEW d \in DestNames, ~Exempt(p, d), NEW uid \in history'.used[p][d]
            PROVE  \E r \in rows : r.uid = uid /\ r.name = name[p] \o d
        <4>1. CASE uid \in history.used[p][d]
          BY <1>f, <3>1, <4>1 DEF UsedNamed
        <4>2. CASE d \in DOMAIN scan[p].outs /\ uid = scan[p].outs[d]
          <5>1. uid # 0
            BY <1>f, <4>2 DEF DeliveryInv, OwnInv, RowsTyped, Used
          <5>2. QED
            BY <1>f, <3>1, <4>2, <5>1 DEF NamedIn
        <4>3. uid \in history.used[p][d] \/ (d \in DOMAIN scan[p].outs /\ uid = scan[p].outs[d])
          <5>1. history'.used[p][d] \subseteq history.used[p][d] \cup
                  (IF d \in DOMAIN scan[p].outs THEN {scan[p].outs[d]} ELSE {})
            BY <2>2 DEF UsesRows
          <5>2. QED
            BY <3>1, <5>1
        <4>4. QED
          BY <4>1, <4>2, <4>3
      <3>2. QED
        BY <3>1 DEF UsedNamed
    <2>3. QED
      BY <1>f, <2>1, <2>2, EngineUse
  <1>5. QED
    BY <1>f, <1>2, <1>3, <1>4, InOrderKept DEF Before

LEMMA InOrderStill ==
  ASSUME NEW p \in Pipelines, Before(p), UNCHANGED vars
  PROVE  RowsInOrder(p)'
  <1>f. /\ \A v \in Requests : DOMAIN desk'[v].doc.outs \subseteq DestNames
        /\ NamedIn(rows, name[p], p, doc[p].outs) /\ NamedIn(rows, name[p], p, scan[p].outs)
        /\ UsedNamed(rows, name[p], p, history.used[p])
    BY BeforeFacts
  <1>1. UNCHANGED <<doc, rows, desk, scan>> /\ history' = history
    BY DEF vars, adminVars, engineVars
  <1>2. /\ NoNewRow(p, name[p]) /\ doc'[p].outs = doc[p].outs /\ scan'[p].outs = scan[p].outs
        /\ history'.version[p] = history.version[p] /\ history'.used[p] = history.used[p]
    BY <1>1, Zenon DEF NoNewRow
  <1>3. QED
    BY <1>f, <1>1, <1>2, InOrderKept DEF Before

\* A pipeline that nothing is between still has its rows in order after a step.
LEMMA InOrderNext ==
  ASSUME NEW p \in Pipelines, Before(p), [Next]_vars
  PROVE  RowsInOrder(p)'
  BY NextMoves, InOrderCreate, InOrderStart, InOrderWrite, InOrderUpdate, InOrderSave,
     InOrderEngine, InOrderStill

\* A new pipeline's rows are its own: no row has a name it could give one.
LEMMA InOrderNew ==
  ASSUME NEW p \in Pipelines, OpenInv, OwnInv', RowInv, ~Exists(p), NotYet(p), Quiet(p)',
         NEW n \in PlNames, NEW input, NEW dests, dests \subseteq DestNames,
         CreatePipeline(p, n, input, dests)
  PROVE  RowsInOrder(p)'
  <1>f. /\ OwnInv /\ DeliveryInv /\ IsLog(history) /\ BatchesOk /\ Copies
      BY DEF OpenInv, DeliveryInv, OwnInv, ColumnsInv
  <1>1. /\ Called(history', history, p, n) /\ SameUse(history', history)
      BY <1>f, LogCreate
  <1>2. PICK new \in NewRows(dests) :
          /\ Publishes(p, [enabled |-> TRUE, input |-> input, outs |-> new])
          /\ rows' = rows \cup RowsFor(new, n, dests)
    BY <1>f, CreateEffect
  <1>3. name'[p] = n /\ UNCHANGED <<desk, scan>>
    BY <1>f DEF CreatePipeline, OwnInv, NamesOk, engineVars
  <1>4. n \in history'.named[p] /\ \A q \in Pipelines \ {p} : history'.named[q] = history.named[q]
    BY <1>1 DEF Called
  <1>5. ASSUME NEW r \in rows, NEW d \in DestNames PROVE r.name # n \o d
    <2> SUFFICES ASSUME r.name = n \o d PROVE FALSE
      OBVIOUS
    <2>1. PICK q \in Pipelines : \E m \in history.named[q] : IsPrefix(m, r.name)
      BY DEF RowInv
    <2>2. PICK m \in history.named[q] : IsPrefix(m, n \o d)
      BY <2>1
    <2>3. q # p
      BY <2>2 DEF NotYet
    <2>4. m \in history'.named[q] /\ m \in PlNames
      BY <1>4, <2>3, <1>f DEF OwnInv, NamesOk
    <2>5. n \in Seq(STRING) /\ d \in Seq(STRING) /\ m \in Seq(STRING)
      BY <2>4, ConfigAssumption DEF ConfigAssumption
    <2>6. IsPrefix(n, n \o d) /\ n \o d \in Seq(STRING)
      BY <2>5, PrefixConcat
    <2>7. IsPrefix(n, m) \/ IsPrefix(m, n)
      BY <2>2, <2>5, <2>6, PrefixesCompare
    <2>8. QED
      BY <1>4, <2>3, <2>4, <2>7 DEF Quiet, Related
  <1>6. OneEach(rows', n, p)
    <2> DEFINE outs == [d \in dests |-> 0]
    <2>1. NewDests(outs) = dests /\ DOMAIN outs = dests
      BY DEF NewDests
    <2>2. OneEach(rows, n, p) /\ NoneYet(rows, n, p, outs)
      BY <1>5, <2>1 DEF OneEach, NoneYet
    <2> HIDE DEF outs
    <2>3. QED
      BY <1>2, <2>1, <2>2, AddedOneEach
  <1>7. NamedIn(rows', n, p, doc'[p].outs)
    <2>1. doc'[p].outs = new /\ DOMAIN new = dests
      BY <1>2 DEF Publishes, NewRows
    <2>2. \A d \in dests : [uid |-> new[d], name |-> n \o d] \in rows'
      BY <1>2 DEF RowsFor
    <2>3. ASSUME NEW d \in dests PROVE \E r \in rows' : r.uid = new[d] /\ r.name = n \o d
      BY <2>2
    <2>4. QED
      BY <2>1, <2>3 DEF NamedIn
  <1>8. NamedIn(rows', n, p, scan'[p].outs)
    BY <1>f, <1>3, IdleScan DEF BatchesOk, NamedIn
  <1>9. ASSUME NEW u \in Requests, desk'[u].pl = p PROVE desk'[u].kind = "none"
    BY <1>f, <1>3, <1>9, DeskPipeline
  <1>10. UsedNamed(rows', n, p, history'.used[p])
    BY <1>1 DEF SameUse, NotYet, UsedNamed
  <1>11. QED
    BY <1>3, <1>6, <1>7, <1>8, <1>9, <1>10 DEF RowsInOrder, Writes

\* A pipeline that appears was created, and one that has not appeared has not been used.
LEMMA Appears ==
  ASSUME OpenInv, NEW p \in Pipelines, ~Exists(p), [Next]_vars
  PROVE  \/ \E n \in PlNames, input \in SUBSET Fields, dests \in SUBSET DestNames :
              CreatePipeline(p, n, input, dests)
         \/ /\ ~Exists(p)' /\ history'.named[p] = history.named[p]
            /\ history'.used[p] = history.used[p]
               \/ \A d \in DestNames : history'.used[p][d] = history.used[p][d]
  <1> DEFINE Absent == /\ name'[p] = name[p] /\ history'.named[p] = history.named[p]
                       /\ history'.used[p] = history.used[p]
                          \/ \A d \in DestNames : history'.used[p][d] = history.used[p][d]
  <1>f. OwnInv /\ IsLog(history) /\ BatchesOk /\ Copies
    BY DEF OpenInv, DeliveryInv, OwnInv, ColumnsInv
  <1>1. ASSUME NEW q \in Pipelines, q # p, NEW n \in PlNames, NEW input, NEW dests,
               CreatePipeline(q, n, input, dests)
        PROVE  Absent
    <2>1. Called(history', history, q, n) /\ SameUse(history', history)
      BY <1>1, <1>f, LogCreate
    <2>2. name'[p] = name[p]
      BY <1>1, <1>f DEF CreatePipeline, OwnInv, NamesOk
    <2>3. QED
      BY <1>1, <2>1, <2>2 DEF Called, SameUse
  <1>2. ASSUME NEW u \in Requests, NEW q \in Pipelines, RequestStarts(u, q) PROVE Absent
    BY <1>2, <1>f, LogAsk
    DEF RequestStarts, EnsureDestinations, Toggle, OpenPage, SameLog, SameUse
  <1>3. ASSUME NEW u \in Requests, WritesBack(u) PROVE Absent
    <2>1. desk[u].pl \in Pipelines
      BY <1>3, <1>f, DeskPipeline DEF WritesBack, EnsureWrite, SetPipelineEnabled
    <2>2. history'.named = history.named /\ SameUse(history', history)
      BY <1>3, <1>f, <2>1, LogWrite DEF WritesBack
    <2>3. QED
      BY <1>3, <2>2 DEF WritesBack, EnsureWrite, SetPipelineEnabled, SameUse
  <1>4. ASSUME history' = history, UNCHANGED name PROVE Absent
    BY <1>4, Zenon
  <1>5. ASSUME NEW u \in Requests, Save(u) PROVE Absent
    <2>1. desk[u].pl \in Pipelines /\ desk[u].pl # p
      BY <1>5, <1>f, DeskPipeline DEF Save
    <2>2. CASE UNCHANGED <<name, history>>
      BY <1>4, <2>2
    <2>3. CASE /\ \A q \in Pipelines \ {desk[u].pl} : name[q] # desk[u].name
               /\ name' = [name EXCEPT ![desk[u].pl] = desk[u].name]
      <3>1. SameUse(history', history) /\ Called(history', history, desk[u].pl, desk[u].name)
        BY <1>5, <1>f, <2>1, <2>3, LogSave
      <3>2. name'[p] = name[p]
        BY <1>f, <2>1, <2>3 DEF OwnInv, NamesOk
      <3>3. QED
        BY <2>1, <3>1, <3>2 DEF SameUse, Called
    <2>4. QED
      BY <1>5, <1>f, <2>2, <2>3, SaveEffect
  <1>6. ASSUME NEW q \in Pipelines, EngineMoves(q) PROVE Absent
    <2>1. UNCHANGED name /\ history'.named = history.named
      BY <1>6, <1>f, LogEngine DEF adminVars
    <2>2. CASE SameUse(history', history)
      BY <2>1, <2>2 DEF SameUse
    <2>3. CASE q # p /\ UsesRows(history', history, q, scan[q].outs)
      BY <2>1, <2>3 DEF UsesRows
    <2>4. QED
      BY <1>6, <1>f, <2>2, <2>3, EngineUse
  <1>7. Absent => ~Exists(p)'
    BY DEF Exists
  <1>8. ASSUME NEW n \in PlNames, NEW input \in SUBSET Fields, NEW dests \in SUBSET DestNames,
               NEW q \in Pipelines, CreatePipeline(q, n, input, dests)
        PROVE  \/ \E m \in PlNames, i \in SUBSET Fields, ds \in SUBSET DestNames :
                    CreatePipeline(p, m, i, ds)
               \/ Absent
    <2>1. CASE q = p
      BY <1>8, <2>1
    <2>2. CASE q # p
      BY <1>1, <1>8, <2>2
    <2>3. QED
      BY <2>1, <2>2
  <1>9. ASSUME NEW u \in Requests, UpdatePipeline(u) PROVE Absent
    BY <1>4, <1>9 DEF UpdatePipeline
  <1>10. UNCHANGED vars => Absent
    BY <1>4 DEF vars, adminVars
  <1> HIDE DEF Absent
  <1>11. Absent \/ \E n \in PlNames, input \in SUBSET Fields, dests \in SUBSET DestNames :
                     CreatePipeline(p, n, input, dests)
    BY <1>2, <1>3, <1>5, <1>6, <1>8, <1>9, <1>10, NextMoves
  <1>12. QED
    BY <1>7, <1>11 DEF Absent

LEMMA SequenceStep == SequenceInv /\ OwnInv' /\ [Next]_vars => SequenceInv'
  <1> SUFFICES ASSUME SequenceInv, OwnInv', [Next]_vars PROVE SequenceInv'
    OBVIOUS
  <1>1. OwnInv /\ IsLog(history) /\ OpenInv /\ ZerosInv /\ RowInv
    BY DEF SequenceInv, OpenInv, DeliveryInv
  <1>2. OpenInv' /\ ZerosInv' /\ RowInv'
    BY <1>1, OpenStep, ZerosStep, RowInvStep
  <1>3. ASSUME NEW p \in Pipelines, Exists(p)', Quiet(p)' PROVE RowsInOrder(p)'
    <2>1. CASE Exists(p)
      <3>1. /\ Quiet(p) /\ name'[p] = name[p]
            /\ name[p] \in history'.named[p] /\ name[p] \in PlNames
        BY <1>1, <1>3, <2>1, QuietBefore
      <3>2. RowsInOrder(p) /\ rows \subseteq rows'
        BY <2>1, <3>1, RowsGrow DEF SequenceInv
      <3>3. Before(p)
        BY <1>1, <1>3, <2>1, <3>1, <3>2 DEF Before
      <3>4. QED
        BY <3>3, InOrderNext
    <2>2. CASE ~Exists(p)
      <3>1. NotYet(p)
        BY <2>2 DEF SequenceInv
      <3>2. PICK n \in PlNames, input \in SUBSET Fields, dests \in SUBSET DestNames :
              CreatePipeline(p, n, input, dests)
        BY <1>1, <1>3, <2>2, Appears
      <3>3. QED
        BY <1>1, <1>3, <2>2, <3>1, <3>2, InOrderNew
    <2>3. QED
      BY <2>1, <2>2
  <1>4. ASSUME NEW p \in Pipelines, ~Exists(p)' PROVE NotYet(p)'
    <2>1. ~Exists(p)
      BY <1>1, <1>4, NamesGrow DEF Present
    <2>2. NotYet(p)
      BY <2>1 DEF SequenceInv
    <2>3. ASSUME NEW n \in PlNames, NEW input, NEW dests, CreatePipeline(p, n, input, dests)
          PROVE  FALSE
      <3>1. name'[p] = n /\ n # << >>
        BY <1>1, <2>3, ConfigAssumption DEF CreatePipeline, OwnInv, NamesOk, ConfigAssumption
      <3>2. QED
        BY <1>4, <3>1 DEF Exists
    <2>4. QED
      BY <1>1, <2>1, <2>2, <2>3, Appears DEF NotYet
  <1>5. QED
    BY <1>2, <1>3, <1>4 DEF SequenceInv

LEMMA SequenceInit == Init => SequenceInv
  <1> SUFFICES ASSUME Init PROVE SequenceInv
    OBVIOUS
  <1>1. OpenInv /\ OwnInv
    BY GapInvInit DEF GapInv, OpenInv, DeliveryInv
  <1>2. ASSUME NEW p \in Pipelines
        PROVE  /\ name[p] = IF p \in Legacy THEN LegacyName[p] ELSE << >>
               /\ scan[p] = NoScan
               /\ history.named[p] = {name[p]} \ {<< >>}
               /\ \A d \in DestNames : history.used[p][d] = {}
    <2>1. name[p] = IF p \in Legacy THEN LegacyName[p] ELSE << >>
      BY DEF Init
    <2>2. scan[p] = NoScan /\ history.named[p] = {name[p]} \ {<< >>}
      BY DEF Init
    <2>3. history.used = [q \in Pipelines |-> [d \in DestNames |-> {}]]
      BY DEF Init
    <2>4. \A d \in DestNames : history.used[p][d] = {}
      BY <2>3
    <2>5. QED
      BY <2>1, <2>2, <2>4
  <1>3. \A u \in Requests : desk[u].kind = "none"
    BY InitDesk DEF Idle
  <1>4. PICK f \in [Legacy -> 1..Cardinality(Legacy)] : rows = {LegacyRow(p, f[p]) : p \in Legacy}
    BY DEF Init
  <1>5. ASSUME NEW p \in Legacy
        PROVE  /\ p \in Pipelines /\ name[p] = LegacyName[p] /\ LegacyName[p] \in PlNames
               /\ LegacyName[p] \in Seq(STRING) /\ history.named[p] = {LegacyName[p]}
    BY <1>2, ConfigAssumption DEF ConfigAssumption
  <1>6. \A p \in Legacy : /\ IsPrefix(LegacyName[p], LegacyName[p] \o Output)
                          /\ LegacyName[p] \o Output \in Seq(STRING)
    BY <1>5, PrefixConcat, ConfigAssumption DEF ConfigAssumption
  <1>7. \A r \in rows : \E p \in Legacy : r = LegacyRow(p, f[p]) /\ r.name = LegacyName[p] \o Output
    BY <1>4 DEF LegacyRow
  <1>8. RowInv
    BY <1>5, <1>6, <1>7 DEF RowInv
  <1>9. ASSUME NEW p \in Pipelines, NEW d \in DOMAIN doc[p].outs
        PROVE  doc[p].outs[d] = 0 /\ Exempt(p, d)
    <2>1. CASE doc[p] = NoDoc
      BY <1>9, <2>1 DEF NoDoc
    <2>2. ASSUME NEW i, doc[p] = LegacyDoc(i), p \in Legacy
          PROVE  doc[p].outs[d] = 0 /\ Exempt(p, d)
      BY <1>9, <2>2 DEF LegacyDoc, Exempt
    <2>3. QED
      BY <2>1, <2>2, InitDocs
  <1>10. ZerosInv
    BY <1>3, <1>9 DEF ZerosInv, Zeros
  <1>11. ASSUME NEW p \in Pipelines, Exists(p), Quiet(p) PROVE RowsInOrder(p)
    <2>1. p \in Legacy
      BY <1>2, <1>11 DEF Exists
    <2>2. NamedIn(rows, name[p], p, doc[p].outs) /\ NamedIn(rows, name[p], p, scan[p].outs)
      BY <1>2, <1>9, IdleScan DEF NamedIn
    <2>3. ASSUME NEW d \in DestNames, NEW q \in Legacy, LegacyName[q] \o Output = name[p] \o d
          PROVE  q = p
      <3>1. name[p] = LegacyName[p] /\ name[p] \in Seq(STRING) /\ d \in Seq(STRING)
        BY <1>5, <2>1, ConfigAssumption DEF ConfigAssumption
      <3>2. IsPrefix(name[p], name[p] \o d) /\ name[p] \o d \in Seq(STRING)
        BY <3>1, PrefixConcat
      <3>3. IsPrefix(LegacyName[q], name[p]) \/ IsPrefix(name[p], LegacyName[q])
        BY <1>5, <1>6, <2>3, <3>1, <3>2, PrefixesCompare
      <3>4. LegacyName[q] \in history.named[q] /\ name[p] \in history.named[p] /\ q \in Pipelines
        BY <1>5, <2>1
      <3>5. QED
        BY <1>11, <3>3, <3>4 DEF Quiet, Related
    <2>4. OneEach(rows, name[p], p)
      <3>1. ASSUME NEW d \in DestNames, NEW r \in rows, r.name = name[p] \o d
            PROVE  r = LegacyRow(p, f[p])
        BY <1>7, <2>3, <3>1
      <3>2. QED
        BY <3>1 DEF OneEach
    <2>5. UsedNamed(rows, name[p], p, history.used[p])
      BY <1>2 DEF UsedNamed
    <2>6. QED
      BY <1>3, <2>2, <2>4, <2>5 DEF RowsInOrder, Writes
  <1>12. ASSUME NEW p \in Pipelines, ~Exists(p) PROVE NotYet(p)
    BY <1>2, <1>12 DEF NotYet, Exists
  <1>13. QED
    BY <1>1, <1>8, <1>10, <1>11, <1>12 DEF SequenceInv

\* Small sets.
LEMMA AllEqual ==
  ASSUME NEW S, IsFiniteSet(S), Cardinality(S) <= 1, NEW x \in S, NEW y \in S
  PROVE  x = y
  <1> SUFFICES ASSUME x # y PROVE FALSE
    OBVIOUS
  <1>1. IsFiniteSet({x}) /\ Cardinality({x}) = 1
    BY FS_Singleton
  <1>2. Cardinality({x} \cup {y}) = 2
    BY <1>1, FS_AddElement
  <1>3. {x} \cup {y} \subseteq S
    OBVIOUS
  <1>4. Cardinality({x} \cup {y}) <= Cardinality(S)
    BY <1>3, FS_Subset
  <1>5. Cardinality(S) \in Nat
    BY FS_CardinalityType
  <1>6. QED
    BY <1>2, <1>4, <1>5

LEMMA AtMostOne ==
  ASSUME NEW S, \A x, y \in S : x = y
  PROVE  Cardinality(S) <= 1
  <1>1. CASE S = {}
    <2>1. Cardinality(S) = 0
      BY <1>1, FS_EmptySet
    <2>2. QED
      BY <2>1
  <1>2. CASE S # {}
    <2>1. PICK x : x \in S
      BY <1>2
    <2>2. S = {x}
      BY <2>1
    <2>3. Cardinality({x}) = 1
      BY FS_Singleton
    <2>4. QED
      BY <2>2, <2>3
  <1>3. QED
    BY <1>1, <1>2

LEMMA OneSequence == SequenceInv => SequenceContinues
  <1> SUFFICES ASSUME SequenceInv, NEW p \in Pipelines, NEW d \in DestNames,
                      ~Exempt(p, d), ~history.raced[p], ~(Cardinality(history.named[p]) > 1),
                      \A q \in Pipelines \ {p} : ~Related(p, q)
               PROVE  Cardinality(history.used[p][d]) <= 1
    BY DEF SequenceContinues, Exempt
  <1>1. IsFiniteSet(history.named[p])
    BY DEF SequenceInv, OpenInv, IsLog
  <1>2. Cardinality(history.named[p]) <= 1
    <2>1. Cardinality(history.named[p]) \in Nat
      BY <1>1, FS_CardinalityType
    <2>2. QED
      BY <2>1
  <1>3. Quiet(p)
    BY <1>1, <1>2, AllEqual DEF Quiet
  <1>4. \A uid, other \in history.used[p][d] : uid = other
    <2>1. CASE Exists(p)
      BY <1>3, <2>1 DEF SequenceInv, RowsInOrder, OneEach, UsedNamed
    <2>2. CASE ~Exists(p)
      BY <2>2 DEF SequenceInv, NotYet
    <2>3. QED
      BY <2>1, <2>2
  <1>5. QED
    BY <1>4, AtMostOne

\* A destination keeps one sequence, even if it is removed and added again, as long as
\* nothing is between the pipeline and its rows: no other name, no other pipeline whose
\* name begins like it, and no copy that was out of date.
THEOREM SequenceIsKept == Spec => []SequenceContinues
  <1>1. Init => OwnInv
    BY OwnInit
  <1>2. OwnInv /\ [Next]_vars => OwnInv'
    BY OwnStep
  <1>3. QED
    BY <1>1, <1>2, SequenceInit, SequenceStep, OneSequence, PTL DEF Spec

-----------------------------------------------------------------------------
(* Shapes.  A destination's sequence counts the batches that have a delivery  *)
(* to it, which bounds the numbers it gives out.                           *)

BatchesOf(u) == {x.batch : x \in {y \in dels : y.uid = u}}

Kinds == {"none", "ensure", "toggle", "page", "save"}

DocsTyped ==
  /\ \A p \in Pipelines : doc[p] \in Doc
  /\ \A u \in Requests : desk[u].kind \in Kinds /\ desk[u].doc \in Doc

EngineTyped ==
  /\ seq = [u \in Uids |-> seq[u]] /\ \A u \in Uids : seq[u] = Cardinality(BatchesOf(u))
  /\ \A x \in dels : x.number \in 1..MaxBatches /\ x.done \in BOOLEAN
  /\ \A p \in Pipelines : scan[p].outs \in Outs
  /\ faults \in 0..MaxFaults

TypeInv ==
  /\ OpenInv /\ DocsTyped /\ EngineTyped
  /\ srcName \in [Pipelines -> PlNames \cup {<< >>}]

\* Outputs and documents, part by part.
LEMMA OutsFrom ==
  ASSUME NEW D, D \subseteq DestNames, NEW f \in [D -> Uids]
  PROVE  f \in Outs
  BY DEF Outs

LEMMA OutsParts ==
  ASSUME NEW f \in Outs
  PROVE  DOMAIN f \subseteq DestNames /\ f = [d \in DOMAIN f |-> f[d]] /\ \A d \in DOMAIN f : f[d] \in Uids
  BY DEF Outs

LEMMA DocFrom ==
  ASSUME NEW d, IsDoc(d), d.enabled \in BOOLEAN, d.input \subseteq Fields, d.outs \in Outs
  PROVE  d \in Doc
  BY DEF IsDoc, Doc

LEMMA DocParts ==
  ASSUME NEW d \in Doc
  PROVE  IsDoc(d) /\ d.enabled \in BOOLEAN /\ d.input \subseteq Fields /\ d.outs \in Outs
  BY DEF IsDoc, Doc

LEMMA ZeroUid == 0 \in Uids /\ MaxRows \in Nat
  BY ConfigAssumption DEF ConfigAssumption, Uids

LEMMA NoOuts == << >> \in Outs
  <1>1. << >> \in [{} -> Uids]
    OBVIOUS
  <1>2. QED
    BY <1>1, OutsFrom

LEMMA IdleTyped == Idle.kind \in Kinds /\ Idle.doc \in Doc /\ NoDoc \in Doc /\ NoScan.outs \in Outs
  BY NoOuts DEF Idle, NoDoc, NoScan, Doc, Kinds

LEMMA DocOuts ==
  ASSUME NEW d \in Doc, NEW o \in Outs
  PROVE  [d EXCEPT !.outs = o] \in Doc
  BY DEF Doc

LEMMA DocFlag ==
  ASSUME NEW d \in Doc
  PROVE  [d EXCEPT !.enabled = ~@] \in Doc
  BY DEF Doc

LEMMA DocInput ==
  ASSUME NEW d \in Doc, NEW f \in SUBSET Fields
  PROVE  [d EXCEPT !.input = f] \in Doc
  BY DEF Doc

LEMMA DocOneRow ==
  ASSUME NEW d \in Doc, NEW x, NEW uid \in Uids
  PROVE  [d EXCEPT !.outs[x] = uid] \in Doc
  <1> DEFINE o == [d.outs EXCEPT ![x] = uid]
  <1>1. d.outs \in Outs
    BY DEF Doc
  <1>2. o \in Outs
    <2>1. PICK D \in SUBSET DestNames : d.outs \in [D -> Uids]
      BY <1>1 DEF Outs
    <2>2. o \in [D -> Uids]
      BY <2>1
    <2>3. QED
      BY <2>2, OutsFrom
  <1>3. [d EXCEPT !.outs[x] = uid] = [d EXCEPT !.outs = o]
    BY DEF Doc
  <1> HIDE DEF o
  <1>4. QED
    BY <1>2, <1>3, DocOuts

LEMMA RevisedTyped ==
  ASSUME NEW d \in Doc, NEW e \in Revised(d)
  PROVE  e \in Doc
  <1>1. /\ DOMAIN d.outs \subseteq DestNames /\ \A x \in DOMAIN d.outs : d.outs[x] \in Uids
        /\ 0 \in Uids
    BY DocParts, OutsParts, ZeroUid
  <1>2. CASE e = [d EXCEPT !.enabled = ~@]
    BY <1>2, DocFlag
  <1>3. CASE e \in {[d EXCEPT !.input = f] : f \in SUBSET Fields}
    BY <1>3, DocInput
  <1>4. ASSUME NEW new \in DestNames,
               e = [d EXCEPT !.outs = [x \in DOMAIN d.outs \cup {new} |->
                      IF x \in DOMAIN d.outs THEN d.outs[x] ELSE 0]]
        PROVE  e \in Doc
    <2> DEFINE o == [x \in DOMAIN d.outs \cup {new} |-> IF x \in DOMAIN d.outs THEN d.outs[x] ELSE 0]
    <2>1. o \in [DOMAIN d.outs \cup {new} -> Uids]
      BY <1>1
    <2>2. e = [d EXCEPT !.outs = o]
      BY <1>4
    <2> HIDE DEF o
    <2>3. o \in Outs
      BY <1>1, <2>1, OutsFrom
    <2>4. QED
      BY <2>2, <2>3, DocOuts
  <1>5. ASSUME NEW old \in DestNames,
               e = [d EXCEPT !.outs = [x \in DOMAIN d.outs \ {old} |-> d.outs[x]]]
        PROVE  e \in Doc
    <2> DEFINE o == [x \in DOMAIN d.outs \ {old} |-> d.outs[x]]
    <2>1. o \in [DOMAIN d.outs \ {old} -> Uids]
      BY <1>1
    <2>2. e = [d EXCEPT !.outs = o]
      BY <1>5
    <2> HIDE DEF o
    <2>3. o \in Outs
      BY <1>1, <2>1, OutsFrom
    <2>4. QED
      BY <2>2, <2>3, DocOuts
  <1>6. QED
    BY <1>2, <1>3, <1>4, <1>5 DEF Revised

LEMMA MergedTyped ==
  ASSUME NEW p, doc[p] \in Doc, NEW posted \in Doc
  PROVE  Merged(p, posted) \in Doc
  <1> DEFINE o == [d \in DOMAIN posted.outs |->
                     IF d \in DOMAIN doc[p].outs THEN doc[p].outs[d] ELSE 0]
  <1>1. doc[p].outs \in Outs /\ posted.outs \in Outs
    BY DocParts
  <1>2. /\ DOMAIN posted.outs \subseteq DestNames
        /\ \A d \in DOMAIN doc[p].outs : doc[p].outs[d] \in Uids
        /\ 0 \in Uids
    BY <1>1, OutsParts, ZeroUid
  <1>3. o \in [DOMAIN posted.outs -> Uids]
    BY <1>2
  <1>4. Merged(p, posted) = [posted EXCEPT !.outs = o]
    BY DEF Merged
  <1> HIDE DEF o
  <1>5. o \in Outs
    BY <1>2, <1>3, OutsFrom
  <1>6. QED
    BY <1>4, <1>5, DocOuts

LEMMA ReclaimedTyped ==
  ASSUME RowsTyped, NEW p, NEW outs \in Outs
  PROVE  Reclaimed(p, outs) \in Outs
  <1>1. DOMAIN outs \subseteq DestNames /\ \A d \in DOMAIN outs : outs[d] \in Uids
    BY OutsParts
  <1>2. ASSUME NEW d \in DOMAIN outs, FormerRows(p, d) # {}
        PROVE  (CHOOSE uid \in FormerRows(p, d) : \A other \in FormerRows(p, d) : other <= uid) \in Uids
    <2>1. FormerRows(p, d) \subseteq Uids
      BY DEF FormerRows, RowsTyped
    <2>2. \E uid \in FormerRows(p, d) : \A other \in FormerRows(p, d) : other <= uid
      BY <1>2, <2>1, LastRow
    <2>3. QED
      BY <2>1, <2>2
  <1>3. \A d \in DOMAIN outs : Reclaimed(p, outs)[d] \in Uids
    BY <1>1, <1>2 DEF Reclaimed
  <1>4. Reclaimed(p, outs) = [d \in DOMAIN outs |-> Reclaimed(p, outs)[d]]
    BY DEF Reclaimed
  <1>5. Reclaimed(p, outs) \in [DOMAIN outs -> Uids]
    BY <1>3, <1>4
  <1>6. QED
    BY <1>1, <1>5, OutsFrom

LEMMA NewTyped ==
  ASSUME NEW dests, NEW new \in NewRows(dests)
  PROVE  new \in [dests -> Uids]
  BY DEF NewRows

LEMMA FilledTyped ==
  ASSUME NEW outs \in Outs, NEW new \in NewRows(NewDests(outs))
  PROVE  Filled(outs, new) \in Outs
  <1>1. DOMAIN outs \subseteq DestNames /\ \A d \in DOMAIN outs : outs[d] \in Uids
    BY OutsParts
  <1>2. \A d \in NewDests(outs) : new[d] \in Uids
    BY NewTyped
  <1>3. Filled(outs, new) \in [DOMAIN outs -> Uids]
    BY <1>1, <1>2 DEF Filled, NewDests
  <1>4. QED
    BY <1>1, <1>3, OutsFrom
\* A copy is replaced, or a copy is published.
LEMMA DocsTake ==
  ASSUME Copies, DocsTyped, NEW u, NEW k \in Kinds, NEW p, NEW n, NEW d \in Doc,
         Taken(u, Copy(k, p, n, d)), UNCHANGED doc
  PROVE  DocsTyped'
  <1> DEFINE c == Copy(k, p, n, d)
  <1>1. IsDoc(d)
    BY DocParts
  <1>2. IsCopy(c) /\ IsDoc(c.doc) /\ c.doc = d /\ c.kind = k
    BY <1>1, CopyCopy
  <1>3. Taken(u, c)
    OBVIOUS
  <1> HIDE DEF c
  <1>4. Takes(u, c)
    BY <1>2, <1>3, TakesOne
  <1>5. QED
    BY <1>2, <1>4 DEF DocsTyped, Takes

LEMMA DocsIdle ==
  ASSUME DocsTyped, NEW u, Takes(u, Idle), UNCHANGED doc
  PROVE  DocsTyped'
  BY IdleTyped DEF DocsTyped, Takes

LEMMA DocsPublish ==
  ASSUME Copies, DocsTyped, NEW u, NEW p, NEW d \in Doc, Takes(u, Idle), Published(p, d)
  PROVE  DocsTyped'
  <1>1. \A q \in Pipelines : doc'[q] = IF q = p THEN d ELSE doc[q]
    BY DocParts, PublishedOne
  <1>2. QED
    BY <1>1, IdleTyped DEF DocsTyped, Takes

LEMMA DocsStep == OwnInv /\ DocsTyped /\ [Next]_vars => DocsTyped'
  <1> SUFFICES ASSUME OwnInv, DocsTyped, [Next]_vars PROVE DocsTyped'
    OBVIOUS
  <1>c. Copies /\ RowsTyped
    BY DEF OwnInv, ColumnsInv
  <1>k. "ensure" \in Kinds /\ "toggle" \in Kinds /\ "page" \in Kinds /\ "save" \in Kinds
    BY DEF Kinds
  <1>s. UNCHANGED <<doc, desk>> => DocsTyped'
    BY DEF DocsTyped
  <1>1. ASSUME NEW p \in Pipelines, NEW n \in PlNames, NEW input \in SUBSET Fields,
               NEW dests \in SUBSET DestNames, CreatePipeline(p, n, input, dests)
        PROVE  DocsTyped'
    <2>1. PICK new \in NewRows(dests) :
            Publishes(p, [enabled |-> TRUE, input |-> input, outs |-> new])
      BY <1>1, <1>c, CreateEffect
    <2>2. new \in Outs
      BY NewTyped, OutsFrom
    <2>3. [enabled |-> TRUE, input |-> input, outs |-> new] \in Doc
      BY <2>2 DEF Doc
    <2>4. UNCHANGED desk
      BY <1>1 DEF CreatePipeline
    <2>5. QED
      BY <2>1, <2>3, <2>4 DEF DocsTyped, Publishes
  <1>2. ASSUME NEW u \in Requests, NEW p \in Pipelines, EnsureDestinations(u, p)
        PROVE  DocsTyped'
    <2>1. PICK x \in DOMAIN doc[p].outs, uid \in Uids :
            Taken(u, Copy("ensure", p, name[p], [doc[p] EXCEPT !.outs[x] = uid]))
      <3>1. ASSUME NEW x \in DOMAIN doc[p].outs, NEW uid \in OwnRows(p, x) PROVE uid \in Uids
        BY <1>c DEF OwnRows, RowsTyped
      <3>2. ASSUME NEW x \in DOMAIN doc[p].outs, NEW new \in NewRows({x}) PROVE new[x] \in Uids
        BY NewTyped
      <3>3. QED
        BY <1>2, <3>1, <3>2 DEF EnsureDestinations, Take, Taken
    <2>2. [doc[p] EXCEPT !.outs[x] = uid] \in Doc
      BY DocOneRow DEF DocsTyped
    <2>3. UNCHANGED doc
      BY <1>2 DEF EnsureDestinations
    <2>4. QED
      BY <1>c, <1>k, <2>1, <2>2, <2>3, DocsTake
  <1>3. ASSUME NEW u \in Requests, NEW p \in Pipelines, Toggle(u, p) PROVE DocsTyped'
    <2>1. [doc[p] EXCEPT !.enabled = ~@] \in Doc
      BY DocFlag DEF DocsTyped
    <2>2. /\ Taken(u, Copy("toggle", p, name[p], [doc[p] EXCEPT !.enabled = ~@]))
          /\ UNCHANGED doc
      BY <1>3 DEF Toggle, Take, Taken
    <2>3. QED
      BY <1>c, <1>k, <2>1, <2>2, DocsTake
  <1>4. ASSUME NEW u \in Requests, NEW p \in Pipelines, OpenPage(u, p) PROVE DocsTyped'
    <2>1. doc[p] \in Doc
      BY DEF DocsTyped
    <2>2. \E d \in Doc : \E n : Taken(u, Copy("page", p, n, d))
      BY <1>4, <2>1, RevisedTyped DEF OpenPage, Take, Taken
    <2>3. UNCHANGED doc
      BY <1>4 DEF OpenPage
    <2>4. QED
      BY <1>c, <1>k, <2>2, <2>3, DocsTake, Zenon
  <1>5. ASSUME NEW u \in Requests, WritesBack(u) PROVE DocsTyped'
    <2>1. Takes(u, Idle)
      BY <1>5, <1>c, WriteEffect DEF WritesBack
    <2>2. Published(desk[u].pl, desk[u].doc)
      BY <1>5 DEF WritesBack, EnsureWrite, SetPipelineEnabled, Write, Published
    <2>3. desk[u].doc \in Doc
      BY DEF DocsTyped
    <2>4. QED
      BY <1>c, <2>1, <2>2, <2>3, DocsPublish
  <1>6. ASSUME NEW u \in Requests, UpdatePipeline(u) PROVE DocsTyped'
    <2> DEFINE p == desk[u].pl
               after == Merged(p, desk[u].doc)
               d == [after EXCEPT !.outs = Reclaimed(p, after.outs)]
    <2>1. p \in Pipelines
      BY <1>6, DeskPipeline DEF UpdatePipeline
    <2>2. after \in Doc
      BY <2>1, MergedTyped DEF DocsTyped
    <2>3. UNCHANGED doc
      BY <1>6 DEF UpdatePipeline
    <2>4. Taken(u, Copy("save", p, desk[u].name, d)) \/ Taken(u, Idle)
      BY <1>6 DEF UpdatePipeline, Take, Taken
    <2> HIDE DEF after
    <2>5. d \in Doc
      BY <1>c, <2>2, DocParts, ReclaimedTyped, DocOuts
    <2> HIDE DEF d
    <2>6. CASE Taken(u, Idle)
      BY <1>c, <2>3, <2>6, IdleCopy, TakesOne, DocsIdle
    <2>7. QED
      BY <1>c, <1>k, <2>3, <2>4, <2>5, <2>6, DocsTake
  <1>7. ASSUME NEW u \in Requests, Save(u) PROVE DocsTyped'
    <2> DEFINE outs == desk[u].doc.outs
    <2>1. Takes(u, Idle)
      BY <1>7, <1>c, SaveEffect
    <2>2. CASE UNCHANGED doc
      BY <2>1, <2>2, DocsIdle
    <2>3. desk[u].doc \in Doc /\ outs \in Outs
      BY DocParts DEF DocsTyped
    <2>4. ASSUME NEW new \in NewRows(NewDests(outs)),
                 Published(desk[u].pl, [desk[u].doc EXCEPT !.outs = Filled(outs, new)])
          PROVE  DocsTyped'
      <3>1. [desk[u].doc EXCEPT !.outs = Filled(outs, new)] \in Doc
        BY <2>3, FilledTyped, DocOuts
      <3>2. QED
        BY <1>c, <2>1, <2>4, <3>1, DocsPublish
    <2>5. QED
      BY <1>7, <2>2, <2>4 DEF Save, Write, Published, Filled
  <1>8. ASSUME NEW p \in Pipelines, EngineMoves(p) PROVE DocsTyped'
    BY <1>8, <1>s
    DEF EngineMoves, EngineStep, Scan, FormBatch, ReserveDelivery, ProcessBatch, CloseBatch, Crash,
        adminVars
  <1>9. CASE UNCHANGED vars
    BY <1>9, <1>s DEF vars, adminVars
  <1>10. QED
    BY <1>1, <1>2, <1>3, <1>4, <1>5, <1>6, <1>7, <1>8, <1>9, NextMoves DEF RequestStarts
\* The numbers of a sequence.
LEMMA BatchNumbers ==
  ASSUME NEW S, S \subseteq 1..MaxBatches
  PROVE  IsFiniteSet(S) /\ Cardinality(S) \in 0..MaxBatches
  <1>1. MaxBatches \in Nat /\ 1 \in Int
    BY ConfigAssumption DEF ConfigAssumption
  <1>2. IsFiniteSet(1..MaxBatches) /\ Cardinality(1..MaxBatches) = MaxBatches
    BY <1>1, FS_Interval
  <1>3. /\ IsFiniteSet(S) /\ Cardinality(S) <= Cardinality(1..MaxBatches)
        /\ Cardinality(S) \in Nat
    BY <1>2, FS_Subset, FS_CardinalityType
  <1>4. QED
    BY <1>1, <1>2, <1>3

LEMMA BatchesOfRange ==
  ASSUME BatchesOk, IsLog(history), NEW u
  PROVE  BatchesOf(u) \subseteq 1..MaxBatches
  <1>1. MaxBatches \in Nat
    BY ConfigAssumption DEF ConfigAssumption
  <1>2. ASSUME NEW x \in dels PROVE x.batch \in 1..MaxBatches
    <2>1. x.batch \in Nat /\ 1 <= x.batch /\ x.batch <= history.batches /\ history.batches <= MaxBatches
      BY DEF BatchesOk
    <2>2. history.batches \in Nat
      BY DEF IsLog
    <2>3. QED
      BY <1>1, <2>1, <2>2
  <1>3. QED
    BY <1>1, <1>2 DEF BatchesOf

LEMMA SameBatchesOf ==
  ASSUME UNCHANGED dels, NEW u
  PROVE  (BatchesOf(u))' = BatchesOf(u)
  BY DEF BatchesOf

\* A step that reserves nothing and delivers nothing.
LEMMA EngineQuiet ==
  ASSUME EngineTyped, UNCHANGED <<seq, dels>>, faults' \in 0..MaxFaults,
         \A p \in Pipelines : scan'[p].outs \in Outs
  PROVE  EngineTyped'
  BY SameBatchesOf DEF EngineTyped

LEMMA EngineTypedScan ==
  ASSUME EngineTyped, NEW p, NEW s, Scans(p, s), s.outs \in Outs
  PROVE  \A q \in Pipelines : scan'[q].outs \in Outs
  BY DEF EngineTyped, Scans

\* A destination that gets a number gets one for a batch it has none for.
LEMMA ReserveTyped ==
  ASSUME OpenInv, BatchesOk', EngineTyped, NEW p \in Pipelines, ReserveDelivery(p)
  PROVE  EngineTyped'
  <1>o. DeliveryInv /\ BatchesOk /\ IsLog(history)
    BY DEF OpenInv
  <1> DEFINE new == {uid \in UidsOf(scan[p].outs) : DelOf(uid, batch[p]) = {}}
             b == batch[p]
             made == {[uid |-> uid, batch |-> b, number |-> seq[uid] + 1, done |-> FALSE] : uid \in new}
  <1>1. /\ seq' = [u \in Uids |-> IF u \in new THEN seq[u] + 1 ELSE seq[u]]
        /\ dels' = dels \cup made
        /\ UNCHANGED <<batch, faults>>
    BY DEF ReserveDelivery
  <1>2. new \subseteq Uids /\ \A uid \in new : DelOf(uid, b) = {}
    BY OutsParts DEF EngineTyped, UidsOf
  <1>3. \A q \in Pipelines : scan'[q].outs \in Outs
    <2>1. Stepped(p, "reserved")
      BY DEF ReserveDelivery, Stepped
    <2>2. PICK s : Scans(p, s) /\ s.outs = scan[p].outs
      BY <1>o, <2>1, StepOne
    <2>3. QED
      BY <2>2, EngineTypedScan DEF EngineTyped
  <1> HIDE DEF new, b
  <1>4. \A x \in made : x.uid \in new /\ x.batch = b /\ x.number = seq[x.uid] + 1 /\ x.done = FALSE
    OBVIOUS
  <1>5. ASSUME NEW uid \in new PROVE \E x \in made : x.uid = uid
    <2> DEFINE x == [uid |-> uid, batch |-> b, number |-> seq[uid] + 1, done |-> FALSE]
    <2>1. x \in made /\ x.uid = uid
      OBVIOUS
    <2> HIDE DEF x
    <2>2. QED
      BY <2>1
  <1> HIDE DEF made
  <1>6. ASSUME NEW u \in new
        PROVE  /\ (BatchesOf(u))' = BatchesOf(u) \cup {b} /\ b \notin BatchesOf(u)
               /\ seq'[u] = Cardinality((BatchesOf(u))')
    <2>1. (BatchesOf(u))' = BatchesOf(u) \cup {b}
      BY <1>1, <1>4, <1>5 DEF BatchesOf
    <2>2. b \notin BatchesOf(u)
      BY <1>2 DEF BatchesOf, DelOf
    <2>3. IsFiniteSet(BatchesOf(u))
      BY <1>o, BatchesOfRange, BatchNumbers
    <2>4. Cardinality(BatchesOf(u) \cup {b}) = Cardinality(BatchesOf(u)) + 1
      BY <2>2, <2>3, FS_AddElement
    <2>5. seq'[u] = seq[u] + 1 /\ seq[u] = Cardinality(BatchesOf(u))
      BY <1>1, <1>2 DEF EngineTyped
    <2>6. QED
      BY <2>1, <2>2, <2>4, <2>5
  <1>7. ASSUME NEW u \in Uids \ new
        PROVE  (BatchesOf(u))' = BatchesOf(u) /\ seq'[u] = seq[u]
    BY <1>1, <1>4 DEF BatchesOf
  <1>8. seq' = [u \in Uids |-> seq'[u]]
    BY <1>1
  <1>9. \A u \in Uids : seq'[u] = Cardinality((BatchesOf(u))')
    BY <1>6, <1>7 DEF EngineTyped
  <1>10. ASSUME NEW x \in made PROVE x.number \in 1..MaxBatches
    <2>1. x.uid \in new /\ x.uid \in Uids /\ x.number = seq[x.uid] + 1
      BY <1>2, <1>4
    <2>2. seq'[x.uid] = seq[x.uid] + 1
      BY <1>1, <2>1
    <2>3. seq[x.uid] \in Nat
      BY <1>o, <2>1, BatchesOfRange, BatchNumbers DEF EngineTyped
    <2>4. (BatchesOf(x.uid))' \subseteq 1..MaxBatches
      <3>1. BatchesOf(x.uid) \subseteq 1..MaxBatches
        BY <1>o, BatchesOfRange
      <3>2. b \in 1..MaxBatches
        <4>1. b \in Nat /\ b # 0 /\ b <= history.batches /\ history.batches <= MaxBatches
          BY <1>o DEF b, BatchesOk, ReserveDelivery
        <4>2. history.batches \in Nat /\ MaxBatches \in Nat
          BY ConfigAssumption DEF ConfigAssumption, OpenInv, IsLog
        <4>3. QED
          BY <4>1, <4>2
      <3>3. QED
        BY <1>6, <2>1, <3>1, <3>2
    <2>5. seq'[x.uid] \in 0..MaxBatches
      BY <1>6, <2>1, <2>4, BatchNumbers
    <2>6. QED
      BY <2>1, <2>2, <2>3, <2>5, ConfigAssumption DEF ConfigAssumption
  <1>11. \A x \in dels' : x.number \in 1..MaxBatches /\ x.done \in BOOLEAN
    BY <1>1, <1>4, <1>10 DEF EngineTyped
  <1>12. QED
    BY <1>1, <1>3, <1>8, <1>9, <1>11 DEF EngineTyped

LEMMA ProcessTyped ==
  ASSUME OpenInv, EngineTyped, NEW p \in Pipelines, ProcessBatch(p)
  PROVE  EngineTyped'
  <1>o. DeliveryInv
    BY DEF OpenInv
  <1>1. PICK ok \in SUBSET dels :
          /\ dels' = (dels \ ok) \cup {[y EXCEPT !.done = TRUE] : y \in ok}
          /\ UNCHANGED faults \/ (faults < MaxFaults /\ faults' = faults + 1)
    BY DEF ProcessBatch, Owed
  <1>2. \A y \in dels : LET x == [y EXCEPT !.done = TRUE]
                        IN x.done = TRUE /\ x.uid = y.uid /\ x.batch = y.batch /\ x.number = y.number
    BY <1>o DEF DeliveryInv, IsDel
  <1>3. ASSUME NEW x \in dels'
        PROVE  \/ x \in dels
               \/ /\ x.done \in BOOLEAN
                  /\ \E y \in dels : x.uid = y.uid /\ x.batch = y.batch /\ x.number = y.number
    <2>1. CASE \E y \in ok : x = [y EXCEPT !.done = TRUE]
      BY <1>2, <2>1
    <2>2. QED
      BY <1>1, <2>1
  <1>4. \A y \in dels : \E x \in dels' : x.uid = y.uid /\ x.batch = y.batch
    <2>1. ASSUME NEW y \in ok PROVE \E x \in dels' : x.uid = y.uid /\ x.batch = y.batch
      <3> DEFINE z == [y EXCEPT !.done = TRUE]
      <3>1. z \in dels' /\ z.uid = y.uid /\ z.batch = y.batch
        BY <1>1, <1>2
      <3> HIDE DEF z
      <3>2. QED
        BY <3>1
    <2>2. QED
      BY <1>1, <2>1
  <1>5. ASSUME NEW u PROVE (BatchesOf(u))' = BatchesOf(u)
    BY <1>3, <1>4 DEF BatchesOf
  <1>6. UNCHANGED seq /\ faults' \in 0..MaxFaults
    BY <1>1, ConfigAssumption DEF ProcessBatch, EngineTyped, ConfigAssumption
  <1>7. \A q \in Pipelines : scan'[q].outs \in Outs
    <2>1. Stepped(p, "written")
      BY DEF ProcessBatch, Stepped
    <2>2. PICK s : Scans(p, s) /\ s.outs = scan[p].outs
      BY <1>o, <2>1, StepOne
    <2>3. QED
      BY <2>2, EngineTypedScan DEF EngineTyped
  <1>8. \A x \in dels' : x.number \in 1..MaxBatches /\ x.done \in BOOLEAN
    BY <1>3 DEF EngineTyped
  <1>9. QED
    BY <1>5, <1>6, <1>7, <1>8 DEF EngineTyped
LEMMA EngineStepTyped ==
  ASSUME OpenInv, BatchesOk', DocsTyped, EngineTyped, NEW p \in Pipelines, EngineMoves(p)
  PROVE  EngineTyped'
  <1>o. DeliveryInv /\ IsLog(history)
    BY DEF OpenInv
  <1>f. faults \in 0..MaxFaults /\ MaxFaults \in Nat
    BY ConfigAssumption DEF ConfigAssumption, EngineTyped
  <1>1. CASE Scan(p)
    <2> DEFINE s == [step |-> "listed", outs |-> doc[p].outs]
    <2>1. Scans(p, s) /\ s.outs = doc[p].outs
      BY <1>1, <1>o, ScansOne DEF Scan
    <2> HIDE DEF s
    <2>2. doc[p].outs \in Outs
      BY DocParts DEF DocsTyped
    <2>3. UNCHANGED <<seq, dels, faults>>
      BY <1>1 DEF Scan
    <2>4. QED
      BY <1>f, <2>1, <2>2, <2>3, EngineTypedScan, EngineQuiet
  <1>2. CASE FormBatch(p) \/ CloseBatch(p) \/ Crash(p)
    <2>1. UNCHANGED scan \/ scan' = [scan EXCEPT ![p] = NoScan]
      BY <1>2 DEF FormBatch, CloseBatch, Crash
    <2>2. \A q \in Pipelines : scan'[q].outs \in Outs
      BY <1>o, <2>1, ScansOne, IdleTyped, EngineTypedScan DEF EngineTyped
    <2>3. UNCHANGED <<seq, dels>> /\ faults' \in 0..MaxFaults
      BY <1>2, <1>f DEF FormBatch, CloseBatch, Crash
    <2>4. QED
      BY <2>2, <2>3, EngineQuiet
  <1>3. QED
    BY <1>1, <1>2, ReserveTyped, ProcessTyped DEF EngineMoves, EngineStep

LEMMA TypeStep == TypeInv /\ [Next]_vars => TypeInv'
  <1> SUFFICES ASSUME TypeInv, [Next]_vars PROVE TypeInv'
    OBVIOUS
  <1>1. OwnInv /\ IsLog(history) /\ OpenInv /\ DocsTyped /\ EngineTyped
    BY DEF TypeInv, OpenInv, DeliveryInv
  <1>2. OpenInv' /\ DocsTyped'
    BY <1>1, OpenStep, DocsStep
  <1>3. EngineTyped'
    <2>1. CASE AdminOnly
      <3>1. UNCHANGED <<seq, dels, scan, faults>>
        BY <2>1 DEF AdminOnly, engineVars
      <3>2. QED
        BY <1>1, <3>1, EngineQuiet DEF EngineTyped
    <2>2. ASSUME NEW p \in Pipelines, EngineMoves(p) PROVE EngineTyped'
      BY <1>1, <1>2, <2>2, EngineStepTyped DEF OpenInv
    <2>3. QED
      BY <1>1, <2>1, <2>2, AdminMoves
  <1>4. srcName' \in [Pipelines -> PlNames \cup {<< >>}]
    <2>1. ASSUME NEW p \in Pipelines, NEW n \in PlNames, NEW input, NEW dests,
                 CreatePipeline(p, n, input, dests)
          PROVE  srcName' \in [Pipelines -> PlNames \cup {<< >>}]
      BY <2>1 DEF TypeInv, CreatePipeline
    <2>2. UNCHANGED srcName => srcName' \in [Pipelines -> PlNames \cup {<< >>}]
      BY DEF TypeInv
    <2>3. QED
      BY <1>1, <2>1, <2>2, NextMoves, LogEngine
      DEF RequestStarts, WritesBack, EnsureDestinations, Toggle, OpenPage, EnsureWrite,
          SetPipelineEnabled, UpdatePipeline, Save, adminVars, vars
  <1>5. QED
    BY <1>2, <1>3, <1>4 DEF TypeInv

LEMMA TypeInit == Init => TypeInv
  <1> SUFFICES ASSUME Init PROVE TypeInv
    OBVIOUS
  <1>1. OpenInv
    BY GapInvInit DEF GapInv
  <1>2. 0 \in Uids
    BY ZeroUid
  <1>3. ASSUME NEW i \in SUBSET Fields PROVE LegacyDoc(i) \in Doc
    <2> DEFINE o == [d \in {Default} |-> 0]
    <2>1. o \in [{Default} -> Uids]
      BY <1>2
    <2>2. LegacyDoc(i) = [enabled |-> TRUE, input |-> i, outs |-> o]
      BY DEF LegacyDoc
    <2> HIDE DEF o
    <2>3. o \in Outs
      BY <2>1, OutsFrom, ConfigAssumption DEF ConfigAssumption
    <2>4. QED
      BY <2>2, <2>3 DEF Doc
  <1>4. DocsTyped
    <2>1. \A p \in Pipelines : doc[p] \in Doc
      BY <1>3, InitDocs, IdleTyped
    <2>2. QED
      BY <2>1, IdleTyped DEF Init, DocsTyped
  <1>5. EngineTyped
    <2>1. \A u : BatchesOf(u) = {}
      BY DEF Init, BatchesOf
    <2>2. \A u : Cardinality(BatchesOf(u)) = 0
      BY <2>1, FS_EmptySet
    <2>3. /\ seq = [u \in Uids |-> seq[u]] /\ \A u \in Uids : seq[u] = 0
          /\ dels = {} /\ faults \in 0..MaxFaults
          /\ \A p \in Pipelines : scan[p] = NoScan
      BY ConfigAssumption DEF Init, ConfigAssumption
    <2>4. QED
      BY <2>2, <2>3, IdleTyped DEF EngineTyped
  <1>6. srcName \in [Pipelines -> PlNames \cup {<< >>}]
    BY ConfigAssumption DEF Init, ConfigAssumption
  <1>7. QED
    BY <1>1, <1>4, <1>5, <1>6 DEF TypeInv

LEMMA TypesHold == TypeInv => TypeOK
  <1> SUFFICES ASSUME TypeInv PROVE TypeOK
    OBVIOUS
  <1>1. /\ OwnInv /\ DeliveryInv /\ IsLog(history) /\ BatchesOk /\ DocsTyped /\ EngineTyped
        /\ RowsTyped /\ UidsUnique /\ NamesOk
        /\ MaxBatches \in Nat
    BY ConfigAssumption DEF TypeInv, OpenInv, DeliveryInv, OwnInv, ConfigAssumption
  <1>2. name \in [Pipelines -> PlNames \cup {<< >>}]
    <2>1. \A p \in Pipelines : name[p] \in PlNames \cup {<< >>}
      BY <1>1 DEF NamesOk, Exists
    <2>2. QED
      BY <1>1, <2>1 DEF NamesOk
  <1>3. seq \in [Uids -> 0..MaxBatches]
    <2>1. \A u \in Uids : seq[u] \in 0..MaxBatches
      BY <1>1, BatchesOfRange, BatchNumbers DEF EngineTyped
    <2>2. QED
      BY <1>1, <2>1 DEF EngineTyped
  <1>4. ASSUME NEW x \in dels
        PROVE  x \in [uid : Uids, batch : Batches, number : 1..MaxBatches, done : BOOLEAN]
    <2>1. x.uid \in Uids
      BY <1>1 DEF DeliveryInv, Used, RowsTyped
    <2>2. x.batch \in Batches
      <3>1. /\ x.batch \in Nat /\ 1 <= x.batch /\ x.batch <= history.batches
            /\ history.batches <= MaxBatches /\ history.batches \in Nat
        BY <1>1 DEF BatchesOk, IsLog
      <3>2. QED
        BY <1>1, <3>1 DEF Batches
    <2>3. x.number \in 1..MaxBatches /\ x.done \in BOOLEAN /\ IsDel(x)
      BY <1>1 DEF EngineTyped, DeliveryInv
    <2>4. QED
      BY <2>1, <2>2, <2>3 DEF IsDel
  <1>5. batch \in [Pipelines -> 0..MaxBatches]
    <2>1. \A p \in Pipelines : batch[p] \in 0..MaxBatches
      BY <1>1 DEF BatchesOk, IsLog
    <2>2. QED
      BY <1>1, <2>1 DEF BatchesOk
  <1>6. QED
    BY <1>1, <1>2, <1>3, <1>4, <1>5
    DEF TypeOK, TypeInv, DocsTyped, EngineTyped, BatchesOk, RowsTyped, UidsUnique, Kinds

\* Documents, copies, rows and deliveries keep their shapes.  That the numbers of a
\* sequence stay within bounds needs that a sequence counts its batches.
THEOREM ShapesAreKept == Spec => []TypeOK
  <1>1. QED
    BY TypeInit, TypeStep, TypesHold, PTL DEF Spec
=============================================================================
