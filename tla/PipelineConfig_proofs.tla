------------------------ MODULE PipelineConfig_proofs ------------------------
(***************************************************************************)
(* Theorems about PipelineConfig, for any number of pipelines, requests,   *)
(* destinations, fields, writes and faults.                                *)
(***************************************************************************)
EXTENDS PipelineConfig, TLAPS, FiniteSetTheorems, WellFoundedInduction

-----------------------------------------------------------------------------
(* Copies.  A document is its three fields, and so is every copy of one;   *)
(* nothing more is needed of types here.                                   *)

IsDoc(d)  == d = [enabled |-> d.enabled, input |-> d.input, outs |-> d.outs]
IsCopy(c) == c = [kind |-> c.kind, pl |-> c.pl, name |-> c.name, doc |-> c.doc, read |-> c.read]

Copies ==
  /\ doc  = [p \in Pipelines |-> doc[p]]  /\ \A p \in Pipelines : IsDoc(doc[p])
  /\ desk = [u \in Requests |-> desk[u]]
  /\ \A u \in Requests : IsCopy(desk[u]) /\ IsDoc(desk[u].doc)

\* The document a request with this copy is going to write.
Writes(c) == c.kind \in {"ensure", "toggle", "save"}

\* What an action does to documents and copies.
Published(p, d) == doc' = [doc EXCEPT ![p] = d]
Taken(u, c)     == desk' = [desk EXCEPT ![u] = c]

LEMMA PublishedOne ==
  ASSUME Copies, NEW p, NEW d, IsDoc(d), Published(p, d)
  PROVE  /\ doc' = [q \in Pipelines |-> doc'[q]]
         /\ \A q \in Pipelines : IsDoc(doc'[q]) /\ doc'[q] = IF q = p THEN d ELSE doc[q]
  <1>1. \A q \in Pipelines : doc'[q] = IF q = p THEN d ELSE doc[q]
    BY DEF Copies, Published
  <1>2. doc' = [q \in Pipelines |-> doc'[q]]
    BY DEF Copies, Published
  <1>3. QED
    BY <1>1, <1>2 DEF Copies

LEMMA TakenOne ==
  ASSUME Copies, NEW u, NEW c, IsCopy(c), IsDoc(c.doc), Taken(u, c)
  PROVE  /\ desk' = [x \in Requests |-> desk'[x]]
         /\ \A x \in Requests : /\ IsCopy(desk'[x]) /\ IsDoc(desk'[x].doc)
                                /\ desk'[x] = IF x = u THEN c ELSE desk[x]
  <1>1. \A x \in Requests : desk'[x] = IF x = u THEN c ELSE desk[x]
    BY DEF Copies, Taken
  <1>2. desk' = [x \in Requests |-> desk'[x]]
    BY DEF Copies, Taken
  <1>3. QED
    BY <1>1, <1>2 DEF Copies

LEMMA IdleCopy == IsCopy(Idle) /\ IsDoc(Idle.doc) /\ ~Writes(Idle)
  BY DEF IsCopy, IsDoc, Idle, NoDoc, Writes

LEMMA CopyCopy ==
  ASSUME NEW k, NEW p, NEW n, NEW d, IsDoc(d)
  PROVE  LET c == Copy(k, p, n, d)
         IN IsCopy(c) /\ IsDoc(c.doc) /\ c.doc = d /\ c.kind = k /\ c.pl = p
  BY DEF IsCopy, Copy

LEMMA SameOuts ==
  ASSUME NEW d, IsDoc(d), NEW o
  PROVE  LET e == [d EXCEPT !.outs = o]
         IN IsDoc(e) /\ e.outs = o /\ e.input = d.input
  BY DEF IsDoc

LEMMA SameColumns ==
  ASSUME NEW d, IsDoc(d), NEW b
  PROVE  LET e == [d EXCEPT !.enabled = b]
         IN IsDoc(e) /\ e.outs = d.outs /\ e.input = d.input
  BY DEF IsDoc

LEMMA SameInput ==
  ASSUME NEW d, IsDoc(d), NEW f
  PROVE  IsDoc([d EXCEPT !.input = f])
  BY DEF IsDoc

\* Where one destination of a document gets a row, the destinations stay the same.
LEMMA SameDomain ==
  ASSUME NEW d, IsDoc(d), NEW x, NEW uid
  PROVE  LET e == [d EXCEPT !.outs[x] = uid]
         IN IsDoc(e) /\ DOMAIN e.outs = DOMAIN d.outs /\ e.input = d.input
  BY DEF IsDoc

LEMMA OneRow ==
  ASSUME NEW d, IsDoc(d), NEW x, NEW uid
  PROVE  LET e == [d EXCEPT !.outs[x] = uid]
         IN \A y \in DOMAIN d.outs : e.outs[y] = IF y = x THEN uid ELSE d.outs[y]
  BY DEF IsDoc

-----------------------------------------------------------------------------
(* No column without a field, but for what no validation has seen.  It is   *)
(* not enough that published documents are sound: a copy that is about to be *)
(* written has to be as well, since it is written whatever has happened in  *)
(* between.                                                                *)

Sound(S, p, d) == Dangles(d) => DOMAIN d.outs = {Default} /\ <<p, d.input>> \in S

ColumnsInv ==
  /\ Copies
  /\ \A p \in Pipelines : Sound(unseen, p, doc[p])
  /\ \A u \in Requests : Writes(desk[u]) => Sound(unseen, desk[u].pl, desk[u].doc)

LEMMA SoundLater ==
  ASSUME NEW S, NEW T, S \subseteq T, NEW p, NEW d, Sound(S, p, d)
  PROVE  Sound(T, p, d)
  BY DEF Sound

\* Soundness is a matter of the input and of which destinations there are.
LEMMA SoundAlike ==
  ASSUME NEW S, NEW p, NEW d, NEW e, DOMAIN e.outs = DOMAIN d.outs, e.input = d.input,
         Sound(S, p, d)
  PROVE  Sound(S, p, e)
  BY DEF Sound, Dangles

LEMMA ValidSound ==
  ASSUME NEW S, NEW p, NEW d, Valid(d.input, DOMAIN d.outs)
  PROVE  Sound(S, p, d)
  BY DEF Sound, Dangles, Valid, Agrees

\* A sound document is published, and the copy of one request replaced.
LEMMA ColumnsPublish ==
  ASSUME ColumnsInv, NEW u, NEW p, NEW d, IsDoc(d), Sound(unseen, p, d), Published(p, d),
         Taken(u, Idle), UNCHANGED unseen
  PROVE  ColumnsInv'
  <1>1. /\ doc' = [q \in Pipelines |-> doc'[q]]
        /\ \A q \in Pipelines : IsDoc(doc'[q]) /\ doc'[q] = IF q = p THEN d ELSE doc[q]
    BY PublishedOne DEF ColumnsInv
  <1>2. /\ desk' = [x \in Requests |-> desk'[x]]
        /\ \A x \in Requests : /\ IsCopy(desk'[x]) /\ IsDoc(desk'[x].doc)
                               /\ desk'[x] = IF x = u THEN Idle ELSE desk[x]
    BY TakenOne, IdleCopy DEF ColumnsInv
  <1>3. Copies'
    BY <1>1, <1>2 DEF Copies, IsDoc, IsCopy
  <1>4. \A q \in Pipelines : Sound(unseen, q, doc'[q])
    BY <1>1 DEF ColumnsInv
  <1>5. \A x \in Requests : Writes(desk'[x]) => Sound(unseen, desk'[x].pl, desk'[x].doc)
    BY <1>2, IdleCopy DEF ColumnsInv
  <1>6. QED
    BY <1>3, <1>4, <1>5 DEF ColumnsInv, Sound, Writes

\* The copy of one request is replaced by one that is sound if it is to be written.
LEMMA ColumnsTake ==
  ASSUME ColumnsInv, NEW u, NEW c, IsCopy(c), IsDoc(c.doc),
         Writes(c) => Sound(unseen, c.pl, c.doc),
         Taken(u, c), UNCHANGED <<doc, unseen>>
  PROVE  ColumnsInv'
  <1>1. /\ desk' = [x \in Requests |-> desk'[x]]
        /\ \A x \in Requests : /\ IsCopy(desk'[x]) /\ IsDoc(desk'[x].doc)
                               /\ desk'[x] = IF x = u THEN c ELSE desk[x]
    BY TakenOne DEF ColumnsInv
  <1>2. Copies'
    BY <1>1 DEF ColumnsInv, Copies, IsDoc, IsCopy
  <1>3. \A x \in Requests : Writes(desk'[x]) => Sound(unseen, desk'[x].pl, desk'[x].doc)
    BY <1>1 DEF ColumnsInv
  <1>4. QED
    BY <1>2, <1>3 DEF ColumnsInv, Sound, Writes

LEMMA ColumnsStep == ColumnsInv /\ [Next]_vars => ColumnsInv'
  <1> SUFFICES ASSUME ColumnsInv, [Next]_vars PROVE ColumnsInv'
    OBVIOUS
  <1>1. CASE UNCHANGED <<doc, desk, unseen>>
    BY <1>1 DEF ColumnsInv, Copies, IsDoc, IsCopy, Sound, Writes
  <1>2. ASSUME NEW p \in Pipelines, NEW n, NEW input, NEW dests, CreatePipeline(p, n, input, dests)
        PROVE  ColumnsInv'
    <2>1. PICK outs \in NewRows(dests) :
            Published(p, [enabled |-> TRUE, input |-> input, outs |-> outs])
      BY <1>2 DEF CreatePipeline, Published
    <2> DEFINE d == [enabled |-> TRUE, input |-> input, outs |-> outs]
    <2>2. DOMAIN outs = dests
      BY DEF NewRows
    <2>3. IsDoc(d) /\ Sound(unseen', p, d)
      <3>1. CASE Valid(input, dests)
        BY <2>2, <3>1, ValidSound DEF IsDoc
      <3>2. CASE ~Valid(input, dests)
        BY <1>2, <2>2, <3>2 DEF CreatePipeline, Sound, IsDoc
      <3>3. QED
        BY <3>1, <3>2
    <2>4. UNCHANGED desk /\ unseen \subseteq unseen'
      BY <1>2 DEF CreatePipeline
    <2>d. Published(p, d)
      BY <2>1
    <2> HIDE DEF d
    <2>5. /\ doc' = [q \in Pipelines |-> doc'[q]]
          /\ \A q \in Pipelines : IsDoc(doc'[q]) /\ doc'[q] = IF q = p THEN d ELSE doc[q]
      BY <2>d, <2>3, PublishedOne DEF ColumnsInv
    <2>6. \A q \in Pipelines : Sound(unseen', q, doc'[q])
      <3>1. \A q \in Pipelines : Sound(unseen', q, doc[q])
        BY <2>4, SoundLater DEF ColumnsInv
      <3>2. ASSUME NEW q \in Pipelines PROVE Sound(unseen', q, doc'[q])
        <4>1. CASE q = p
          <5>1. doc'[q] = d
            BY <2>5, <4>1
          <5>2. QED
            BY <2>3, <4>1, <5>1
        <4>2. CASE q # p
          <5>1. doc'[q] = doc[q]
            BY <2>5, <4>2
          <5>2. QED
            BY <3>1, <5>1
        <4>3. QED
          BY <4>1, <4>2
      <3>3. QED
        BY <3>2
    <2>7. \A u \in Requests : Writes(desk[u]) => Sound(unseen', desk[u].pl, desk[u].doc)
      BY <2>4, SoundLater DEF ColumnsInv
    <2>8. Copies'
      BY <2>4, <2>5 DEF ColumnsInv, Copies, IsDoc, IsCopy
    <2>9. QED
      BY <2>4, <2>6, <2>7, <2>8 DEF ColumnsInv, Sound, Writes
  <1>3. ASSUME NEW u \in Requests, NEW p \in Pipelines, EnsureDestinations(u, p)
        PROVE  ColumnsInv'
    <2>1. PICK x, uid :
            Taken(u, Copy("ensure", p, name[p], [doc[p] EXCEPT !.outs[x] = uid]))
      BY <1>3 DEF EnsureDestinations, Take, Taken
    <2> DEFINE d == [doc[p] EXCEPT !.outs[x] = uid]
               c == Copy("ensure", p, name[p], d)
    <2>2. IsDoc(d) /\ DOMAIN d.outs = DOMAIN doc[p].outs /\ d.input = doc[p].input
      BY SameDomain DEF ColumnsInv, Copies
    <2>3. Sound(unseen, p, d)
      BY <2>2, SoundAlike DEF ColumnsInv
    <2> HIDE DEF d
    <2>4. IsCopy(c) /\ IsDoc(c.doc) /\ c.doc = d /\ c.pl = p
      BY <2>2, CopyCopy
    <2> HIDE DEF c
    <2>5. Taken(u, c) /\ UNCHANGED <<doc, unseen>>
      BY <1>3, <2>1 DEF EnsureDestinations, c, d
    <2>6. QED
      BY <2>3, <2>4, <2>5, ColumnsTake
  <1>4. ASSUME NEW u \in Requests, EnsureWrite(u) \/ SetPipelineEnabled(u)
        PROVE  ColumnsInv'
    <2>1. Published(desk[u].pl, desk[u].doc) /\ Taken(u, Idle)
      BY <1>4 DEF EnsureWrite, SetPipelineEnabled, Write, Take, Published, Taken
    <2>2. IsDoc(desk[u].doc) /\ Sound(unseen, desk[u].pl, desk[u].doc) /\ UNCHANGED unseen
      BY <1>4 DEF ColumnsInv, Copies, EnsureWrite, SetPipelineEnabled, Writes
    <2>3. QED
      BY <2>1, <2>2, ColumnsPublish
  <1>5. ASSUME NEW u \in Requests, NEW p \in Pipelines, Toggle(u, p)
        PROVE  ColumnsInv'
    <2> DEFINE d == [doc[p] EXCEPT !.enabled = ~@]
               c == Copy("toggle", p, name[p], d)
    <2>1. IsDoc(d) /\ d.outs = doc[p].outs /\ d.input = doc[p].input
      BY SameColumns DEF ColumnsInv, Copies
    <2>2. Sound(unseen, p, d)
      BY <2>1, SoundAlike DEF ColumnsInv
    <2>3. Taken(u, c) /\ UNCHANGED <<doc, unseen>>
      BY <1>5 DEF Toggle, Take, Taken
    <2> HIDE DEF d
    <2>4. IsCopy(c) /\ IsDoc(c.doc) /\ c.doc = d /\ c.pl = p
      BY <2>1, CopyCopy
    <2> HIDE DEF c
    <2>5. QED
      BY <2>2, <2>3, <2>4, ColumnsTake
  <1>6. ASSUME NEW u \in Requests, NEW p \in Pipelines, OpenPage(u, p)
        PROVE  ColumnsInv'
    <2>1. IsDoc(doc[p])
      BY DEF ColumnsInv, Copies
    <2>2. \A d \in Revised(doc[p]) : IsDoc(d)
      <3>1. \A b : IsDoc([doc[p] EXCEPT !.enabled = b])
        BY <2>1, SameColumns
      <3>2. \A f : IsDoc([doc[p] EXCEPT !.input = f])
        BY <2>1, SameInput
      <3>3. \A o : IsDoc([doc[p] EXCEPT !.outs = o])
        BY <2>1, SameOuts
      <3>4. QED
        BY <3>1, <3>2, <3>3 DEF Revised
    <2>3. PICK n, d : IsDoc(d) /\ Taken(u, Copy("page", p, n, d))
      BY <1>6, <2>1, <2>2 DEF OpenPage, Take, Taken
    <2> DEFINE c == Copy("page", p, n, d)
    <2>4. IsCopy(c) /\ IsDoc(c.doc) /\ c.kind = "page"
      BY <2>3, CopyCopy
    <2> HIDE DEF c
    <2>5. ~Writes(c)
      BY <2>4 DEF Writes
    <2>6. UNCHANGED <<doc, unseen>> /\ Taken(u, c)
      BY <1>6, <2>3 DEF OpenPage, c
    <2>7. QED
      BY <2>4, <2>5, <2>6, ColumnsTake
  <1>7. ASSUME NEW u \in Requests, UpdatePipeline(u) PROVE ColumnsInv'
    <2> DEFINE p == desk[u].pl
               after == Merged(p, desk[u].doc)
               d == [after EXCEPT !.outs = Reclaimed(p, after.outs)]
               c == Copy("save", p, desk[u].name, d)
    <2>1. IsDoc(after)
      BY SameOuts DEF ColumnsInv, Copies, Merged
    <2>2. IsDoc(d) /\ DOMAIN d.outs = DOMAIN after.outs /\ d.input = after.input
      <3> HIDE DEF after
      <3>1. DOMAIN Reclaimed(p, after.outs) = DOMAIN after.outs
        BY DEF Reclaimed
      <3>2. QED
        BY <2>1, <3>1, SameOuts
    <2>3. UNCHANGED <<doc, unseen>>
      BY <1>7 DEF UpdatePipeline
    <2>4. \/ Valid(after.input, DOMAIN after.outs) /\ Taken(u, c)
          \/ Taken(u, Idle)
      BY <1>7 DEF UpdatePipeline, Take, Taken
    <2>5. Valid(after.input, DOMAIN after.outs) => Sound(unseen, p, d)
      <3> HIDE DEF after, d
      <3>1. QED
        BY <2>2, ValidSound
    <2> HIDE DEF after, d
    <2>6. IsCopy(c) /\ IsDoc(c.doc) /\ c.doc = d /\ c.pl = p
      BY <2>2, CopyCopy
    <2> HIDE DEF c
    <2>7. CASE Taken(u, Idle)
      BY <2>3, <2>7, IdleCopy, ColumnsTake
    <2>8. QED
      BY <2>3, <2>4, <2>5, <2>6, <2>7, ColumnsTake
  <1>8. ASSUME NEW u \in Requests, Save(u) PROVE ColumnsInv'
    <2>0. UNCHANGED unseen
      BY <1>8 DEF Save
    <2>1. CASE UNCHANGED doc /\ Taken(u, Idle)
      BY <2>0, <2>1, IdleCopy, ColumnsTake
    <2>2. ASSUME NEW new, LET outs == desk[u].doc.outs
                              d == [desk[u].doc EXCEPT !.outs = [x \in DOMAIN outs |->
                                      IF outs[x] # 0 THEN outs[x] ELSE new[x]]]
                          IN Published(desk[u].pl, d) /\ Taken(u, Idle)
          PROVE  ColumnsInv'
      <3> DEFINE outs == desk[u].doc.outs
                 o == [x \in DOMAIN outs |-> IF outs[x] # 0 THEN outs[x] ELSE new[x]]
                 d == [desk[u].doc EXCEPT !.outs = o]
      <3>1. IsDoc(d) /\ d.outs = o /\ d.input = desk[u].doc.input
        BY SameOuts DEF ColumnsInv, Copies
      <3>2. Sound(unseen, desk[u].pl, desk[u].doc)
        BY <1>8 DEF ColumnsInv, Save, Writes
      <3>3. Sound(unseen, desk[u].pl, d)
        <4> HIDE DEF d
        <4>1. QED
          BY <3>1, <3>2, SoundAlike
      <3>4. Published(desk[u].pl, d) /\ Taken(u, Idle)
        BY <2>2
      <3> HIDE DEF d
      <3>5. QED
        BY <2>0, <3>1, <3>3, <3>4, ColumnsPublish
    <2>3. QED
      BY <1>8, <2>1, <2>2 DEF Save, Write, Take, Published, Taken
  <1>9. QED
    BY <1>1, <1>2, <1>3, <1>4, <1>5, <1>6, <1>7, <1>8
    DEF Next, AdminStep, DeskStep, EngineStep, Scan, FormBatch, ReserveDelivery, ProcessBatch,
        CloseBatch, Crash, vars, adminVars, engineVars

\* The documents there are before the first request.
LEMMA InitDocs ==
  ASSUME Init
  PROVE  /\ doc = [p \in Pipelines |-> doc[p]]
         /\ \A p \in Legacy : \E i \in SUBSET Fields : doc[p] = LegacyDoc(i) /\ <<p, i>> \in unseen
         /\ \A p \in Pipelines \ Legacy : doc[p] = NoDoc
  <1>1. PICK input \in [Legacy -> SUBSET Fields] :
          /\ doc = [p \in Pipelines |-> IF p \in Legacy THEN LegacyDoc(input[p]) ELSE NoDoc]
          /\ unseen = {<<p, input[p]>> : p \in Legacy}
    BY DEF Init
  <1>2. doc = [p \in Pipelines |-> doc[p]]
    BY <1>1
  <1>3. ASSUME NEW p \in Legacy
        PROVE  doc[p] = LegacyDoc(input[p]) /\ <<p, input[p]>> \in unseen /\ input[p] \in SUBSET Fields
    BY <1>1, ConfigAssumption DEF ConfigAssumption
  <1>4. QED
    BY <1>1, <1>2, <1>3

LEMMA InitDesk ==
  ASSUME Init
  PROVE  desk = [u \in Requests |-> desk[u]] /\ \A u \in Requests : desk[u] = Idle
  BY DEF Init

LEMMA ColumnsInit == Init => ColumnsInv
  <1> SUFFICES ASSUME Init PROVE ColumnsInv
    OBVIOUS
  <1>1. ASSUME NEW p \in Pipelines PROVE IsDoc(doc[p]) /\ Sound(unseen, p, doc[p])
    <2>1. CASE p \in Legacy
      <3>1. PICK i : doc[p] = LegacyDoc(i) /\ <<p, i>> \in unseen
        BY <2>1, InitDocs
      <3>2. IsDoc(LegacyDoc(i)) /\ Sound(unseen, p, LegacyDoc(i))
        BY <3>1 DEF IsDoc, Sound, LegacyDoc
      <3>3. QED
        BY <3>1, <3>2
    <2>2. CASE p \notin Legacy
      <3>1. doc[p] = NoDoc
        BY <2>2, InitDocs
      <3>2. IsDoc(NoDoc) /\ Sound(unseen, p, NoDoc)
        BY DEF IsDoc, Sound, Dangles, NoDoc
      <3>3. QED
        BY <3>1, <3>2
    <2>3. QED
      BY <2>1, <2>2
  <1>2. \A u \in Requests : desk[u] = Idle
    BY InitDesk
  <1>3. Copies
    BY <1>1, <1>2, IdleCopy, InitDesk, InitDocs DEF Copies
  <1>4. QED
    BY <1>1, <1>2, <1>3, IdleCopy DEF ColumnsInv

\* Whatever requests overlap, a published document asks a destination to draw from a
\* field its input does not declare only if it still has the input and the default
\* destination it was made with, past every validation.
THEOREM NoColumnDangles == Spec => []NoDanglingColumns
  <1>1. ColumnsInv => NoDanglingColumns
    BY DEF ColumnsInv, Sound, NoDanglingColumns
  <1>2. QED
    BY <1>1, ColumnsInit, ColumnsStep, PTL DEF Spec
-----------------------------------------------------------------------------
(* What happened, for the properties: names are only ever added.           *)

IsRecord(h) ==
  h = [writes |-> h.writes, batches |-> h.batches, closed |-> h.closed, raced |-> h.raced,
       version |-> h.version, named |-> h.named, used |-> h.used]

IsHistory == IsRecord(history) /\ history.named = [p \in Pipelines |-> history.named[p]]

LEMMA VersionOne ==
  ASSUME NEW h, IsRecord(h), NEW p, NEW v
  PROVE  LET e == [h EXCEPT !.version[p] = v] IN IsRecord(e) /\ e.named = h.named /\ e.raced = h.raced
  BY DEF IsRecord

LEMMA NamedOne ==
  ASSUME NEW h, IsRecord(h), NEW p, NEW s
  PROVE  LET e == [h EXCEPT !.named[p] = s]
         IN IsRecord(e) /\ e.named = [h.named EXCEPT ![p] = s] /\ e.raced = h.raced
  BY DEF IsRecord

LEMMA RacedOne ==
  ASSUME NEW h, IsRecord(h), NEW p, NEW r
  PROVE  LET e == [h EXCEPT !.raced[p] = r] IN IsRecord(e) /\ e.named = h.named
  BY DEF IsRecord

\* What the two writes that name a pipeline do to the names it has had.
Renamed(p, n) ==
  IsRecord(history') /\ history'.named = [history.named EXCEPT ![p] = history.named[p] \cup {n}]

LEMMA CreateRenames ==
  ASSUME IsHistory, NEW p, NEW n, NEW input, NEW dests, CreatePipeline(p, n, input, dests)
  PROVE  Renamed(p, n)
  <1> DEFINE w == history.writes + 1
             v == history.version[p] + 1
             m == history.named[p] \cup {n}
             e1 == [history EXCEPT !.writes = w]
             e2 == [e1 EXCEPT !.version[p] = v]
             e3 == [e2 EXCEPT !.named[p] = m]
  <1>1. history' = e3
    BY Zenon DEF CreatePipeline
  <1> HIDE DEF w, v, m
  <1>2. IsRecord(e1) /\ e1.named = history.named
    BY DEF IsHistory, IsRecord
  <1> HIDE DEF e1
  <1>3. IsRecord(e2) /\ e2.named = history.named
    BY <1>2, VersionOne
  <1> HIDE DEF e2
  <1>4. IsRecord(e3) /\ e3.named = [history.named EXCEPT ![p] = m]
    BY <1>3, NamedOne
  <1> HIDE DEF e3
  <1>5. QED
    BY <1>1, <1>4 DEF Renamed, m

LEMMA SaveRenames ==
  ASSUME IsHistory, NEW u, Save(u),
         \A q \in Pipelines \ {desk[u].pl} : name[q] # desk[u].name
  PROVE  Renamed(desk[u].pl, desk[u].name)
  <1> DEFINE p == desk[u].pl
             r == history.raced[p] \/ (Stale(u)
                    \/ (batch[p] # 0 /\ StructuralChange(doc[p], desk[u].doc)))
             m == history.named[p] \cup {desk[u].name}
             v == history.version[p] + 1
             e1 == [history EXCEPT !.version[p] = v]
             e2 == [e1 EXCEPT !.named[p] = m]
             e3 == [e2 EXCEPT !.raced[p] = r]
  <1>1. history' = e3
    BY Zenon DEF Save
  <1> HIDE DEF p, r, v, m
  <1>2. IsRecord(e1) /\ e1.named = history.named
    BY VersionOne DEF IsHistory
  <1> HIDE DEF e1
  <1>3. IsRecord(e2) /\ e2.named = [history.named EXCEPT ![p] = m]
    BY <1>2, NamedOne
  <1> HIDE DEF e2
  <1>4. IsRecord(e3) /\ e3.named = [history.named EXCEPT ![p] = m]
    BY <1>3, RacedOne
  <1> HIDE DEF e3
  <1>5. QED
    BY <1>1, <1>4 DEF Renamed, p, m

\* The other steps give no names.
OtherStep ==
  \/ UNCHANGED history
  \/ \E u : EnsureWrite(u) \/ SetPipelineEnabled(u)
  \/ \E u, p : Toggle(u, p) \/ OpenPage(u, p)
  \/ \E p : FormBatch(p) \/ ReserveDelivery(p) \/ CloseBatch(p)

LEMMA NamesKept ==
  ASSUME IsHistory, OtherStep
  PROVE  IsRecord(history') /\ UNCHANGED history.named
  <1>1. CASE UNCHANGED history
    BY <1>1 DEF IsHistory, IsRecord
  <1>2. ASSUME NEW u, EnsureWrite(u) \/ SetPipelineEnabled(u)
        PROVE  IsRecord(history') /\ UNCHANGED history.named
    BY <1>2 DEF EnsureWrite, SetPipelineEnabled, IsHistory, IsRecord
  <1>3. ASSUME NEW u, NEW p, Toggle(u, p) \/ OpenPage(u, p)
        PROVE  IsRecord(history') /\ UNCHANGED history.named
    BY <1>3 DEF Toggle, OpenPage, IsHistory, IsRecord
  <1>4. ASSUME NEW p, FormBatch(p) \/ ReserveDelivery(p) \/ CloseBatch(p)
        PROVE  IsRecord(history') /\ UNCHANGED history.named
    BY <1>1, <1>4 DEF FormBatch, ReserveDelivery, CloseBatch, IsHistory, IsRecord
  <1>5. QED
    BY <1>1, <1>2, <1>3, <1>4 DEF OtherStep

-----------------------------------------------------------------------------
(* Names of rows.  A row of a pipeline's destination has a name that begins *)
(* with a name the pipeline has had.                                       *)

LEMMA PrefixConcat ==
  ASSUME NEW n \in Seq(STRING), NEW d \in Seq(STRING)
  PROVE  IsPrefix(n, n \o d) /\ n \o d \in Seq(STRING)
  <1>1. n \o d \in Seq(STRING) /\ Len(n \o d) = Len(n) + Len(d)
    OBVIOUS
  <1>2. \A i \in 1..Len(n) : (n \o d)[i] = n[i]
    OBVIOUS
  <1>3. SubSeq(n, 1, Len(n)) = SubSeq(n \o d, 1, Len(n))
    BY <1>1, <1>2
  <1>4. QED
    BY <1>1, <1>3 DEF IsPrefix

LEMMA PrefixElements ==
  ASSUME NEW n \in Seq(STRING), NEW s \in Seq(STRING), IsPrefix(n, s)
  PROVE  Len(n) <= Len(s) /\ \A i \in 1..Len(n) : n[i] = s[i]
  <1>1. Len(n) <= Len(s) /\ SubSeq(n, 1, Len(n)) = SubSeq(s, 1, Len(n))
    BY DEF IsPrefix
  <1>2. \A i \in 1..Len(n) : /\ SubSeq(n, 1, Len(n))[i] = n[i]
                             /\ SubSeq(s, 1, Len(n))[i] = s[i]
    BY <1>1
  <1>3. QED
    BY <1>1, <1>2

LEMMA PrefixShorter ==
  ASSUME NEW n \in Seq(STRING), NEW m \in Seq(STRING), NEW s \in Seq(STRING),
         IsPrefix(n, s), IsPrefix(m, s), Len(n) <= Len(m)
  PROVE  IsPrefix(n, m)
  <1>1. \A i \in 1..Len(n) : n[i] = m[i]
    BY PrefixElements
  <1>2. SubSeq(n, 1, Len(n)) = SubSeq(m, 1, Len(n))
    BY <1>1
  <1>3. QED
    BY <1>2 DEF IsPrefix

LEMMA PrefixesCompare ==
  ASSUME NEW n \in Seq(STRING), NEW m \in Seq(STRING), NEW s \in Seq(STRING),
         IsPrefix(n, s), IsPrefix(m, s)
  PROVE  IsPrefix(n, m) \/ IsPrefix(m, n)
  <1>1. CASE Len(n) <= Len(m)
    BY <1>1, PrefixShorter
  <1>2. CASE Len(m) <= Len(n)
    BY <1>2, PrefixShorter
  <1>3. QED
    BY <1>1, <1>2

\* Of several rows, one is the last.
LEMMA LastRow ==
  ASSUME NEW S, S \subseteq Uids, S # {}
  PROVE  \E x \in S : \A y \in S : y <= x
  <1> DEFINE T == {MaxRows - x : x \in S}
  <1>1. MaxRows \in Nat /\ \A x \in S : x \in Int /\ x <= MaxRows
    BY ConfigAssumption DEF ConfigAssumption, Uids
  <1>2. T \subseteq Nat /\ T # {}
    BY <1>1
  <1> HIDE DEF T
  <1>3. \E t \in T : \A y \in T : ~(<<y, t>> \in OpToRel(<, Nat))
    BY <1>2, NatLessThanWellFounded, WFMin, Zenon
  <1>4. \A y, t \in Nat : <<y, t>> \in OpToRel(<, Nat) <=> y < t
    BY DEF OpToRel
  <1>5. PICK t \in T : \A y \in T : t <= y
    <2>1. \E t \in T : \A y \in T : ~(y < t)
      BY <1>2, <1>3, <1>4, Zenon
    <2>2. QED
      BY <1>2, <2>1
  <1>6. PICK x \in S : t = MaxRows - x
    BY DEF T
  <1>7. ASSUME NEW y \in S PROVE y <= x
    <2>1. MaxRows - y \in T
      BY DEF T
    <2>2. MaxRows - x <= MaxRows - y
      BY <1>5, <1>6, <2>1
    <2>3. QED
      BY <1>1, <2>2
  <1>8. QED
    BY <1>7

-----------------------------------------------------------------------------
(* Owned rows.  Every row a document or a copy about to be written refers to *)
(* exists, and its name begins with a name its pipeline has had.           *)

OwnedIn(R, N, outs) ==
  \A d \in DOMAIN outs :
    outs[d] = 0 \/ \E r \in R : r.uid = outs[d] /\ \E n \in N : IsPrefix(n, r.name)

RowsTyped  == \A r \in rows : r.uid \in Uids \ {0} /\ r.name \in Seq(STRING)
UidsUnique == \A r, x \in rows : r.uid = x.uid => r = x

NamesOk ==
  /\ name = [p \in Pipelines |-> name[p]]
  /\ \A p \in Pipelines :
       history.named[p] \subseteq PlNames /\ (Exists(p) => name[p] \in history.named[p])

Present == {p \in Pipelines : Exists(p)}

DocIn(R, N, d) == DOMAIN d.outs \subseteq DestNames /\ OwnedIn(R, N, d.outs)

CopyIn(R, H, E, c) ==
  /\ DOMAIN c.doc.outs \subseteq DestNames
  /\ c.kind # "none" => c.pl \in E /\ c.name \in PlNames
  /\ Writes(c) => OwnedIn(R, H[c.pl], c.doc.outs)

OwnInv ==
  /\ ColumnsInv /\ IsHistory /\ RowsTyped /\ UidsUnique /\ NamesOk
  /\ \A p \in Pipelines : DocIn(rows, history.named[p], doc[p])
  /\ \A u \in Requests : CopyIn(rows, history.named, Present, desk[u])

LEMMA OwnedGrow ==
  ASSUME NEW R, NEW S, R \subseteq S, NEW N, NEW M, N \subseteq M, NEW outs, OwnedIn(R, N, outs)
  PROVE  OwnedIn(S, M, outs)
  BY DEF OwnedIn

\* What a step that leaves the rows it does not add alone has to show of the documents
\* and copies it replaces.
NewDoc(p, d) ==
  \/ UNCHANGED doc
  \/ IsDoc(d) /\ Published(p, d) /\ DocIn(rows', history'.named[p], d)

NewCopy(u, c) ==
  \/ UNCHANGED desk
  \/ IsCopy(c) /\ IsDoc(c.doc) /\ Taken(u, c) /\ CopyIn(rows', history'.named, Present', c)

LEMMA OwnAssemble ==
  ASSUME OwnInv, ColumnsInv', IsHistory', RowsTyped', UidsUnique', NamesOk',
         rows \subseteq rows', Present \subseteq Present',
         \A q \in Pipelines : history.named[q] \subseteq history'.named[q],
         NEW p, NEW d, NewDoc(p, d), NEW u, NEW c, NewCopy(u, c)
  PROVE  OwnInv'
  <1>1. ASSUME NEW q \in Pipelines PROVE DocIn(rows', history'.named[q], doc'[q])
    <2>1. DocIn(rows', history'.named[q], doc[q])
      BY OwnedGrow DEF OwnInv, DocIn
    <2>2. UNCHANGED doc \/ doc'[q] = IF q = p THEN d ELSE doc[q]
      BY PublishedOne DEF NewDoc, OwnInv, ColumnsInv
    <2>3. QED
      BY <2>1, <2>2 DEF NewDoc
  <1>2. ASSUME NEW x \in Requests PROVE CopyIn(rows', history'.named, Present', desk'[x])
    <2>1. CopyIn(rows', history'.named, Present', desk[x])
      <3>1. CopyIn(rows, history.named, Present, desk[x])
        BY DEF OwnInv
      <3>2. Writes(desk[x]) => desk[x].pl \in Pipelines
        BY <3>1 DEF CopyIn, Writes, Present
      <3>3. Writes(desk[x]) => OwnedIn(rows', history'.named[desk[x].pl], desk[x].doc.outs)
        BY <3>1, <3>2, OwnedGrow DEF CopyIn
      <3>4. QED
        BY <3>1, <3>3 DEF CopyIn
    <2>2. UNCHANGED desk \/ desk'[x] = IF x = u THEN c ELSE desk[x]
      BY TakenOne DEF NewCopy, OwnInv, ColumnsInv
    <2>3. QED
      BY <2>1, <2>2 DEF NewCopy
  <1>3. QED
    BY <1>1, <1>2 DEF OwnInv

\* Rows are added for destinations of a pipeline of this name.
RowsFor(new, n, dests) == {[uid |-> new[d], name |-> n \o d] : d \in dests}

LEMMA RowsAdded ==
  ASSUME RowsTyped, UidsUnique, NEW dests, dests \subseteq DestNames,
         NEW new \in NewRows(dests), NEW n \in PlNames,
         rows' = rows \cup RowsFor(new, n, dests)
  PROVE  /\ RowsTyped' /\ UidsUnique' /\ rows \subseteq rows'
         /\ DOMAIN new = dests
         /\ \A N : n \in N => OwnedIn(rows', N, new)
  <1>1. /\ new \in [dests -> Uids \ ({0} \cup Used)] 
        /\ \A d, e \in dests : new[d] = new[e] => d = e
    BY DEF NewRows, IsInjective
  <1>2. \A d \in dests : IsPrefix(n, n \o d) /\ n \o d \in Seq(STRING)
    BY PrefixConcat, ConfigAssumption DEF ConfigAssumption
  <1>3. \A d \in dests : new[d] \in Uids \ {0} /\ \A r \in rows : r.uid # new[d]
    BY <1>1 DEF Used
  <1>4. ASSUME NEW r \in rows'
        PROVE  r \in rows \/ \E d \in dests : r = [uid |-> new[d], name |-> n \o d]
    BY DEF RowsFor
  <1>5. ASSUME NEW r \in rows' PROVE r.uid \in Uids \ {0} /\ r.name \in Seq(STRING)
    <2>1. CASE r \in rows
      BY <2>1 DEF RowsTyped
    <2>2. CASE r \notin rows
      <3>1. PICK d \in dests : r = [uid |-> new[d], name |-> n \o d]
        BY <1>4, <2>2
      <3>2. r.uid = new[d] /\ r.name = n \o d
        BY <3>1
      <3>3. QED
        BY <1>2, <1>3, <3>2
    <2>3. QED
      BY <2>1, <2>2
  <1>6. ASSUME NEW r \in rows', NEW x \in rows', r.uid = x.uid PROVE r = x
    <2>1. CASE r \in rows /\ x \in rows
      BY <1>6, <2>1 DEF UidsUnique
    <2>2. CASE r \notin rows /\ x \notin rows
      <3>1. PICK d \in dests : r = [uid |-> new[d], name |-> n \o d]
        BY <1>4, <2>2
      <3>2. PICK e \in dests : x = [uid |-> new[e], name |-> n \o e]
        BY <1>4, <2>2
      <3>3. d = e
        BY <1>1, <1>6, <3>1, <3>2
      <3>4. QED
        BY <3>1, <3>2, <3>3
    <2>3. CASE r \in rows /\ x \notin rows
      BY <1>3, <1>4, <1>6, <2>3
    <2>4. CASE r \notin rows /\ x \in rows
      BY <1>3, <1>4, <1>6, <2>4
    <2>5. QED
      BY <2>1, <2>2, <2>3, <2>4
  <1>7. ASSUME NEW N, n \in N PROVE OwnedIn(rows', N, new)
    <2>1. \A d \in dests : [uid |-> new[d], name |-> n \o d] \in rows'
      BY DEF RowsFor
    <2>2. ASSUME NEW d \in dests
          PROVE  \E r \in rows' : r.uid = new[d] /\ \E m \in N : IsPrefix(m, r.name)
      <3> DEFINE r == [uid |-> new[d], name |-> n \o d]
      <3>1. r \in rows' /\ r.uid = new[d] /\ r.name = n \o d
        BY <2>1
      <3> HIDE DEF r
      <3>2. QED
        BY <1>2, <1>7, <3>1
    <2>3. QED
      BY <1>1, <2>2 DEF OwnedIn
  <1>8. QED
    BY <1>1, <1>5, <1>6, <1>7 DEF RowsTyped, UidsUnique

\* Steps that add no rows and give no names.
LEMMA OwnQuiet ==
  ASSUME OwnInv, UNCHANGED <<rows, name>>, OtherStep
  PROVE  /\ IsHistory' /\ RowsTyped' /\ UidsUnique' /\ NamesOk'
         /\ history'.named = history.named /\ Present' = Present
         /\ rows \subseteq rows' /\ Present \subseteq Present'
         /\ \A q \in Pipelines : history.named[q] \subseteq history'.named[q]
  <1>1. IsRecord(history') /\ UNCHANGED history.named
    BY NamesKept DEF OwnInv
  <1>2. QED
    BY <1>1 DEF OwnInv, IsHistory, IsRecord, RowsTyped, UidsUnique, NamesOk, Present, Exists

LEMMA OwnTake ==
  ASSUME OwnInv, ColumnsInv', UNCHANGED <<rows, name, doc>>, OtherStep, NEW u, NEW c,
         IsCopy(c), IsDoc(c.doc), Taken(u, c), CopyIn(rows, history.named, Present, c)
  PROVE  OwnInv'
  <1>1. NewCopy(u, c)
    BY OwnQuiet DEF NewCopy
  <1>2. \A p, d : NewDoc(p, d)
    BY DEF NewDoc
  <1>3. QED
    BY <1>1, <1>2, OwnQuiet, OwnAssemble

LEMMA IdleOwned == \A R, H, E : CopyIn(R, H, E, Idle)
  BY IdleCopy DEF CopyIn, Idle, NoDoc, Writes

LEMMA OwnCreate ==
  ASSUME OwnInv, ColumnsInv', NEW p \in Pipelines, NEW n \in PlNames, NEW input,
         NEW dests \in SUBSET DestNames, CreatePipeline(p, n, input, dests)
  PROVE  OwnInv'
  <1>1. Renamed(p, n)
    BY CreateRenames DEF OwnInv
  <1>2. /\ IsHistory' /\ n \in history'.named[p]
        /\ \A q \in Pipelines : /\ history.named[q] \subseteq history'.named[q]
                                /\ history'.named[q] \subseteq history.named[q] \cup {n}
    BY <1>1 DEF Renamed, OwnInv, IsHistory, IsRecord
  <1>3. name' = [name EXCEPT ![p] = n] /\ UNCHANGED desk
    BY DEF CreatePipeline
  <1>4. NamesOk' /\ Present \subseteq Present'
    <2>1. n # << >>
      BY ConfigAssumption DEF ConfigAssumption
    <2>2. \A q \in Pipelines : name'[q] = IF q = p THEN n ELSE name[q]
      BY <1>3 DEF OwnInv, NamesOk
    <2>3. name' = [q \in Pipelines |-> name'[q]]
      BY <1>3 DEF OwnInv, NamesOk
    <2>4. QED
      BY <1>2, <2>1, <2>2, <2>3 DEF OwnInv, NamesOk, Present, Exists
  <1>5. PICK outs \in NewRows(dests) :
          /\ rows' = rows \cup RowsFor(outs, n, dests)
          /\ Published(p, [enabled |-> TRUE, input |-> input, outs |-> outs])
    BY DEF CreatePipeline, Published, RowsFor
  <1>6. /\ RowsTyped' /\ UidsUnique' /\ rows \subseteq rows'
        /\ DOMAIN outs = dests
        /\ OwnedIn(rows', history'.named[p], outs)
    <2>1. dests \subseteq DestNames /\ RowsTyped /\ UidsUnique
      BY DEF OwnInv
    <2>2. QED
      BY <1>2, <1>5, <2>1, RowsAdded
  <1> DEFINE d == [enabled |-> TRUE, input |-> input, outs |-> outs]
  <1>7. NewDoc(p, d)
    BY <1>5, <1>6 DEF NewDoc, IsDoc, DocIn
  <1>8. \A u, c : NewCopy(u, c)
    BY <1>3 DEF NewCopy
  <1> HIDE DEF d
  <1>9. QED
    BY <1>2, <1>4, <1>6, <1>7, <1>8, OwnAssemble

LEMMA OwnEnsure ==
  ASSUME OwnInv, ColumnsInv', NEW u \in Requests, NEW p \in Pipelines, EnsureDestinations(u, p)
  PROVE  OwnInv'
  <1>1. /\ OtherStep /\ UNCHANGED <<name, doc>> /\ p \in Present
        /\ DocIn(rows, history.named[p], doc[p]) /\ IsDoc(doc[p])
        /\ name[p] \in history.named[p] /\ name[p] \in PlNames
    BY DEF EnsureDestinations, OtherStep, Present, OwnInv, NamesOk, ColumnsInv, Copies
  <1>2. IsHistory' /\ history'.named = history.named
    BY <1>1, NamesKept DEF OwnInv, IsHistory
  <1>3. NamesOk' /\ Present' = Present
    BY <1>1, <1>2 DEF OwnInv, NamesOk, Present, Exists
  <1>4. ASSUME NEW x \in DOMAIN doc[p].outs, NEW uid,
               Taken(u, Copy("ensure", p, name[p], [doc[p] EXCEPT !.outs[x] = uid])),
               RowsTyped', UidsUnique', rows \subseteq rows',
               \E r \in rows' : r.uid = uid /\ IsPrefix(name[p], r.name)
        PROVE  OwnInv'
    <2> DEFINE d == [doc[p] EXCEPT !.outs[x] = uid]
               c == Copy("ensure", p, name[p], d)
    <2>1. IsDoc(d) /\ DOMAIN d.outs = DOMAIN doc[p].outs
      BY <1>1, SameDomain
    <2>2. \A y \in DOMAIN doc[p].outs : d.outs[y] = IF y = x THEN uid ELSE doc[p].outs[y]
      BY <1>1, OneRow
    <2>3. Taken(u, c)
      BY <1>4
    <2> HIDE DEF d
    <2>4. OwnedIn(rows', history'.named[p], d.outs)
      BY <1>1, <1>2, <1>4, <2>1, <2>2 DEF DocIn, OwnedIn
    <2>5. IsCopy(c) /\ IsDoc(c.doc) /\ c.doc = d /\ c.kind = "ensure" /\ c.pl = p /\ c.name = name[p]
      BY <2>1, CopyCopy DEF Copy
    <2> HIDE DEF c
    <2>6. CopyIn(rows', history'.named, Present', c)
      BY <1>1, <1>3, <2>1, <2>4, <2>5 DEF CopyIn, DocIn
    <2>7. NewCopy(u, c)
      BY <2>3, <2>5, <2>6 DEF NewCopy
    <2>8. \A q, e : NewDoc(q, e)
      BY <1>1 DEF NewDoc
    <2>9. QED
      BY <1>2, <1>3, <1>4, <2>7, <2>8, OwnAssemble
  <1>5. PICK x \in DOMAIN doc[p].outs :
          \/ /\ \E uid \in OwnRows(p, x) :
                  Taken(u, Copy("ensure", p, name[p], [doc[p] EXCEPT !.outs[x] = uid]))
             /\ UNCHANGED rows
          \/ \E new \in NewRows({x}) :
               /\ rows' = rows \cup {[uid |-> new[x], name |-> name[p] \o x]}
               /\ Taken(u, Copy("ensure", p, name[p], [doc[p] EXCEPT !.outs[x] = new[x]]))
    BY DEF EnsureDestinations, Take, Taken
  <1>6. x \in DestNames
    BY <1>1 DEF DocIn
  <1>7. CASE /\ \E uid \in OwnRows(p, x) :
                  Taken(u, Copy("ensure", p, name[p], [doc[p] EXCEPT !.outs[x] = uid]))
             /\ UNCHANGED rows
    <2>1. PICK uid \in OwnRows(p, x) :
            Taken(u, Copy("ensure", p, name[p], [doc[p] EXCEPT !.outs[x] = uid]))
      BY <1>7
    <2>2. PICK r \in rows : r.uid = uid /\ r.name \in {name[p] \o x, name[p] \o Output}
      BY DEF OwnRows
    <2>3. IsPrefix(name[p], name[p] \o x) /\ IsPrefix(name[p], name[p] \o Output)
      BY <1>1, <1>6, PrefixConcat, ConfigAssumption DEF ConfigAssumption
    <2>4. RowsTyped' /\ UidsUnique' /\ rows \subseteq rows'
      BY <1>7 DEF OwnInv, RowsTyped, UidsUnique
    <2>5. QED
      BY <1>4, <1>7, <2>1, <2>2, <2>3, <2>4
  <1>8. ASSUME NEW new \in NewRows({x}),
               rows' = rows \cup {[uid |-> new[x], name |-> name[p] \o x]},
               Taken(u, Copy("ensure", p, name[p], [doc[p] EXCEPT !.outs[x] = new[x]]))
        PROVE  OwnInv'
    <2>1. rows' = rows \cup RowsFor(new, name[p], {x})
      BY <1>8 DEF RowsFor
    <2>2. RowsTyped' /\ UidsUnique' /\ rows \subseteq rows'
      <3>1. {x} \subseteq DestNames /\ RowsTyped /\ UidsUnique
        BY <1>6 DEF OwnInv
      <3>2. QED
        BY <1>1, <2>1, <3>1, RowsAdded
    <2>3. IsPrefix(name[p], name[p] \o x)
      BY <1>1, <1>6, PrefixConcat, ConfigAssumption DEF ConfigAssumption
    <2>4. \E r \in rows' : r.uid = new[x] /\ IsPrefix(name[p], r.name)
      <3> DEFINE r == [uid |-> new[x], name |-> name[p] \o x]
      <3>1. r \in rows'
        BY <1>8
      <3>2. r.uid = new[x] /\ r.name = name[p] \o x
        OBVIOUS
      <3> HIDE DEF r
      <3>3. QED
        BY <2>3, <3>1, <3>2
    <2>5. QED
      BY <1>4, <1>8, <2>2, <2>4
  <1>9. QED
    BY <1>5, <1>7, <1>8

LEMMA OwnWrite ==
  ASSUME OwnInv, ColumnsInv', NEW u \in Requests, EnsureWrite(u) \/ SetPipelineEnabled(u)
  PROVE  OwnInv'
  <1>1. OtherStep /\ UNCHANGED <<rows, name>>
    BY DEF EnsureWrite, SetPipelineEnabled, OtherStep
  <1>2. Published(desk[u].pl, desk[u].doc) /\ Taken(u, Idle)
    BY DEF EnsureWrite, SetPipelineEnabled, Write, Take, Published, Taken
  <1>3. CopyIn(rows, history.named, Present, desk[u]) /\ IsDoc(desk[u].doc) /\ Writes(desk[u])
    BY DEF OwnInv, ColumnsInv, Copies, EnsureWrite, SetPipelineEnabled, Writes
  <1>4. NewDoc(desk[u].pl, desk[u].doc)
    BY <1>1, <1>2, <1>3, OwnQuiet DEF NewDoc, DocIn, CopyIn
  <1>5. NewCopy(u, Idle)
    BY <1>2, IdleOwned, IdleCopy DEF NewCopy
  <1>6. QED
    BY <1>1, <1>4, <1>5, OwnQuiet, OwnAssemble

LEMMA OwnToggle ==
  ASSUME OwnInv, ColumnsInv', NEW u \in Requests, NEW p \in Pipelines, Toggle(u, p)
  PROVE  OwnInv'
  <1> DEFINE d == [doc[p] EXCEPT !.enabled = ~@]
             c == Copy("toggle", p, name[p], d)
  <1>1. IsDoc(d) /\ d.outs = doc[p].outs
    BY SameColumns DEF OwnInv, ColumnsInv, Copies
  <1>2. Taken(u, c) /\ UNCHANGED <<rows, name, doc>> /\ OtherStep
    BY DEF Toggle, Take, Taken, OtherStep
  <1>3. /\ p \in Present /\ name[p] \in PlNames /\ DocIn(rows, history.named[p], doc[p])
    BY DEF Toggle, Present, OwnInv, NamesOk
  <1> HIDE DEF d
  <1>4. IsCopy(c) /\ IsDoc(c.doc) /\ c.doc = d /\ c.pl = p /\ c.name = name[p]
    BY <1>1, CopyCopy DEF Copy
  <1> HIDE DEF c
  <1>5. CopyIn(rows, history.named, Present, c)
    BY <1>1, <1>3, <1>4 DEF CopyIn, DocIn
  <1>6. QED
    BY <1>2, <1>4, <1>5, OwnTake

LEMMA OwnPage ==
  ASSUME OwnInv, ColumnsInv', NEW u \in Requests, NEW p \in Pipelines, OpenPage(u, p)
  PROVE  OwnInv'
  <1>1. /\ IsDoc(doc[p]) /\ DOMAIN doc[p].outs \subseteq DestNames
        /\ p \in Present /\ name[p] \in PlNames
    BY DEF OpenPage, Present, OwnInv, NamesOk, ColumnsInv, Copies, DocIn
  <1>2. \A d \in Revised(doc[p]) : IsDoc(d) /\ DOMAIN d.outs \subseteq DestNames
    <2>1. \A b : LET d == [doc[p] EXCEPT !.enabled = b] IN IsDoc(d) /\ d.outs = doc[p].outs
      BY <1>1, SameColumns
    <2>2. \A f : LET d == [doc[p] EXCEPT !.input = f] IN IsDoc(d) /\ d.outs = doc[p].outs
      BY <1>1 DEF IsDoc
    <2>3. \A o : LET d == [doc[p] EXCEPT !.outs = o] IN IsDoc(d) /\ d.outs = o
      BY <1>1, SameOuts
    <2>4. ASSUME NEW d \in Revised(doc[p]) PROVE IsDoc(d) /\ DOMAIN d.outs \subseteq DestNames
      <3>1. CASE d = [doc[p] EXCEPT !.enabled = ~@]
        BY <1>1, <2>1, <3>1
      <3>2. CASE d \in {[doc[p] EXCEPT !.input = f] : f \in SUBSET Fields}
        BY <1>1, <2>2, <3>2
      <3>3. ASSUME NEW o, d = [doc[p] EXCEPT !.outs = o], DOMAIN o \subseteq DestNames
            PROVE  IsDoc(d) /\ DOMAIN d.outs \subseteq DestNames
        BY <2>3, <3>3
      <3>4. ASSUME NEW new \in DestNames,
                   d = [doc[p] EXCEPT !.outs = [x \in DOMAIN doc[p].outs \cup {new} |->
                          IF x \in DOMAIN doc[p].outs THEN doc[p].outs[x] ELSE 0]]
            PROVE  IsDoc(d) /\ DOMAIN d.outs \subseteq DestNames
        BY <1>1, <3>3, <3>4
      <3>5. ASSUME NEW old \in DestNames,
                   d = [doc[p] EXCEPT !.outs = [x \in DOMAIN doc[p].outs \ {old} |-> doc[p].outs[x]]]
            PROVE  IsDoc(d) /\ DOMAIN d.outs \subseteq DestNames
        BY <1>1, <3>3, <3>5
      <3>6. QED
        BY <3>1, <3>2, <3>4, <3>5 DEF Revised
    <2>5. QED
      BY <2>4
  <1>3. PICK n \in PlNames :
          \E d : IsDoc(d) /\ DOMAIN d.outs \subseteq DestNames /\ Taken(u, Copy("page", p, n, d))
    BY <1>1, <1>2 DEF OpenPage, Take, Taken
  <1>4. PICK d : IsDoc(d) /\ DOMAIN d.outs \subseteq DestNames /\ Taken(u, Copy("page", p, n, d))
    BY <1>3
  <1> DEFINE c == Copy("page", p, n, d)
  <1>5. IsCopy(c) /\ IsDoc(c.doc) /\ c.doc = d /\ c.kind = "page" /\ c.pl = p /\ c.name = n
    BY <1>4, CopyCopy DEF Copy
  <1>6. Taken(u, c) /\ UNCHANGED <<rows, name, doc>> /\ OtherStep
    BY <1>4 DEF OpenPage, OtherStep
  <1> HIDE DEF c
  <1>7. CopyIn(rows, history.named, Present, c)
    BY <1>1, <1>4, <1>5 DEF CopyIn, Writes
  <1>8. QED
    BY <1>5, <1>6, <1>7, OwnTake

LEMMA OwnUpdate ==
  ASSUME OwnInv, ColumnsInv', NEW u \in Requests, UpdatePipeline(u)
  PROVE  OwnInv'
  <1> DEFINE p == desk[u].pl
             after == Merged(p, desk[u].doc)
             outs == Reclaimed(p, after.outs)
             d == [after EXCEPT !.outs = outs]
             c == Copy("save", p, desk[u].name, d)
  <1>1. UNCHANGED <<rows, name, doc>> /\ OtherStep
    BY DEF UpdatePipeline, OtherStep
  <1>2. CASE Taken(u, Idle)
    BY <1>1, <1>2, IdleCopy, IdleOwned, OwnTake
  <1>3. CASE Taken(u, c)
    <2>1. /\ p \in Present /\ p \in Pipelines /\ desk[u].name \in PlNames
          /\ IsDoc(desk[u].doc) /\ DOMAIN desk[u].doc.outs \subseteq DestNames
      BY DEF UpdatePipeline, OwnInv, CopyIn, Present, ColumnsInv, Copies
    <2>2. /\ name[p] \in history.named[p] /\ name[p] \in PlNames
          /\ DocIn(rows, history.named[p], doc[p])
      BY <2>1 DEF OwnInv, NamesOk, Present
    <2>3. /\ IsDoc(after) /\ DOMAIN after.outs \subseteq DestNames
          /\ OwnedIn(rows, history.named[p], after.outs)
      <3> DEFINE o == [x \in DOMAIN desk[u].doc.outs |->
                         IF x \in DOMAIN doc[p].outs THEN doc[p].outs[x] ELSE 0]
      <3>1. IsDoc(after) /\ after.outs = o
        BY <2>1, SameOuts DEF Merged
      <3>2. OwnedIn(rows, history.named[p], o) /\ DOMAIN o \subseteq DestNames
        BY <2>1, <2>2 DEF DocIn, OwnedIn
      <3>3. QED
        BY <3>1, <3>2
    <2> HIDE DEF after, p
    <2>4. ASSUME NEW x \in DOMAIN after.outs, FormerRows(p, x) # {}
          PROVE  LET uid == CHOOSE uid \in FormerRows(p, x) :
                              \A other \in FormerRows(p, x) : other <= uid
                 IN \E r \in rows : r.uid = uid /\ IsPrefix(name[p], r.name)
      <3>1. FormerRows(p, x) \subseteq Uids
        BY DEF FormerRows, OwnInv, RowsTyped
      <3>2. \E uid \in FormerRows(p, x) : \A other \in FormerRows(p, x) : other <= uid
        BY <2>4, <3>1, LastRow
      <3>3. \A uid \in FormerRows(p, x) : \E r \in rows : r.uid = uid /\ r.name = name[p] \o x
        BY DEF FormerRows
      <3>4. IsPrefix(name[p], name[p] \o x)
        BY <2>2, <2>3, PrefixConcat, ConfigAssumption DEF ConfigAssumption
      <3>5. QED
        BY <3>2, <3>3, <3>4
    <2>5. DOMAIN outs = DOMAIN after.outs /\ OwnedIn(rows, history.named[p], outs)
      <3>1. \A x \in DOMAIN after.outs :
              \/ outs[x] = after.outs[x]
              \/ \E r \in rows : r.uid = outs[x] /\ IsPrefix(name[p], r.name)
        BY <2>4 DEF Reclaimed
      <3>2. DOMAIN outs = DOMAIN after.outs
        BY DEF Reclaimed
      <3> HIDE DEF outs
      <3>3. QED
        BY <2>2, <2>3, <3>1, <3>2 DEF OwnedIn
    <2> HIDE DEF outs
    <2>6. IsDoc(d) /\ d.outs = outs
      BY <2>3, SameOuts
    <2> HIDE DEF d
    <2>7. IsCopy(c) /\ IsDoc(c.doc) /\ c.doc = d /\ c.pl = p /\ c.name = desk[u].name
      BY <2>6, CopyCopy DEF Copy
    <2> HIDE DEF c
    <2>8. CopyIn(rows, history.named, Present, c)
      BY <2>1, <2>3, <2>5, <2>6, <2>7 DEF CopyIn
    <2>9. QED
      BY <1>1, <1>3, <2>7, <2>8, OwnTake
  <1>4. QED
    BY <1>2, <1>3 DEF UpdatePipeline, Take, Taken

LEMMA OwnSave ==
  ASSUME OwnInv, ColumnsInv', NEW u \in Requests, Save(u)
  PROVE  OwnInv'
  <1> DEFINE p == desk[u].pl
             n == desk[u].name
             outs == desk[u].doc.outs
  <1>1. /\ p \in Present /\ p \in Pipelines /\ n \in PlNames
        /\ DOMAIN outs \subseteq DestNames /\ OwnedIn(rows, history.named[p], outs)
        /\ IsDoc(desk[u].doc)
    BY DEF Save, OwnInv, CopyIn, Present, ColumnsInv, Copies, Writes
  <1>2. CASE \E q \in Pipelines \ {p} : name[q] = n
    <2>1. Taken(u, Idle) /\ UNCHANGED <<rows, name, doc>> /\ OtherStep
      BY <1>2 DEF Save, Take, Taken, OtherStep
    <2>2. QED
      BY <2>1, IdleCopy, IdleOwned, OwnTake
  <1>3. CASE \A q \in Pipelines \ {p} : name[q] # n
    <2>1. Renamed(p, n)
      BY <1>3, SaveRenames DEF OwnInv
    <2>2. /\ IsHistory' /\ n \in history'.named[p]
          /\ \A q \in Pipelines : /\ history.named[q] \subseteq history'.named[q]
                                  /\ history'.named[q] \subseteq history.named[q] \cup {n}
      BY <1>1, <2>1 DEF Renamed, OwnInv, IsHistory, IsRecord
    <2>3. name' = [name EXCEPT ![p] = n]
      BY <1>3 DEF Save
    <2>4. NamesOk' /\ Present \subseteq Present'
      <3>1. n # << >>
        BY <1>1, ConfigAssumption DEF ConfigAssumption
      <3>2. \A q \in Pipelines : name'[q] = IF q = p THEN n ELSE name[q]
        BY <2>3 DEF OwnInv, NamesOk
      <3>3. name' = [q \in Pipelines |-> name'[q]]
        BY <2>3 DEF OwnInv, NamesOk
      <3>4. QED
        BY <1>1, <2>2, <3>1, <3>2, <3>3 DEF OwnInv, NamesOk, Present, Exists
    <2>5. PICK new \in NewRows(NewDests(outs)) :
            /\ rows' = rows \cup RowsFor(new, n, NewDests(outs))
            /\ Published(p, [desk[u].doc EXCEPT !.outs = [x \in DOMAIN outs |->
                               IF outs[x] # 0 THEN outs[x] ELSE new[x]]])
            /\ Taken(u, Idle)
      BY <1>3 DEF Save, Write, Take, Published, Taken, RowsFor
    <2>6. /\ RowsTyped' /\ UidsUnique' /\ rows \subseteq rows'
          /\ DOMAIN new = NewDests(outs)
          /\ OwnedIn(rows', history'.named[p], new)
      <3>1. NewDests(outs) \subseteq DestNames /\ RowsTyped /\ UidsUnique
        BY <1>1 DEF OwnInv, NewDests
      <3>2. QED
        BY <1>1, <2>2, <2>5, <3>1, RowsAdded
    <2> DEFINE o == [x \in DOMAIN outs |-> IF outs[x] # 0 THEN outs[x] ELSE new[x]]
               d == [desk[u].doc EXCEPT !.outs = o]
    <2>7. IsDoc(d) /\ d.outs = o
      BY <1>1, SameOuts
    <2>8. OwnedIn(rows', history'.named[p], outs)
      BY <1>1, <2>2, <2>6, OwnedGrow
    <2>9. OwnedIn(rows', history'.named[p], o) /\ DOMAIN o = DOMAIN outs
      BY <2>6, <2>8 DEF OwnedIn, NewDests
    <2>10. NewDoc(p, d)
      <3>1. Published(p, d)
        BY <2>5
      <3> HIDE DEF d, o
      <3>2. QED
        BY <1>1, <2>7, <2>9, <3>1 DEF NewDoc, DocIn
    <2>11. NewCopy(u, Idle)
      BY <2>5, IdleCopy, IdleOwned DEF NewCopy
    <2> HIDE DEF d
    <2>12. QED
      BY <2>2, <2>4, <2>6, <2>10, <2>11, OwnAssemble
  <1>4. QED
    BY <1>2, <1>3

\* The engine writes neither documents nor rows.
EngineOnly ==
  UNCHANGED adminVars /\ (UNCHANGED history \/ \E p : FormBatch(p) \/ ReserveDelivery(p) \/ CloseBatch(p))

LEMMA OwnEngine ==
  ASSUME OwnInv, ColumnsInv', EngineOnly
  PROVE  OwnInv'
  <1>1. UNCHANGED <<rows, name>> /\ OtherStep
    BY DEF EngineOnly, adminVars, OtherStep
  <1>2. \A x, y : NewDoc(x, y) /\ NewCopy(x, y)
    BY DEF EngineOnly, adminVars, NewDoc, NewCopy
  <1>3. QED
    BY <1>1, <1>2, OwnQuiet, OwnAssemble

LEMMA NextCases ==
  ASSUME [Next]_vars
  PROVE  \/ \E p \in Pipelines, n \in PlNames, input \in SUBSET Fields, dests \in SUBSET DestNames :
              CreatePipeline(p, n, input, dests)
         \/ \E u \in Requests, p \in Pipelines :
              EnsureDestinations(u, p) \/ Toggle(u, p) \/ OpenPage(u, p)
         \/ \E u \in Requests :
              EnsureWrite(u) \/ SetPipelineEnabled(u) \/ UpdatePipeline(u) \/ Save(u)
         \/ EngineOnly
  <1>1. ASSUME NEW p \in Pipelines, EngineStep(p) \/ Crash(p) PROVE EngineOnly
    <2>1. UNCHANGED adminVars
      BY <1>1 DEF EngineStep, Scan, FormBatch, ReserveDelivery, ProcessBatch, CloseBatch, Crash
    <2>2. UNCHANGED history \/ FormBatch(p) \/ ReserveDelivery(p) \/ CloseBatch(p)
      BY <1>1 DEF EngineStep, Scan, ProcessBatch, Crash
    <2>3. QED
      BY <2>1, <2>2 DEF EngineOnly
  <1>2. UNCHANGED vars => EngineOnly
    BY DEF vars, EngineOnly
  <1>3. QED
    BY <1>1, <1>2, Zenon DEF Next, AdminStep, DeskStep

LEMMA OwnStep == OwnInv /\ [Next]_vars => OwnInv'
  <1> SUFFICES ASSUME OwnInv, [Next]_vars PROVE OwnInv'
    OBVIOUS
  <1>1. ColumnsInv'
    BY ColumnsStep DEF OwnInv
  <1>2. QED
    BY <1>1, NextCases, OwnCreate, OwnEnsure, OwnToggle, OwnPage, OwnWrite, OwnUpdate, OwnSave,
       OwnEngine

LEMMA OwnInit == Init => OwnInv
  <1> SUFFICES ASSUME Init PROVE OwnInv
    OBVIOUS
  <1>1. ColumnsInv /\ IsHistory
    BY ColumnsInit DEF Init, IsHistory, IsRecord
  <1>2. PICK f \in [Legacy -> 1..Cardinality(Legacy)] :
          /\ \A p, q \in Legacy : f[p] = f[q] => p = q
          /\ rows = {LegacyRow(p, f[p]) : p \in Legacy}
    BY DEF Init
  <1>3. Cardinality(Legacy) \in Nat /\ Cardinality(Legacy) <= MaxRows
    BY ConfigAssumption, FS_Subset, FS_CardinalityType DEF ConfigAssumption
  <1>4. \A p \in Legacy : f[p] \in Uids \ {0} /\ LegacyName[p] \o Output \in Seq(STRING)
    BY <1>3, ConfigAssumption, PrefixConcat DEF ConfigAssumption, Uids
  <1>5. \A r \in rows : \E p \in Legacy : r.uid = f[p] /\ r = LegacyRow(p, f[p])
                                          /\ r.name = LegacyName[p] \o Output
    BY <1>2 DEF LegacyRow
  <1>6. RowsTyped /\ UidsUnique
    <2>1. RowsTyped
      BY <1>4, <1>5 DEF RowsTyped
    <2>2. ASSUME NEW r \in rows, NEW x \in rows, r.uid = x.uid PROVE r = x
      <3>1. PICK p \in Legacy : r.uid = f[p] /\ r = LegacyRow(p, f[p])
        BY <1>5
      <3>2. PICK q \in Legacy : x.uid = f[q] /\ x = LegacyRow(q, f[q])
        BY <1>5
      <3>3. p = q
        BY <1>2, <2>2, <3>1, <3>2
      <3>4. QED
        BY <3>1, <3>2, <3>3
    <2>3. QED
      BY <2>1, <2>2 DEF UidsUnique
  <1>7. NamesOk
    BY ConfigAssumption DEF Init, ConfigAssumption, NamesOk, Exists
  <1>8. \A p \in Pipelines : DocIn(rows, history.named[p], doc[p])
    <2>1. PICK input : doc = [p \in Pipelines |-> IF p \in Legacy THEN LegacyDoc(input[p]) ELSE NoDoc]
      BY DEF Init
    <2>2. QED
      BY <2>1, ConfigAssumption DEF ConfigAssumption, DocIn, OwnedIn, LegacyDoc, NoDoc
  <1>9. \A u \in Requests : CopyIn(rows, history.named, Present, desk[u])
    BY IdleOwned DEF Init
  <1>10. QED
    BY <1>1, <1>6, <1>7, <1>8, <1>9 DEF OwnInv

LEMMA OwnedNotShared == OwnInv => RowsNotShared
  <1> SUFFICES ASSUME OwnInv, NEW p \in Pipelines, NEW q \in Pipelines, ~Related(p, q),
                      NEW uid, uid \in UidsOf(doc[p].outs), uid \in UidsOf(doc[q].outs), uid # 0
               PROVE  FALSE
    BY DEF RowsNotShared
  <1>1. PICK r \in rows, n \in history.named[p] : r.uid = uid /\ IsPrefix(n, r.name)
    BY DEF OwnInv, DocIn, OwnedIn, UidsOf
  <1>2. PICK x \in rows, m \in history.named[q] : x.uid = uid /\ IsPrefix(m, x.name)
    BY DEF OwnInv, DocIn, OwnedIn, UidsOf
  <1>3. r = x
    BY <1>1, <1>2 DEF OwnInv, UidsUnique
  <1>4. n \in Seq(STRING) /\ m \in Seq(STRING) /\ r.name \in Seq(STRING)
    BY ConfigAssumption DEF ConfigAssumption, OwnInv, NamesOk, RowsTyped
  <1>5. QED
    BY <1>1, <1>2, <1>3, <1>4, PrefixesCompare DEF Related

\* Two pipelines never share the row of a destination, as long as no name one of them
\* ever had begins with one of the other's: the rows an upgrade adopts and an edit
\* reclaims are found by name.
THEOREM DestinationsKeepTheirRows == Spec => []RowsNotShared
  <1>1. QED
    BY OwnInit, OwnStep, OwnedNotShared, PTL DEF Spec

-----------------------------------------------------------------------------
(* Deliveries.  A copy a scan works on was listed, and a listed document     *)
(* names no row that is not there.                                         *)

IsDel(x)  == x = [uid |-> x.uid, batch |-> x.batch, number |-> x.number, done |-> x.done]
IsScan(s) == s = [step |-> s.step, outs |-> s.outs]

DeliveryInv ==
  /\ OwnInv
  /\ scan = [p \in Pipelines |-> scan[p]]
  /\ \A p \in Pipelines : IsScan(scan[p]) /\ \A d \in DOMAIN scan[p].outs : scan[p].outs[d] \in Used
  /\ \A x \in dels : IsDel(x) /\ x.uid \in Used

\* Rows are never removed.
LEMMA RowsGrow ==
  ASSUME [Next]_vars PROVE rows \subseteq rows'
  <1>1. ASSUME NEW p, NEW n, NEW input, NEW dests, CreatePipeline(p, n, input, dests)
        PROVE  rows \subseteq rows'
    BY <1>1 DEF CreatePipeline
  <1>2. ASSUME NEW u, NEW p, EnsureDestinations(u, p) \/ Toggle(u, p) \/ OpenPage(u, p)
        PROVE  rows \subseteq rows'
    BY <1>2 DEF EnsureDestinations, Toggle, OpenPage
  <1>3. ASSUME NEW u, EnsureWrite(u) \/ SetPipelineEnabled(u) \/ UpdatePipeline(u) \/ Save(u)
        PROVE  rows \subseteq rows'
    BY <1>3 DEF EnsureWrite, SetPipelineEnabled, UpdatePipeline, Save
  <1>4. EngineOnly => rows \subseteq rows'
    BY DEF EngineOnly, adminVars
  <1>5. QED
    BY <1>1, <1>2, <1>3, <1>4, NextCases

LEMMA UsedGrows ==
  ASSUME [Next]_vars PROVE Used \subseteq Used'
  BY RowsGrow DEF Used

LEMMA DoneDel ==
  ASSUME NEW x, IsDel(x), NEW v
  PROVE  LET y == [x EXCEPT !.done = v] IN IsDel(y) /\ y.uid = x.uid
  BY DEF IsDel

LEMMA DeliveryStep == DeliveryInv /\ [Next]_vars => DeliveryInv'
  <1> SUFFICES ASSUME DeliveryInv, [Next]_vars PROVE DeliveryInv'
    OBVIOUS
  <1>1. OwnInv' /\ Used \subseteq Used'
    BY OwnStep, UsedGrows DEF DeliveryInv
  <1>2. CASE UNCHANGED <<scan, dels>>
    BY <1>1, <1>2 DEF DeliveryInv, IsDel, IsScan
  <1>3. ASSUME NEW p \in Pipelines, NEW s, scan' = [scan EXCEPT ![p] = s], IsScan(s),
               \A d \in DOMAIN s.outs : s.outs[d] \in Used, UNCHANGED dels
        PROVE  DeliveryInv'
    <2>1. \A q \in Pipelines : scan'[q] = IF q = p THEN s ELSE scan[q]
      BY <1>3 DEF DeliveryInv
    <2>2. scan' = [q \in Pipelines |-> scan'[q]]
      BY <1>3 DEF DeliveryInv
    <2>3. QED
      BY <1>1, <1>3, <2>1, <2>2 DEF DeliveryInv, IsScan
  <1>4. IsScan(NoScan) /\ DOMAIN NoScan.outs = {}
    BY DEF IsScan, NoScan
  <1>5. ASSUME NEW p \in Pipelines, Scan(p) PROVE DeliveryInv'
    <2> DEFINE s == [step |-> "listed", outs |-> doc[p].outs]
    <2>1. \A d \in DOMAIN doc[p].outs : doc[p].outs[d] # 0
      BY <1>5 DEF Scan, Listed, NeedsRows, UidsOf
    <2>2. \A d \in DOMAIN doc[p].outs : doc[p].outs[d] \in Used
      BY <2>1 DEF DeliveryInv, OwnInv, DocIn, OwnedIn, Used
    <2>3. scan' = [scan EXCEPT ![p] = s] /\ UNCHANGED dels /\ IsScan(s) /\ s.outs = doc[p].outs
      BY <1>5 DEF Scan, IsScan
    <2> HIDE DEF s
    <2>4. QED
      BY <1>3, <2>2, <2>3
  <1>6. ASSUME NEW p \in Pipelines, FormBatch(p) \/ CloseBatch(p) \/ Crash(p)
        PROVE  DeliveryInv'
    <2>1. UNCHANGED dels /\ (UNCHANGED scan \/ scan' = [scan EXCEPT ![p] = NoScan])
      BY <1>6 DEF FormBatch, CloseBatch, Crash
    <2>2. QED
      BY <1>2, <1>3, <1>4, <2>1
  <1>7. ASSUME NEW p \in Pipelines, NEW step, scan' = [scan EXCEPT ![p].step = step],
               \A x \in dels' : IsDel(x) /\ x.uid \in Used
        PROVE  DeliveryInv'
    <2> DEFINE s == [scan[p] EXCEPT !.step = step]
    <2>1. scan' = [scan EXCEPT ![p] = s]
      BY <1>7
    <2>2. IsScan(s) /\ s.outs = scan[p].outs
      BY DEF DeliveryInv, IsScan
    <2> HIDE DEF s
    <2>3. \A q \in Pipelines : scan'[q] = IF q = p THEN s ELSE scan[q]
      BY <2>1 DEF DeliveryInv
    <2>4. scan' = [q \in Pipelines |-> scan'[q]]
      BY <2>1 DEF DeliveryInv
    <2>5. QED
      BY <1>1, <1>7, <2>2, <2>3, <2>4 DEF DeliveryInv, IsScan, IsDel
  <1>8. ASSUME NEW p \in Pipelines, ReserveDelivery(p) PROVE DeliveryInv'
    <2>1. \A uid \in UidsOf(scan[p].outs) : uid \in Used
      BY DEF DeliveryInv, UidsOf
    <2>2. PICK new \in SUBSET UidsOf(scan[p].outs) :
            dels' = dels \cup {[uid |-> uid, batch |-> batch[p], number |-> seq[uid] + 1,
                                done |-> FALSE] : uid \in new}
      BY <1>8 DEF ReserveDelivery
    <2>3. \A x \in dels' : IsDel(x) /\ x.uid \in Used
      BY <2>1, <2>2 DEF DeliveryInv, IsDel
    <2>4. QED
      BY <1>7, <1>8, <2>3 DEF ReserveDelivery
  <1>9. ASSUME NEW p \in Pipelines, ProcessBatch(p) PROVE DeliveryInv'
    <2>1. PICK ok \in SUBSET dels : dels' = (dels \ ok) \cup {[x EXCEPT !.done = TRUE] : x \in ok}
      BY <1>9 DEF ProcessBatch, Owed
    <2>2. \A x \in dels : LET y == [x EXCEPT !.done = TRUE] IN IsDel(y) /\ y.uid = x.uid
      BY DoneDel DEF DeliveryInv
    <2>3. \A x \in dels' : IsDel(x) /\ x.uid \in Used
      BY <2>1, <2>2 DEF DeliveryInv
    <2>4. QED
      BY <1>7, <1>9, <2>3 DEF ProcessBatch
  <1>10. ASSUME \/ \E p, n, input, dests : CreatePipeline(p, n, input, dests)
                \/ \E u, p : AdminStep(u, p)
                \/ \E u : DeskStep(u)
                \/ UNCHANGED vars
         PROVE  DeliveryInv'
    <2>1. UNCHANGED <<scan, dels>>
      BY <1>10
      DEF AdminStep, DeskStep, CreatePipeline, EnsureDestinations, EnsureWrite, Toggle,
          SetPipelineEnabled, OpenPage, UpdatePipeline, Save, vars, engineVars
    <2>2. QED
      BY <1>2, <2>1
  <1>11. QED
    BY <1>5, <1>6, <1>8, <1>9, <1>10 DEF Next, EngineStep

LEMMA DeliveryInit == Init => DeliveryInv
  <1> SUFFICES ASSUME Init PROVE DeliveryInv
    OBVIOUS
  <1>1. OwnInv
    BY OwnInit
  <1>2. scan = [p \in Pipelines |-> NoScan] /\ dels = {}
    BY DEF Init
  <1>3. IsScan(NoScan) /\ DOMAIN NoScan.outs = {}
    BY DEF IsScan, NoScan
  <1>4. QED
    BY <1>1, <1>2, <1>3 DEF DeliveryInv

\* Every delivery belongs to a row that exists.
THEOREM EveryDeliveryHasARow == Spec => []DeliveriesHaveRows
  <1>1. DeliveryInv => DeliveriesHaveRows
    BY DEF DeliveryInv, DeliveriesHaveRows, Used
  <1>2. QED
    BY <1>1, DeliveryInit, DeliveryStep, PTL DEF Spec
=============================================================================
