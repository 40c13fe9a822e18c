--------------------------- MODULE PipelineConfig ---------------------------
(***************************************************************************)
(* Pipelines are created, edited and switched on and off by administrators *)
(* (internal/httpserver, store/pg.go) while the engine lists them, forms   *)
(* batches and delivers them to the destinations it read (internal/watcher,*)
(* store/batch.go).  A pipeline is one document, rewritten as a whole; its *)
(* destinations own rows of their own, which outlive the document and hold *)
(* the sequence of the outputs.  A page load, a save, a toggle and a scan  *)
(* each work on the copy they read.                                        *)
(*                                                                         *)
(* A name is the sequence of the parts that dashes separate, so that       *)
(* "<pipeline>-<destination>" is a concatenation.  BatchDelivery models    *)
(* how a batch is delivered; here it has one attempt at a time, and the    *)
(* files of a batch are not told apart.                                    *)
(***************************************************************************)
EXTENDS Integers, FiniteSets, Sequences, SequencesExt

CONSTANTS
  Pipelines,    \* pipeline identities
  PlNames,      \* names an administrator gives to pipelines
  DestNames,    \* names of destinations
  Default,      \* the name of the destination of a pipeline that was given none
  Output,       \* the suffix of the row a legacy pipeline has
  Fields,       \* input fields
  Reads,        \* the input fields each destination draws from
  Legacy,       \* pipelines created before destinations had rows of their own
  LegacyName,   \* and the names of those
  Requests,     \* requests being served at the same time
  MaxRows,      \* bound on destination rows
  MaxWrites,    \* bound on requests that write a document
  MaxBatches,   \* bound on batches
  MaxFaults     \* bound on failing deliveries and crashes

ASSUME ConfigAssumption ==
  /\ IsFiniteSet(Pipelines) /\ Legacy \subseteq Pipelines /\ IsFiniteSet(Requests)
  /\ PlNames \cup DestNames \subseteq Seq(STRING) /\ << >> \notin PlNames \cup DestNames
  /\ Default \in DestNames /\ Output \in Seq(STRING)
  /\ Reads \in [DestNames -> SUBSET Fields]
  /\ LegacyName \in [Legacy -> PlNames] /\ Cardinality(Legacy) <= MaxRows
  /\ MaxRows \in Nat /\ MaxWrites \in Nat /\ MaxBatches \in Nat /\ MaxFaults \in Nat

VARIABLES
  name,       \* PL_NAME, << >> while there is no such pipeline
  srcName,    \* the name SRC_NAME was made from
  doc,        \* the published document: enabled, input fields, destinations
  rows,       \* DS_DESTINATION
  seq,        \* DSQ_DESTINATION_SEQUENCE
  dels,       \* DL_DELIVERY
  batch,      \* the open batch of each pipeline, 0 if there is none
  scan,       \* the copy of a pipeline the engine is working on
  desk,       \* the copy of a pipeline each request is working on
  history,    \* what happened, for the properties,
  unseen,     \* and the inputs pipelines were made with that no validation saw
  faults

adminVars  == <<name, srcName, doc, rows, desk, unseen>>
engineVars == <<seq, dels, batch, scan, faults>>
vars == <<adminVars, engineVars, history>>

-----------------------------------------------------------------------------
Uids    == 0..MaxRows    \* 0 is the DS_UID of no row
Batches == 1..MaxBatches
Outs    == UNION {[D -> Uids] : D \in SUBSET DestNames}
Doc     == [enabled : BOOLEAN, input : SUBSET Fields, outs : Outs]
NoDoc   == [enabled |-> FALSE, input |-> {}, outs |-> << >>]
NoScan  == [step |-> "idle", outs |-> << >>]
Idle    == [kind |-> "none", pl |-> CHOOSE p \in Pipelines : TRUE, name |-> << >>,
            doc |-> NoDoc, read |-> 0]

UidsOf(outs) == {outs[d] : d \in DOMAIN outs}
Exists(p)    == name[p] # << >>

\* Mutant: documents are used as they were loaded.
NeverMissing(p) == FALSE

\* An output of DS_UID 0: a document from before destinations had rows.
NeedsRows(p) == 0 \in UidsOf(doc[p].outs)

\* Whatever input fields it declares: no validation has seen such a document.
LegacyDoc(input) == [enabled |-> TRUE, input |-> input, outs |-> [d \in {Default} |-> 0]]
LegacyRow(p, k) == [uid |-> k, name |-> LegacyName[p] \o Output]

Used == {r.uid : r \in rows}

\* Mutant: the identity of a row is used twice.
RowsFromOne(dests) ==
  {f \in [dests -> Uids \ {0}] : IsInjective(f) /\ \A d \in dests : 1..f[d] \subseteq Range(f)}

\* The identities of rows inserted for these destinations, in the order the form has
\* them.
NewRows(dests) ==
  {f \in [dests -> Uids \ ({0} \cup Used)] :
     IsInjective(f) /\ \A d \in dests : 1..f[d] \subseteq Used \cup Range(f)}

Init ==
  /\ name = [p \in Pipelines |-> IF p \in Legacy THEN LegacyName[p] ELSE << >>]
  /\ srcName = name
  /\ \E input \in [Legacy -> SUBSET Fields] :
       /\ doc = [p \in Pipelines |-> IF p \in Legacy THEN LegacyDoc(input[p]) ELSE NoDoc]
       /\ unseen = {<<p, input[p]>> : p \in Legacy}
  /\ \E f \in [Legacy -> 1..Cardinality(Legacy)] :
       /\ \A p, q \in Legacy : f[p] = f[q] => p = q
       /\ rows = {LegacyRow(p, f[p]) : p \in Legacy}
  /\ seq = [u \in Uids |-> 0] /\ dels = {}
  /\ batch = [p \in Pipelines |-> 0] /\ scan = [p \in Pipelines |-> NoScan]
  /\ desk = [u \in Requests |-> Idle]
  /\ history = [writes |-> 0, batches |-> 0, closed |-> {},
                raced |-> [p \in Pipelines |-> FALSE],
                version |-> [p \in Pipelines |-> 0],
                named |-> [p \in Pipelines |-> {name[p]} \ {<< >>}],
                used |-> [p \in Pipelines |-> [d \in DestNames |-> {}]]]
  /\ faults = 0

-----------------------------------------------------------------------------
(* Validation.                                                             *)

\* Mutant: an input that declares no fields agrees with everything.
AgreesIfDeclared(d, input) == input = {} \/ Reads[d] \subseteq input

\* ValidatePipeline: a destination draws from declared input fields only.
Agrees(d, input) == Reads[d] \subseteq input

\* ValidateOutputs, ValidatePipeline.
Valid(input, dests) == dests # {} /\ \A d \in dests : Agrees(d, input)

-----------------------------------------------------------------------------
(* The management plane.                                                   *)

\* CreatePipeline: rows for the destinations and the document, in one transaction;
\* pipeline names are unique, and so are the names their sources were given. A form
\* that posts no destination gets the default one, and nothing compares what that
\* draws from with the input.
CreatePipeline(p, n, input, dests) ==
  /\ ~Exists(p) /\ history.writes < MaxWrites
  /\ \A q \in Pipelines : name[q] # n /\ srcName[q] # n
  /\ Valid(input, dests) \/ dests = {Default}
  /\ \E outs \in NewRows(dests) :
       /\ rows' = rows \cup {[uid |-> outs[d], name |-> n \o d] : d \in dests}
       /\ doc' = [doc EXCEPT ![p] = [enabled |-> TRUE, input |-> input, outs |-> outs]]
  /\ name' = [name EXCEPT ![p] = n] /\ srcName' = [srcName EXCEPT ![p] = n]
  /\ history' = [history EXCEPT !.writes = @ + 1, !.version[p] = @ + 1, !.named[p] = @ \cup {n}]
  /\ unseen' = IF Valid(input, dests) THEN unseen ELSE unseen \cup {<<p, input>>}
  /\ UNCHANGED <<desk, engineVars>>

\* What a request has read, and the version of the document it was read from.
Copy(kind, p, n, d) ==
  [kind |-> kind, pl |-> p, name |-> n, doc |-> d, read |-> history.version[p]]

Take(u, copy) == desk' = [desk EXCEPT ![u] = copy]

\* The whole document is written, over whatever has been written since it was read.
Write(u, p, d) ==
  /\ doc' = [doc EXCEPT ![p] = d]
  /\ Take(u, Idle)

Stale(u) == desk[u].read # history.version[desk[u].pl]

\* ensureDestinations: the row a destination is to have, if there is one under the
\* name of today or of old.
OwnRows(p, d) == {r.uid : r \in {x \in rows : x.name \in {name[p] \o d, name[p] \o Output}}}

\* ensureDestinations, on any load of a document with DS_UID 0: the row is adopted or
\* created; the document is written back in a statement of its own.
EnsureDestinations(u, p) ==
  /\ desk[u] = Idle /\ Exists(p) /\ NeedsRows(p)
  /\ \E d \in DOMAIN doc[p].outs :
       /\ doc[p].outs[d] = 0
       /\ \/ /\ OwnRows(p, d) # {}
             /\ \E uid \in OwnRows(p, d) :
                  /\ \A other \in OwnRows(p, d) : uid <= other
                  /\ Take(u, Copy("ensure", p, name[p], [doc[p] EXCEPT !.outs[d] = uid]))
             /\ UNCHANGED rows
          \/ /\ OwnRows(p, d) = {}
             /\ \E new \in NewRows({d}) :
                  /\ rows' = rows \cup {[uid |-> new[d], name |-> name[p] \o d]}
                  /\ Take(u, Copy("ensure", p, name[p], [doc[p] EXCEPT !.outs[d] = new[d]]))
  /\ UNCHANGED <<name, srcName, unseen, doc, engineVars, history>>

EnsureWrite(u) ==
  /\ desk[u].kind = "ensure"
  /\ Write(u, desk[u].pl, desk[u].doc)
  /\ history' = [history EXCEPT !.version[desk[u].pl] = @ + 1,
                                !.raced[desk[u].pl] = @ \/ Stale(u)]
  /\ UNCHANGED <<name, srcName, unseen, rows, engineVars>>

\* SetPipelineEnabled: the document is read ...
Toggle(u, p) ==
  /\ desk[u] = Idle /\ Exists(p) /\ ~NeedsRows(p) /\ history.writes < MaxWrites
  /\ Take(u, Copy("toggle", p, name[p], [doc[p] EXCEPT !.enabled = ~@]))
  /\ history' = [history EXCEPT !.writes = @ + 1]
  /\ UNCHANGED <<name, srcName, unseen, doc, rows, engineVars>>

\* ... and written back with the flag flipped.
SetPipelineEnabled(u) ==
  /\ desk[u].kind = "toggle"
  /\ Write(u, desk[u].pl, desk[u].doc)
  /\ history' = [history EXCEPT !.version[desk[u].pl] = @ + 1,
                                !.raced[desk[u].pl] = @ \/ Stale(u)]
  /\ UNCHANGED <<name, srcName, unseen, rows, engineVars>>

\* What an administrator makes of the document the page showed: another name, the
\* flag flipped, other input fields, a destination more or less.
Revised(d) ==
  {[d EXCEPT !.enabled = ~@]}
    \cup {[d EXCEPT !.input = f] : f \in SUBSET Fields}
    \cup {[d EXCEPT !.outs = [x \in DOMAIN d.outs \cup {new} |->
             IF x \in DOMAIN d.outs THEN d.outs[x] ELSE 0]] : new \in DestNames}
    \cup {[d EXCEPT !.outs = [x \in DOMAIN d.outs \ {old} |-> d.outs[x]]] : old \in DestNames}

\* handlePipelineEdit: the page is loaded and filled in.
OpenPage(u, p) ==
  /\ desk[u] = Idle /\ Exists(p) /\ ~NeedsRows(p) /\ history.writes < MaxWrites
  /\ \/ \E n \in PlNames : Take(u, Copy("page", p, n, doc[p]))
     \/ \E d \in Revised(doc[p]) : Take(u, Copy("page", p, name[p], d))
  /\ history' = [history EXCEPT !.writes = @ + 1]
  /\ UNCHANGED <<name, srcName, unseen, doc, rows, engineVars>>

\* Mutant: a destination of the form is given the row of another one.
MergedBlindly(p, posted) ==
  [posted EXCEPT !.outs = [d \in DOMAIN posted.outs |-> CHOOSE uid \in UidsOf(doc[p].outs) : TRUE]]

\* mergeForEdit: the page's fields over the stored document, whose destinations keep
\* the rows they have.
Merged(p, posted) ==
  [posted EXCEPT !.outs = [d \in DOMAIN posted.outs |->
     IF d \in DOMAIN doc[p].outs THEN doc[p].outs[d] ELSE 0]]

\* Mutant: no edit touches what the data plane runs on.
NeverStructural(before, after) == FALSE

\* structuralChange: the input or the destinations differ.
StructuralChange(before, after) ==
  before.input # after.input \/ before.outs # after.outs

\* Mutant: the row of any pipeline will do.
RowsOfThatName(p, d) == {r.uid : r \in {x \in rows : IsSuffix(d, x.name)}}

\* Every row of a destination this pipeline has ever had, by today's pipeline name.
FormerRows(p, d) == {r.uid : r \in {x \in rows : x.name = name[p] \o d}}

\* The row a destination of the saved document gets: the one it has, the last it
\* has had, or none yet.
Reclaimed(p, outs) ==
  [d \in DOMAIN outs |->
     IF outs[d] # 0 \/ FormerRows(p, d) = {} THEN outs[d]
     ELSE CHOOSE uid \in FormerRows(p, d) : \A other \in FormerRows(p, d) : other <= uid]

\* handlePipelineUpdate, UpdatePipeline: validation, the check for open batches, the
\* look-up of rows.
UpdatePipeline(u) ==
  LET p     == desk[u].pl
      after == Merged(p, desk[u].doc)
      sound == /\ Valid(after.input, DOMAIN after.outs)
               /\ StructuralChange(doc[p], after) => batch[p] = 0
  IN /\ desk[u].kind = "page"
     /\ \/ /\ sound
           /\ Take(u, Copy("save", p, desk[u].name,
                           [after EXCEPT !.outs = Reclaimed(p, after.outs)]))
        \/ ~sound /\ Take(u, Idle)
     /\ UNCHANGED <<name, srcName, unseen, doc, rows, engineVars, history>>

NewDests(outs) == {d \in DOMAIN outs : outs[d] = 0}

\* The transaction of the save: rows for new destinations, name and document.
Save(u) ==
  LET p     == desk[u].pl
      n     == desk[u].name
      outs  == desk[u].doc.outs
  IN /\ desk[u].kind = "save"
     /\ \/ /\ \A q \in Pipelines \ {p} : name[q] # n
           /\ \E new \in NewRows(NewDests(outs)) :
                /\ rows' = rows \cup {[uid |-> new[d], name |-> n \o d] : d \in NewDests(outs)}
                /\ Write(u, p, [desk[u].doc EXCEPT !.outs = [d \in DOMAIN outs |->
                                  IF outs[d] # 0 THEN outs[d] ELSE new[d]]])
           /\ name' = [name EXCEPT ![p] = n]
           /\ history' =
                [history EXCEPT
                   !.version[p] = @ + 1, !.named[p] = @ \cup {n},
                   !.raced[p] = @ \/ Stale(u)
                                  \/ (batch[p] # 0 /\ StructuralChange(doc[p], desk[u].doc))]
        \/ /\ \E q \in Pipelines \ {p} : name[q] = n
           /\ Take(u, Idle) /\ UNCHANGED <<name, doc, rows, history>>
     /\ UNCHANGED <<srcName, unseen, engineVars>>

-----------------------------------------------------------------------------
(* The engine.                                                             *)

\* scan: enabled pipelines are listed; open batches come before new ones.
Listed(p) == Exists(p) /\ doc[p].enabled /\ ~NeedsRows(p)

Scan(p) ==
  /\ scan[p] = NoScan /\ Listed(p)
  /\ batch[p] # 0 \/ history.batches < MaxBatches
  /\ scan' = [scan EXCEPT ![p] = [step |-> "listed", outs |-> doc[p].outs]]
  /\ UNCHANGED <<adminVars, seq, dels, batch, history, faults>>

\* FormBatch: by then the document may be another one.
FormBatch(p) ==
  /\ scan[p].step = "listed" /\ batch[p] = 0
  /\ \/ /\ history.batches < MaxBatches
        /\ batch' = [batch EXCEPT ![p] = history.batches + 1]
        /\ history' = [history EXCEPT !.batches = @ + 1]
        /\ UNCHANGED scan
     \/ /\ scan' = [scan EXCEPT ![p] = NoScan]
        /\ UNCHANGED <<batch, history>>
  /\ UNCHANGED <<adminVars, seq, dels, faults>>

DelOf(uid, b) == {x \in dels : x.uid = uid /\ x.batch = b}

\* ReserveDelivery for every destination of the copy: the number of an earlier
\* attempt, or the next of the destination's sequence.
ReserveDelivery(p) ==
  /\ scan[p].step = "listed" /\ batch[p] # 0
  /\ LET new == {uid \in UidsOf(scan[p].outs) : DelOf(uid, batch[p]) = {}}
     IN /\ seq'  = [u \in Uids |-> IF u \in new THEN seq[u] + 1 ELSE seq[u]]
        /\ dels' = dels \cup {[uid |-> uid, batch |-> batch[p], number |-> seq[uid] + 1,
                               done |-> FALSE] : uid \in new}
  /\ scan' = [scan EXCEPT ![p].step = "reserved"]
  /\ history' =
       [history EXCEPT
          !.used[p]  = [d \in DestNames |-> IF d \in DOMAIN scan[p].outs
                                            THEN @[d] \cup {scan[p].outs[d]} ELSE @[d]],
          !.raced[p] = @ \/ scan[p].outs # doc[p].outs]
  /\ UNCHANGED <<adminVars, batch, faults>>

Owed(p) == {x \in dels : x.batch = batch[p] /\ x.uid \in UidsOf(scan[p].outs) /\ ~x.done}

\* ProcessBatch: the destinations that do not hold the batch are written; some fail.
ProcessBatch(p) ==
  /\ scan[p].step = "reserved"
  /\ \E ok \in SUBSET Owed(p) :
       /\ dels' = (dels \ ok) \cup {[x EXCEPT !.done = TRUE] : x \in ok}
       /\ \/ ok = Owed(p) /\ UNCHANGED faults
          \/ ok # Owed(p) /\ faults < MaxFaults /\ faults' = faults + 1
  /\ scan' = [scan EXCEPT ![p].step = "written"]
  /\ UNCHANGED <<adminVars, seq, batch, history>>

\* Every destination of the copy holds the batch.
Complete(p) == Owed(p) = {}

\* CloseBatch, or the end of a failed attempt; AbandonBatch if nothing was delivered.
CloseBatch(p) ==
  /\ scan[p].step = "written"
  /\ \/ /\ Complete(p)
        /\ batch' = [batch EXCEPT ![p] = 0]
        /\ history' = [history EXCEPT !.closed = @ \cup {batch[p]}]
     \/ /\ ~Complete(p) /\ UNCHANGED <<batch, history>>
     \/ /\ ~Complete(p) /\ UNCHANGED history
        /\ \A x \in dels : x.batch = batch[p] => ~x.done
        /\ batch' = [batch EXCEPT ![p] = 0]
  /\ scan' = [scan EXCEPT ![p] = NoScan]
  /\ UNCHANGED <<adminVars, seq, dels, faults>>

\* The instance dies between two steps of an attempt.
Crash(p) ==
  /\ scan[p] # NoScan /\ faults < MaxFaults /\ faults' = faults + 1
  /\ scan' = [scan EXCEPT ![p] = NoScan]
  /\ UNCHANGED <<adminVars, seq, dels, batch, history>>

-----------------------------------------------------------------------------
AdminStep(u, p) == EnsureDestinations(u, p) \/ Toggle(u, p) \/ OpenPage(u, p)
DeskStep(u) == EnsureWrite(u) \/ SetPipelineEnabled(u) \/ UpdatePipeline(u) \/ Save(u)
EngineStep(p) ==
  \/ Scan(p) \/ FormBatch(p) \/ ReserveDelivery(p) \/ ProcessBatch(p) \/ CloseBatch(p)

Next ==
  \/ \E p \in Pipelines, n \in PlNames, input \in SUBSET Fields, dests \in SUBSET DestNames :
       CreatePipeline(p, n, input, dests)
  \/ \E u \in Requests, p \in Pipelines : AdminStep(u, p)
  \/ \E u \in Requests : DeskStep(u)
  \/ \E p \in Pipelines : EngineStep(p) \/ Crash(p)

Spec == Init /\ [][Next]_vars

\* The engine's loop runs for ever, and an attempt comes to an end.
FairSpec == Spec /\ \A p \in Pipelines : WF_vars(EngineStep(p))

-----------------------------------------------------------------------------
(* Properties.                                                             *)

\* The variables keep the shapes of the rows and documents they stand for.
TypeOK ==
  /\ name \in [Pipelines -> PlNames \cup {<< >>}] /\ srcName \in [Pipelines -> PlNames \cup {<< >>}]
  /\ \A p \in Pipelines : doc[p] \in Doc
  /\ \A r \in rows : r.uid \in Uids \ {0} /\ r.name \in Seq(STRING)
  /\ \A r, x \in rows : r.uid = x.uid => r = x
  /\ seq \in [Uids -> 0..MaxBatches]
  /\ dels \subseteq [uid : Uids, batch : Batches, number : 1..MaxBatches, done : BOOLEAN]
  /\ batch \in [Pipelines -> 0..MaxBatches]
  /\ \A p \in Pipelines : /\ scan[p].step \in {"idle", "listed", "reserved", "written"}
                          /\ scan[p].outs \in Outs
  /\ \A u \in Requests : /\ desk[u].kind \in {"none", "ensure", "toggle", "page", "save"}
                         /\ desk[u].doc \in Doc
  /\ faults \in 0..MaxFaults

\* A destination that draws from a field the input does not declare: a column that is
\* null for ever.
Dangles(d) == \E x \in DOMAIN d.outs : ~(Reads[x] \subseteq d.input)

\* Whatever requests overlap, no edit, toggle or upgrade makes a destination draw from a
\* field the input does not declare (ValidatePipeline; a document is only written as a
\* whole): a document has such a column only as it was made, with the one default
\* destination and the input that no validation has seen.
NoDanglingColumns ==
  \A p \in Pipelines :
    Dangles(doc[p]) => DOMAIN doc[p].outs = {Default} /\ <<p, doc[p].input>> \in unseen

\* Every delivery belongs to a row that exists, also for a pipeline that was created
\* before destinations had rows (ensureDestinations comes before any use).
DeliveriesHaveRows == \A x \in dels : \E r \in rows : r.uid = x.uid

Related(p, q) ==
  \E n \in history.named[p], m \in history.named[q] : IsPrefix(n, m) \/ IsPrefix(m, n)

\* Two pipelines never share a destination's row and its sequence, as long as no name
\* one of them ever had begins with one of the other's (FormerRows, OwnRows).
RowsNotShared ==
  \A p, q \in Pipelines :
    p # q /\ ~Related(p, q) => UidsOf(doc[p].outs) \cap UidsOf(doc[q].outs) \subseteq {0}

\* The outputs of a destination are numbered in one sequence, even if the destination
\* is removed and added again (the comment of UpdatePipeline): unless the pipeline was
\* renamed, a request or a scan used a copy of the document that was out of date, or
\* the destination is the one of a legacy pipeline, whose row FormerRows does not find.
SequenceContinues ==
  \A p \in Pipelines, d \in DestNames :
    \/ Cardinality(history.used[p][d]) <= 1
    \/ p \in Legacy /\ d = Default
    \/ history.raced[p] \/ Cardinality(history.named[p]) > 1
    \/ \E q \in Pipelines \ {p} : Related(p, q)

\* A number that a destination's sequence has given out is delivered by the time its
\* batch is closed: only abandoned batches leave gaps, unless a copy was out of date
\* (structuralChange refuses edits while a batch is open).
GapsOnlyFromAbandoned ==
  \A x \in dels :
    \/ x.batch \in history.closed => x.done
    \/ \E p \in Pipelines : history.raced[p]

\* "Disable the pipeline, let them finish, then edit": a disabled pipeline's open batch
\* is finished too (the advice of UpdatePipeline and the comment of structuralChange).
DisabledDrains ==
  \A p \in Pipelines : (batch[p] # 0 /\ ~doc[p].enabled) ~> (batch[p] = 0 \/ doc[p].enabled)
=============================================================================
