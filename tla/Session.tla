------------------------------ MODULE Session ------------------------------
(***************************************************************************)
(* The record stream of one batch: a pipeline session decodes the members  *)
(* once and shapes every record for each pending destination               *)
(* (internal/pipeline/run.go), and the counts it keeps become the records  *)
(* and the lineage of the files (internal/runner/batch.go).                *)
(*                                                                         *)
(* BatchDelivery treats one pass over the members as a step; this module   *)
(* is that step seen record by record, through attempts that deliver to    *)
(* some of the destinations only.  A record is where it stands in the      *)
(* input, and what matters of its content is which destinations can shape  *)
(* it.                                                                     *)
(***************************************************************************)
EXTENDS Integers, FiniteSets, Sequences

CONSTANTS
  Dest,          \* destinations of the pipeline
  Members,       \* number of files in the batch
  MaxRecords,    \* records of a member at most
  MaxAttempts,   \* bound on attempts
  MaxFaults      \* bound on faults: broken writers and streams, crashes

ASSUME SessionAssumption ==
  /\ IsFiniteSet(Dest) /\ Dest # {}
  /\ Members \in Nat /\ MaxRecords \in Nat
  /\ MaxAttempts \in Nat /\ MaxFaults \in Nat

Member == 1..Members

VARIABLES
  content,     \* of each member, for each record, the destinations it can be shaped for
  malformed,   \* members whose stream does not parse after those records
  stage,       \* where the attempt stands
  pending,     \* destinations this attempt writes
  tgt,         \* the session's targets
  stats,       \* Session.stats, with Session.index
  before,      \* the same when the current member was opened
  cur,         \* the current member
  pos,         \* records of it decoded
  suspended,   \* Session.suspended: which record, for which destination
  contribs,    \* Session.contribs
  failure,     \* what consumeMembers returned
  objects,     \* the published object of each destination
  delivered,   \* destinations marked DELIVERED
  todo,        \* destinations whose outcome is not recorded yet
  bf,          \* the counts of the members in the database
  pf, dc,      \* the records and the lineage the commit wrote
  attempts, faults

fileVars == <<content, malformed>>
sessVars == <<pending, tgt, stats, before, cur, pos, suspended, contribs, failure>>
dbVars   == <<objects, delivered, bf>>
vars == <<content, malformed, stage, pending, tgt, stats, before, cur, pos, suspended,
          contribs, failure, objects, delivered, todo, bf, pf, dc, attempts, faults>>

-----------------------------------------------------------------------------
NoCounts == [in |-> 0, out |-> 0, susp |-> 0]
NoStats  == [in |-> 0, out |-> 0, susp |-> 0, index |-> 0]
NoObject == [begun |-> FALSE, recs |-> << >>]

Target   == [started |-> FALSE, out |-> << >>, susp |-> 0, err |-> FALSE]

Live(d) == d \in pending /\ ~tgt[d].err

\* Mutant: the running totals are taken for the stream's own.
RunningTotals(f, now, then) ==
  [member |-> f, in |-> now.in, out |-> now.out, susp |-> now.susp,
   first |-> then.index, last |-> now.index - 1]

\* The share of one input stream in the output.
Contribution(f, now, then) ==
  LET out == now.out - then.out
  IN [member |-> f, in |-> now.in - then.in, out |-> out, susp |-> now.susp - then.susp,
      first |-> IF out = 0 THEN 0 ELSE then.index,
      last  |-> IF out = 0 THEN -1 ELSE now.index - 1]

Contribute(now) ==
  LET c == Contribution(cur, now, before)
  IN IF c.in > 0 \/ c.out > 0 THEN Append(contribs, c) ELSE contribs

ContributionOf(f, cs) ==
  IF \E i \in DOMAIN cs : cs[i].member = f
  THEN cs[CHOOSE i \in DOMAIN cs : cs[i].member = f]
  ELSE Contribution(f, NoStats, NoStats)

-----------------------------------------------------------------------------
Init ==
  /\ content \in [Member -> UNION {[1..n -> SUBSET Dest] : n \in 0..MaxRecords}]
  /\ malformed \in SUBSET Member
  /\ stage = "idle" /\ pending = {} /\ tgt = [d \in Dest |-> Target]
  /\ stats = NoStats /\ before = NoStats /\ cur = 0 /\ pos = 0
  /\ suspended = {} /\ contribs = << >> /\ failure = "none"
  /\ objects = [d \in Dest |-> NoObject] /\ delivered = {} /\ todo = {}
  /\ bf = [f \in Member |-> NoCounts]
  /\ pf = << >> /\ dc = [d \in Dest |-> << >>]
  /\ attempts = 0 /\ faults = 0

\* A new attempt: a session for the destinations that do not hold the batch yet.
\* When all of them do, the batch is resumed for its commit alone.
NewMultiSession ==
  /\ stage = "idle" /\ attempts < MaxAttempts
  /\ attempts' = attempts + 1
  /\ pending' = Dest \ delivered
  /\ stage' = IF Dest \ delivered = {} THEN "commit" ELSE "member"
  /\ tgt' = [d \in Dest |-> Target]
  /\ stats' = NoStats /\ before' = NoStats /\ cur' = 0 /\ pos' = 0
  /\ suspended' = {} /\ contribs' = << >> /\ failure' = "none"
  /\ UNCHANGED <<fileVars, dbVars, todo, pf, dc, faults>>

Stop(why) == failure' = why /\ stage' = "close"

\* Mutant: off by one.
NoneLeftOffByOne == cur > Members

NoneLeft == cur >= Members

\* consumeMembers: the next member is opened, if there is one and anybody left
\* to write it for.
OpenMember ==
  /\ stage = "member"
  /\ IF NoneLeft
     THEN /\ stage' = "close" /\ UNCHANGED <<before, cur, pos, failure, faults>>
     ELSE \/ /\ \A d \in Dest : ~Live(d)
             /\ Stop("dead") /\ UNCHANGED <<before, cur, pos, faults>>
          \/ /\ \E d \in Dest : Live(d)
             /\ cur' = cur + 1 /\ pos' = 0 /\ before' = stats /\ stage' = "decode"
             /\ UNCHANGED <<failure, faults>>
          \/ /\ faults < MaxFaults /\ faults' = faults + 1
             /\ Stop("read") /\ UNCHANGED <<before, cur, pos>>
  /\ UNCHANGED <<fileVars, dbVars, pending, tgt, stats, suspended, contribs,
                 todo, pf, dc, attempts>>

\* What a target becomes when the record is offered to it: skipped if it has
\* failed, the record suspended if it has no shape here, else begun and written.
Offered(d, rec, can, broke) ==
  LET t == tgt[d]
  IN IF ~Live(d)       THEN t
     ELSE IF d \notin can THEN [t EXCEPT !.susp = @ + 1]
     ELSE IF d \in broke  THEN [t EXCEPT !.err = TRUE]
     ELSE [t EXCEPT !.started = TRUE, !.out = Append(@, rec)]

\* Mutant: a record nobody can shape is not counted as suspended.
CountedUnlessSuspended(shaped, wrote) ==
  IF wrote # {} THEN [stats EXCEPT !.in = @ + 1, !.out = @ + 1, !.index = @ + 1]
  ELSE [stats EXCEPT !.in = @ + 1]

\* The counts after a record which the destinations in `shaped` could shape and
\* those in `wrote` have written.
Counted(shaped, wrote) ==
  IF wrote # {}       THEN [stats EXCEPT !.in = @ + 1, !.out = @ + 1, !.index = @ + 1]
  ELSE IF shaped = {} THEN [stats EXCEPT !.in = @ + 1, !.susp = @ + 1]
  ELSE [stats EXCEPT !.in = @ + 1]

\* Mutant: the first failing writer ends the pass.
GivesUpEarly(shaped, wrote) == wrote # shaped

\* Somebody could shape the record and nobody could write it.
GivesUp(shaped, wrote) == shaped # {} /\ wrote = {}

\* emit: one decoded record goes to every live target; the writers in `broke` fail.
Emit ==
  /\ stage = "decode" /\ pos < Len(content[cur])
  /\ LET rec    == <<cur, pos + 1>>
         can    == content[cur][pos + 1]
         shaped == {d \in can : Live(d)}
     IN \E broke \in SUBSET shaped :
          LET wrote == shaped \ broke
              now   == Counted(shaped, wrote)
          IN /\ faults + Cardinality(broke) <= MaxFaults
             /\ faults' = faults + Cardinality(broke)
             /\ tgt' = [d \in Dest |-> Offered(d, rec, can, broke)]
             /\ suspended' = suspended \cup {<<rec, d>> : d \in {e \in Dest \ can : Live(e)}}
             /\ stats' = now
             /\ IF GivesUp(shaped, wrote)
                THEN Stop("encode") /\ contribs' = Contribute(now)
                ELSE UNCHANGED <<failure, stage, contribs>>
  /\ pos' = pos + 1
  /\ UNCHANGED <<fileVars, dbVars, pending, before, cur, todo, pf, dc, attempts>>

\* The stream of the member ends, as a whole file, as one that does not parse, or
\* because its storage failed; its contribution is kept in any case.
StreamEnds ==
  /\ stage = "decode"
  /\ \/ /\ pos = Len(content[cur]) /\ cur \notin malformed
        /\ stage' = "member" /\ UNCHANGED <<failure, faults>>
     \/ /\ pos = Len(content[cur]) /\ cur \in malformed
        /\ Stop("malformed") /\ UNCHANGED faults
     \/ /\ faults < MaxFaults /\ faults' = faults + 1
        /\ Stop("read")
  /\ contribs' = Contribute(stats)
  /\ UNCHANGED <<fileVars, dbVars, pending, tgt, stats, before, cur, pos, suspended,
                 todo, pf, dc, attempts>>

\* Mutant: the streams of a failed pass are closed cleanly.
PublishesPrefix(d) == Live(d)

Publishes(d) == failure = "none" /\ Live(d)

\* Session.Close and destRun.finish: every live target is ended, begun first if it
\* saw no record, and its object appears unless its writer fails at last or the
\* pass as a whole has failed.
Close ==
  /\ stage = "close"
  /\ \E broke \in SUBSET {d \in Dest : Live(d)} :
       /\ faults + Cardinality(broke) <= MaxFaults
       /\ faults' = faults + Cardinality(broke)
       /\ tgt' = [d \in Dest |->
                    IF d \in broke THEN [tgt[d] EXCEPT !.err = TRUE]
                    ELSE IF Live(d) THEN [tgt[d] EXCEPT !.started = TRUE] ELSE tgt[d]]
       /\ objects' = [d \in Dest |->
                    IF Publishes(d) /\ d \notin broke
                    THEN [begun |-> TRUE, recs |-> tgt[d].out] ELSE objects[d]]
  /\ stage' = CASE failure = "none"      -> "persist"
                [] failure = "malformed" -> "dropped"
                [] OTHER                 -> "idle"
  /\ UNCHANGED <<fileVars, pending, stats, before, cur, pos, suspended, contribs,
                 failure, delivered, todo, bf, pf, dc, attempts>>

\* RecordBatchContributions: the counts reach the database before any delivery does.
RecordBatchContributions ==
  /\ stage = "persist"
  /\ bf' = [f \in Member |->
              IF \E i \in DOMAIN contribs : contribs[i].member = f
              THEN LET c == ContributionOf(f, contribs)
                   IN [in |-> c.in, out |-> c.out, susp |-> c.susp]
              ELSE bf[f]]
  /\ todo' = pending /\ stage' = "mark"
  /\ UNCHANGED <<fileVars, sessVars, objects, delivered, pf, dc, attempts, faults>>

\* Mutant: nothing is delivered unless everything is.
WroteAll(d) == \A e \in pending : ~tgt[e].err

Wrote(d) == ~tgt[d].err

\* MarkDelivered or MarkDeliveryFailed, one destination after the other.
MarkDelivery ==
  /\ stage = "mark"
  /\ \E d \in todo :
       /\ todo' = todo \ {d}
       /\ delivered' = IF Wrote(d) THEN delivered \cup {d} ELSE delivered
  /\ UNCHANGED <<fileVars, sessVars, objects, stage, bf, pf, dc, attempts, faults>>

AllMarked ==
  /\ stage = "mark" /\ todo = {}
  /\ stage' = IF pending \subseteq delivered THEN "commit" ELSE "idle"
  /\ UNCHANGED <<fileVars, sessVars, dbVars, todo, pf, dc, attempts, faults>>

\* batchPFs: the record of a file takes its suspensions from the session's list,
\* one for every destination.
BatchPF(f) ==
  LET c == ContributionOf(f, contribs)
  IN [in |-> c.in, out |-> c.out,
      susp |-> Cardinality({s \in suspended : s[1][1] = f})]

\* Mutant: a rebuilt lineage starts at the first record.
OffsetForgotten == [f \in 1..Members + 1 |-> 0]

\* Where the members' records lie in the output, rebuilt from the counts.
Offset == LET off[f \in 1..Members + 1] == IF f = 1 THEN 0 ELSE off[f - 1] + bf[f - 1].out
          IN off

Rebuilt(f) ==
  [member |-> f, in |-> bf[f].in, out |-> bf[f].out, susp |-> bf[f].susp,
   first |-> IF bf[f].out = 0 THEN 0 ELSE Offset[f],
   last  |-> IF bf[f].out = 0 THEN -1 ELSE Offset[f] + bf[f].out - 1]

\* CloseBatch: the files are recorded with the counts of this session, or with
\* those in the database when nothing was left to write; one lineage for every
\* destination.  When the session kept no contribution it is rebuilt as well.
CloseBatch ==
  /\ stage = "commit"
  /\ pf' = [f \in Member |-> IF pending = {} THEN bf[f] ELSE BatchPF(f)]
  /\ dc' = [d \in Dest |-> IF contribs = << >> THEN [f \in Member |-> Rebuilt(f)] ELSE contribs]
  /\ stage' = "committed"
  /\ UNCHANGED <<fileVars, sessVars, dbVars, todo, attempts, faults>>

\* The process dies, a statement fails, or a claim is lost: the batch stays open.
Interrupted ==
  /\ stage \in {"member", "decode", "close", "persist", "mark", "commit"}
  /\ faults < MaxFaults /\ faults' = faults + 1
  /\ stage' = "idle"
  /\ UNCHANGED <<fileVars, sessVars, dbVars, todo, pf, dc, attempts>>

Next ==
  \/ NewMultiSession \/ OpenMember \/ Emit \/ StreamEnds \/ Close
  \/ RecordBatchContributions \/ MarkDelivery \/ AllMarked \/ CloseBatch
  \/ Interrupted

Spec == Init /\ [][Next]_vars

-----------------------------------------------------------------------------
(* Properties.                                                             *)

Records == {<<f, k>> : f \in Member, k \in 1..MaxRecords}
Count   == [in : Nat, out : Nat, susp : Nat]

\* The variables keep the shapes of the Go values and rows they stand for.
TypeOK ==
  /\ content \in [Member -> UNION {[1..n -> SUBSET Dest] : n \in 0..MaxRecords}]
  /\ malformed \subseteq Member
  /\ stage \in {"idle", "member", "decode", "close", "persist", "mark", "commit",
                "committed", "dropped"}
  /\ pending \subseteq Dest /\ delivered \subseteq Dest /\ todo \subseteq Dest
  /\ tgt \in [Dest -> [started : BOOLEAN, out : Seq(Records), susp : Nat, err : BOOLEAN]]
  /\ stats \in [in : Nat, out : Nat, susp : Nat, index : Nat]
  /\ before \in [in : Nat, out : Nat, susp : Nat, index : Nat]
  /\ cur \in 0..Members /\ pos \in Nat
  /\ suspended \subseteq Records \X Dest
  /\ failure \in {"none", "dead", "read", "encode", "malformed"}
  /\ objects \in [Dest -> [begun : BOOLEAN, recs : Seq(Records)]]
  /\ bf \in [Member -> Count]
  /\ attempts \in Nat /\ faults \in Nat

Before(r, s) == r[1] < s[1] \/ (r[1] = s[1] /\ r[2] < s[2])

Shapeable(d) ==
  {r \in Records : r[2] \in DOMAIN content[r[1]] /\ d \in content[r[1]][r[2]]}

\* An object holds, in batch order and once each, exactly the records its
\* destination can shape, whichever attempt wrote it and whatever happened to the
\* other destinations; one without records still has its frame (Session.emit,
\* Session.Close, ProcessBatch's abort of failed passes).
WholeObjects ==
  \A d \in Dest :
    /\ objects[d].begun =>
         LET recs == objects[d].recs
         IN /\ {recs[i] : i \in DOMAIN recs} = Shapeable(d)
            /\ \A i, j \in DOMAIN recs : i < j => Before(recs[i], recs[j])
    /\ d \in delivered => objects[d].begun

\* Every record is the same to all destinations.
Uniform == \A f \in Member : \A k \in DOMAIN content[f] : content[f][k] \in {{}, Dest}

Written(f) == {k \in DOMAIN content[f] : content[f][k] # {}}
Truth(f) == [in |-> Len(content[f]), out |-> Cardinality(Written(f)),
             susp |-> Len(content[f]) - Cardinality(Written(f))]

\* When destinations agree on what can be shaped, the record of a file says how
\* many of its records were read and written, and how many were suspended unless
\* the last pass wrote several destinations: from the session or, after an
\* interruption, from the database (batchPFs, batchPFsFromBatch).
FilesReconciled ==
  stage = "committed" /\ Uniform =>
    \A f \in Member :
      /\ pf[f].in = Truth(f).in /\ pf[f].out = Truth(f).out
      /\ Cardinality(pending) <= 1 => pf[f].susp = Truth(f).susp

\* When destinations agree, the lineage of a file names the places its records
\* have in every destination's object, also when it was rebuilt for a commit
\* without a decode (Session.Consume, ProcessBatch's resume path).
LineageLocates ==
  stage = "committed" /\ Uniform =>
    \A d \in Dest : \A i \in DOMAIN dc[d] :
      LET c == dc[d][i]
      IN {n \in DOMAIN objects[d].recs : objects[d].recs[n][1] = c.member}
           = (c.first + 1)..(c.last + 1)

\* The counts of a file in the database add up, whatever destinations they come
\* from, and once anything is delivered they cover the whole file (BR-REC-001).
CountsAddUp ==
  \A f \in Member :
    /\ bf[f].in = bf[f].out + bf[f].susp
    /\ delivered # {} => bf[f].in = Len(content[f])

\* A pass gives up for the writers' sake only when every one of them is down, if
\* destinations agree on what can be shaped: one failing destination does not
\* take the others with it (emit, consumeMembers).
StopsWhenAllDown ==
  failure \in {"encode", "dead"} /\ Uniform => \A d \in pending : tgt[d].err

\* What a pass delivers to a healthy destination is not held back by the failing
\* ones: when marking ends, exactly the targets without an error are delivered
\* (destRun.err, MarkDelivered), and a delivery is never taken back.
HealthyDelivered ==
  [][/\ delivered \subseteq delivered'
     /\ (stage = "mark" /\ stage' \in {"commit", "idle"} /\ faults' = faults)
          => \A d \in pending : d \in delivered' <=> ~tgt[d].err]_vars

\* "in = out + suspended" for every recorded file.
InOutSuspended ==
  stage = "committed" => \A f \in Member : pf[f].in = pf[f].out + pf[f].susp
=============================================================================
