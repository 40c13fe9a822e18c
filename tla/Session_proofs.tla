--------------------------- MODULE Session_proofs ---------------------------
(***************************************************************************)
(* Theorems about Session, for any number of destinations, members,        *)
(* records, attempts and faults.                                           *)
(***************************************************************************)
EXTENDS Session, SequenceTheorems, FiniteSetTheorems, TLAPS

-----------------------------------------------------------------------------
(* Types, and where the attempt stands in the input.                       *)

Tgt   == [started : BOOLEAN, out : Seq(Records), susp : Nat, err : BOOLEAN]
Stats == [in : Nat, out : Nat, susp : Nat, index : Nat]
Share == [member : Member, in : Nat, out : Nat, susp : Nat, first : Int, last : Int]

\* Everything of the current member has been decoded.
MemberDone == (cur = 0 /\ pos = 0) \/ (cur \in Member /\ pos = Len(content[cur]))

\* A pass that goes on has no failure, and it ends at the end of the last member.
Place ==
  /\ stage = "member" => failure = "none" /\ MemberDone
  /\ stage = "decode" => failure = "none" /\ cur \in Member /\ pos <= Len(content[cur])
  /\ stage = "close" /\ failure = "none" => cur = Members /\ MemberDone
  /\ stage \in {"persist", "mark"} => failure = "none" /\ cur = Members
  /\ stage = "mark" => todo \subseteq pending

\* The counts of the pass never fall below those at the member's start.
Shares ==
  /\ contribs \in Seq(Share)
  /\ before.in <= stats.in /\ before.out <= stats.out /\ before.susp <= stats.susp

\* The type invariant again, with its sets named.
Streams  == UNION {[1..n -> SUBSET Dest] : n \in 0..MaxRecords}
Contents == [Member -> Streams]
Stages   == {"idle", "member", "decode", "close", "persist", "mark", "commit",
             "committed", "dropped"}
Failures == {"none", "dead", "read", "encode", "malformed"}
Objects  == [Dest -> [begun : BOOLEAN, recs : Seq(Records)]]
Counts   == [Member -> Count]

Shape ==
  /\ content \in Contents /\ malformed \subseteq Member
  /\ stage \in Stages
  /\ pending \subseteq Dest /\ delivered \subseteq Dest /\ todo \subseteq Dest
  /\ tgt \in [Dest -> Tgt]
  /\ stats \in Stats /\ before \in Stats
  /\ cur \in 0..Members /\ pos \in Nat
  /\ suspended \subseteq Records \X Dest
  /\ failure \in Failures
  /\ objects \in Objects
  /\ bf \in Counts
  /\ attempts \in Nat /\ faults \in Nat

TypeInv == Shape /\ Place /\ Shares

LEMMA Shapes == Shape <=> TypeOK
  BY DEF Shape, TypeOK, Streams, Contents, Stages, Failures, Objects, Counts, Tgt, Stats

\* A member's content is a sequence of at most MaxRecords records.
LEMMA Content ==
  ASSUME Shape, NEW f \in Member
  PROVE  /\ content[f] \in Seq(SUBSET Dest) /\ Len(content[f]) \in 0..MaxRecords
         /\ DOMAIN content[f] = 1..Len(content[f])
         /\ \A k \in 1..Len(content[f]) : <<f, k>> \in Records /\ content[f][k] \subseteq Dest
  <1>1. PICK n \in 0..MaxRecords : content[f] \in [1..n -> SUBSET Dest]
    <2>1. content[f] \in Streams
      BY DEF Shape, Contents
    <2>2. QED
      BY <2>1 DEF Streams
  <1>2. n \in Nat
    BY <1>1, SessionAssumption
  <1>3. content[f] \in Seq(SUBSET Dest)
    BY <1>1, <1>2, SeqDef
  <1>4. Len(content[f]) \in Nat /\ DOMAIN content[f] = 1..Len(content[f])
    BY <1>3, LenProperties
  <1>5. Len(content[f]) = n
    BY <1>1, <1>2, <1>4
  <1>6. QED
    BY <1>1, <1>2, <1>3, <1>4, <1>5, SessionAssumption DEF Records

LEMMA MembersNat == Members \in Nat /\ Member \subseteq 1..Members /\ Member \subseteq Nat
  BY SessionAssumption DEF Member

LEMMA OfferedTo ==
  ASSUME NEW d \in Dest, tgt[d] \in Tgt, NEW rec \in Records, NEW can, NEW broke
  PROVE  LET t == tgt[d]
             o == Offered(d, rec, can, broke)
         IN /\ o \in Tgt
            /\ ~Live(d) => o = t
            /\ t.err => o.err
            /\ Live(d) /\ d \notin can => o.out = t.out /\ o.err = t.err
            /\ Live(d) /\ d \in can /\ d \in broke => o.err
            /\ Live(d) /\ d \in can /\ d \notin broke => o.out = Append(t.out, rec) /\ o.err = t.err
  <1>1. CASE ~Live(d)
    BY <1>1 DEF Offered
  <1>2. CASE Live(d) /\ d \notin can
    BY <1>2 DEF Offered, Tgt, Live
  <1>3. CASE Live(d) /\ d \in can /\ d \in broke
    BY <1>3 DEF Offered, Tgt, Live
  <1>4. CASE Live(d) /\ d \in can /\ d \notin broke
    <2>1. Append(tgt[d].out, rec) \in Seq(Records)
      BY AppendProperties DEF Tgt
    <2>2. QED
      BY <1>4, <2>1 DEF Offered, Tgt, Live
  <1>5. QED
    BY <1>1, <1>2, <1>3, <1>4

LEMMA CountedTo ==
  ASSUME stats \in Stats, NEW shaped, NEW wrote
  PROVE  LET now == Counted(shaped, wrote)
         IN /\ now \in Stats /\ now.in = stats.in + 1
            /\ now.out >= stats.out /\ now.susp >= stats.susp
            /\ ~GivesUp(shaped, wrote) /\ stats.in = stats.out + stats.susp
                 => now.in = now.out + now.susp
  <1> DEFINE now == Counted(shaped, wrote)
  <1>1. /\ stats.in \in Nat /\ stats.out \in Nat /\ stats.susp \in Nat /\ stats.index \in Nat
    BY DEF Stats
  <1>2. CASE wrote # {}
    <2> DEFINE e1 == [stats EXCEPT !.in = stats.in + 1]
               e2 == [e1 EXCEPT !.out = stats.out + 1]
               e3 == [e2 EXCEPT !.index = stats.index + 1]
    <2>1. now = e3
      BY <1>2, Zenon DEF Counted
    <2>2. e1 \in Stats /\ e1.in = stats.in + 1 /\ e1.out = stats.out /\ e1.susp = stats.susp
      BY <1>1 DEF Stats
    <2> HIDE DEF e1, now
    <2>3. e2 \in Stats /\ e2.in = e1.in /\ e2.out = stats.out + 1 /\ e2.susp = e1.susp
      BY <1>1, <2>2 DEF Stats
    <2> HIDE DEF e2
    <2>4. e3 \in Stats /\ e3.in = e2.in /\ e3.out = e2.out /\ e3.susp = e2.susp
      BY <1>1, <2>3 DEF Stats
    <2> HIDE DEF e3
    <2>5. now \in Stats /\ now.in = stats.in + 1 /\ now.out = stats.out + 1 /\ now.susp = stats.susp
      BY <2>1, <2>2, <2>3, <2>4
    <2>6. QED
      BY <1>1, <2>5 DEF now
  <1>3. CASE wrote = {} /\ shaped = {}
    <2> DEFINE e1 == [stats EXCEPT !.in = stats.in + 1]
               e2 == [e1 EXCEPT !.susp = stats.susp + 1]
    <2>1. now = e2
      BY <1>3, Zenon DEF Counted
    <2>2. e1 \in Stats /\ e1.in = stats.in + 1 /\ e1.out = stats.out
      BY <1>1 DEF Stats
    <2> HIDE DEF e1, now
    <2>3. e2 \in Stats /\ e2.in = e1.in /\ e2.out = e1.out /\ e2.susp = stats.susp + 1
      BY <1>1, <2>2 DEF Stats
    <2> HIDE DEF e2
    <2>4. now \in Stats /\ now.in = stats.in + 1 /\ now.out = stats.out /\ now.susp = stats.susp + 1
      BY <2>1, <2>2, <2>3
    <2>5. QED
      BY <1>1, <2>4 DEF now
  <1>4. CASE wrote = {} /\ shaped # {}
    <2>1. now = [stats EXCEPT !.in = stats.in + 1] /\ GivesUp(shaped, wrote)
      BY <1>4 DEF Counted, GivesUp
    <2>2. now \in Stats /\ now.in = stats.in + 1 /\ now.out = stats.out /\ now.susp = stats.susp
      BY <1>1, <2>1 DEF Stats
    <2>3. QED
      BY <1>1, <2>1, <2>2
  <1>5. QED
    BY <1>2, <1>3, <1>4

LEMMA ContributionIs ==
  ASSUME NEW f \in Member, NEW now \in Stats, NEW then \in Stats,
         then.in <= now.in, then.out <= now.out, then.susp <= now.susp
  PROVE  LET c == Contribution(f, now, then)
         IN /\ c \in Share /\ c.member = f /\ c.in = now.in - then.in
            /\ c.out = now.out - then.out /\ c.susp = now.susp - then.susp
  <1> DEFINE c  == Contribution(f, now, then)
             fi == IF now.out - then.out = 0 THEN 0 ELSE then.index
             la == IF now.out - then.out = 0 THEN -1 ELSE now.index - 1
  <1>1. c = [member |-> f, in |-> now.in - then.in, out |-> now.out - then.out,
             susp |-> now.susp - then.susp, first |-> fi, last |-> la]
    BY DEF Contribution
  <1>2. now.in - then.in \in Nat /\ now.out - then.out \in Nat /\ now.susp - then.susp \in Nat
    BY DEF Stats
  <1>3. fi \in Int /\ la \in Int
    BY DEF Stats
  <1> HIDE DEF c, fi, la
  <1>4. QED
    BY <1>1, <1>2, <1>3 DEF Share, c

LEMMA LeqChain ==
  ASSUME NEW a \in Stats, NEW b \in Stats, NEW c \in Stats,
         a.in <= b.in, a.out <= b.out, a.susp <= b.susp,
         c.in >= b.in, c.out >= b.out, c.susp >= b.susp
  PROVE  a.in <= c.in /\ a.out <= c.out /\ a.susp <= c.susp
  BY DEF Stats

LEMMA Contributes ==
  ASSUME TypeInv, cur \in Member, NEW now \in Stats,
         before.in <= now.in, before.out <= now.out, before.susp <= now.susp
  PROVE  Contribute(now) \in Seq(Share)
  <1>1. before \in Stats
    BY DEF TypeInv, Shape
  <1>2. Contribution(cur, now, before) \in Share
    BY <1>1, ContributionIs
  <1>3. QED
    BY <1>2, AppendProperties DEF Contribute, TypeInv, Shares

LEMMA ContributionsTyped ==
  ASSUME TypeInv, NEW f \in Member
  PROVE  LET c == ContributionOf(f, contribs)
         IN (\E i \in DOMAIN contribs : contribs[i].member = f) =>
              \E i \in DOMAIN contribs : c = contribs[i] /\ c.member = f /\ c \in Share
  <1>1. SUFFICES ASSUME \E i \in DOMAIN contribs : contribs[i].member = f
                 PROVE  \E i \in DOMAIN contribs :
                          /\ ContributionOf(f, contribs) = contribs[i]
                          /\ contribs[i].member = f /\ contribs[i] \in Share
    BY Zenon
  <1> DEFINE k == CHOOSE i \in DOMAIN contribs : contribs[i].member = f
  <1>2. k \in DOMAIN contribs /\ contribs[k].member = f
    BY <1>1
  <1>3. ContributionOf(f, contribs) = contribs[k]
    BY <1>1 DEF ContributionOf
  <1>4. contribs[k] \in Share
    BY <1>2, LenProperties, ElementOfSeq DEF TypeInv, Shares
  <1> HIDE DEF k
  <1>5. QED
    BY <1>2, <1>3, <1>4

-----------------------------------------------------------------------------
LEMMA TypeInit == Init => TypeInv
  <1>1. Init => Shape
    <2>1. Init => TypeOK
      BY SessionAssumption, EmptySeq DEF Init, TypeOK, NoStats, NoCounts, NoObject, Target, Count
    <2>2. QED
      BY <2>1, Shapes
  <1>2. Init => Place /\ Shares
    BY EmptySeq DEF Init, Place, Shares, MemberDone, NoStats
  <1>3. QED
    BY <1>1, <1>2 DEF TypeInv

LEMMA NewSessionType == ASSUME TypeInv, NewMultiSession PROVE TypeInv'
  <1>1. Shape'
    BY EmptySeq, SessionAssumption DEF TypeInv, Shape, NewMultiSession, fileVars, dbVars, Target,
       NoStats, Tgt, Stats, Stages, Failures
  <1>2. Place' /\ Shares'
    BY EmptySeq DEF NewMultiSession, Place, Shares, MemberDone, NoStats
  <1>3. QED
    BY <1>1, <1>2 DEF TypeInv

LEMMA OpenMemberType == ASSUME TypeInv, OpenMember PROVE TypeInv'
  <1>1. CASE NoneLeft
    <2>1. UNCHANGED <<vars, stage>> \/ (stage' = "close" /\ UNCHANGED <<before, cur, pos, failure, faults>>)
      BY <1>1 DEF OpenMember
    <2>2. cur = Members
      BY <1>1, SessionAssumption DEF NoneLeft, TypeInv, Shape
    <2>3. stage' = "close" /\ stage = "member" /\ UNCHANGED <<before, cur, pos, failure, faults,
            fileVars, dbVars, pending, tgt, stats, suspended, contribs, todo, pf, dc, attempts>>
      BY <1>1 DEF OpenMember
    <2>4. Shape'
      BY <2>3 DEF TypeInv, Shape, fileVars, dbVars, Stages
    <2>5. Place' /\ Shares'
      BY <2>2, <2>3 DEF TypeInv, Place, Shares, MemberDone, fileVars
    <2>6. QED
      BY <2>4, <2>5 DEF TypeInv
  <1>2. CASE ~NoneLeft
    <2>1. cur + 1 \in Member
      BY <1>2, SessionAssumption DEF NoneLeft, TypeInv, Shape, Member
    <2>2. UNCHANGED <<fileVars, dbVars, pending, tgt, stats, suspended, contribs, todo, pf, dc, attempts>>
      BY DEF OpenMember
    <2>3. CASE cur' = cur + 1 /\ pos' = 0 /\ before' = stats /\ stage' = "decode"
               /\ UNCHANGED <<failure, faults>>
      <3>1. Shape'
        BY <2>1, <2>2, <2>3, MembersNat DEF TypeInv, Shape, fileVars, dbVars, Stages, Member
      <3>2. Shares'
        BY <2>2, <2>3 DEF TypeInv, Shape, Shares, Stats
      <3>3. Place'
        BY <2>1, <2>2, <2>3, Content DEF TypeInv, Place, OpenMember, fileVars
      <3>4. QED
        BY <3>1, <3>2, <3>3 DEF TypeInv
    <2>4. CASE /\ \E why \in {"dead", "read"} : Stop(why)
               /\ UNCHANGED <<before, cur, pos>> /\ faults' \in {faults, faults + 1}
      <3>1. Shape'
        BY <2>2, <2>4 DEF TypeInv, Shape, fileVars, dbVars, Stop, Stages, Failures
      <3>2. Place' /\ Shares'
        BY <2>2, <2>4 DEF TypeInv, Place, Shares, Stop
      <3>3. QED
        BY <3>1, <3>2 DEF TypeInv
    <2>5. QED
      BY <1>2, <2>3, <2>4 DEF OpenMember
  <1>3. QED
    BY <1>1, <1>2

LEMMA EmitType == ASSUME TypeInv, Emit PROVE TypeInv'
  <1> DEFINE rec == <<cur, pos + 1>>
             can == content[cur][pos + 1]
             shaped == {d \in can : Live(d)}
  <1>1. PICK broke \in SUBSET shaped :
          LET wrote == shaped \ broke
              now   == Counted(shaped, wrote)
          IN /\ faults' = faults + Cardinality(broke)
             /\ faults + Cardinality(broke) <= MaxFaults
             /\ tgt' = [d \in Dest |-> Offered(d, rec, can, broke)]
             /\ suspended' = suspended \cup {<<rec, d>> : d \in {e \in Dest \ can : Live(e)}}
             /\ stats' = now
             /\ IF GivesUp(shaped, wrote)
                THEN Stop("encode") /\ contribs' = Contribute(now)
                ELSE UNCHANGED <<failure, stage, contribs>>
    BY DEF Emit
  <1> DEFINE wrote == shaped \ broke
             now   == Counted(shaped, wrote)
  <1>2. stage = "decode" /\ pos' = pos + 1 /\ pos < Len(content[cur])
        /\ UNCHANGED <<fileVars, dbVars, pending, before, cur, todo, pf, dc, attempts>>
    BY DEF Emit
  <1>3. cur \in Member /\ pos \in Nat /\ failure = "none" /\ stats \in Stats
    BY <1>2 DEF TypeInv, Shape, Place
  <1>4. /\ Len(content[cur]) \in Nat /\ rec \in Records /\ can \subseteq Dest
        /\ pos + 1 <= Len(content[cur])
    BY <1>2, <1>3, Content DEF TypeInv
  <1>5. IsFiniteSet(broke) /\ Cardinality(broke) \in Nat
    BY <1>4, SessionAssumption, FS_Subset, FS_CardinalityType
  <1>6. now \in Stats /\ now.in >= stats.in /\ now.out >= stats.out /\ now.susp >= stats.susp
    BY <1>3, CountedTo DEF Stats
  <1>7. \A d \in Dest : tgt'[d] \in Tgt
    BY <1>1, <1>4, OfferedTo DEF TypeInv, Shape
  <1> HIDE DEF rec, can, shaped, wrote, now
  <1>8. Contribute(now) \in Seq(Share)
    BY <1>3, <1>6, LeqChain, Contributes DEF TypeInv, Shares, Shape
  <1>9. /\ stats' = now /\ faults' = faults + Cardinality(broke)
        /\ suspended' = suspended \cup {<<rec, d>> : d \in {e \in Dest \ can : Live(e)}}
        /\ tgt' = [d \in Dest |-> Offered(d, rec, can, broke)]
        /\ \/ stage' = "close" /\ failure' = "encode" /\ contribs' = Contribute(now)
           \/ UNCHANGED <<failure, stage, contribs>>
    BY <1>1 DEF Stop, now, wrote
  <1>10. stats' \in Stats /\ faults' \in Nat /\ suspended' \subseteq Records \X Dest
    BY <1>4, <1>5, <1>6, <1>9 DEF TypeInv, Shape
  <1>11. tgt' \in [Dest -> Tgt]
    BY <1>7, <1>9
  <1>12. Shape'
    BY <1>2, <1>3, <1>9, <1>10, <1>11 DEF TypeInv, Shape, fileVars, dbVars, Stages, Failures
  <1>13. Shares'
    BY <1>2, <1>6, <1>8, <1>9, LeqChain DEF TypeInv, Shape, Shares
  <1>14. Place'
    BY <1>2, <1>3, <1>4, <1>9 DEF Place, fileVars
  <1>15. QED
    BY <1>12, <1>13, <1>14 DEF TypeInv

LEMMA StreamEndsType == ASSUME TypeInv, StreamEnds PROVE TypeInv'
  <1>1. /\ stage = "decode" /\ contribs' = Contribute(stats)
        /\ UNCHANGED <<fileVars, dbVars, pending, tgt, stats, before, cur, pos, suspended,
                       todo, pf, dc, attempts>>
    BY DEF StreamEnds
  <1>2. /\ faults' \in {faults, faults + 1}
        /\ \/ stage' = "member" /\ UNCHANGED failure /\ pos = Len(content[cur])
           \/ stage' = "close" /\ failure' \in {"malformed", "read"}
    BY DEF StreamEnds, Stop
  <1>3. Contribute(stats) \in Seq(Share)
    BY <1>1, Contributes DEF TypeInv, Shape, Place, Shares
  <1>4. Shape'
    BY <1>1, <1>2 DEF TypeInv, Shape, fileVars, dbVars, Stages, Failures
  <1>5. Place' /\ Shares'
    BY <1>1, <1>2, <1>3 DEF TypeInv, Place, Shares, MemberDone, fileVars
  <1>6. QED
    BY <1>4, <1>5 DEF TypeInv

LEMMA CloseType == ASSUME TypeInv, Close PROVE TypeInv'
  <1>1. PICK broke \in SUBSET {d \in Dest : Live(d)} :
          /\ faults' = faults + Cardinality(broke)
          /\ tgt' = [d \in Dest |->
                       IF d \in broke THEN [tgt[d] EXCEPT !.err = TRUE]
                       ELSE IF Live(d) THEN [tgt[d] EXCEPT !.started = TRUE] ELSE tgt[d]]
          /\ objects' = [d \in Dest |->
                       IF Publishes(d) /\ d \notin broke
                       THEN [begun |-> TRUE, recs |-> tgt[d].out] ELSE objects[d]]
    BY DEF Close
  <1>2. /\ stage = "close"
        /\ UNCHANGED <<fileVars, pending, stats, before, cur, pos, suspended, contribs,
                       failure, delivered, todo, bf, pf, dc, attempts>>
        /\ stage' = CASE failure = "none"      -> "persist"
                      [] failure = "malformed" -> "dropped"
                      [] OTHER                 -> "idle"
    BY DEF Close
  <1>3. /\ stage' \in {"persist", "dropped", "idle"}
        /\ stage' = "persist" => failure = "none"
    BY <1>2
  <1>4. Cardinality(broke) \in Nat
    BY SessionAssumption, FS_Subset, FS_CardinalityType
  <1>5. tgt' \in [Dest -> Tgt]
    BY <1>1 DEF TypeInv, Shape, Tgt
  <1>6. objects' \in Objects
    BY <1>1 DEF TypeInv, Shape, Objects, Tgt
  <1>7. faults' \in Nat
    BY <1>1, <1>4 DEF TypeInv, Shape
  <1>8. Shape'
    BY <1>2, <1>3, <1>5, <1>6, <1>7 DEF TypeInv, Shape, fileVars, Stages
  <1>9. Place' /\ Shares'
    BY <1>2, <1>3 DEF TypeInv, Place, Shares
  <1>10. QED
    BY <1>8, <1>9 DEF TypeInv

LEMMA PersistType == ASSUME TypeInv, RecordBatchContributions PROVE TypeInv'
  <1>1. /\ stage = "persist" /\ stage' = "mark" /\ todo' = pending
        /\ UNCHANGED <<fileVars, sessVars, objects, delivered, pf, dc, attempts, faults>>
    BY DEF RecordBatchContributions
  <1>2. ASSUME NEW f \in Member
        PROVE  bf'[f] \in Count
    <2>1. CASE \E i \in DOMAIN contribs : contribs[i].member = f
      <3>1. ContributionOf(f, contribs) \in Share
        BY <2>1, ContributionsTyped
      <3>2. bf'[f] = [in |-> ContributionOf(f, contribs).in, out |-> ContributionOf(f, contribs).out,
                      susp |-> ContributionOf(f, contribs).susp]
        BY <2>1 DEF RecordBatchContributions
      <3>3. QED
        BY <3>1, <3>2 DEF Share, Count
    <2>2. CASE ~\E i \in DOMAIN contribs : contribs[i].member = f
      BY <2>2 DEF RecordBatchContributions, TypeInv, Shape, Counts
    <2>3. QED
      BY <2>1, <2>2
  <1>3. bf' \in Counts
    BY <1>2 DEF RecordBatchContributions, Counts
  <1>4. Shape'
    BY <1>1, <1>3 DEF TypeInv, Shape, fileVars, sessVars, Stages
  <1>5. Place' /\ Shares'
    BY <1>1 DEF TypeInv, Place, Shares, sessVars
  <1>6. QED
    BY <1>4, <1>5 DEF TypeInv

\* The steps at the end of an attempt, and the ones that cut it short.
LEMMA RestType ==
  ASSUME TypeInv, \/ MarkDelivery \/ AllMarked \/ CloseBatch \/ Interrupted \/ UNCHANGED vars
  PROVE  TypeInv'
  <1>1. CASE MarkDelivery
    <2>1. /\ stage = "mark" /\ todo' \subseteq todo /\ delivered' \subseteq delivered \cup todo
          /\ UNCHANGED <<fileVars, sessVars, objects, stage, bf, pf, dc, attempts, faults>>
      BY <1>1 DEF MarkDelivery
    <2>2. QED
      BY <2>1 DEF TypeInv, Shape, Place, Shares, MemberDone, fileVars, sessVars
  <1>2. CASE AllMarked \/ CloseBatch \/ Interrupted
    <2>1. /\ stage' \in {"commit", "idle", "committed"}
          /\ UNCHANGED <<fileVars, sessVars, dbVars, todo, attempts>>
          /\ faults' \in {faults, faults + 1}
      BY <1>2 DEF AllMarked, CloseBatch, Interrupted
    <2>2. Shape'
      BY <2>1 DEF TypeInv, Shape, fileVars, sessVars, dbVars, Stages
    <2>3. Place' /\ Shares'
      BY <2>1 DEF TypeInv, Place, Shares, fileVars, sessVars
    <2>4. QED
      BY <2>2, <2>3 DEF TypeInv
  <1>3. CASE UNCHANGED vars
    BY <1>3 DEF vars, TypeInv, Shape, Place, Shares, MemberDone, fileVars, sessVars
  <1>4. QED
    BY <1>1, <1>2, <1>3

LEMMA TypeStep == TypeInv /\ [Next]_vars => TypeInv'
  BY NewSessionType, OpenMemberType, EmitType, StreamEndsType, CloseType, PersistType, RestType
  DEF Next

LEMMA Typed == Spec => []TypeInv
  BY TypeInit, TypeStep, PTL DEF Spec

\* The counters, records, rows and objects of a session keep their types.
THEOREM TypeCorrect == Spec => []TypeOK
  <1>1. TypeInv => TypeOK
    BY Shapes DEF TypeInv
  <1>2. QED
    BY <1>1, Typed, PTL

-----------------------------------------------------------------------------
(* One failing destination.                                                *)

EmitWith(broke, rec, can, wrote, shaped) ==
  /\ tgt' = [d \in Dest |-> Offered(d, rec, can, broke)]
  /\ suspended' = suspended \cup {<<rec, d>> : d \in {e \in Dest \ can : Live(e)}}
  /\ stats' = Counted(shaped, wrote)
  /\ IF GivesUp(shaped, wrote)
     THEN Stop("encode") /\ contribs' = Contribute(Counted(shaped, wrote))
     ELSE UNCHANGED <<failure, stage, contribs>>

\* Emit, taken apart.
LEMMA EmitParts ==
  ASSUME TypeInv, Emit
  PROVE  \E can, shaped, broke \in SUBSET Dest :
           /\ broke \subseteq shaped /\ can = content[cur][pos + 1] /\ shaped = {d \in can : Live(d)}
           /\ EmitWith(broke, <<cur, pos + 1>>, can, shaped \ broke, shaped)
           /\ stage = "decode" /\ failure = "none" /\ cur \in Member /\ pos \in Nat
           /\ pos' = pos + 1 /\ pos + 1 \in 1..Len(content[cur]) /\ <<cur, pos + 1>> \in Records
           /\ UNCHANGED <<fileVars, dbVars, pending, before, cur, todo, pf, dc, attempts>>
  <1> DEFINE can == content[cur][pos + 1]
             shaped == {d \in can : Live(d)}
  <1>1. stage = "decode" /\ failure = "none" /\ cur \in Member /\ pos \in Nat
    BY DEF Emit, TypeInv, Shape, Place
  <1>2. pos + 1 \in 1..Len(content[cur]) /\ <<cur, pos + 1>> \in Records /\ can \in SUBSET Dest
    BY <1>1, Content DEF Emit, TypeInv
  <1>3. PICK broke \in SUBSET shaped :
          EmitWith(broke, <<cur, pos + 1>>, can, shaped \ broke, shaped)
    BY DEF Emit, EmitWith
  <1>4. /\ pos' = pos + 1
        /\ UNCHANGED <<fileVars, dbVars, pending, before, cur, todo, pf, dc, attempts>>
    BY DEF Emit
  <1>5. shaped \in SUBSET Dest /\ broke \in SUBSET Dest
    BY <1>2
  <1> HIDE DEF can, shaped
  <1>6. can = content[cur][pos + 1] /\ shaped = {d \in can : Live(d)}
    BY DEF can, shaped
  <1>7. QED
    BY <1>1, <1>2, <1>3, <1>4, <1>5, <1>6

LEMMA DownStep ==
  ASSUME TypeInv, StopsWhenAllDown, [Next]_vars
  PROVE  StopsWhenAllDown'
  <1>1. CASE NewMultiSession
    BY <1>1 DEF NewMultiSession, StopsWhenAllDown
  <1>2. CASE OpenMember
    <2>1. UNCHANGED <<content, pending, tgt>> /\ pending \subseteq Dest
      BY <1>2 DEF OpenMember, fileVars, TypeInv, Shape
    <2>2. \/ failure' = "dead" /\ \A d \in Dest : ~Live(d)
          \/ failure' = "read"
          \/ UNCHANGED failure
      BY <1>2 DEF OpenMember, Stop
    <2>3. QED
      BY <2>1, <2>2 DEF StopsWhenAllDown, Uniform, Live
  <1>3. CASE Emit
    <2>1. PICK can, shaped, broke \in SUBSET Dest :
            /\ broke \subseteq shaped /\ can = content[cur][pos + 1] /\ shaped = {d \in can : Live(d)}
            /\ EmitWith(broke, <<cur, pos + 1>>, can, shaped \ broke, shaped)
            /\ failure = "none" /\ cur \in Member /\ pos + 1 \in 1..Len(content[cur])
            /\ <<cur, pos + 1>> \in Records
            /\ UNCHANGED <<fileVars, pending>>
      BY <1>3, EmitParts
    <2>2. SUFFICES ASSUME failure' \in {"encode", "dead"}, Uniform', NEW d \in pending
                   PROVE  tgt'[d].err
      BY <2>1 DEF StopsWhenAllDown
    <2>3. d \in Dest /\ tgt[d] \in Tgt /\ pending \subseteq Dest
      BY DEF TypeInv, Shape
    <2>4. shaped # {} /\ shaped \ broke = {}
      BY <2>1, <2>2 DEF EmitWith, GivesUp
    <2>5. pos + 1 \in DOMAIN content[cur]
      BY <2>1, Content DEF TypeInv
    <2>6. can = Dest
      BY <2>1, <2>2, <2>4, <2>5 DEF Uniform, fileVars
    <2>7. Live(d) => d \in broke
      BY <2>1, <2>3, <2>4, <2>6
    <2>8. ~Live(d) => tgt[d].err
      BY <2>3 DEF Live, Tgt
    <2>9. tgt'[d] = Offered(d, <<cur, pos + 1>>, can, broke)
      BY <2>1, <2>3 DEF EmitWith
    <2>10. QED
      BY <2>1, <2>3, <2>6, <2>7, <2>8, <2>9, OfferedTo
  <1>4. CASE StreamEnds
    BY <1>4 DEF StreamEnds, Stop, StopsWhenAllDown, Uniform, fileVars, TypeInv, Place
  <1>5. CASE Close
    <2>1. UNCHANGED <<content, pending, failure>>
      BY <1>5 DEF Close, fileVars
    <2>2. \A d \in Dest : tgt[d].err => tgt'[d].err
      BY <1>5 DEF Close, Live, TypeInv, Shape
    <2>3. pending \subseteq Dest
      BY DEF TypeInv, Shape
    <2>4. QED
      BY <2>1, <2>2, <2>3 DEF StopsWhenAllDown, Uniform
  <1>6. CASE UNCHANGED <<content, pending, failure, tgt>>
    BY <1>6 DEF StopsWhenAllDown, Uniform
  <1>7. QED
    BY <1>1, <1>2, <1>3, <1>4, <1>5, <1>6
    DEF Next, vars, RecordBatchContributions, MarkDelivery, AllMarked, CloseBatch, Interrupted,
        sessVars, fileVars

\* When destinations agree on what can be shaped, a pass gives up for the writers' sake
\* only once every one of them is down (emit, consumeMembers).
THEOREM OneFailureSparesOthers == Spec => []StopsWhenAllDown
  <1>1. Init => StopsWhenAllDown
    BY DEF Init, StopsWhenAllDown
  <1>2. QED
    BY <1>1, DownStep, Typed, PTL DEF Spec

\* Nothing is marked for a destination that already holds the batch.
Marking ==
  /\ stage \in {"member", "decode", "close", "persist"} => pending \cap delivered = {}
  /\ stage = "mark" =>
       /\ todo \cap delivered = {}
       /\ \A d \in pending \ todo : d \in delivered <=> ~tgt[d].err

LEMMA MarkingStep ==
  ASSUME TypeInv, Marking, [Next]_vars
  PROVE  Marking'
  <1>1. CASE NewMultiSession
    BY <1>1 DEF NewMultiSession, Marking, dbVars
  <1>2. CASE OpenMember
    BY <1>2 DEF OpenMember, Stop, Marking, dbVars
  <1>3. CASE Emit
    <2>1. UNCHANGED <<pending, delivered>> /\ stage = "decode" /\ stage' \in {"decode", "close"}
      BY <1>3, EmitParts DEF EmitWith, Stop, dbVars
    <2>2. QED
      BY <2>1 DEF Marking
  <1>4. CASE StreamEnds
    BY <1>4 DEF StreamEnds, Stop, Marking, dbVars
  <1>5. CASE Close
    BY <1>5 DEF Close, Marking
  <1>6. CASE RecordBatchContributions
    BY <1>6 DEF RecordBatchContributions, Marking, sessVars
  <1>7. CASE MarkDelivery
    BY <1>7 DEF MarkDelivery, Wrote, Marking, sessVars, TypeInv, Place
  <1>8. CASE AllMarked \/ CloseBatch \/ Interrupted
    BY <1>8 DEF AllMarked, CloseBatch, Interrupted, Marking
  <1>9. CASE UNCHANGED vars
    BY <1>9 DEF vars, Marking
  <1>10. QED
    BY <1>1, <1>2, <1>3, <1>4, <1>5, <1>6, <1>7, <1>8, <1>9 DEF Next

LEMMA Healthy ==
  ASSUME TypeInv, Marking, [Next]_vars
  PROVE  /\ delivered \subseteq delivered'
         /\ (stage = "mark" /\ stage' \in {"commit", "idle"} /\ faults' = faults)
              => \A d \in pending : d \in delivered' <=> ~tgt[d].err
  <1>1. delivered \subseteq delivered'
    BY EmitParts
    DEF Next, vars, NewMultiSession, OpenMember, StreamEnds, Close, RecordBatchContributions,
        MarkDelivery, AllMarked, CloseBatch, Interrupted, dbVars, sessVars
  <1>2. ASSUME stage = "mark", stage' \in {"commit", "idle"}, faults' = faults
        PROVE  AllMarked
    <2>1. faults \in Nat
      BY DEF TypeInv, Shape
    <2>2. QED
      BY <1>2, <2>1
      DEF Next, vars, NewMultiSession, OpenMember, Emit, StreamEnds, Close,
          RecordBatchContributions, MarkDelivery, CloseBatch, Interrupted
  <1>3. AllMarked => \A d \in pending : d \in delivered' <=> ~tgt[d].err
    BY DEF AllMarked, Marking, dbVars
  <1>4. QED
    BY <1>1, <1>2, <1>3

\* What a pass delivers to a healthy destination is not held back by failing ones, and
\* a delivery is never taken back (MarkDelivered, MarkDeliveryFailed).
THEOREM HealthyAreDelivered == Spec => HealthyDelivered
  <1>1. Init => Marking
    BY DEF Init, Marking
  <1>2. TypeInv /\ Marking /\ [Next]_vars
          => [/\ delivered \subseteq delivered'
              /\ (stage = "mark" /\ stage' \in {"commit", "idle"} /\ faults' = faults)
                   => \A d \in pending : d \in delivered' <=> ~tgt[d].err]_vars
    BY Healthy
  <1>3. QED
    BY <1>1, <1>2, MarkingStep, Typed, PTL DEF Spec, HealthyDelivered

-----------------------------------------------------------------------------
(* Whole objects.  What a healthy target holds is always a list of exactly  *)
(* the records decoded so far that its destination can shape.              *)

Lists(s, R) ==
  /\ s \in Seq(Records)
  /\ \A i \in 1..Len(s) : s[i] \in R
  /\ \A r \in R : \E i \in 1..Len(s) : s[i] = r
  /\ \A i, j \in 1..Len(s) : i < j => Before(s[i], s[j])

LEMMA RecordIs ==
  ASSUME NEW r \in Records
  PROVE  r = <<r[1], r[2]>> /\ r[1] \in Member /\ r[2] \in 1..MaxRecords
  BY DEF Records

LEMMA NoneListed == Lists(<< >>, {})
  BY EmptySeq DEF Lists

LEMMA AppendLists ==
  ASSUME NEW s, NEW R, Lists(s, R), NEW r \in Records, \A x \in R : Before(x, r)
  PROVE  Lists(Append(s, r), R \cup {r})
  <1> DEFINE t == Append(s, r)
  <1>1. s \in Seq(Records) /\ Len(s) \in Nat
    BY LenProperties DEF Lists
  <1>2. /\ t \in Seq(Records) /\ Len(t) = Len(s) + 1 /\ t[Len(s) + 1] = r
        /\ \A i \in 1..Len(s) : t[i] = s[i]
    BY <1>1, AppendProperties
  <1> HIDE DEF t
  <1>3. \A i \in 1..Len(t) : i \in 1..Len(s) \/ i = Len(s) + 1
    BY <1>1, <1>2
  <1>4. \A i \in 1..Len(t) : t[i] \in R \cup {r}
    BY <1>2, <1>3 DEF Lists
  <1>5. \A x \in R \cup {r} : \E i \in 1..Len(t) : t[i] = x
    <2>1. \A i \in 1..Len(s) : i \in 1..Len(t)
      BY <1>1, <1>2
    <2>2. Len(s) + 1 \in 1..Len(t)
      BY <1>1, <1>2
    <2>3. QED
      BY <1>2, <2>1, <2>2 DEF Lists
  <1>6. ASSUME NEW i \in 1..Len(t), NEW j \in 1..Len(t), i < j
        PROVE  Before(t[i], t[j])
    <2>1. i \in 1..Len(s)
      BY <1>1, <1>2, <1>6
    <2>2. CASE j \in 1..Len(s)
      BY <1>2, <1>6, <2>1, <2>2 DEF Lists
    <2>3. CASE j = Len(s) + 1
      BY <1>2, <2>1, <2>3 DEF Lists
    <2>4. QED
      BY <1>3, <2>2, <2>3
  <1>7. QED
    BY <1>2, <1>4, <1>5, <1>6 DEF Lists, t

\* The records of a destination among those decoded so far.
Upto(d) == {r \in Shapeable(d) : r[1] < cur \/ (r[1] = cur /\ r[2] <= pos)}

LEMMA ShapeableIs ==
  ASSUME TypeInv, NEW d \in Dest, NEW r \in Shapeable(d)
  PROVE  /\ r = <<r[1], r[2]>> /\ r[1] \in Member /\ r[1] \in Nat /\ r[1] <= Members
         /\ r[2] \in 1..Len(content[r[1]]) /\ r[2] \in Nat /\ Len(content[r[1]]) \in Nat
         /\ d \in content[r[1]][r[2]]
  <1>1. r \in Records /\ r[2] \in DOMAIN content[r[1]] /\ d \in content[r[1]][r[2]]
    BY DEF Shapeable
  <1>2. r = <<r[1], r[2]>> /\ r[1] \in Member
    BY <1>1, RecordIs
  <1>3. /\ DOMAIN content[r[1]] = 1..Len(content[r[1]]) /\ Len(content[r[1]]) \in Nat
    BY <1>2, Content, SessionAssumption DEF TypeInv
  <1>4. r[1] \in Nat /\ r[1] <= Members
    BY <1>2, SessionAssumption DEF Member
  <1>5. QED
    BY <1>1, <1>2, <1>3, <1>4

LEMMA UptoOpen ==
  ASSUME TypeInv, NEW d \in Dest, MemberDone, cur' = cur + 1, pos' = 0, UNCHANGED content
  PROVE  Upto(d)' = Upto(d)
  <1>1. Shapeable(d)' = Shapeable(d)
    BY DEF Shapeable
  <1>2. ASSUME NEW r \in Shapeable(d)
        PROVE  (r[1] < cur' \/ (r[1] = cur' /\ r[2] <= pos'))
                 <=> (r[1] < cur \/ (r[1] = cur /\ r[2] <= pos))
    <2>1. cur \in Nat /\ r[1] \in Nat /\ r[2] \in Nat /\ r[2] >= 1
      BY <1>2, ShapeableIs, SessionAssumption DEF TypeInv, Shape
    <2>2. r[1] = cur => r[2] <= pos
      BY <1>2, ShapeableIs, MembersNat DEF MemberDone, Member
    <2>3. QED
      BY <2>1, <2>2
  <1>3. QED
    BY <1>1, <1>2 DEF Upto

LEMMA UptoEmit ==
  ASSUME TypeInv, NEW d \in Dest, cur \in Member, pos + 1 \in 1..Len(content[cur]),
         <<cur, pos + 1>> \in Records, pos' = pos + 1, UNCHANGED <<cur, content>>
  PROVE  /\ \A x \in Upto(d) : Before(x, <<cur, pos + 1>>)
         /\ d \in content[cur][pos + 1] => Upto(d)' = Upto(d) \cup {<<cur, pos + 1>>}
         /\ d \notin content[cur][pos + 1] => Upto(d)' = Upto(d)
  <1> DEFINE rec == <<cur, pos + 1>>
  <1>1. Shapeable(d)' = Shapeable(d)
    BY DEF Shapeable
  <1>2. cur \in Nat /\ pos \in Nat
    BY SessionAssumption DEF TypeInv, Shape
  <1>3. ASSUME NEW r \in Shapeable(d)
        PROVE  (r[1] < cur' \/ (r[1] = cur' /\ r[2] <= pos'))
                 <=> (r[1] < cur \/ (r[1] = cur /\ r[2] <= pos)) \/ r = rec
    <2>1. r[1] \in Nat /\ r[2] \in Nat /\ r = <<r[1], r[2]>>
      BY <1>3, ShapeableIs
    <2>2. r = rec <=> r[1] = cur /\ r[2] = pos + 1
      BY <2>1
    <2>3. QED
      BY <1>2, <2>1, <2>2
  <1>4. rec \in Shapeable(d) <=> d \in content[cur][pos + 1]
    <2>1. pos + 1 \in DOMAIN content[cur]
      BY Content DEF TypeInv
    <2>2. rec[1] = cur /\ rec[2] = pos + 1
      OBVIOUS
    <2>3. QED
      BY <2>1, <2>2 DEF Shapeable
  <1>5. \A x \in Upto(d) : Before(x, rec)
    <2>1. ASSUME NEW x \in Upto(d)
          PROVE  x[1] < cur \/ (x[1] = cur /\ x[2] < pos + 1)
      <3>1. x \in Shapeable(d) /\ (x[1] < cur \/ (x[1] = cur /\ x[2] <= pos))
        BY DEF Upto
      <3>2. x[2] \in Nat
        BY <3>1, ShapeableIs
      <3>3. QED
        BY <1>2, <3>1, <3>2
    <2>2. QED
      BY <2>1 DEF Before
  <1>6. Upto(d)' = Upto(d) \cup ({rec} \cap Shapeable(d))
    BY <1>1, <1>3 DEF Upto
  <1> HIDE DEF rec
  <1>7. QED
    BY <1>4, <1>5, <1>6 DEF rec

LEMMA UptoEnd ==
  ASSUME TypeInv, NEW d \in Dest, cur = Members, MemberDone
  PROVE  Upto(d) = Shapeable(d)
  <1>1. ASSUME NEW r \in Shapeable(d)
        PROVE  r[1] < cur \/ (r[1] = cur /\ r[2] <= pos)
    <2>1. r[1] \in Nat /\ r[1] <= cur /\ r[2] \in Nat /\ r[1] \in Member
          /\ r[2] <= Len(content[r[1]])
      BY <1>1, ShapeableIs
    <2>2. r[1] = cur => r[2] <= pos
      BY <2>1, SessionAssumption DEF MemberDone, Member
    <2>3. QED
      BY <2>1, <2>2, SessionAssumption
  <1>2. QED
    BY <1>1 DEF Upto

Streaming == stage \in {"member", "decode"} \/ (stage = "close" /\ failure = "none")

Listed == Streaming => \A d \in Dest : Live(d) => Lists(tgt[d].out, Upto(d))

Published ==
  /\ \A d \in Dest : objects[d].begun => Lists(objects[d].recs, Shapeable(d))
  /\ \A d \in delivered : objects[d].begun
  /\ stage \in {"persist", "mark"} => \A d \in pending : ~tgt[d].err => objects[d].begun

LEMMA ListedEmit ==
  ASSUME TypeInv, Listed, Emit
  PROVE  Listed'
  <1>1. PICK can, shaped, broke \in SUBSET Dest :
          /\ broke \subseteq shaped /\ can = content[cur][pos + 1] /\ shaped = {d \in can : Live(d)}
          /\ EmitWith(broke, <<cur, pos + 1>>, can, shaped \ broke, shaped)
          /\ stage = "decode" /\ failure = "none" /\ cur \in Member /\ pos \in Nat
          /\ pos' = pos + 1 /\ pos + 1 \in 1..Len(content[cur]) /\ <<cur, pos + 1>> \in Records
          /\ UNCHANGED <<fileVars, dbVars, pending, before, cur, todo, pf, dc, attempts>>
    BY EmitParts
  <1> DEFINE rec == <<cur, pos + 1>>
  <1>2. SUFFICES ASSUME NEW d \in Dest, Live(d)'
                 PROVE  Lists(tgt'[d].out, Upto(d)')
    BY DEF Listed
  <1>3. tgt[d] \in Tgt /\ tgt'[d] = Offered(d, rec, can, broke)
    BY <1>1 DEF EmitWith, TypeInv, Shape
  <1> HIDE DEF rec
  <1>4. rec \in Records /\ UNCHANGED <<pending, cur, content>>
    BY <1>1 DEF rec, fileVars
  <1>5. Live(d)
    BY <1>2, <1>3, <1>4, OfferedTo DEF Live
  <1>6. Lists(tgt[d].out, Upto(d))
    BY <1>1, <1>5 DEF Listed, Streaming
  <1>7. CASE d \notin can
    <2>1. tgt'[d].out = tgt[d].out
      BY <1>3, <1>4, <1>5, <1>7, OfferedTo
    <2>2. Upto(d)' = Upto(d)
      BY <1>1, <1>4, <1>7, UptoEmit
    <2>3. QED
      BY <1>6, <2>1, <2>2
  <1>8. CASE d \in can
    <2>1. d \notin broke
      BY <1>2, <1>3, <1>4, <1>5, <1>8, OfferedTo DEF Live
    <2>2. tgt'[d].out = Append(tgt[d].out, rec)
      BY <1>3, <1>4, <1>5, <1>8, <2>1, OfferedTo
    <2>3. Upto(d)' = Upto(d) \cup {rec} /\ \A x \in Upto(d) : Before(x, rec)
      BY <1>1, <1>4, <1>8, UptoEmit DEF rec
    <2>4. QED
      BY <1>4, <1>6, <2>2, <2>3, AppendLists
  <1>9. QED
    BY <1>7, <1>8

LEMMA ListedStep ==
  ASSUME TypeInv, Listed, [Next]_vars
  PROVE  Listed'
  <1>1. CASE NewMultiSession
    <2>1. cur' = 0 /\ pos' = 0 /\ tgt' = [d \in Dest |-> Target]
      BY <1>1 DEF NewMultiSession
    <2>2. \A d \in Dest : tgt'[d].out = << >>
      BY <2>1 DEF Target
    <2>3. UNCHANGED content
      BY <1>1 DEF NewMultiSession, fileVars
    <2>4. \A d \in Dest : Upto(d)' = {}
      <3>1. \A d \in Dest : Shapeable(d)' = Shapeable(d)
        BY <2>3 DEF Shapeable
      <3>2. \A d \in Dest : \A r \in Shapeable(d) : r[1] \in Nat /\ r[1] # 0
        BY ShapeableIs DEF Member
      <3>3. QED
        BY <2>1, <3>1, <3>2 DEF Upto
    <2>5. QED
      BY <2>2, <2>4, NoneListed DEF Listed
  <1>2. CASE OpenMember
    <2>1. UNCHANGED <<content, pending, tgt>> /\ stage = "member" /\ MemberDone
      BY <1>2 DEF OpenMember, fileVars, TypeInv, Place
    <2>2. \A d \in Dest : Live(d)' <=> Live(d)
      BY <2>1 DEF Live
    <2>3. UNCHANGED <<cur, pos>> \/ (cur' = cur + 1 /\ pos' = 0)
      BY <1>2 DEF OpenMember
    <2>4. \A d \in Dest : Upto(d)' = Upto(d)
      <3>1. CASE UNCHANGED <<cur, pos>>
        BY <2>1, <3>1 DEF Upto, Shapeable
      <3>2. CASE cur' = cur + 1 /\ pos' = 0
        BY <2>1, <3>2, UptoOpen
      <3>3. QED
        BY <2>3, <3>1, <3>2
    <2>5. QED
      BY <2>1, <2>2, <2>4 DEF Listed, Streaming
  <1>3. CASE Emit
    BY <1>3, ListedEmit
  <1>4. CASE StreamEnds
    <2>1. UNCHANGED <<content, pending, tgt, cur, pos>> /\ stage = "decode"
      BY <1>4 DEF StreamEnds, fileVars
    <2>2. QED
      BY <2>1 DEF Listed, Streaming, Live, Upto, Shapeable
  <1>5. CASE UNCHANGED vars
    BY <1>5 DEF vars, Listed, Streaming, Live, Upto, Shapeable
  <1>6. CASE Close \/ RecordBatchContributions \/ MarkDelivery \/ AllMarked \/ CloseBatch
             \/ Interrupted
    <2>1. stage' \notin {"member", "decode", "close"}
      BY <1>6 DEF Close, RecordBatchContributions, MarkDelivery, AllMarked, CloseBatch, Interrupted
    <2>2. QED
      BY <2>1 DEF Listed, Streaming
  <1>7. QED
    BY <1>1, <1>2, <1>3, <1>4, <1>5, <1>6 DEF Next

LEMMA PublishedClose ==
  ASSUME TypeInv, Listed, Published, Close
  PROVE  Published'
  <1>1. PICK broke \in SUBSET {d \in Dest : Live(d)} :
          /\ tgt' = [d \in Dest |->
                       IF d \in broke THEN [tgt[d] EXCEPT !.err = TRUE]
                       ELSE IF Live(d) THEN [tgt[d] EXCEPT !.started = TRUE] ELSE tgt[d]]
          /\ objects' = [d \in Dest |->
                       IF Publishes(d) /\ d \notin broke
                       THEN [begun |-> TRUE, recs |-> tgt[d].out] ELSE objects[d]]
    BY DEF Close
  <1>2. /\ stage = "close" /\ UNCHANGED <<content, pending, delivered>>
        /\ stage' \in {"persist", "dropped", "idle"} /\ (stage' = "persist" => failure = "none")
    BY DEF Close, fileVars
  <1>3. \A d \in Dest : Shapeable(d)' = Shapeable(d)
    BY <1>2 DEF Shapeable
  <1>4. ASSUME NEW d \in Dest, Publishes(d), d \notin broke
        PROVE  objects'[d].begun /\ Lists(objects'[d].recs, Shapeable(d))
    <2>1. failure = "none" /\ Live(d)
      BY <1>4 DEF Publishes
    <2>2. Lists(tgt[d].out, Upto(d)) /\ Upto(d) = Shapeable(d)
      BY <1>2, <2>1, UptoEnd DEF Listed, Streaming, TypeInv, Place
    <2>3. objects'[d] = [begun |-> TRUE, recs |-> tgt[d].out]
      BY <1>1, <1>4
    <2>4. QED
      BY <2>2, <2>3
  <1>5. ASSUME NEW d \in Dest, ~(Publishes(d) /\ d \notin broke)
        PROVE  objects'[d] = objects[d]
    BY <1>1, <1>5
  <1>6. ASSUME NEW d \in pending, ~tgt'[d].err, stage' = "persist"
        PROVE  objects'[d].begun
    <2>1. d \in Dest /\ tgt[d] \in Tgt
      BY <1>6 DEF TypeInv, Shape
    <2>2. d \notin broke
      BY <1>1, <1>6, <2>1 DEF Tgt
    <2>3. ~tgt[d].err
      BY <1>1, <1>6, <2>1, <2>2 DEF Tgt, Live
    <2>4. Publishes(d)
      BY <1>2, <1>6, <2>3 DEF Publishes, Live
    <2>5. QED
      BY <1>4, <2>1, <2>2, <2>4
  <1>7. delivered \subseteq Dest
    BY DEF TypeInv, Shape
  <1>8. \A d \in Dest : objects'[d].begun => Lists(objects'[d].recs, Shapeable(d)')
    BY <1>3, <1>4, <1>5 DEF Published
  <1>9. \A d \in delivered' : objects'[d].begun
    BY <1>2, <1>4, <1>5, <1>7 DEF Published
  <1>10. QED
    BY <1>2, <1>6, <1>8, <1>9 DEF Published

LEMMA PublishedStep ==
  ASSUME TypeInv, Listed, Published, [Next]_vars
  PROVE  Published'
  <1>1. CASE NewMultiSession
    <2>1. UNCHANGED <<content, objects, delivered>> /\ stage' \in {"commit", "member"}
      BY <1>1 DEF NewMultiSession, fileVars, dbVars
    <2>2. QED
      BY <2>1 DEF Published, Shapeable
  <1>2. CASE OpenMember
    <2>1. UNCHANGED <<content, objects, delivered>> /\ stage' \in {"close", "decode"}
      BY <1>2 DEF OpenMember, Stop, fileVars, dbVars
    <2>2. QED
      BY <2>1 DEF Published, Shapeable
  <1>3. CASE Emit
    <2>1. UNCHANGED <<content, objects, delivered>> /\ stage' \in {"close", "decode"}
      BY <1>3, EmitParts DEF EmitWith, Stop, fileVars, dbVars
    <2>2. QED
      BY <2>1 DEF Published, Shapeable
  <1>4. CASE StreamEnds
    <2>1. UNCHANGED <<content, objects, delivered>> /\ stage' \in {"close", "member"}
      BY <1>4 DEF StreamEnds, Stop, fileVars, dbVars
    <2>2. QED
      BY <2>1 DEF Published, Shapeable
  <1>5. CASE RecordBatchContributions
    <2>1. UNCHANGED <<content, objects, delivered, pending, tgt>> /\ stage = "persist"
      BY <1>5 DEF RecordBatchContributions, fileVars, sessVars
    <2>2. QED
      BY <2>1 DEF Published, Shapeable
  <1>6. CASE MarkDelivery
    <2>1. UNCHANGED <<content, objects, pending, tgt, stage>> /\ stage = "mark"
      BY <1>6 DEF MarkDelivery, fileVars, sessVars
    <2>2. \A d \in delivered' : d \in delivered \/ (d \in pending /\ ~tgt[d].err)
      BY <1>6, <2>1 DEF MarkDelivery, Wrote, TypeInv, Place
    <2>3. QED
      BY <2>1, <2>2 DEF Published, Shapeable
  <1>7. CASE AllMarked \/ CloseBatch \/ Interrupted
    <2>1. UNCHANGED <<content, objects, delivered>> /\ stage' \in {"commit", "idle", "committed"}
      BY <1>7 DEF AllMarked, CloseBatch, Interrupted, fileVars, dbVars
    <2>2. QED
      BY <2>1 DEF Published, Shapeable
  <1>8. CASE UNCHANGED vars
    BY <1>8 DEF vars, Published, Shapeable
  <1>9. QED
    BY <1>1, <1>2, <1>3, <1>4, <1>5, <1>6, <1>7, <1>8, PublishedClose DEF Next

LEMMA PublishedIsWhole ==
  ASSUME TypeInv, Published
  PROVE  WholeObjects
  <1>1. ASSUME NEW d \in Dest, objects[d].begun
        PROVE  LET recs == objects[d].recs
               IN /\ {recs[i] : i \in DOMAIN recs} = Shapeable(d)
                  /\ \A i, j \in DOMAIN recs : i < j => Before(recs[i], recs[j])
    <2> DEFINE recs == objects[d].recs
    <2>1. Lists(recs, Shapeable(d))
      BY <1>1 DEF Published
    <2>2. DOMAIN recs = 1..Len(recs)
      BY <2>1, LenProperties DEF Lists
    <2> HIDE DEF recs
    <2>3. {recs[i] : i \in DOMAIN recs} = Shapeable(d)
      BY <2>1, <2>2 DEF Lists
    <2>4. QED
      BY <2>1, <2>2, <2>3 DEF Lists, recs
  <1>2. QED
    BY <1>1 DEF Published, WholeObjects

\* An object holds, in batch order and once each, exactly the records its destination
\* can shape, whichever attempt wrote it (Session.emit, Session.Close).
THEOREM ObjectsAreWhole == Spec => []WholeObjects
  <1>1. Init => Listed /\ Published
    BY DEF Init, Listed, Published, Streaming, NoObject
  <1>2. TypeInv /\ Listed /\ [Next]_vars => Listed'
    BY ListedStep
  <1>3. TypeInv /\ Listed /\ Published /\ [Next]_vars => Published'
    BY PublishedStep
  <1>4. QED
    BY <1>1, <1>2, <1>3, PublishedIsWhole, Typed, PTL DEF Spec

-----------------------------------------------------------------------------
(* Counts.  A pass without a failure has read every member it left behind   *)
(* to its end, and counted each record once.                               *)

Full(c) == c.in = c.out + c.susp /\ c.in = Len(content[c.member])

Seen(f) == Len(content[f]) > 0 => \E i \in 1..Len(contribs) : contribs[i].member = f

\* The last member whose share has been kept.
Passed(f) ==
  \/ stage = "decode" /\ f < cur
  \/ (stage \in {"member", "persist"} \/ (stage = "close" /\ failure = "none")) /\ f <= cur

Counting ==
  /\ failure = "none" =>
       /\ stats.in = stats.out + stats.susp /\ before.in = before.out + before.susp
       /\ \A i \in 1..Len(contribs) : Full(contribs[i])
  /\ stage = "decode" => stats.in = before.in + pos
  /\ \A f \in Member : Passed(f) => Seen(f)

RowsCount ==
  /\ \A f \in Member :
       /\ bf[f].in = bf[f].out + bf[f].susp
       /\ bf[f].in = 0 \/ bf[f].in = Len(content[f])
  /\ delivered # {} \/ stage = "mark" => \A f \in Member : bf[f].in = Len(content[f])

LEMMA ShareFacts ==
  ASSUME TypeInv
  PROVE  /\ DOMAIN contribs = 1..Len(contribs) /\ Len(contribs) \in Nat
         /\ \A i \in 1..Len(contribs) : contribs[i] \in Share
         /\ \A f \in Member : Len(content[f]) \in Nat
         /\ cur \in Nat /\ \A f \in Member : f \in Nat
  <1>1. DOMAIN contribs = 1..Len(contribs) /\ Len(contribs) \in Nat
    BY LenProperties DEF TypeInv, Shares
  <1>2. \A i \in 1..Len(contribs) : contribs[i] \in Share
    BY ElementOfSeq DEF TypeInv, Shares
  <1>3. \A f \in Member : Len(content[f]) \in Nat
    BY Content, SessionAssumption DEF TypeInv
  <1>4. cur \in Nat /\ \A f \in Member : f \in Nat
    BY SessionAssumption DEF TypeInv, Shape, Member
  <1>5. QED
    BY <1>1, <1>2, <1>3, <1>4

\* Nothing of the pass changes but its stage, and that only backwards.
LEMMA CountingStays ==
  ASSUME TypeInv, Counting, UNCHANGED <<content, failure, stats, before, contribs, cur, pos>>,
         stage' = "decode" => stage = "decode",
         \A f \in Member : Passed(f)' => Passed(f)
  PROVE  Counting'
  BY DEF Counting, Full, Seen

LEMMA CountingEmit == ASSUME TypeInv, Counting, Emit PROVE Counting'
  <1>1. PICK can, shaped, broke \in SUBSET Dest :
          /\ broke \subseteq shaped /\ can = content[cur][pos + 1] /\ shaped = {d \in can : Live(d)}
          /\ EmitWith(broke, <<cur, pos + 1>>, can, shaped \ broke, shaped)
          /\ stage = "decode" /\ failure = "none" /\ cur \in Member /\ pos \in Nat
          /\ pos' = pos + 1 /\ pos + 1 \in 1..Len(content[cur]) /\ <<cur, pos + 1>> \in Records
          /\ UNCHANGED <<fileVars, dbVars, pending, before, cur, todo, pf, dc, attempts>>
    BY EmitParts
  <1> DEFINE now == Counted(shaped, shaped \ broke)
  <1>2. /\ stats' = now /\ UNCHANGED <<content, before, cur>>
        /\ IF GivesUp(shaped, shaped \ broke) THEN failure' = "encode" /\ stage' = "close"
           ELSE UNCHANGED <<failure, stage, contribs>>
    BY <1>1 DEF EmitWith, Stop, fileVars
  <1>3. stats \in Stats /\ before \in Stats
    BY DEF TypeInv, Shape
  <1>4. /\ now \in Stats /\ now.in = stats.in + 1
        /\ ~GivesUp(shaped, shaped \ broke) => now.in = now.out + now.susp
    BY <1>1, <1>3, CountedTo DEF Counting
  <1> HIDE DEF now
  <1>5. CASE GivesUp(shaped, shaped \ broke)
    BY <1>2, <1>5 DEF Counting, Passed
  <1>6. CASE ~GivesUp(shaped, shaped \ broke)
    <2>1. stats'.in = before'.in + pos'
      <3>1. stats.in = before.in + pos
        BY <1>1 DEF Counting
      <3>2. stats.in \in Nat /\ before.in \in Nat
        BY <1>3 DEF Stats
      <3>3. stats'.in = stats.in + 1 /\ before' = before /\ pos' = pos + 1
        BY <1>1, <1>2, <1>4
      <3>4. pos \in Nat
        BY <1>1
      <3>5. QED
        BY <3>1, <3>2, <3>3, <3>4
    <2>2. QED
      BY <1>1, <1>2, <1>4, <1>6, <2>1 DEF Counting, Full, Seen, Passed
  <1>7. QED
    BY <1>5, <1>6

LEMMA CountingEnds == ASSUME TypeInv, Counting, StreamEnds PROVE Counting'
  <1>1. /\ stage = "decode" /\ contribs' = Contribute(stats) /\ failure = "none"
        /\ UNCHANGED <<content, stats, before, cur, pos>> /\ cur \in Member
        /\ \/ stage' = "member" /\ UNCHANGED failure /\ pos = Len(content[cur])
           \/ stage' = "close" /\ failure' \in {"malformed", "read"}
    BY DEF StreamEnds, Stop, fileVars, TypeInv, Place
  <1>2. CASE failure' # "none" /\ stage' = "close"
    BY <1>1, <1>2 DEF Counting, Passed
  <1>3. CASE stage' = "member" /\ UNCHANGED failure /\ pos = Len(content[cur])
    <2> DEFINE c == Contribution(cur, stats, before)
    <2>1. stats \in Stats /\ before \in Stats /\ pos \in Nat
      BY DEF TypeInv, Shape
    <2>2. /\ c \in Share /\ c.member = cur /\ c.in = stats.in - before.in
          /\ c.out = stats.out - before.out /\ c.susp = stats.susp - before.susp
      BY <1>1, <2>1, ContributionIs DEF TypeInv, Shares
    <2>3. contribs' = IF c.in > 0 \/ c.out > 0 THEN Append(contribs, c) ELSE contribs
      BY <1>1 DEF Contribute
    <2> HIDE DEF c
    <2>4. c.in = Len(content[cur]) /\ c.in = c.out + c.susp
      <3>1. /\ stats.in \in Nat /\ stats.out \in Nat /\ stats.susp \in Nat
            /\ before.in \in Nat /\ before.out \in Nat /\ before.susp \in Nat
        BY <2>1 DEF Stats
      <3>2. /\ stats.in = before.in + pos /\ stats.in = stats.out + stats.susp
            /\ before.in = before.out + before.susp
        BY <1>1 DEF Counting
      <3>3. \A si, so, ss, bi, bo, bs, p \in Nat :
              si = bi + p /\ si = so + ss /\ bi = bo + bs =>
                si - bi = p /\ si - bi = (so - bo) + (ss - bs)
        OBVIOUS
      <3>4. stats.in - before.in = pos
            /\ stats.in - before.in = (stats.out - before.out) + (stats.susp - before.susp)
        BY <2>1, <3>1, <3>2, <3>3
      <3>5. QED
        BY <1>3, <2>2, <3>4
    <2>5. c.out \in Nat /\ c.susp \in Nat /\ c.in \in Nat
      BY <2>2 DEF Share
    <2>6. CASE c.in > 0 \/ c.out > 0
      <3>1. /\ Len(contribs') = Len(contribs) + 1 /\ contribs'[Len(contribs) + 1] = c
            /\ \A i \in 1..Len(contribs) : contribs'[i] = contribs[i]
        BY <2>2, <2>3, <2>6, AppendProperties DEF TypeInv, Shares
      <3>2. ASSUME NEW i \in 1..Len(contribs')
            PROVE  LET e == contribs'[i]
                   IN e.in = e.out + e.susp /\ e.in = Len(content'[e.member])
        <4>1. i \in 1..Len(contribs) \/ i = Len(contribs) + 1
          BY <3>1, ShareFacts
        <4>2. CASE i \in 1..Len(contribs)
          <5>1. Full(contribs[i]) /\ contribs'[i] = contribs[i]
            BY <1>1, <3>1, <4>2 DEF Counting
          <5>2. QED
            BY <1>1, <5>1 DEF Full
        <4>3. CASE i = Len(contribs) + 1
          BY <1>1, <2>2, <2>4, <3>1, <4>3
        <4>4. QED
          BY <4>1, <4>2, <4>3
      <3>3. ASSUME NEW f \in Member, Passed(f)'
            PROVE  Seen(f)'
        <4>1. \A i \in 1..Len(contribs) : i \in 1..Len(contribs')
          BY <3>1, ShareFacts
        <4>2. Len(contribs) + 1 \in 1..Len(contribs')
          BY <3>1, ShareFacts
        <4>3. CASE f = cur
          BY <2>2, <3>1, <4>2, <4>3 DEF Seen
        <4>4. CASE f # cur
          <5>1. Passed(f)
            BY <1>1, <1>3, <3>3, <4>4, ShareFacts DEF Passed
          <5>2. QED
            BY <1>1, <3>1, <4>1, <5>1 DEF Counting, Seen
        <4>5. QED
          BY <4>3, <4>4
      <3>4. /\ stats'.in = stats'.out + stats'.susp /\ before'.in = before'.out + before'.susp
            /\ stage' # "decode"
        BY <1>1, <1>3 DEF Counting
      <3>5. QED
        BY <3>2, <3>3, <3>4 DEF Counting, Full
    <2>7. CASE ~(c.in > 0 \/ c.out > 0)
      <3>1. contribs' = contribs /\ Len(content[cur]) = 0
        BY <2>3, <2>4, <2>5, <2>7
      <3>2. ASSUME NEW f \in Member, Passed(f)'
            PROVE  Seen(f)'
        <4>1. f = cur \/ Passed(f)
          BY <1>1, <1>3, <3>2, ShareFacts DEF Passed
        <4>2. QED
          BY <1>1, <3>1, <4>1 DEF Counting, Seen
      <3>3. QED
        BY <1>1, <1>3, <3>1, <3>2 DEF Counting, Full
    <2>8. QED
      BY <2>6, <2>7
  <1>4. QED
    BY <1>1, <1>2, <1>3

LEMMA CountingOpen == ASSUME TypeInv, Counting, OpenMember PROVE Counting'
  <1>1. stage = "member" /\ failure = "none" /\ UNCHANGED <<content, stats, contribs>>
    BY DEF OpenMember, fileVars, TypeInv, Place
  <1>2. CASE stage' = "close" /\ UNCHANGED <<before, cur, pos, failure>>
    BY <1>1, <1>2 DEF Counting, Full, Seen, Passed
  <1>3. CASE stage' = "close" /\ failure' # "none" /\ UNCHANGED <<before, cur, pos>>
    BY <1>1, <1>3 DEF Counting, Passed
  <1>4. CASE cur' = cur + 1 /\ pos' = 0 /\ before' = stats /\ stage' = "decode" /\ UNCHANGED failure
    <2>1. stats \in Stats
      BY DEF TypeInv, Shape
    <2>2. \A f \in Member : Passed(f)' => Passed(f)
      BY <1>1, <1>4, ShareFacts DEF Passed
    <2>3. stats'.in = before'.in + pos'
      BY <1>1, <1>4, <2>1 DEF Stats
    <2>4. QED
      BY <1>1, <1>4, <2>2, <2>3 DEF Counting, Full, Seen
  <1>5. QED
    BY <1>2, <1>3, <1>4 DEF OpenMember, Stop

LEMMA CountingStep ==
  ASSUME TypeInv, Counting, [Next]_vars
  PROVE  Counting'
  <1>1. CASE NewMultiSession
    <2>1. /\ stats' = NoStats /\ before' = NoStats /\ contribs' = << >> /\ cur' = 0
          /\ stage' \in {"member", "commit"}
      BY <1>1 DEF NewMultiSession
    <2>2. Len(contribs') = 0
      BY <2>1, EmptySeq
    <2>3. \A f \in Member : ~Passed(f)'
      BY <2>1 DEF Passed, Member
    <2>4. QED
      BY <2>1, <2>2, <2>3 DEF Counting, NoStats
  <1>2. CASE Close
    <2>1. /\ UNCHANGED <<content, failure, stats, before, contribs, cur, pos>> /\ stage = "close"
          /\ stage' \in {"persist", "dropped", "idle"} /\ (stage' = "persist" => failure = "none")
      BY <1>2 DEF Close, fileVars
    <2>2. QED
      BY <2>1, CountingStays DEF Passed
  <1>3. CASE RecordBatchContributions \/ MarkDelivery \/ AllMarked \/ CloseBatch \/ Interrupted
             \/ UNCHANGED vars
    <2>1. /\ UNCHANGED <<content, failure, stats, before, contribs, cur, pos>>
          /\ stage' = stage \/ stage' \notin {"decode", "member", "close", "persist"}
      BY <1>3 DEF RecordBatchContributions, MarkDelivery, AllMarked, CloseBatch, Interrupted,
                  vars, sessVars, fileVars
    <2>2. QED
      BY <2>1, CountingStays DEF Passed
  <1>4. QED
    BY <1>1, <1>2, <1>3, CountingOpen, CountingEmit, CountingEnds DEF Next

LEMMA PersistCounts ==
  ASSUME TypeInv, Counting, RowsCount, RecordBatchContributions
  PROVE  RowsCount'
  <1>1. failure = "none" /\ stage = "persist" /\ cur = Members /\ UNCHANGED <<content, delivered>>
    BY DEF RecordBatchContributions, fileVars, TypeInv, Place
  <1>2. ASSUME NEW f \in Member
        PROVE  bf'[f].in = bf'[f].out + bf'[f].susp /\ bf'[f].in = Len(content[f])
    <2>1. CASE \E i \in DOMAIN contribs : contribs[i].member = f
      <3> DEFINE c == ContributionOf(f, contribs)
      <3>1. PICK i \in DOMAIN contribs : c = contribs[i] /\ c.member = f /\ c \in Share
        BY <2>1, ContributionsTyped
      <3>2. bf'[f] = [in |-> c.in, out |-> c.out, susp |-> c.susp]
        BY <2>1 DEF RecordBatchContributions
      <3> HIDE DEF c
      <3>3. Full(c)
        BY <1>1, <3>1, ShareFacts DEF Counting
      <3>4. QED
        BY <3>1, <3>2, <3>3 DEF Full
    <2>2. CASE ~\E i \in DOMAIN contribs : contribs[i].member = f
      <3>1. bf'[f] = bf[f]
        BY <2>2 DEF RecordBatchContributions
      <3>2. f <= cur
        BY <1>1, SessionAssumption DEF Member
      <3>3. ~(Len(content[f]) > 0)
        BY <1>1, <2>2, <3>2, ShareFacts DEF Counting, Passed, Seen
      <3>4. Len(content[f]) = 0
        BY <3>3, ShareFacts
      <3>5. QED
        BY <3>1, <3>4 DEF RowsCount
    <2>3. QED
      BY <2>1, <2>2
  <1>3. QED
    BY <1>1, <1>2 DEF RowsCount

LEMMA CountedStep ==
  ASSUME TypeInv, Counting, RowsCount, [Next]_vars
  PROVE  RowsCount'
  <1>1. CASE /\ UNCHANGED <<content, bf>>
             /\ (delivered' # {} \/ stage' = "mark") => (delivered # {} \/ stage = "mark")
    BY <1>1 DEF RowsCount
  <1>2. CASE NewMultiSession \/ OpenMember \/ StreamEnds \/ Close
    BY <1>1, <1>2 DEF NewMultiSession, OpenMember, StreamEnds, Close, Stop, fileVars, dbVars
  <1>3. CASE Emit
    <2>1. UNCHANGED <<content, bf, delivered>> /\ stage = "decode" /\ stage' \in {"decode", "close"}
      BY <1>3, EmitParts DEF EmitWith, Stop, fileVars, dbVars
    <2>2. QED
      BY <1>1, <2>1
  <1>4. CASE MarkDelivery \/ AllMarked \/ CloseBatch \/ Interrupted \/ UNCHANGED vars
    BY <1>1, <1>4 DEF MarkDelivery, AllMarked, CloseBatch, Interrupted, vars, fileVars, dbVars
  <1>5. QED
    BY <1>2, <1>3, <1>4, PersistCounts DEF Next

\* The counts in the database add up, and nothing is delivered before they cover every
\* file as a whole (RecordBatchContributions comes before MarkDelivered).
THEOREM CountsCoverTheFiles == Spec => []CountsAddUp
  <1>1. Init => Counting /\ RowsCount
    BY EmptySeq, Content, SessionAssumption, TypeInit
    DEF Init, Counting, RowsCount, NoStats, NoCounts, Passed, Full
  <1>2. TypeInv /\ Counting /\ [Next]_vars => Counting'
    BY CountingStep
  <1>3. TypeInv /\ Counting /\ RowsCount /\ [Next]_vars => RowsCount'
    BY CountedStep
  <1>4. RowsCount => CountsAddUp
    BY DEF RowsCount, CountsAddUp
  <1>5. QED
    BY <1>1, <1>2, <1>3, <1>4, Typed, PTL DEF Spec
=============================================================================
