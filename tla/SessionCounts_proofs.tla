------------------------ MODULE SessionCounts_proofs ------------------------
(***************************************************************************)
(* Theorems about Session that count: what the record of a file says was   *)
(* read and written, and where its lineage says the records lie.  Both are *)
(* for destinations that agree on what can be shaped (Uniform).            *)
(***************************************************************************)
EXTENDS Session_proofs, WellFoundedInduction

-----------------------------------------------------------------------------
(* Counting.                                                               *)

LEMMA SameCount ==
  ASSUME NEW S, NEW T, NEW F \in [S -> T], IsFiniteSet(S),
         \A a, b \in S : F[a] = F[b] => a = b,
         \A t \in T : \E s \in S : F[s] = t
  PROVE  IsFiniteSet(T) /\ Cardinality(T) = Cardinality(S)
  <1>1. F \in Bijection(S, T)
    BY DEF Bijection, Injection, Surjection, IsInjective
  <1>2. ExistsBijection(S, T)
    BY <1>1 DEF ExistsBijection
  <1>3. QED
    BY <1>2, FS_Bijection

\* The least of some numbers.
LEMMA LeastNat ==
  ASSUME NEW S, S \subseteq Nat, S # {}
  PROVE  \E m \in S : \A n \in S : m <= n
  <1>1. PICK m \in S : \A n \in S : ~(<<n, m>> \in OpToRel(<, Nat))
    BY NatLessThanWellFounded, WFMin
  <1>2. ASSUME NEW n \in S
        PROVE  ~(n < m)
    BY <1>1 DEF OpToRel
  <1>3. QED
    BY <1>2

\* A set of positions with no gap starts at the first.
LEMMA NoGap ==
  ASSUME NEW n \in Nat, NEW N, N \subseteq 1..n, \A i, j \in 1..n : i < j /\ j \in N => i \in N
  PROVE  N = 1..Cardinality(N)
  <1> DEFINE S == {k \in 1..n + 1 : k \notin N}
  <1>1. S \subseteq Nat /\ n + 1 \in S
    OBVIOUS
  <1>2. PICK m \in S : \A k \in S : m <= k
    BY <1>1, LeastNat
  <1>3. m \in 1..n + 1 /\ m \notin N
    OBVIOUS
  <1>4. ASSUME NEW i \in 1..n
        PROVE  i \in N <=> i < m
    <2>1. i < m => i \in N
      BY <1>2
    <2>2. i \in N => i < m
      BY <1>3
    <2>3. QED
      BY <2>1, <2>2
  <1> HIDE DEF S
  <1>5. N = 1..(m - 1)
    <2>1. \A i \in 1..n : i \in N <=> i \in 1..(m - 1)
      BY <1>3, <1>4
    <2>2. 1..(m - 1) \subseteq 1..n
      BY <1>3
    <2>3. QED
      BY <2>1, <2>2
  <1>6. Cardinality(1..(m - 1)) = m - 1
    BY <1>3, FS_Interval
  <1>7. QED
    BY <1>5, <1>6

\* Where a list keeps the records that come first.
LEMMA FirstOnes ==
  ASSUME NEW s, NEW R, Lists(s, R), R \subseteq Records,
         NEW T, T \subseteq R, IsFiniteSet(T),
         \A x \in T : \A y \in R : Before(y, x) => y \in T
  PROVE  {n \in 1..Len(s) : s[n] \in T} = 1..Cardinality(T)
  <1> DEFINE N == {n \in 1..Len(s) : s[n] \in T}
             F == [n \in N |-> s[n]]
  <1>1. Len(s) \in Nat
    BY LenProperties DEF Lists
  <1>2. \A i, j \in 1..Len(s) : i < j /\ j \in N => i \in N
    BY DEF Lists
  <1>3. N = 1..Cardinality(N)
    BY <1>1, <1>2, NoGap
  <1>4. \A x \in R : ~Before(x, x)
    <2>1. \A x \in Records : x[1] \in Int /\ x[2] \in Int
      BY RecordIs, SessionAssumption DEF Member
    <2>2. QED
      BY <2>1 DEF Before
  <1>5. IsFiniteSet(N)
    <2>1. IsFiniteSet(1..Len(s))
      BY <1>1, FS_Interval
    <2>2. QED
      BY <2>1, FS_Subset
  <1>6. F \in [N -> T]
    OBVIOUS
  <1>7. \A a, b \in N : F[a] = F[b] => a = b
    <2>1. SUFFICES ASSUME NEW a \in N, NEW b \in N, s[a] = s[b], a < b
                   PROVE  FALSE
      BY <1>1
    <2>2. Before(s[a], s[b])
      BY <2>1 DEF Lists
    <2>3. QED
      BY <1>4, <2>1, <2>2
  <1>8. \A t \in T : \E n \in N : F[n] = t
    BY DEF Lists
  <1> HIDE DEF F
  <1>9. Cardinality(T) = Cardinality(N)
    BY <1>5, <1>6, <1>7, <1>8, SameCount
  <1>10. QED
    BY <1>3, <1>9

-----------------------------------------------------------------------------
(* The records of a member.                                                *)

\* Those of its first k records that are written, and how many.
WrittenUpto(f, k) == {j \in 1..k : content[f][j] # {}}
Done(f, k)        == Cardinality(WrittenUpto(f, k))
Whole(f)          == Done(f, Len(content[f]))

\* All records of the members before one, and how many.
Below(f) == {r \in Records : r[1] < f /\ r[2] \in Written(r[1])}
Start(f) == Cardinality(Below(f))

LEMMA UptoFinite ==
  ASSUME NEW f, NEW k \in Nat
  PROVE  IsFiniteSet(WrittenUpto(f, k)) /\ Done(f, k) \in Nat /\ Done(f, k) <= k
  <1>1. IsFiniteSet(1..k) /\ Cardinality(1..k) = k
    BY FS_Interval
  <1>2. WrittenUpto(f, k) \in SUBSET (1..k)
    BY DEF WrittenUpto
  <1>3. QED
    BY <1>1, <1>2, FS_Subset, FS_CardinalityType DEF Done

LEMMA DoneNone == \A f : Done(f, 0) = 0
  <1>1. \A f : WrittenUpto(f, 0) = {}
    BY DEF WrittenUpto
  <1>2. QED
    BY <1>1, FS_EmptySet DEF Done

LEMMA DoneOne ==
  ASSUME NEW f, NEW k \in Nat
  PROVE  Done(f, k + 1) = IF content[f][k + 1] # {} THEN Done(f, k) + 1 ELSE Done(f, k)
  <1>1. IsFiniteSet(WrittenUpto(f, k)) /\ Cardinality(WrittenUpto(f, k)) \in Nat
    BY UptoFinite DEF Done
  <1>4. k + 1 \notin WrittenUpto(f, k)
    BY DEF WrittenUpto
  <1>2. CASE content[f][k + 1] # {}
    <2>1. WrittenUpto(f, k + 1) = WrittenUpto(f, k) \cup {k + 1}
      BY <1>2 DEF WrittenUpto
    <2>2. QED
      BY <1>1, <1>2, <1>4, <2>1, FS_AddElement DEF Done
  <1>3. CASE content[f][k + 1] = {}
    <2>1. WrittenUpto(f, k + 1) = WrittenUpto(f, k)
      BY <1>3 DEF WrittenUpto
    <2>2. QED
      BY <1>3, <2>1 DEF Done
  <1>5. QED
    BY <1>2, <1>3

LEMMA WholeIs ==
  ASSUME TypeInv, NEW f \in Member
  PROVE  /\ Whole(f) = Cardinality(Written(f)) /\ Whole(f) \in Nat
         /\ Whole(f) <= Len(content[f]) /\ Len(content[f]) \in Nat
         /\ IsFiniteSet(Written(f)) /\ Written(f) \subseteq 1..Len(content[f])
         /\ DOMAIN content[f] = 1..Len(content[f])
         /\ \A k \in Written(f) : <<f, k>> \in Records
  <1>1. /\ DOMAIN content[f] = 1..Len(content[f]) /\ Len(content[f]) \in Nat
        /\ \A k \in 1..Len(content[f]) : <<f, k>> \in Records
    BY Content, SessionAssumption DEF TypeInv
  <1>2. Written(f) = WrittenUpto(f, Len(content[f]))
    BY <1>1 DEF Written, WrittenUpto
  <1>3. QED
    BY <1>1, <1>2, UptoFinite DEF Whole, Done, WrittenUpto

LEMMA RecordsFinite == IsFiniteSet(Records)
  <1>1. IsFiniteSet(Member) /\ IsFiniteSet(1..MaxRecords)
    BY FS_Interval, SessionAssumption DEF Member
  <1>2. IsFiniteSet(Member \X (1..MaxRecords))
    BY <1>1, FS_Product
  <1>3. Records \in SUBSET (Member \X (1..MaxRecords))
    BY DEF Records
  <1>4. QED
    BY <1>2, <1>3, FS_Subset

LEMMA BelowFinite == \A f : IsFiniteSet(Below(f)) /\ Start(f) \in Nat
  BY RecordsFinite, FS_Subset, FS_CardinalityType DEF Below, Start

LEMMA StartOne == Start(1) = 0
  <1>1. Below(1) = {}
    BY RecordIs, SessionAssumption DEF Below, Member
  <1>2. QED
    BY <1>1, FS_EmptySet DEF Start

LEMMA StartNext ==
  ASSUME TypeInv, NEW f \in Member
  PROVE  Start(f + 1) = Start(f) + Whole(f)
  <1> DEFINE W == Written(f)
             T == {r \in Records : r[1] = f /\ r[2] \in W}
             F == [k \in W |-> <<f, k>>]
  <1>1. IsFiniteSet(W) /\ Cardinality(W) = Whole(f) /\ \A k \in W : <<f, k>> \in Records
    BY WholeIs
  <1>2. F \in [W -> T]
    BY <1>1
  <1>3. \A t \in T : t[2] \in W /\ t = <<f, t[2]>>
    BY RecordIs
  <1>4. IsFiniteSet(T) /\ Cardinality(T) = Whole(f)
    <2>1. \A a, b \in W : F[a] = F[b] => a = b
      OBVIOUS
    <2>2. \A t \in T : \E k \in W : F[k] = t
      BY <1>3
    <2> HIDE DEF F, T, W
    <2>3. QED
      BY <1>1, <1>2, <2>1, <2>2, SameCount
  <1>5. Below(f + 1) = Below(f) \cup T
    <2>1. \A r \in Records : r[1] < f + 1 <=> r[1] < f \/ r[1] = f
      BY RecordIs, SessionAssumption DEF Member
    <2>2. QED
      BY <2>1 DEF Below
  <1>6. Below(f) \cap T = {}
    BY SessionAssumption DEF Below, Member
  <1>7. Cardinality(Below(f) \cap T) = 0
    BY <1>6, FS_EmptySet
  <1> HIDE DEF T
  <1>8. Cardinality(Below(f) \cup T) = Start(f) + Whole(f) - 0
    BY <1>4, <1>7, BelowFinite, FS_Union DEF Start
  <1>9. Start(f) \in Nat /\ Whole(f) \in Nat
    BY BelowFinite, WholeIs
  <1>10. Start(f + 1) = Cardinality(Below(f) \cup T)
    BY <1>5 DEF Start
  <1>11. QED
    BY <1>8, <1>9, <1>10

LEMMA Frozen ==
  ASSUME UNCHANGED content
  PROVE  /\ Uniform' = Uniform
         /\ \A f : Written(f)' = Written(f) /\ Below(f)' = Below(f) /\ Start(f)' = Start(f)
         /\ \A f : Whole(f)' = Whole(f)
         /\ \A f, k : Done(f, k)' = Done(f, k)
  <1>1. Uniform' = Uniform
    BY DEF Uniform
  <1>2. \A f : Written(f)' = Written(f)
    BY DEF Written
  <1>3. \A f : Below(f)' = Below(f)
    BY <1>2 DEF Below
  <1>4. \A f, k : WrittenUpto(f, k)' = WrittenUpto(f, k)
    BY DEF WrittenUpto
  <1>5. QED
    BY <1>1, <1>2, <1>3, <1>4 DEF Start, Whole, Done
-----------------------------------------------------------------------------
(* The pass.                                                               *)

\* What a share of a member says.
Located(f, c) ==
  /\ c.out = Whole(f)
  /\ c.first = (IF c.out = 0 THEN 0 ELSE Start(f))
  /\ c.last = (IF c.out = 0 THEN -1 ELSE Start(f) + c.out - 1)

AllLocated(f) ==
  \A i \in 1..Len(contribs) : contribs[i].member = f => Located(f, contribs[i])

Tally ==
  Uniform => \A f \in 0..Members :
    /\ stage = "member" /\ cur = f => stats.index = Start(f + 1)
    /\ stage = "decode" /\ cur = f =>
         /\ before.index = Start(f) /\ stats.out >= before.out
         /\ \A k \in 0..MaxRecords : pos = k =>
              stats.out = before.out + Done(f, k) /\ stats.index = before.index + Done(f, k)
    /\ failure = "none" => AllLocated(f)

\* Where records are decoded, somebody can take them.
Someone == Uniform /\ stage = "decode" => \E d \in Dest : Live(d)

\* A session writes somebody, and the batch is committed once all are written.
Ended ==
  /\ stage \in {"member", "decode", "close", "persist", "mark"} => pending # {}
  /\ stage \in {"member", "decode", "close", "persist", "mark", "commit"} =>
       Dest \subseteq pending \cup delivered
  /\ stage = "commit" => Dest \subseteq delivered
  /\ stage \in {"persist", "mark", "commit"} /\ pending # {} =>
       failure = "none" /\ cur = Members /\ MemberDone /\ \A f \in Member : Seen(f)
  /\ stage = "commit" /\ pending = {} => contribs = << >>

\* The counts in the database are those of whole files.
RowsTally ==
  Uniform => \A f \in Member : bf[f].in # 0 => bf[f].out = Whole(f)

\* Records nobody can shape, among those decoded.
Unshaped(f, k) ==
  /\ k \in 1..Len(content[f]) /\ content[f][k] = {}
  /\ f < cur \/ (f = cur /\ k <= pos)

Passing == failure = "none" /\ stage \in {"member", "decode", "close", "persist", "mark", "commit"}

\* A pass that writes one destination suspends these, and nothing else.
Suspends ==
  Uniform /\ Passing =>
    \A d0 \in Dest : pending = {d0} =>
      \A f \in Member : \A k \in 1..MaxRecords : \A d \in Dest :
        <<<<f, k>>, d>> \in suspended <=> d = d0 /\ Unshaped(f, k)

CountsInv == Tally /\ Someone /\ Ended /\ RowsTally /\ Suspends

LEMMA CountedOut ==
  ASSUME stats \in Stats, NEW shaped, NEW wrote
  PROVE  LET now == Counted(shaped, wrote)
         IN /\ wrote # {} => now.out = stats.out + 1 /\ now.index = stats.index + 1
            /\ wrote = {} => now.out = stats.out /\ now.index = stats.index
  <1> DEFINE now == Counted(shaped, wrote)
  <1>1. /\ stats.in \in Nat /\ stats.out \in Nat /\ stats.susp \in Nat /\ stats.index \in Nat
    BY DEF Stats
  <1>2. CASE wrote # {}
    <2> DEFINE e1 == [stats EXCEPT !.in = stats.in + 1]
               e2 == [e1 EXCEPT !.out = stats.out + 1]
               e3 == [e2 EXCEPT !.index = stats.index + 1]
    <2>1. now = e3
      BY <1>2, Zenon DEF Counted
    <2>2. e1 \in Stats /\ e1.out = stats.out /\ e1.index = stats.index
      BY <1>1 DEF Stats
    <2> HIDE DEF e1, now
    <2>3. e2 \in Stats /\ e2.out = stats.out + 1
      BY <1>1, <2>2 DEF Stats
    <2> HIDE DEF e2
    <2>4. e3.out = e2.out /\ e3.index = stats.index + 1
      BY <1>1, <2>3 DEF Stats
    <2>5. QED
      BY <1>2, <2>1, <2>3, <2>4 DEF now
  <1>3. CASE wrote = {}
    <2> DEFINE e1 == [stats EXCEPT !.in = stats.in + 1]
               e2 == [e1 EXCEPT !.susp = stats.susp + 1]
    <2>1. now \in {e1, e2}
      BY <1>3, Zenon DEF Counted
    <2>2. e1 \in Stats /\ e1.out = stats.out /\ e1.index = stats.index
      BY <1>1 DEF Stats
    <2> HIDE DEF e1, now
    <2>3. e2.out = e1.out /\ e2.index = e1.index
      BY <2>2 DEF Stats
    <2> HIDE DEF e2
    <2>4. QED
      BY <1>3, <2>1, <2>2, <2>3 DEF now
  <1>4. QED
    BY <1>2, <1>3

\* Emit, when destinations agree on what can be shaped.
LEMMA UniformEmit ==
  ASSUME TypeInv, Someone, Uniform, Emit, failure' = "none"
  PROVE  /\ stage = "decode" /\ stage' = "decode" /\ cur \in Member /\ pos \in Nat /\ pos' = pos + 1
         /\ pos + 1 \in 1..Len(content[cur]) /\ failure = "none" /\ stats \in Stats
         /\ UNCHANGED <<content, pending, before, cur, contribs>>
         /\ IF content[cur][pos + 1] = {}
            THEN /\ stats'.out = stats.out /\ stats'.index = stats.index
                 /\ suspended' = suspended \cup {<<<<cur, pos + 1>>, d>> : d \in {e \in Dest : Live(e)}}
            ELSE /\ stats'.out = stats.out + 1 /\ stats'.index = stats.index + 1
                 /\ suspended' = suspended
         /\ \E d \in Dest : Live(d)'
  <1> DEFINE rec == <<cur, pos + 1>>
  <1>1. PICK can, shaped, broke \in SUBSET Dest :
          /\ broke \subseteq shaped /\ can = content[cur][pos + 1] /\ shaped = {d \in can : Live(d)}
          /\ EmitWith(broke, <<cur, pos + 1>>, can, shaped \ broke, shaped)
          /\ stage = "decode" /\ failure = "none" /\ cur \in Member /\ pos \in Nat
          /\ pos' = pos + 1 /\ pos + 1 \in 1..Len(content[cur]) /\ <<cur, pos + 1>> \in Records
          /\ UNCHANGED <<fileVars, dbVars, pending, before, cur, todo, pf, dc, attempts>>
    BY EmitParts
  <1>2. pos + 1 \in DOMAIN content[cur]
    BY <1>1, Content DEF TypeInv
  <1>3. can \in {{}, Dest}
    BY <1>1, <1>2 DEF Uniform
  <1>4. stats \in Stats
    BY DEF TypeInv, Shape
  <1>5. PICK d0 \in Dest : Live(d0)
    BY <1>1 DEF Someone
  <1>6. ~GivesUp(shaped, shaped \ broke) /\ UNCHANGED <<failure, stage, contribs>>
    BY <1>1 DEF EmitWith, Stop
  <1>7. \A d \in Dest : tgt[d] \in Tgt /\ tgt'[d] = Offered(d, rec, can, broke)
    BY <1>1 DEF EmitWith, TypeInv, Shape
  <1>8. CASE can = {}
    <2>1. shaped = {} /\ shaped \ broke = {}
      BY <1>1, <1>8
    <2>2. stats'.out = stats.out /\ stats'.index = stats.index
      BY <1>1, <1>4, <2>1, CountedOut DEF EmitWith
    <2>3. suspended' = suspended \cup {<<<<cur, pos + 1>>, d>> : d \in {e \in Dest : Live(e)}}
      BY <1>1, <1>8 DEF EmitWith
    <2>4. tgt'[d0].err = tgt[d0].err
      BY <1>1, <1>5, <1>7, <1>8, OfferedTo
    <2>5. QED
      BY <1>1, <1>4, <1>5, <1>6, <1>8, <2>2, <2>3, <2>4 DEF Live, fileVars
  <1>9. CASE can = Dest
    <2>1. d0 \in shaped /\ can # {}
      BY <1>1, <1>5, <1>9
    <2>2. PICK d1 : d1 \in shaped \ broke
      BY <1>6, <2>1 DEF GivesUp
    <2>3. d1 \in Dest /\ Live(d1) /\ d1 \in can /\ d1 \notin broke
      BY <1>1, <2>2
    <2>4. tgt'[d1].err = tgt[d1].err
      BY <1>1, <1>7, <2>3, OfferedTo
    <2>5. stats'.out = stats.out + 1 /\ stats'.index = stats.index + 1
      BY <1>1, <1>4, <2>2, CountedOut DEF EmitWith
    <2>6. suspended' = suspended
      <3>1. {<<rec, d>> : d \in {e \in Dest \ can : Live(e)}} = {}
        BY <1>9
      <3>2. QED
        BY <1>1, <3>1 DEF EmitWith
    <2>7. QED
      BY <1>1, <1>4, <1>6, <2>1, <2>3, <2>4, <2>5, <2>6 DEF Live, fileVars
  <1>10. QED
    BY <1>3, <1>8, <1>9
LEMMA LocatedStays ==
  ASSUME UNCHANGED <<content, contribs>>
  PROVE  \A f : AllLocated(f)' <=> AllLocated(f)
  BY Frozen DEF AllLocated, Located

LEMMA TallyEmit ==
  ASSUME TypeInv, Tally, Someone, Emit
  PROVE  Tally'
  <1>1. stage = "decode" /\ stage' \in {"decode", "close"} /\ UNCHANGED content
    BY EmitParts DEF EmitWith, Stop, fileVars
  <1>2. SUFFICES ASSUME Uniform, failure' = "none", NEW f \in 0..Members
                 PROVE  /\ cur' = f =>
                             /\ before'.index = Start(f)' /\ stats'.out >= before'.out
                             /\ \A k \in 0..MaxRecords : pos' = k =>
                                  /\ stats'.out = before'.out + Done(f, k)'
                                  /\ stats'.index = before'.index + Done(f, k)'
                        /\ stage' = "decode" /\ AllLocated(f)'
    <2>1. failure' # "none" => stage' = "close"
      BY <1>1, EmitParts DEF EmitWith, Stop
    <2>2. Uniform' = Uniform
      BY <1>1, Frozen
    <2>3. QED
      BY <1>1, <1>2, <2>1, <2>2 DEF Tally
  <1>3. /\ cur \in Member /\ pos \in Nat /\ pos' = pos + 1 /\ stage' = "decode"
        /\ pos + 1 \in 1..Len(content[cur]) /\ failure = "none"
        /\ UNCHANGED <<content, before, cur, contribs>>
        /\ IF content[cur][pos + 1] = {}
           THEN stats'.out = stats.out /\ stats'.index = stats.index
           ELSE stats'.out = stats.out + 1 /\ stats'.index = stats.index + 1
    BY <1>2, UniformEmit
  <1>4. AllLocated(f)'
    BY <1>2, <1>3, LocatedStays DEF Tally
  <1>5. ASSUME cur' = f
        PROVE  /\ before'.index = Start(f)' /\ stats'.out >= before'.out
               /\ \A k \in 0..MaxRecords : pos' = k =>
                    /\ stats'.out = before'.out + Done(f, k)'
                    /\ stats'.index = before'.index + Done(f, k)'
    <2>1. cur = f /\ Len(content[f]) <= MaxRecords /\ Len(content[f]) \in Nat /\ MaxRecords \in Nat
      BY <1>3, <1>5, Content, SessionAssumption DEF TypeInv
    <2>2. pos \in 0..MaxRecords
      BY <1>3, <2>1
    <2>3. /\ before.index = Start(f) /\ stats.out >= before.out
          /\ stats.out = before.out + Done(f, pos) /\ stats.index = before.index + Done(f, pos)
      BY <1>1, <1>2, <2>1, <2>2 DEF Tally
    <2>4. /\ stats.out \in Nat /\ stats.index \in Nat /\ before.out \in Nat /\ before.index \in Nat
      BY DEF TypeInv, Shape, Stats
    <2>5. Done(f, pos + 1) = IF content[f][pos + 1] # {} THEN Done(f, pos) + 1 ELSE Done(f, pos)
      BY <1>3, DoneOne
    <2>6. Done(f, pos) \in Nat
      BY <1>3, UptoFinite
    <2>7. /\ stats'.out = before.out + Done(f, pos + 1)
          /\ stats'.index = before.index + Done(f, pos + 1) /\ stats'.out >= before.out
      <3>1. CASE content[f][pos + 1] = {}
        <4>1. stats'.out = stats.out /\ stats'.index = stats.index /\ Done(f, pos + 1) = Done(f, pos)
          BY <1>3, <2>1, <2>5, <3>1
        <4>2. QED
          BY <2>3, <2>4, <2>6, <4>1
      <3>2. CASE content[f][pos + 1] # {}
        <4>1. /\ stats'.out = stats.out + 1 /\ stats'.index = stats.index + 1
              /\ Done(f, pos + 1) = Done(f, pos) + 1
          BY <1>3, <2>1, <2>5, <3>2
        <4>2. QED
          BY <2>3, <2>4, <2>6, <4>1
      <3>3. QED
        BY <3>1, <3>2
    <2>8. Start(f)' = Start(f) /\ \A k : Done(f, k)' = Done(f, k)
      BY <1>1, Frozen
    <2>9. QED
      BY <1>3, <2>3, <2>7, <2>8
  <1>6. QED
    BY <1>3, <1>4, <1>5

LEMMA TallyEnds ==
  ASSUME TypeInv, Tally, StreamEnds
  PROVE  Tally'
  <1>1. /\ stage = "decode" /\ contribs' = Contribute(stats) /\ failure = "none"
        /\ UNCHANGED <<content, stats, before, cur, pos>> /\ cur \in Member
        /\ \/ stage' = "member" /\ UNCHANGED failure /\ pos = Len(content[cur])
           \/ stage' = "close" /\ failure' \in {"malformed", "read"}
    BY DEF StreamEnds, Stop, fileVars, TypeInv, Place
  <1>2. Uniform' = Uniform
    BY <1>1, Frozen
  <1>3. CASE stage' = "close" /\ failure' \in {"malformed", "read"}
    BY <1>3 DEF Tally
  <1>4. CASE stage' = "member" /\ UNCHANGED failure /\ pos = Len(content[cur])
    <2>1. SUFFICES ASSUME Uniform, NEW f \in 0..Members
                   PROVE  /\ cur = f => stats.index = Start(f + 1)'
                          /\ AllLocated(f)'
      BY <1>1, <1>2, <1>4 DEF Tally
    <2> DEFINE c == Contribution(cur, stats, before)
    <2>2. stats \in Stats /\ before \in Stats /\ pos \in Nat
      BY DEF TypeInv, Shape
    <2>3. /\ stats.out \in Nat /\ stats.index \in Nat /\ before.out \in Nat /\ before.index \in Nat
      BY <2>2 DEF Stats
    <2>4. cur \in 0..Members /\ pos \in 0..MaxRecords
      BY <1>1, <1>4, Content, SessionAssumption DEF TypeInv, Shape
    <2>5. /\ before.index = Start(cur) /\ stats.out >= before.out
          /\ stats.out = before.out + Done(cur, pos) /\ stats.index = before.index + Done(cur, pos)
      BY <1>1, <2>1, <2>4 DEF Tally
    <2>6. Done(cur, pos) = Whole(cur) /\ Whole(cur) \in Nat /\ Start(cur) \in Nat
      BY <1>1, <1>4, WholeIs, BelowFinite DEF Whole
    <2>7. stats.index = Start(cur + 1)
      BY <1>1, <2>3, <2>5, <2>6, StartNext
    <2>8. Located(cur, c) /\ c.member = cur
      <3> DEFINE o == stats.out - before.out
      <3>1. o = Whole(cur) /\ stats.index - 1 = Start(cur) + Whole(cur) - 1
        BY <2>3, <2>5, <2>6
      <3>2. c.out = o /\ c.first = (IF o = 0 THEN 0 ELSE before.index)
            /\ c.last = (IF o = 0 THEN -1 ELSE stats.index - 1) /\ c.member = cur
        BY DEF Contribution
      <3> HIDE DEF o, c
      <3>3. QED
        BY <2>5, <3>1, <3>2 DEF Located
    <2>9. contribs' \in {Append(contribs, c), contribs}
      BY <1>1 DEF Contribute
    <2> HIDE DEF c
    <2>10. c \in Share
      BY <1>1, <2>2, ContributionIs DEF c, TypeInv, Shares
    <2>11. ASSUME NEW i \in 1..Len(contribs'), contribs'[i].member = f
           PROVE  Located(f, contribs'[i])
      <3>1. ASSUME NEW j \in 1..Len(contribs), contribs[j].member = f
            PROVE  Located(f, contribs[j])
        BY <1>1, <2>1, <3>1 DEF Tally, AllLocated
      <3>2. CASE contribs' = contribs
        BY <2>11, <3>1, <3>2
      <3>3. CASE contribs' = Append(contribs, c)
        <4>1. /\ Len(contribs') = Len(contribs) + 1 /\ contribs'[Len(contribs) + 1] = c
              /\ \A j \in 1..Len(contribs) : contribs'[j] = contribs[j]
          BY <2>10, <3>3, AppendProperties DEF TypeInv, Shares
        <4>2. i \in 1..Len(contribs) \/ i = Len(contribs) + 1
          BY <4>1, ShareFacts
        <4>3. QED
          BY <2>8, <2>11, <3>1, <4>1, <4>2
      <3>4. QED
        BY <2>9, <3>2, <3>3
    <2>12. \A g : Start(g)' = Start(g) /\ Whole(g)' = Whole(g)
      BY <1>1, Frozen
    <2>13. AllLocated(f)'
      BY <2>11, <2>12 DEF AllLocated, Located
    <2>14. QED
      BY <2>7, <2>12, <2>13
  <1>5. QED
    BY <1>1, <1>3, <1>4

LEMMA TallyOpen ==
  ASSUME TypeInv, Tally, OpenMember
  PROVE  Tally'
  <1>1. stage = "member" /\ failure = "none" /\ UNCHANGED <<content, stats, contribs>>
    BY DEF OpenMember, fileVars, TypeInv, Place
  <1>2. Uniform' = Uniform
    BY <1>1, Frozen
  <1>3. ASSUME Uniform, NEW f \in 0..Members
        PROVE  AllLocated(f)'
    BY <1>1, <1>3, LocatedStays DEF Tally
  <1>4. CASE stage' = "close"
    BY <1>2, <1>3, <1>4 DEF Tally
  <1>5. CASE cur' = cur + 1 /\ pos' = 0 /\ before' = stats /\ stage' = "decode" /\ UNCHANGED failure
    <2>1. ASSUME Uniform, NEW f \in 0..Members, cur' = f
          PROVE  /\ before'.index = Start(f)' /\ stats'.out >= before'.out
                 /\ \A k \in 0..MaxRecords : pos' = k =>
                      /\ stats'.out = before'.out + Done(f, k)'
                      /\ stats'.index = before'.index + Done(f, k)'
      <3>1. cur \in 0..Members /\ f = cur + 1 /\ stats.out \in Nat /\ stats.index \in Nat
        BY <1>5, <2>1 DEF TypeInv, Shape, Stats
      <3>2. stats.index = Start(f)
        BY <1>1, <2>1, <3>1 DEF Tally
      <3>3. Start(f)' = Start(f) /\ Done(f, 0)' = 0
        BY <1>1, Frozen, DoneNone
      <3>4. stats' = stats /\ before' = stats /\ pos' = 0
        BY <1>1, <1>5
      <3>5. QED
        BY <3>1, <3>2, <3>3, <3>4
    <2>2. QED
      BY <1>2, <1>3, <1>5, <2>1 DEF Tally
  <1>6. QED
    BY <1>4, <1>5 DEF OpenMember, Stop

LEMMA TallyStep ==
  ASSUME TypeInv, Tally, Someone, [Next]_vars
  PROVE  Tally'
  <1>1. CASE NewMultiSession
    <2>1. /\ stats' = NoStats /\ contribs' = << >> /\ cur' = 0 /\ stage' \in {"member", "commit"}
          /\ UNCHANGED content
      BY <1>1 DEF NewMultiSession, fileVars
    <2>2. Len(contribs') = 0 /\ stats'.index = 0
      BY <2>1, EmptySeq DEF NoStats
    <2>3. Start(1)' = 0
      BY <2>1, StartOne, Frozen
    <2>4. \A f : AllLocated(f)'
      BY <2>2 DEF AllLocated
    <2>5. ASSUME NEW f \in 0..Members, cur' = f
          PROVE  stats'.index = Start(f + 1)'
      <3>1. f = 0
        BY <2>1, <2>5
      <3>2. QED
        BY <2>2, <2>3, <3>1
    <2>6. QED
      BY <2>1, <2>4, <2>5 DEF Tally
  <1>2. CASE Close \/ RecordBatchContributions \/ MarkDelivery \/ AllMarked \/ CloseBatch
             \/ Interrupted \/ UNCHANGED vars
    <2>1. /\ UNCHANGED <<content, failure, stats, before, contribs, cur, pos>>
          /\ stage' = stage \/ stage' \notin {"decode", "member"}
      BY <1>2 DEF RecordBatchContributions, MarkDelivery, AllMarked, CloseBatch, Interrupted,
                  Close, vars, sessVars, fileVars
    <2>2. Uniform' = Uniform /\ (\A f : Start(f)' = Start(f)) /\ (\A f, k : Done(f, k)' = Done(f, k))
          /\ \A f : AllLocated(f)' <=> AllLocated(f)
      BY <2>1, Frozen, LocatedStays
    <2>3. QED
      BY <2>1, <2>2 DEF Tally
  <1>3. QED
    BY <1>1, <1>2, TallyOpen, TallyEmit, TallyEnds DEF Next

LEMMA SomeoneStep ==
  ASSUME TypeInv, Someone, [Next]_vars
  PROVE  Someone'
  <1>1. CASE OpenMember
    <2>1. stage' # "decode" \/ ((\E d \in Dest : Live(d)) /\ UNCHANGED <<pending, tgt>>)
      BY <1>1 DEF OpenMember, Stop
    <2>2. QED
      BY <1>1, <2>1 DEF Someone, Live
  <1>2. CASE Emit
    <2>1. failure' # "none" => stage' = "close"
      BY <1>2, EmitParts DEF EmitWith, Stop
    <2>2. Uniform' = Uniform
      BY <1>2, Frozen DEF Emit, fileVars
    <2>3. QED
      BY <1>2, <2>1, <2>2, UniformEmit DEF Someone
  <1>3. CASE UNCHANGED vars
    BY <1>3 DEF vars, Someone, Live, Uniform
  <1>4. QED
    BY <1>1, <1>2, <1>3 DEF Next, NewMultiSession, StreamEnds, Stop, Close,
       RecordBatchContributions, MarkDelivery, AllMarked, CloseBatch, Interrupted, Someone, Live
LEMMA SeenStays ==
  ASSUME UNCHANGED <<content, contribs>>
  PROVE  \A f : Seen(f)' <=> Seen(f)
  BY DEF Seen

LEMMA EndedStep ==
  ASSUME TypeInv, Counting, Ended, [Next]_vars
  PROVE  Ended'
  <1> USE SessionAssumption
  <1>1. CASE NewMultiSession
    BY <1>1 DEF NewMultiSession, Ended, dbVars
  <1>2. CASE OpenMember
    <2>1. /\ stage = "member" /\ stage' \in {"member", "decode", "close"}
          /\ UNCHANGED <<pending, delivered>>
      BY <1>2 DEF OpenMember, Stop, dbVars
    <2>2. QED
      BY <2>1 DEF Ended
  <1>3. CASE Emit
    <2>1. UNCHANGED <<pending, delivered>> /\ stage = "decode" /\ stage' \in {"decode", "close"}
      BY <1>3, EmitParts DEF EmitWith, Stop, dbVars
    <2>2. QED
      BY <2>1 DEF Ended
  <1>4. CASE StreamEnds
    <2>1. UNCHANGED <<pending, delivered>> /\ stage = "decode" /\ stage' \in {"member", "close"}
      BY <1>4 DEF StreamEnds, Stop, dbVars
    <2>2. QED
      BY <2>1 DEF Ended
  <1>5. CASE Close
    <2>1. /\ stage = "close" /\ stage' \in {"persist", "dropped", "idle"}
          /\ stage' = "persist" => failure = "none"
          /\ UNCHANGED <<content, pending, delivered, failure, cur, pos, contribs>>
      BY <1>5 DEF Close, fileVars
    <2>2. stage' = "persist" => cur = Members /\ MemberDone /\ \A f \in Member : Seen(f)
      <3>1. failure = "none" => cur = Members /\ MemberDone
        BY <2>1 DEF TypeInv, Place
      <3>2. failure = "none" => \A f \in Member : Passed(f)
        BY <2>1, <3>1 DEF Passed, Member
      <3>3. QED
        BY <2>1, <3>1, <3>2 DEF Counting
    <2>3. MemberDone' <=> MemberDone
      BY <2>1 DEF MemberDone
    <2>4. QED
      BY <2>1, <2>2, <2>3, SeenStays DEF Ended
  <1>6. CASE RecordBatchContributions \/ MarkDelivery \/ AllMarked \/ CloseBatch \/ Interrupted
             \/ UNCHANGED vars
    <2>1. UNCHANGED <<content, pending, failure, cur, pos, contribs>> /\ delivered \subseteq delivered'
      BY <1>6 DEF RecordBatchContributions, MarkDelivery, AllMarked, CloseBatch, Interrupted,
                  vars, sessVars, fileVars, dbVars
    <2>2. (MemberDone' <=> MemberDone) /\ \A f : Seen(f)' <=> Seen(f)
      BY <2>1, SeenStays DEF MemberDone
    <2>3. \/ stage = "persist" /\ stage' = "mark"
          \/ stage' = stage /\ (stage = "commit" => UNCHANGED delivered)
          \/ stage = "mark" /\ stage' = "commit" /\ pending \subseteq delivered /\ UNCHANGED delivered
          \/ stage' \in {"idle", "committed"}
      BY <1>6 DEF RecordBatchContributions, MarkDelivery, AllMarked, CloseBatch, Interrupted,
                  vars, dbVars
    <2>4. QED
      BY <2>1, <2>2, <2>3 DEF Ended
  <1>7. QED
    BY <1>1, <1>2, <1>3, <1>4, <1>5, <1>6 DEF Next

LEMMA RowsTallyStep ==
  ASSUME TypeInv, Tally, RowsTally, [Next]_vars
  PROVE  RowsTally'
  <1>1. CASE RecordBatchContributions
    <2>1. failure = "none" /\ stage = "persist" /\ UNCHANGED content
      BY <1>1 DEF RecordBatchContributions, fileVars, TypeInv, Place
    <2>2. SUFFICES ASSUME Uniform, NEW f \in Member, bf'[f].in # 0
                   PROVE  bf'[f].out = Whole(f)
      BY <2>1, Frozen DEF RowsTally
    <2>3. CASE \E i \in DOMAIN contribs : contribs[i].member = f
      <3> DEFINE c == ContributionOf(f, contribs)
      <3>1. PICK i \in DOMAIN contribs : c = contribs[i] /\ c.member = f
        BY <2>3, ContributionsTyped
      <3>2. bf'[f] = [in |-> c.in, out |-> c.out, susp |-> c.susp]
        BY <1>1, <2>3 DEF RecordBatchContributions
      <3> HIDE DEF c
      <3>3. f \in 0..Members /\ i \in 1..Len(contribs)
        BY ShareFacts, SessionAssumption DEF Member
      <3>4. Located(f, c)
        BY <2>1, <2>2, <3>1, <3>3 DEF Tally, AllLocated
      <3>5. QED
        BY <3>2, <3>4 DEF Located
    <2>4. CASE ~\E i \in DOMAIN contribs : contribs[i].member = f
      <3>1. bf'[f] = bf[f]
        BY <1>1, <2>4 DEF RecordBatchContributions
      <3>2. QED
        BY <2>2, <3>1 DEF RowsTally
    <2>5. QED
      BY <2>3, <2>4
  <1>2. CASE UNCHANGED <<content, bf>>
    BY <1>2, Frozen DEF RowsTally
  <1>3. QED
    BY <1>1, <1>2 DEF Next, NewMultiSession, OpenMember, Emit, StreamEnds, Close, MarkDelivery,
       AllMarked, CloseBatch, Interrupted, vars, fileVars, dbVars
LEMMA SuspendsStays ==
  ASSUME Suspends, Passing' => Passing, UNCHANGED <<content, pending, suspended, cur, pos>>
  PROVE  Suspends'
  <1>1. Uniform' = Uniform
    BY Frozen
  <1>2. \A f, k : Unshaped(f, k)' <=> Unshaped(f, k)
    BY DEF Unshaped
  <1>3. QED
    BY <1>1, <1>2, Zenon DEF Suspends

LEMMA SuspendsOpen ==
  ASSUME TypeInv, Suspends, OpenMember
  PROVE  Suspends'
  <1>1. stage = "member" /\ failure = "none" /\ MemberDone /\ UNCHANGED <<content, pending, suspended>>
    BY DEF OpenMember, fileVars, TypeInv, Place
  <1>2. CASE stage' = "close" /\ UNCHANGED <<cur, pos>>
    BY <1>1, <1>2, SuspendsStays DEF Passing
  <1>3. CASE cur' = cur + 1 /\ pos' = 0
    <2>1. \A f \in Member : \A k \in 1..MaxRecords : Unshaped(f, k)' <=> Unshaped(f, k)
      <3>1. SUFFICES ASSUME NEW f \in Member, NEW k \in 1..MaxRecords, k \in 1..Len(content[f])
                     PROVE  (f < cur + 1 \/ (f = cur + 1 /\ k <= 0)) <=> (f < cur \/ (f = cur /\ k <= pos))
        BY <1>1, <1>3 DEF Unshaped
      <3>2. f \in Nat /\ cur \in Nat /\ k \in Nat /\ k >= 1 /\ f >= 1
        BY ShareFacts, SessionAssumption DEF Member
      <3>3. f = cur => k <= pos
        BY <1>1, <3>1, <3>2 DEF MemberDone
      <3>4. QED
        BY <3>2, <3>3
    <2>2. QED
      BY <1>1, <2>1, Frozen DEF Suspends, Passing
  <1>4. QED
    BY <1>2, <1>3 DEF OpenMember, Stop

LEMMA SuspendsEmit ==
  ASSUME TypeInv, Someone, Suspends, Emit
  PROVE  Suspends'
  <1>1. SUFFICES ASSUME Uniform, failure' = "none", NEW d0 \in Dest, pending' = {d0},
                        NEW f \in Member, NEW k \in 1..MaxRecords, NEW d \in Dest
                 PROVE  <<<<f, k>>, d>> \in suspended' <=> d = d0 /\ Unshaped(f, k)'
    BY Frozen DEF Suspends, Passing, Emit, fileVars
  <1>2. /\ stage = "decode" /\ stage' = "decode" /\ cur \in Member /\ pos \in Nat /\ pos' = pos + 1
        /\ pos + 1 \in 1..Len(content[cur]) /\ failure = "none"
        /\ UNCHANGED <<content, pending, cur>>
        /\ IF content[cur][pos + 1] = {}
           THEN suspended' = suspended \cup {<<<<cur, pos + 1>>, e>> : e \in {x \in Dest : Live(x)}}
           ELSE suspended' = suspended
    BY <1>1, UniformEmit
  <1>3. <<<<f, k>>, d>> \in suspended <=> d = d0 /\ Unshaped(f, k)
    BY <1>1, <1>2 DEF Suspends, Passing
  <1>4. {x \in Dest : Live(x)} = {d0}
    <2>1. PICK e \in Dest : Live(e)
      BY <1>1, <1>2 DEF Someone
    <2>2. \A x \in Dest : Live(x) => x = d0
      BY <1>1, <1>2 DEF Live
    <2>3. QED
      BY <2>1, <2>2
  <1>5. Unshaped(f, k)' <=> Unshaped(f, k) \/ (f = cur /\ k = pos + 1 /\ content[f][k] = {})
    <2>1. f \in Nat /\ cur \in Nat /\ k \in Nat
      BY ShareFacts, SessionAssumption
    <2>2. (f < cur \/ (f = cur /\ k <= pos + 1))
            <=> (f < cur \/ (f = cur /\ k <= pos)) \/ (f = cur /\ k = pos + 1)
      BY <1>2, <2>1
    <2>3. f = cur /\ k = pos + 1 => k \in 1..Len(content[f])
      BY <1>2
    <2>4. QED
      BY <1>2, <2>2, <2>3 DEF Unshaped
  <1>6. <<<<f, k>>, d>> \in suspended'
          <=> \/ <<<<f, k>>, d>> \in suspended
              \/ content[cur][pos + 1] = {} /\ f = cur /\ k = pos + 1 /\ d = d0
    BY <1>2, <1>4
  <1>7. QED
    BY <1>3, <1>5, <1>6

LEMMA SuspendsStep ==
  ASSUME TypeInv, Someone, Suspends, [Next]_vars
  PROVE  Suspends'
  <1>1. CASE NewMultiSession
    <2>1. suspended' = {} /\ cur' = 0 /\ UNCHANGED content
      BY <1>1 DEF NewMultiSession, fileVars
    <2>2. \A f \in Member : \A k : ~Unshaped(f, k)'
      BY <2>1, SessionAssumption DEF Unshaped, Member
    <2>3. QED
      BY <2>1, <2>2 DEF Suspends
  <1>2. CASE StreamEnds \/ Close
    <2>1. UNCHANGED <<content, pending, suspended, cur, pos>>
      BY <1>2 DEF StreamEnds, Close, fileVars
    <2>2. Passing' => Passing
      BY <1>2 DEF StreamEnds, Close, Stop, Passing, TypeInv, Place
    <2>3. QED
      BY <2>1, <2>2, SuspendsStays
  <1>3. CASE RecordBatchContributions \/ MarkDelivery \/ AllMarked \/ CloseBatch \/ Interrupted
             \/ UNCHANGED vars
    <2>1. UNCHANGED <<content, pending, suspended, cur, pos, failure>>
      BY <1>3 DEF RecordBatchContributions, MarkDelivery, AllMarked, CloseBatch, Interrupted,
                  vars, sessVars, fileVars
    <2>2. Passing' => Passing
      BY <1>3, <2>1 DEF RecordBatchContributions, MarkDelivery, AllMarked, CloseBatch, Interrupted,
                  vars, Passing
    <2>3. QED
      BY <2>1, <2>2, SuspendsStays
  <1>4. QED
    BY <1>1, <1>2, <1>3, SuspendsOpen, SuspendsEmit DEF Next

LEMMA CountsInvStep == TypeInv /\ Counting /\ CountsInv /\ [Next]_vars => CountsInv'
  BY TallyStep, SomeoneStep, EndedStep, RowsTallyStep, SuspendsStep DEF CountsInv

LEMMA CountsInvInit == Init => CountsInv
  <1>1. ASSUME Init
        PROVE  Tally /\ Someone /\ Ended /\ RowsTally /\ Suspends
    <2>1. stage = "idle" /\ contribs = << >> /\ bf = [f \in Member |-> NoCounts]
      BY <1>1 DEF Init
    <2>2. Len(contribs) = 0
      BY <2>1, EmptySeq
    <2>3. \A f : AllLocated(f)
      BY <2>2 DEF AllLocated
    <2>4. Tally /\ Someone /\ Ended /\ Suspends
      BY <2>1, <2>3 DEF Tally, Someone, Ended, Suspends, Passing
    <2>5. RowsTally
      BY <2>1 DEF RowsTally, NoCounts
    <2>6. QED
      BY <2>4, <2>5
  <1>2. QED
    BY <1>1 DEF CountsInv

LEMMA CountsKept == Spec => [](TypeInv /\ Counting /\ RowsCount /\ Listed /\ Published /\ CountsInv)
  <1>1. Init => Counting /\ RowsCount
    BY EmptySeq, Content, SessionAssumption, TypeInit
    DEF Init, Counting, RowsCount, NoStats, NoCounts, Passed, Full
  <1>2. Init => Listed /\ Published
    BY DEF Init, Listed, Published, Streaming, NoObject
  <1>3. TypeInv /\ Counting /\ [Next]_vars => Counting'
    BY CountingStep
  <1>4. TypeInv /\ Counting /\ RowsCount /\ [Next]_vars => RowsCount'
    BY CountedStep
  <1>5. TypeInv /\ Listed /\ [Next]_vars => Listed'
    BY ListedStep
  <1>6. TypeInv /\ Listed /\ Published /\ [Next]_vars => Published'
    BY PublishedStep
  <1>7. QED
    BY <1>1, <1>2, <1>3, <1>4, <1>5, <1>6, CountsInvInit, CountsInvStep, Typed, PTL DEF Spec
-----------------------------------------------------------------------------
(* The records of the files.                                               *)

\* What the session says of a file it has read to its end.
LEMMA ShareOf ==
  ASSUME TypeInv, Counting, Tally, Uniform, failure = "none", NEW f \in Member, Seen(f)
  PROVE  LET c == ContributionOf(f, contribs)
         IN c.in = Len(content[f]) /\ c.out = Whole(f)
  <1> DEFINE c == ContributionOf(f, contribs)
  <1>1. CASE \E i \in DOMAIN contribs : contribs[i].member = f
    <2>1. PICK i \in DOMAIN contribs : c = contribs[i] /\ c.member = f
      BY <1>1, ContributionsTyped
    <2> HIDE DEF c
    <2>2. i \in 1..Len(contribs) /\ f \in 0..Members
      BY ShareFacts, SessionAssumption DEF Member
    <2>3. Full(c) /\ Located(f, c)
      BY <2>1, <2>2 DEF Counting, Tally, AllLocated
    <2>4. QED
      BY <2>1, <2>3 DEF Full, Located, c
  <1>2. CASE ~\E i \in DOMAIN contribs : contribs[i].member = f
    <2>1. Len(content[f]) = 0 /\ Whole(f) = 0
      BY <1>2, ShareFacts, WholeIs DEF Seen
    <2>2. c = Contribution(f, NoStats, NoStats)
      BY <1>2 DEF ContributionOf
    <2>3. c.in = 0 /\ c.out = 0
      BY <2>2 DEF Contribution, NoStats
    <2>4. QED
      BY <2>1, <2>3
  <1>3. QED
    BY <1>1, <1>2

\* What the database says of a file once anything has been delivered.
LEMMA RowOf ==
  ASSUME TypeInv, RowsCount, RowsTally, Uniform, delivered # {}, NEW f \in Member
  PROVE  /\ bf[f].in = Len(content[f]) /\ bf[f].out = Whole(f)
         /\ bf[f].susp = Len(content[f]) - Whole(f)
  <1>1. bf[f].in \in Nat /\ bf[f].out \in Nat /\ bf[f].susp \in Nat
    BY DEF TypeInv, Shape, Counts, Count
  <1>2. bf[f].in = Len(content[f]) /\ bf[f].in = bf[f].out + bf[f].susp
    BY DEF RowsCount
  <1>3. Whole(f) \in Nat /\ Whole(f) <= Len(content[f])
    BY WholeIs
  <1>4. bf[f].out = Whole(f)
    <2>1. CASE bf[f].in = 0
      BY <1>1, <1>2, <1>3, <2>1
    <2>2. CASE bf[f].in # 0
      BY <2>2 DEF RowsTally
    <2>3. QED
      BY <2>1, <2>2
  <1>5. QED
    BY <1>1, <1>2, <1>3, <1>4

\* What the list of suspensions says of a file after a pass for one destination.
LEMMA SuspensionsOf ==
  ASSUME TypeInv, Suspends, Uniform, Passing, cur = Members, MemberDone,
         NEW d0 \in Dest, pending = {d0}, NEW f \in Member
  PROVE  Cardinality({s \in suspended : s[1][1] = f}) = Len(content[f]) - Whole(f)
  <1> DEFINE W == DOMAIN content[f] \ Written(f)
             T == {s \in suspended : s[1][1] = f}
             F == [k \in W |-> <<<<f, k>>, d0>>]
  <1>1. \A k \in W : k \in 1..Len(content[f]) /\ k \in 1..MaxRecords /\ content[f][k] = {}
    <2>1. Len(content[f]) \in 0..MaxRecords /\ Len(content[f]) \in Nat /\ MaxRecords \in Nat
      BY Content, WholeIs, SessionAssumption DEF TypeInv
    <2>2. DOMAIN content[f] = 1..Len(content[f])
      BY WholeIs
    <2>3. QED
      BY <2>1, <2>2 DEF Written
  <1>2. \A k : k \in W <=> Unshaped(f, k)
    <2>1. f < cur \/ f = cur
      BY SessionAssumption DEF Member
    <2>2. f = cur => pos = Len(content[f])
      BY SessionAssumption DEF MemberDone, Member
    <2>3. DOMAIN content[f] = 1..Len(content[f])
      BY WholeIs
    <2>4. \A k \in 1..Len(content[f]) : k \in W <=> content[f][k] = {}
      BY <2>3 DEF Written
    <2>5. \A k \in 1..Len(content[f]) : k <= Len(content[f])
      OBVIOUS
    <2> HIDE DEF W
    <2>6. ASSUME NEW k, Unshaped(f, k)
          PROVE  k \in W
      BY <2>4, <2>6 DEF Unshaped
    <2>7. ASSUME NEW k \in W
          PROVE  Unshaped(f, k)
      BY <1>1, <2>1, <2>2, <2>5 DEF Unshaped
    <2>8. QED
      BY <2>6, <2>7
  <1>3. F \in [W -> T]
    <2>1. ASSUME NEW k \in W
          PROVE  <<<<f, k>>, d0>> \in suspended
      BY <1>1, <1>2 DEF Suspends
    <2>2. QED
      BY <2>1
  <1>4. \A t \in T : \E k \in W : F[k] = t
    <2>1. SUFFICES ASSUME NEW t \in T
                   PROVE  \E k \in W : <<<<f, k>>, d0>> = t
      BY Zenon
    <2>2. t \in suspended /\ t[1] \in Records /\ t[2] \in Dest /\ t = <<t[1], t[2]>> /\ t[1][1] = f
      BY DEF TypeInv, Shape
    <2>3. t[1] = <<f, t[1][2]>> /\ t[1][2] \in 1..MaxRecords
      BY <2>2, RecordIs
    <2>4. PICK k \in 1..MaxRecords : t = <<<<f, k>>, t[2]>>
      BY <2>2, <2>3
    <2>5. t[2] = d0 /\ Unshaped(f, k)
      BY <2>2, <2>4 DEF Suspends
    <2>6. QED
      BY <1>2, <2>4, <2>5
  <1>5. \A a, b \in W : F[a] = F[b] => a = b
    OBVIOUS
  <1>6. IsFiniteSet(W) /\ Cardinality(W) = Len(content[f]) - Whole(f)
    <2>1. /\ IsFiniteSet(1..Len(content[f])) /\ Cardinality(1..Len(content[f])) = Len(content[f])
      BY WholeIs, FS_Interval
    <2>2. DOMAIN content[f] = 1..Len(content[f]) /\ Written(f) \subseteq 1..Len(content[f])
      BY WholeIs
    <2>3. (1..Len(content[f])) \cap Written(f) = Written(f)
      BY <2>2
    <2>4. Cardinality(Written(f)) = Whole(f)
      BY WholeIs
    <2>5. /\ IsFiniteSet((1..Len(content[f])) \ Written(f))
          /\ Cardinality((1..Len(content[f])) \ Written(f))
               = Len(content[f]) - Cardinality((1..Len(content[f])) \cap Written(f))
      BY <2>1, FS_Difference
    <2>6. QED
      BY <2>2, <2>3, <2>4, <2>5
  <1> HIDE DEF W, T, F
  <1>7. Cardinality(T) = Cardinality(W)
    BY <1>3, <1>4, <1>5, <1>6, SameCount
  <1>8. QED
    BY <1>6, <1>7 DEF T

LEMMA ReconciledStep ==
  ASSUME TypeInv, Counting, RowsCount, CountsInv, FilesReconciled, [Next]_vars
  PROVE  FilesReconciled'
  <1>1. CASE CloseBatch
    <2>1. /\ stage = "commit" /\ UNCHANGED <<content, pending>>
          /\ pf' = [f \in Member |-> IF pending = {} THEN bf[f] ELSE BatchPF(f)]
      BY <1>1 DEF CloseBatch, fileVars, sessVars
    <2>2. Uniform' = Uniform /\ \A f : Truth(f)' = Truth(f)
      BY <2>1, Frozen DEF Truth
    <2>3. SUFFICES ASSUME Uniform, NEW f \in Member
                   PROVE  /\ pf'[f].in = Len(content[f]) /\ pf'[f].out = Whole(f)
                          /\ Cardinality(pending) <= 1 => pf'[f].susp = Len(content[f]) - Whole(f)
      <3>1. \A f \in Member : /\ Truth(f).in = Len(content[f]) /\ Truth(f).out = Whole(f)
                              /\ Truth(f).susp = Len(content[f]) - Whole(f)
        BY WholeIs DEF Truth
      <3>2. QED
        BY <2>1, <2>2, <3>1 DEF FilesReconciled
    <2>4. delivered # {} /\ Tally /\ RowsTally /\ Suspends /\ Ended
      BY <2>1, SessionAssumption DEF CountsInv, Ended
    <2>5. CASE pending = {}
      <3>1. pf'[f] = bf[f]
        BY <2>1, <2>5
      <3>2. QED
        BY <2>3, <2>4, <3>1, RowOf
    <2>6. CASE pending # {}
      <3>1. /\ failure = "none" /\ cur = Members /\ MemberDone /\ Seen(f)
        BY <2>1, <2>4, <2>6 DEF Ended
      <3>2. pf'[f] = BatchPF(f)
        BY <2>1, <2>6
      <3> DEFINE c == ContributionOf(f, contribs)
                 n == Cardinality({s \in suspended : s[1][1] = f})
      <3>3. BatchPF(f) = [in |-> c.in, out |-> c.out, susp |-> n]
        BY DEF BatchPF
      <3>4. c.in = Len(content[f]) /\ c.out = Whole(f)
        BY <2>3, <2>4, <3>1, ShareOf
      <3>5. Cardinality(pending) <= 1 => n = Len(content[f]) - Whole(f)
        <4>1. SUFFICES ASSUME Cardinality(pending) <= 1
                       PROVE  n = Len(content[f]) - Whole(f)
          OBVIOUS
        <4>2. pending \subseteq Dest /\ IsFiniteSet(pending)
          BY FS_Subset, SessionAssumption DEF TypeInv, Shape
        <4>3. Cardinality(pending) = 1
          BY <2>6, <4>1, <4>2, FS_EmptySet, FS_CardinalityType
        <4>4. PICK d0 : pending = {d0}
          BY <4>2, <4>3, FS_Singleton
        <4>5. d0 \in Dest /\ Passing
          BY <2>1, <3>1, <4>2, <4>4 DEF Passing
        <4>6. QED
          BY <2>3, <2>4, <3>1, <4>4, <4>5, SuspensionsOf
      <3> HIDE DEF c, n
      <3>6. QED
        BY <3>2, <3>3, <3>4, <3>5
    <2>7. QED
      BY <2>5, <2>6
  <1>2. CASE UNCHANGED vars
    BY <1>2 DEF vars, FilesReconciled, Uniform, Truth, Written
  <1>3. QED
    BY <1>1, <1>2, EmitParts DEF Next, NewMultiSession, OpenMember, StreamEnds, Close, Stop,
       RecordBatchContributions, MarkDelivery, AllMarked, Interrupted, FilesReconciled, EmitWith

\* When destinations agree on what can be shaped, the record of a file says how many of
\* its records were read, written and (after a pass for one destination) suspended,
\* whether it is taken from the session or from the database (batchPFs,
\* batchPFsFromBatch).
THEOREM FilesAreReconciled == Spec => []FilesReconciled
  <1>1. Init => FilesReconciled
    BY DEF Init, FilesReconciled
  <1>2. TypeInv /\ Counting /\ RowsCount /\ CountsInv /\ FilesReconciled /\ [Next]_vars
          => FilesReconciled'
    BY ReconciledStep
  <1>3. QED
    BY <1>1, <1>2, CountsKept, PTL DEF Spec
-----------------------------------------------------------------------------
(* The lineage.                                                            *)

\* The places of a member's records in an object.
LEMMA PlacesOf ==
  ASSUME TypeInv, Uniform, NEW d \in Dest, NEW s, Lists(s, Shapeable(d)), NEW f \in Member
  PROVE  {n \in DOMAIN s : s[n][1] = f} = (Start(f) + 1)..(Start(f) + Whole(f))
  <1> DEFINE N(g) == {n \in 1..Len(s) : s[n] \in Below(g)}
  <1>1. \A r \in Records : r \in Shapeable(d) <=> r[2] \in Written(r[1])
    <2>1. ASSUME NEW r \in Records
          PROVE  r[2] \in DOMAIN content[r[1]] =>
                   (d \in content[r[1]][r[2]] <=> content[r[1]][r[2]] # {})
      BY RecordIs DEF Uniform
    <2>2. QED
      BY <2>1 DEF Shapeable, Written
  <1>2. Shapeable(d) \subseteq Records /\ DOMAIN s = 1..Len(s)
    BY LenProperties DEF Shapeable, Lists
  <1>3. ASSUME NEW g \in Nat
        PROVE  N(g) = 1..Start(g)
    <2>1. Below(g) \subseteq Shapeable(d) /\ IsFiniteSet(Below(g))
      BY <1>1, BelowFinite DEF Below
    <2>2. ASSUME NEW x \in Below(g), NEW y \in Shapeable(d), Before(y, x)
          PROVE  y \in Below(g)
      <3>1. y \in Records /\ y[2] \in Written(y[1]) /\ x[1] < g /\ x \in Records
        BY <1>1, <1>2 DEF Below
      <3>2. y[1] \in Nat /\ x[1] \in Nat
        BY <3>1, RecordIs, MembersNat
      <3>3. y[1] < g
        BY <2>2, <3>1, <3>2 DEF Before
      <3>4. QED
        BY <3>1, <3>3 DEF Below
    <2>3. QED
      BY <1>2, <2>1, <2>2, FirstOnes DEF Start
  <1>4. f \in Nat /\ f + 1 \in Nat
    BY MembersNat
  <1>5. \A n \in 1..Len(s) : s[n][1] = f <=> n \in N(f + 1) /\ n \notin N(f)
    <2>1. ASSUME NEW n \in 1..Len(s)
          PROVE  s[n][1] = f <=> s[n] \in Below(f + 1) /\ s[n] \notin Below(f)
      <3>1. s[n] \in Shapeable(d)
        BY DEF Lists
      <3>2. s[n] \in Records /\ s[n][2] \in Written(s[n][1]) /\ s[n][1] \in Nat
        BY <1>1, <1>2, <3>1, RecordIs, MembersNat
      <3>3. s[n][1] = f <=> s[n][1] < f + 1 /\ ~(s[n][1] < f)
        BY <1>4, <3>2
      <3>4. QED
        BY <3>2, <3>3 DEF Below
    <2>2. QED
      BY <2>1
  <1>6. Start(f) \in Nat /\ Whole(f) \in Nat /\ Start(f + 1) = Start(f) + Whole(f)
    BY BelowFinite, WholeIs, StartNext
  <1>7. N(f) = 1..Start(f) /\ N(f + 1) = 1..(Start(f) + Whole(f))
    BY <1>3, <1>4, <1>6
  <1>8. N(f + 1) \subseteq 1..Len(s)
    OBVIOUS
  <1> HIDE DEF N
  <1>9. {n \in DOMAIN s : s[n][1] = f} = N(f + 1) \ N(f)
    BY <1>2, <1>5, <1>8
  <1>10. (1..(Start(f) + Whole(f))) \ (1..Start(f)) = (Start(f) + 1)..(Start(f) + Whole(f))
    BY <1>6
  <1>11. QED
    BY <1>7, <1>9, <1>10

LEMMA LocatedPlaces ==
  ASSUME TypeInv, Uniform, NEW d \in Dest, NEW s, Lists(s, Shapeable(d)), NEW f \in Member,
         NEW c, Located(f, c)
  PROVE  {n \in DOMAIN s : s[n][1] = f} = (c.first + 1)..(c.last + 1)
  <1>1. {n \in DOMAIN s : s[n][1] = f} = (Start(f) + 1)..(Start(f) + Whole(f))
    BY PlacesOf
  <1>2. Start(f) \in Nat /\ Whole(f) \in Nat
    BY BelowFinite, WholeIs
  <1>3. CASE Whole(f) = 0
    <2>1. c.first = 0 /\ c.last = -1
      BY <1>3 DEF Located
    <2>2. (Start(f) + 1)..(Start(f) + Whole(f)) = {} /\ (c.first + 1)..(c.last + 1) = {}
      BY <1>2, <1>3, <2>1
    <2>3. QED
      BY <1>1, <2>2
  <1>4. CASE Whole(f) # 0
    <2>1. c.first = Start(f) /\ c.last = Start(f) + Whole(f) - 1
      BY <1>4 DEF Located
    <2>2. c.first + 1 = Start(f) + 1 /\ c.last + 1 = Start(f) + Whole(f)
      BY <1>2, <2>1
    <2>3. QED
      BY <1>1, <2>2
  <1>5. QED
    BY <1>3, <1>4

\* The rebuilt lineage starts every member where it starts.
LEMMA OffsetIs ==
  ASSUME TypeInv, \A f \in Member : bf[f].out = Whole(f)
  PROVE  \A f \in Member : Offset[f] = Start(f)
  <1> DEFINE D == 1..Members + 1
             Rule(o) == o = [f \in D |-> IF f = 1 THEN 0 ELSE o[f - 1] + bf[f - 1].out]
             g == [f \in D |-> Start(f)]
  <1>1. ASSUME NEW f \in D
        PROVE  g[f] = IF f = 1 THEN 0 ELSE g[f - 1] + bf[f - 1].out
    <2>1. CASE f = 1
      BY <2>1, StartOne
    <2>2. CASE f # 1
      <3>1. f - 1 \in Member /\ f - 1 \in D /\ f - 1 + 1 = f
        BY <2>2, SessionAssumption DEF Member
      <3>2. Start(f) = Start(f - 1) + Whole(f - 1)
        BY <3>1, StartNext
      <3>3. QED
        BY <2>2, <3>1, <3>2
    <2>3. QED
      BY <2>1, <2>2
  <1>2. Rule(g)
    BY <1>1
  <1>3. Offset = CHOOSE o : Rule(o)
    BY DEF Offset
  <1>4. Rule(Offset)
    BY <1>2, <1>3
  <1>5. ASSUME NEW f \in D, Offset[f] # Start(f)
        PROVE  FALSE
    <2> DEFINE S == {k \in D : Offset[k] # Start(k)}
    <2>1. S \subseteq Nat /\ S # {}
      BY <1>5, SessionAssumption
    <2>2. PICK m \in S : \A k \in S : m <= k
      BY <2>1, LeastNat
    <2>3. m \in D /\ Offset[m] # Start(m)
      OBVIOUS
    <2>4. m # 1
      BY <1>4, <2>3, StartOne
    <2>5. m - 1 \in D /\ m - 1 \in Member /\ m - 1 + 1 = m
      BY <2>3, <2>4, SessionAssumption DEF Member
    <2>6. Offset[m - 1] = Start(m - 1)
      BY <2>2, <2>3, <2>5, SessionAssumption
    <2>7. Offset[m] = Offset[m - 1] + bf[m - 1].out
      BY <1>4, <2>3, <2>4
    <2>8. Start(m) = Start(m - 1) + Whole(m - 1)
      BY <2>5, StartNext
    <2>9. QED
      BY <2>3, <2>5, <2>6, <2>7, <2>8, Zenon
  <1>6. Member \subseteq D
    BY SessionAssumption DEF Member
  <1>7. QED
    BY <1>5, <1>6

LEMMA LineageStep ==
  ASSUME TypeInv, Counting, RowsCount, Published, CountsInv, LineageLocates, [Next]_vars
  PROVE  LineageLocates'
  <1>1. CASE CloseBatch
    <2>1. /\ stage = "commit" /\ UNCHANGED <<content, objects>>
          /\ dc' = [d \in Dest |-> IF contribs = << >> THEN [f \in Member |-> Rebuilt(f)] ELSE contribs]
      BY <1>1 DEF CloseBatch, fileVars, dbVars
    <2>2. Uniform' = Uniform
      BY <2>1, Frozen
    <2>9. SUFFICES ASSUME Uniform, NEW d \in Dest, NEW i \in DOMAIN dc'[d]
                   PROVE  {n \in DOMAIN objects'[d].recs : objects'[d].recs[n][1] = dc'[d][i].member}
                            = (dc'[d][i].first + 1)..(dc'[d][i].last + 1)
      BY <2>2, Zenon DEF LineageLocates
    <2>3. SUFFICES {n \in DOMAIN objects[d].recs : objects[d].recs[n][1] = dc'[d][i].member}
                     = (dc'[d][i].first + 1)..(dc'[d][i].last + 1)
      BY <2>1
    <2>4. delivered # {} /\ d \in delivered /\ Tally /\ RowsTally /\ Ended
      BY <2>1, SessionAssumption DEF CountsInv, Ended
    <2>5. Lists(objects[d].recs, Shapeable(d))
      BY <2>4 DEF Published
    <2>6. CASE contribs = << >>
      <3>1. dc'[d] = [f \in Member |-> Rebuilt(f)] /\ i \in Member /\ dc'[d][i] = Rebuilt(i)
        BY <2>1, <2>9, <2>6
      <3>2. \A f \in Member : bf[f].out = Whole(f)
        BY <2>9, <2>4, RowOf
      <3>3. Offset[i] = Start(i)
        BY <3>1, <3>2, OffsetIs
      <3>4. Located(i, Rebuilt(i)) /\ Rebuilt(i).member = i
        BY <3>1, <3>2, <3>3 DEF Located, Rebuilt
      <3>5. QED
        BY <2>9, <2>5, <3>1, <3>4, LocatedPlaces
    <2>7. CASE contribs # << >>
      <3>1. dc'[d] = contribs
        BY <2>1, <2>7
      <3>2. i \in 1..Len(contribs) /\ contribs[i] \in Share
        BY <2>9, <3>1, ShareFacts
      <3>3. contribs[i].member \in Member /\ contribs[i].member \in 0..Members
        BY <3>2, SessionAssumption DEF Share, Member
      <3>4. failure = "none"
        BY <2>1, <2>4, <2>7 DEF Ended
      <3>5. Located(contribs[i].member, contribs[i])
        BY <2>9, <2>4, <3>2, <3>3, <3>4 DEF Tally, AllLocated
      <3>6. QED
        BY <2>9, <2>5, <3>1, <3>3, <3>5, LocatedPlaces
    <2>8. QED
      BY <2>6, <2>7
  <1>2. CASE UNCHANGED vars
    BY <1>2 DEF vars, LineageLocates, Uniform
  <1>3. QED
    BY <1>1, <1>2, EmitParts DEF Next, NewMultiSession, OpenMember, StreamEnds, Close, Stop,
       RecordBatchContributions, MarkDelivery, AllMarked, Interrupted, LineageLocates, EmitWith

\* When destinations agree on what can be shaped, the lineage of a file names the places
\* its records have in every destination's object, whether it is the session's or rebuilt
\* from the database (Session.Consume, ProcessBatch's resume path).
THEOREM LineageIsRight == Spec => []LineageLocates
  <1>1. Init => LineageLocates
    BY DEF Init, LineageLocates
  <1>2. TypeInv /\ Counting /\ RowsCount /\ Published /\ CountsInv /\ LineageLocates /\ [Next]_vars
          => LineageLocates'
    BY LineageStep
  <1>3. QED
    BY <1>1, <1>2, CountsKept, PTL DEF Spec
=============================================================================
