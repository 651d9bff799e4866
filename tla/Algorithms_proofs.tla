------------------------- MODULE Algorithms_proofs -------------------------
(***************************************************************************)
(* What the program's pure algorithms compute, for every input: the        *)
(* estimate of the server's clock (ReferenceClock), the choice of a slot   *)
(* (SlotChoice), the checks a configuration passes (Configuration) and the *)
(* plan of a date toggle (ToggleSchedule).                                 *)
(***************************************************************************)
EXTENDS ReferenceClock, Configuration, ToggleSchedule, FiniteMinima

-----------------------------------------------------------------------------
(* ReferenceClock.  With samples of one server clock, read over any round  *)
(* trips, the true offset lies in the interval of the estimate and within  *)
(* its uncertainty of the centre, so that the page is armed before the     *)
(* opening.                                                                *)

\* Samples.

Samples ==
  {x \in [t0 : Int, t1 : Int, serverDateMs : Int, rttMs : Int, lowerMs : Int, upperMs : Int,
          fromCache : BOOLEAN] :
     /\ x.t0 <= x.t1
     /\ x = createReferenceClockSample(x.t0, x.t1, x.serverDateMs, x.fromCache)}

\* The intervals at the positions I of s.
Intervals(s, I) ==
  /\ IsFiniteSet(I) /\ I \subseteq Int
  /\ \A i \in I : /\ s[i].lowerMs \in Int /\ s[i].upperMs \in Int /\ s[i].rttMs \in Nat
                  /\ s[i].lowerMs < s[i].upperMs

\* The interval of a sample holds the offset of the server's clock, whenever between the
\* request and the answer the Date header was stamped (createReferenceClockSample).
THEOREM SampleHoldsOffset ==
  ASSUME NEW t0 \in Int, NEW t1 \in Int, NEW stamp \in t0 .. t1, NEW offset \in Int,
         NEW cached \in BOOLEAN
  PROVE  LET x == createReferenceClockSample(t0, t1, 1000 * ((stamp + offset) \div 1000), cached)
         IN x \in Samples /\ x.lowerMs <= offset /\ offset < x.upperMs
<1> DEFINE q == (stamp + offset) \div 1000
<1>1. q \in Int /\ 1000 * q <= stamp + offset /\ stamp + offset < 1000 * q + 1000
  OBVIOUS
<1> HIDE DEF q
<1> QED BY <1>1 DEF createReferenceClockSample, Samples

-----------------------------------------------------------------------------
(* Clusters *)

\* A cluster is the overlap of the intervals around the lower end of sample i.
LEMMA ClusterFacts ==
  ASSUME NEW s, NEW I, Intervals(s, I), NEW i \in I
  PROVE  LET c == clusterAt(s, I, i)
             over == covering(s, I, s[i].lowerMs)
         IN /\ i \in over
            /\ c.lower \in Int /\ c.upper \in Int /\ c.center2 = c.lower + c.upper
            /\ c.spread2 \in Int /\ c.support \in Nat /\ c.support = Cardinality(over)
            /\ \E j \in over : c.lower = s[j].lowerMs
            /\ \E j \in over : c.upper = s[j].upperMs
<1> DEFINE over == covering(s, I, s[i].lowerMs)
           low  == [j \in over |-> s[j].lowerMs]
           high == [j \in over |-> s[j].upperMs]
           mid  == [j \in over |-> s[j].lowerMs + s[j].upperMs]
<1>1. over \subseteq I /\ i \in over
  BY DEF covering, Intervals
<1>2. IsFiniteSet(over) /\ Cardinality(over) \in Nat
  BY <1>1, FS_Subset, FS_CardinalityType DEF Intervals
<1>3. \A j \in over : s[j].lowerMs \in Int /\ s[j].upperMs \in Int
  BY <1>1 DEF Intervals
<1>4. /\ {s[j].lowerMs : j \in over} = {low[j] : j \in over}
      /\ {s[j].upperMs : j \in over} = {high[j] : j \in over}
      /\ {s[j].lowerMs + s[j].upperMs : j \in over} = {mid[j] : j \in over}
  <2> HIDE DEF over
  <2> QED OBVIOUS
<1>5. \A j \in over : low[j] \in Int /\ high[j] \in Int /\ mid[j] \in Int
  <2> HIDE DEF over
  <2> QED BY <1>3
<1>6. /\ Max({low[j] : j \in over}) \in Int
      /\ \E k \in over : Max({low[j] : j \in over}) = low[k]
  <2> HIDE DEF over, low
  <2> QED BY <1>1, <1>2, <1>5, GreatestValue
<1>7. /\ Min({high[j] : j \in over}) \in Int
      /\ \E k \in over : Min({high[j] : j \in over}) = high[k]
  <2> HIDE DEF over, high
  <2> QED BY <1>1, <1>2, <1>5, LeastValue
<1>8. Max({mid[j] : j \in over}) \in Int /\ Min({mid[j] : j \in over}) \in Int
  <2> HIDE DEF over, mid
  <2> QED BY <1>1, <1>2, <1>5, LeastValue, GreatestValue
<1>9. clusterAt(s, I, i) =
        [lower |-> Max({low[j] : j \in over}), upper |-> Min({high[j] : j \in over}),
         center2 |-> Max({low[j] : j \in over}) + Min({high[j] : j \in over}),
         support |-> Cardinality(over),
         spread2 |-> Max({mid[j] : j \in over}) - Min({mid[j] : j \in over})]
  BY <1>4 DEF clusterAt
<1>10. \A j \in over : low[j] = s[j].lowerMs /\ high[j] = s[j].upperMs
  <2> HIDE DEF over
  <2> QED OBVIOUS
<1> HIDE DEF over, low, high, mid
<1>11. i \in over /\ over = covering(s, I, s[i].lowerMs)
  BY <1>1 DEF over
<1> DEFINE c == clusterAt(s, I, i)
<1>12. /\ c.lower \in Int /\ c.upper \in Int /\ c.center2 = c.lower + c.upper
       /\ c.spread2 \in Int /\ c.support \in Nat /\ c.support = Cardinality(over)
  BY <1>2, <1>6, <1>7, <1>8, <1>9
<1>13. (\E j \in over : c.lower = s[j].lowerMs) /\ (\E j \in over : c.upper = s[j].upperMs)
  <2>1. c.lower = Max({low[j] : j \in over}) /\ c.upper = Min({high[j] : j \in over})
    BY <1>9
  <2> QED BY <1>6, <1>7, <1>10, <2>1
<1> HIDE DEF c
<1> QED BY <1>11, <1>12, <1>13 DEF c

\* The sweep finds a cluster no other one is better than.
LEMMA DominantExists ==
  ASSUME NEW s, NEW I, Intervals(s, I), I # {}
  PROVE  \E i \in I : /\ findMaxCoverageCluster(s, I) = clusterAt(s, I, i)
                      /\ \A j \in I : ~better(clusterAt(s, I, j), clusterAt(s, I, i))
<1> DEFINE R == {p \in I \X I : beats(s, I, p[1], p[2])}
           cl == [i \in I |-> clusterAt(s, I, i)]
<1>1. \A i \in I : /\ cl[i].support \in Int /\ cl[i].spread2 \in Int /\ cl[i].center2 \in Int
                   /\ cl[i] = clusterAt(s, I, i)
  BY ClusterFacts
<1> HIDE DEF cl
<1>2. \A a, b \in I : <<a, b>> \in R <=>
             better(cl[a], cl[b]) \/ (~better(cl[b], cl[a]) /\ a < b)
  BY <1>1 DEF beats
<1> HIDE DEF R
<1>3. \A a \in I : a \in Int
  BY DEF Intervals
<1>4. \A a \in I : <<a, a>> \notin R
  BY <1>1, <1>2, <1>3 DEF better
<1>5. \A a, b, c \in I : <<a, b>> \in R /\ <<b, c>> \in R => <<a, c>> \in R
  BY <1>1, <1>2, <1>3 DEF better
<1>6. \E i \in I : \A j \in I : <<j, i>> \notin R
  BY <1>4, <1>5, HasMinimal DEF Intervals
<1> DEFINE top == CHOOSE i \in I : \A j \in I : ~beats(s, I, j, i)
<1>7. top \in I /\ \A j \in I : ~beats(s, I, j, top)
  BY <1>6 DEF R
<1>8. findMaxCoverageCluster(s, I) = clusterAt(s, I, top)
  BY DEF findMaxCoverageCluster
<1> HIDE DEF top
<1>9. \A j \in I : ~better(clusterAt(s, I, j), clusterAt(s, I, top))
  BY <1>7 DEF beats
<1> QED BY <1>7, <1>8, <1>9

\* Where every interval holds one offset, the dominant cluster is the overlap of them all.
LEMMA OneServerOneCluster ==
  ASSUME NEW s, NEW I, Intervals(s, I), I # {}, NEW offset \in Int,
         \A i \in I : s[i].lowerMs <= offset /\ offset < s[i].upperMs
  PROVE  LET c == findMaxCoverageCluster(s, I)
         IN /\ c.lower \in Int /\ c.upper \in Int /\ c.center2 = c.lower + c.upper
            /\ c.lower <= offset /\ offset < c.upper
            /\ c.support = Cardinality(I)
<1>1. PICK i \in I : /\ findMaxCoverageCluster(s, I) = clusterAt(s, I, i)
                    /\ \A j \in I : ~better(clusterAt(s, I, j), clusterAt(s, I, i))
  BY DominantExists
<1> DEFINE low == [j \in I |-> s[j].lowerMs]
<1>2. PICK k \in I : \A j \in I : s[j].lowerMs <= s[k].lowerMs
  <2>1. \A j \in I : low[j] \in Int /\ low[j] = s[j].lowerMs
    BY DEF Intervals
  <2> HIDE DEF low
  <2> DEFINE highest == Max({low[j] : j \in I})
  <2>2. IsFiniteSet(I)
    BY DEF Intervals
  <2>3. /\ \E i0 \in I : Max({low[i1] : i1 \in I}) = low[i0]
        /\ \A i0 \in I : Max({low[i1] : i1 \in I}) >= low[i0]
    <3>1. \A i0 \in I : low[i0] \in Int
      BY <2>1
    <3> QED BY <2>2, <3>1, GreatestValue
  <2>4. (\E i0 \in I : highest = low[i0]) /\ \A i0 \in I : highest >= low[i0]
    BY <2>3
  <2> HIDE DEF highest
  <2>5. PICK i0 \in I : highest = low[i0]
    BY <2>4
  <2> QED BY <2>1, <2>4, <2>5
<1>3. covering(s, I, s[k].lowerMs) = I
  <2>1. \A j \in I : s[j].lowerMs <= s[k].lowerMs /\ s[k].lowerMs < s[j].upperMs
    BY <1>2 DEF Intervals
  <2> QED BY <2>1 DEF covering
<1>4. /\ clusterAt(s, I, k).support = Cardinality(I)
      /\ clusterAt(s, I, k).support \in Nat
  BY <1>3, ClusterFacts
<1> DEFINE c == clusterAt(s, I, i)
           over == covering(s, I, s[i].lowerMs)
<1>5. /\ c.lower \in Int /\ c.upper \in Int /\ c.center2 = c.lower + c.upper
      /\ c.support \in Nat /\ c.support = Cardinality(over)
      /\ \E j \in over : c.lower = s[j].lowerMs
      /\ \E j \in over : c.upper = s[j].upperMs
  BY ClusterFacts
<1>6. c.support >= Cardinality(I)
  <2>1. ~better(clusterAt(s, I, k), c)
    BY <1>1
  <2> HIDE DEF c
  <2> QED BY <1>4, <1>5, <2>1 DEF better
<1>7. over \subseteq I
  BY DEF covering
<1>8. Cardinality(over) <= Cardinality(I) /\ Cardinality(I) \in Nat
  BY <1>7, FS_Subset, FS_CardinalityType DEF Intervals
<1> HIDE DEF c, over
<1>9. \A j \in over : s[j].lowerMs <= offset /\ offset < s[j].upperMs
  BY <1>7
<1>10. c.lower <= offset /\ offset < c.upper
  BY <1>5, <1>9
<1>11. c.support = Cardinality(I)
  <2>1. c.support \in Nat /\ c.support = Cardinality(over)
    BY <1>5
  <2> QED BY <1>6, <1>8, <2>1
<1>12. findMaxCoverageCluster(s, I) = c
  BY <1>1 DEF c
<1> QED BY <1>5, <1>10, <1>11, <1>12
-----------------------------------------------------------------------------
(* Round trips *)

LEMMA SmallestFacts ==
  ASSUME NEW s, NEW I, Intervals(s, I), I # {}, NEW k \in Int, k <= Cardinality(I)
  PROVE  \E i \in I : smallest(s, I, k) = s[i].rttMs
<1> DEFINE rtt == [i \in I |-> s[i].rttMs]
           V == {s[i].rttMs : i \in I}
           U == {v \in V : k <= Cardinality({i \in I : s[i].rttMs <= v})}
<1>1. IsFiniteSet(I) /\ \A i \in I : s[i].rttMs \in Nat
  BY DEF Intervals
<1>2. V \in SUBSET Int /\ V # {} /\ IsFiniteSet(V)
  <2>1. V = {rtt[i] : i \in I}
    OBVIOUS
  <2>2. IsFiniteSet(V)
    <3> HIDE DEF V, rtt
    <3> QED BY <1>1, <2>1, ImageOfFinite
  <2> QED BY <1>1, <2>2
<1>3. PICK v \in V : \A x \in V : v >= x
  <2> HIDE DEF V
  <2> QED BY <1>2, MaxOfFinite
<1>4. {i \in I : s[i].rttMs <= v} = I
  BY <1>1, <1>3
<1>5. U \in SUBSET Int /\ U # {} /\ IsFiniteSet(U)
  <2>1. v \in U
    BY <1>4
  <2>2. U \subseteq V
    OBVIOUS
  <2> HIDE DEF U, V
  <2> QED BY <1>2, <2>1, <2>2, FS_Subset
<1>6. Min(U) \in U
  <2> HIDE DEF U
  <2> QED BY <1>5, MinOfFinite
<1>7. smallest(s, I, k) = Min(U)
  BY DEF smallest
<1>8. Min(U) \in V
  BY <1>6
<1> HIDE DEF U
<1> QED BY <1>7, <1>8

LEMMA UsableFacts ==
  ASSUME NEW s \in Seq(Samples)
  PROVE  Intervals(s, usable(s)) /\ usable(s) \subseteq DOMAIN s
<1>1. DOMAIN s = 1 .. Len(s) /\ Len(s) \in Nat /\ \A i \in DOMAIN s : s[i] \in Samples
  OBVIOUS
<1>2. usable(s) \subseteq DOMAIN s
  BY DEF usable
<1>3. IsFiniteSet(usable(s))
  <2>1. IsFiniteSet(1 .. Len(s))
    BY <1>1, FS_Interval
  <2>2. usable(s) \in SUBSET (1 .. Len(s))
    BY <1>1, <1>2
  <2> QED BY <2>1, <2>2, FS_Subset
<1>4. \A x \in Samples : /\ x.lowerMs \in Int /\ x.upperMs \in Int /\ x.rttMs \in Nat
                         /\ x.lowerMs < x.upperMs
  BY DEF Samples, createReferenceClockSample
<1> QED BY <1>1, <1>2, <1>3, <1>4 DEF Intervals

\* The fastest of the usable samples is never left out.
LEMMA KeptFacts ==
  ASSUME NEW s \in Seq(Samples)
  PROVE  /\ Intervals(s, kept(s)) /\ kept(s) \subseteq usable(s)
         /\ usable(s) # {} => kept(s) # {}
<1> DEFINE I == usable(s)
           n == Cardinality(I)
           rtt == [i \in I |-> s[i].rttMs]
<1>1. Intervals(s, I)
  BY UsableFacts
<1>2. kept(s) \subseteq I
  BY DEF kept
<1>3. Intervals(s, kept(s))
  <2> HIDE DEF I
  <2>1. IsFiniteSet(kept(s))
    BY <1>1, <1>2, FS_Subset DEF Intervals
  <2> QED BY <1>1, <1>2, <2>1 DEF Intervals
<1>4. ASSUME I # {} PROVE kept(s) # {}
  <2> HIDE DEF I
  <2>1. IsFiniteSet(I) /\ \A i \in I : s[i].rttMs \in Nat
    BY <1>1 DEF Intervals
  <2>2. n \in Nat /\ n > 0
    BY <1>4, <2>1, FS_CardinalityType, FS_EmptySet
  <2>3. PICK f \in I : \A i \in I : s[f].rttMs <= s[i].rttMs
    <3>1. \A i \in I : rtt[i] \in Int /\ rtt[i] = s[i].rttMs
      BY <2>1
    <3> DEFINE lowest == Min({rtt[i] : i \in I})
    <3> HIDE DEF rtt
    <3>2. /\ \E i0 \in I : Min({rtt[i1] : i1 \in I}) = rtt[i0]
          /\ \A i0 \in I : Min({rtt[i1] : i1 \in I}) <= rtt[i0]
      <4>1. \A i0 \in I : rtt[i0] \in Int
        BY <3>1
      <4> QED BY <1>4, <2>1, <4>1, LeastValue
    <3>3. (\E i0 \in I : lowest = rtt[i0]) /\ \A i0 \in I : lowest <= rtt[i0]
      BY <3>2
    <3> HIDE DEF lowest
    <3>4. PICK i0 \in I : lowest = rtt[i0]
      BY <3>3
    <3> QED BY <3>1, <3>3, <3>4
  <2>4. \A k \in Int : k <= n => /\ smallest(s, I, k) \in Nat
                               /\ s[f].rttMs <= smallest(s, I, k)
    BY <1>1, <1>4, <2>1, <2>3, SmallestFacts
  <2>5. 2 * s[f].rttMs <= median2(s, I)
    <3>1. CASE n % 2 = 1
      <4>1. n \div 2 + 1 \in Int /\ n \div 2 + 1 <= n
        BY <2>2, <3>1
      <4>2. median2(s, I) = 2 * smallest(s, I, n \div 2 + 1)
        BY <3>1 DEF median2
      <4> HIDE DEF n
      <4> QED BY <2>1, <2>4, <4>1, <4>2
    <3>2. CASE n % 2 # 1
      <4>1. /\ n \div 2 \in Int /\ n \div 2 <= n
            /\ n \div 2 + 1 \in Int /\ n \div 2 + 1 <= n
        BY <2>2, <3>2
      <4>2. median2(s, I) = smallest(s, I, n \div 2) + smallest(s, I, n \div 2 + 1)
        BY <3>2 DEF median2
      <4> HIDE DEF n
      <4> QED BY <2>1, <2>4, <4>1, <4>2
    <3> QED BY <3>1, <3>2
  <2>6. median2(s, I) \in Int
    <3>1. /\ n \div 2 \in Int /\ n \div 2 <= n
          /\ n % 2 = 1 \/ n \div 2 + 1 <= n
          /\ n % 2 # 1 \/ n \div 2 + 1 <= n
      BY <2>2
    <3> DEFINE a == smallest(s, I, n \div 2)
               b == smallest(s, I, n \div 2 + 1)
    <3>2. a \in Nat /\ b \in Nat
      BY <2>4, <3>1
    <3>3. median2(s, I) = IF n % 2 = 1 THEN 2 * b ELSE a + b
      BY DEF median2
    <3> HIDE DEF a, b, n
    <3> QED BY <3>2, <3>3
  <2>7. 2 * s[f].rttMs <= 3 * median2(s, I)
    BY <2>1, <2>5, <2>6
  <2>8. f \in kept(s)
    BY <1>4, <2>7 DEF kept, I
  <2> QED BY <2>8
<1> QED BY <1>2, <1>3, <1>4
-----------------------------------------------------------------------------
(* The estimate and the lead *)

\* Every sample that did not come from a cache was stamped by one clock at this offset.
OneServer(s, offset) ==
  \A i \in usable(s) : s[i].lowerMs <= offset /\ offset < s[i].upperMs

\* estimateReferenceClock: with one server behind the samples, whatever their round trips,
\* the outliers left out and the estimate before, there is no competing cluster, the true
\* offset lies in the interval, and the centre is off by no more than the uncertainty.
THEOREM EstimateIsRight ==
  ASSUME NEW s \in Seq(Samples), usable(s) # {}, NEW offset \in Int, OneServer(s, offset),
         NEW previous
  PROVE  LET e == estimateReferenceClock(s, previous)
         IN /\ e.source = "APP_HEAD_HTTP_DATE" /\ e.competing = 0
            /\ e.lower \in Int /\ e.upper \in Int /\ e.p95 \in Nat
            /\ e.center2 = e.lower + e.upper /\ e.uncertainty2 = e.upper - e.lower
            /\ e.lower <= offset /\ offset < e.upper
<1> DEFINE I == kept(s)
           raw == findMaxCoverageCluster(s, I)
           rest == {i \in I : s[i].upperMs <= raw.lower \/ s[i].lowerMs >= raw.upper}
<1>1. Intervals(s, I) /\ I \subseteq usable(s) /\ I # {}
  BY KeptFacts
<1>2. \A i \in I : s[i].lowerMs <= offset /\ offset < s[i].upperMs
  BY <1>1 DEF OneServer
<1>3. /\ raw.lower \in Int /\ raw.upper \in Int /\ raw.center2 = raw.lower + raw.upper
      /\ raw.lower <= offset /\ offset < raw.upper
  <2> HIDE DEF I
  <2> QED BY <1>1, <1>2, OneServerOneCluster
<1>4. rest = {}
  <2> HIDE DEF I, raw
  <2>1. \A i \in I : s[i].lowerMs \in Int /\ s[i].upperMs \in Int
    BY <1>1 DEF Intervals
  <2> QED BY <1>2, <1>3, <2>1
<1>5. findMaxCoverageCluster(s, rest) = NoCluster
  <2> HIDE DEF rest
  <2> QED BY <1>4 DEF findMaxCoverageCluster
<1>6. ~historyWins(raw, NoCluster, previous)
  BY DEF historyWins
<1>7. estimateReferenceClock(s, previous) = combined(s, I, raw, NoCluster)
  BY <1>1, <1>5, <1>6 DEF estimateReferenceClock
<1>8. p95(s, I) \in Nat
  <2> DEFINE n == Cardinality(I)
  <2> HIDE DEF I
  <2>1. n \in Nat /\ n > 0
    BY <1>1, FS_CardinalityType, FS_EmptySet DEF Intervals
  <2> DEFINE k == (19 * n) \div 20 + 1
  <2>2. k \in Int /\ k <= n
    BY <2>1
  <2>3. p95(s, I) = smallest(s, I, k)
    BY DEF p95
  <2> HIDE DEF k
  <2>4. \E i \in I : smallest(s, I, k) = s[i].rttMs
    BY <1>1, <2>2, SmallestFacts
  <2> QED BY <1>1, <2>3, <2>4 DEF Intervals
<1> DEFINE e == combined(s, I, raw, NoCluster)
<1>9. /\ e.source = "APP_HEAD_HTTP_DATE" /\ e.competing = 0 /\ e.p95 = p95(s, I)
      /\ e.lower = raw.lower /\ e.upper = raw.upper /\ e.center2 = raw.center2
      /\ e.uncertainty2 = raw.upper - raw.lower
  <2> HIDE DEF I, raw
  <2> QED BY DEF combined, NoCluster
<1> HIDE DEF e, I, raw
<1> QED BY <1>3, <1>7, <1>8, <1>9 DEF e

LEMMA LeadFacts ==
  ASSUME NEW e, e.uncertainty2 \in Int, e.p95 \in Nat, NEW preOpenLeadMs \in Nat
  PROVE  LET lead == armLead2(preOpenLeadMs, e)
         IN /\ lead \in Int
            /\ lead < 2 * MaxArmLead => lead = 2 * preOpenLeadMs + e.uncertainty2 + 2 * e.p95
<1> DEFINE wish == 2 * preOpenLeadMs + e.uncertainty2 + 2 * e.p95
<1>1. wish \in Int
  OBVIOUS
<1>2. armLead2(preOpenLeadMs, e) = Min({2 * MaxArmLead, wish})
  BY DEF armLead2
<1> HIDE DEF wish
<1>3. {2 * MaxArmLead, wish} \in SUBSET Int
  BY <1>1 DEF MaxArmLead
<1>4. IsFiniteSet({2 * MaxArmLead} \cup {wish})
  <2>1. IsFiniteSet({2 * MaxArmLead})
    BY FS_Singleton, Zenon
  <2> QED BY <2>1, FS_AddElement
<1>5. {2 * MaxArmLead, wish} = {2 * MaxArmLead} \cup {wish}
  OBVIOUS
<1>6. Min({2 * MaxArmLead, wish}) \in {2 * MaxArmLead, wish}
  BY <1>3, <1>4, <1>5, MinOfFinite
<1>7. armLead2(preOpenLeadMs, e) \in Int
      /\ (armLead2(preOpenLeadMs, e) < 2 * MaxArmLead => armLead2(preOpenLeadMs, e) = wish)
  BY <1>1, <1>2, <1>6 DEF MaxArmLead
<1> QED BY <1>7 DEF wish

\* computeArmLeadMs and waitForOpen: the lead is computed once, from the estimate of that
\* moment, while the sampler goes on and anchors the clock anew.  The page is armed no later
\* than the uncertainty of the later estimate allows: when the clock, anchored at that one,
\* reads openAt less the lead, the server's clock is less than half that uncertainty past it.
\* So preOpenLeadMs are left on the server's clock, unless the lead was cut to its maximum or
\* the later estimate is less certain than the lead has made room for.
THEOREM ArmedBeforeOpening ==
  ASSUME NEW offset \in Int,
         NEW before \in Seq(Samples), usable(before) # {}, OneServer(before, offset),
         NEW after \in Seq(Samples), usable(after) # {}, OneServer(after, offset),
         NEW older, NEW old, NEW mono \in Int, NEW wall \in Int, NEW now \in Int,
         NEW openAt \in Int, NEW preOpenLeadMs \in Nat,
         serverNow2(estimateReferenceClock(after, old), mono, wall, now)
           <= 2 * openAt - armLead2(preOpenLeadMs, estimateReferenceClock(before, older))
  PROVE  LET first == estimateReferenceClock(before, older)
             last  == estimateReferenceClock(after, old)
             lead2 == armLead2(preOpenLeadMs, first)
         IN /\ 2 * (now + offset) < 2 * openAt - lead2 + last.uncertainty2
            /\ /\ lead2 < 2 * MaxArmLead
               /\ last.uncertainty2 <= first.uncertainty2 + 2 * first.p95
               => now + offset < openAt - preOpenLeadMs
<1> DEFINE first == estimateReferenceClock(before, older)
           last  == estimateReferenceClock(after, old)
           lead2 == armLead2(preOpenLeadMs, first)
<1>1. first.uncertainty2 \in Int /\ first.p95 \in Nat
  BY EstimateIsRight
<1>2. /\ last.source = "APP_HEAD_HTTP_DATE" /\ last.lower \in Int /\ last.upper \in Int
      /\ last.center2 = last.lower + last.upper /\ last.uncertainty2 = last.upper - last.lower
      /\ offset < last.upper
  BY EstimateIsRight
<1>3. serverNow2(last, mono, wall, now) <= 2 * openAt - lead2
  OBVIOUS
<1> HIDE DEF first, last
<1>4. /\ lead2 \in Int
      /\ lead2 < 2 * MaxArmLead =>
           lead2 = 2 * preOpenLeadMs + first.uncertainty2 + 2 * first.p95
  BY <1>1, LeadFacts
<1>5. serverNow2(last, mono, wall, now) = 2 * mono + last.center2 + 2 * (now - mono)
  BY <1>2 DEF serverNow2
<1> HIDE DEF lead2
<1>6. PICK low \in Int, high \in Int, lead \in Int :
        low = last.lower /\ high = last.upper /\ lead = lead2
  BY <1>2, <1>4
<1>7. 2 * mono + (low + high) + 2 * (now - mono) <= 2 * openAt - lead
  BY <1>2, <1>3, <1>5, <1>6
<1>8. offset < high
  BY <1>2, <1>6
<1>9. 2 * (now + offset) < 2 * openAt - lead + (high - low)
  BY <1>7, <1>8
<1>10. last.uncertainty2 = high - low
  BY <1>2, <1>6
<1>11. ASSUME lead2 < 2 * MaxArmLead, last.uncertainty2 <= first.uncertainty2 + 2 * first.p95
       PROVE  now + offset < openAt - preOpenLeadMs
  <2>1. PICK u \in Int, p \in Int : u = first.uncertainty2 /\ p = first.p95
    BY <1>1
  <2>2. lead = 2 * preOpenLeadMs + u + 2 * p /\ high - low <= u + 2 * p
    BY <1>4, <1>6, <1>10, <1>11, <2>1
  <2>3. PICK n \in Int : n = preOpenLeadMs
    OBVIOUS
  <2>4. 2 * (now + offset) < 2 * openAt - 2 * n
    BY <1>9, <2>2, <2>3
  <2>5. now + offset < openAt - n
    BY <2>4
  <2> QED BY <2>3, <2>5
<1> QED BY <1>6, <1>9, <1>10, <1>11 DEF first, last, lead2

-----------------------------------------------------------------------------
(* SlotChoice *)

LEMMA MinutesFinite == IsFiniteSet(Minutes) /\ Minutes \subseteq Int
<1>1. PICK last \in Int : last = 1439
  OBVIOUS
<1>2. Minutes = 0 .. last
  BY <1>1 DEF Minutes
<1>3. IsFiniteSet(0 .. last)
  BY FS_Interval
<1>4. Minutes \subseteq Int
  BY DEF Minutes
<1> QED BY <1>2, <1>3, <1>4

\* selectPreferredSlot: nothing is selected only if no slot lies in the range; what is
\* selected lies in the range; no wish that comes before it can be had, and without a wish
\* that can be had it is the earliest.
THEOREM SelectionIsPreferred ==
  ASSUME NEW slots \in SUBSET Minutes, NEW range \in [start : Minutes, end : Minutes],
         NEW priorityTimes \in Seq(Minutes)
  PROVE  LET eligible == inRange(slots, range)
             selected == selectPreferredSlot(slots, range, priorityTimes)
         IN /\ selected = NoTime <=> eligible = {}
            /\ eligible # {} =>
                 /\ selected \in eligible
                 /\ \/ \E k \in DOMAIN priorityTimes :
                         /\ selected = priorityTimes[k]
                         /\ \A l \in 1 .. k - 1 : priorityTimes[l] \notin eligible
                    \/ /\ \A k \in DOMAIN priorityTimes : priorityTimes[k] \notin eligible
                       /\ \A m \in eligible : selected <= m
<1> DEFINE eligible == inRange(slots, range)
           wishes == {k \in DOMAIN priorityTimes : priorityTimes[k] \in eligible}
           selected == selectPreferredSlot(slots, range, priorityTimes)
<1>1. eligible \in SUBSET Minutes /\ NoTime \notin eligible
  <2>1. eligible \subseteq Minutes
    BY DEF inRange
  <2>2. NoTime \notin Minutes
    BY DEF Minutes, NoTime
  <2> QED BY <2>1, <2>2
<1>2. eligible \in SUBSET Int /\ IsFiniteSet(eligible)
  <2> HIDE DEF eligible
  <2>1. IsFiniteSet(eligible)
    BY <1>1, MinutesFinite, FS_Subset
  <2> QED BY <1>1, <2>1, MinutesFinite
<1>3. /\ DOMAIN priorityTimes = 1 .. Len(priorityTimes) /\ Len(priorityTimes) \in Nat
      /\ wishes \subseteq DOMAIN priorityTimes
  OBVIOUS
<1>4. wishes \in SUBSET Int /\ IsFiniteSet(wishes)
  <2> HIDE DEF wishes
  <2>1. IsFiniteSet(1 .. Len(priorityTimes))
    BY <1>3, FS_Interval
  <2>2. wishes \in SUBSET (1 .. Len(priorityTimes))
    BY <1>3
  <2>3. IsFiniteSet(wishes)
    BY <2>1, <2>2, FS_Subset
  <2> QED BY <2>2, <2>3
<1>5. selected = IF wishes # {} THEN priorityTimes[Min(wishes)]
                 ELSE IF eligible # {} THEN Min(eligible) ELSE NoTime
  BY DEF selectPreferredSlot
<1>6. CASE wishes # {}
  <2> DEFINE k == Min(wishes)
  <2>1. k \in wishes /\ \A l \in wishes : k <= l
    <3> HIDE DEF wishes
    <3> QED BY <1>4, <1>6, MinOfFinite
  <2>2. selected = priorityTimes[k]
    BY <1>5, <1>6
  <2> HIDE DEF k, selected
  <2>3. k \in DOMAIN priorityTimes /\ priorityTimes[k] \in eligible /\ k \in Int
    BY <1>3, <2>1
  <2>4. \A l \in 1 .. k - 1 : priorityTimes[l] \notin eligible
    <3> SUFFICES ASSUME NEW l \in 1 .. k - 1, priorityTimes[l] \in eligible PROVE FALSE
      OBVIOUS
    <3>1. l \in DOMAIN priorityTimes
      BY <1>3, <2>3
    <3>2. l \in wishes
      BY <3>1
    <3> QED BY <2>1, <2>3, <3>2
  <2> HIDE DEF eligible, wishes
  <2>5. selected \in eligible /\ selected # NoTime /\ eligible # {}
    BY <1>1, <2>2, <2>3
  <2> QED BY <2>2, <2>3, <2>4, <2>5 DEF selected, eligible
<1>7. CASE wishes = {} /\ eligible # {}
  <2>1. selected = Min(eligible)
    BY <1>5, <1>7
  <2>2. \A k \in DOMAIN priorityTimes : priorityTimes[k] \notin eligible
    BY <1>7
  <2> HIDE DEF eligible, wishes, selected
  <2>3. selected \in eligible /\ \A m \in eligible : selected <= m
    BY <1>2, <1>7, <2>1, MinOfFinite
  <2>4. selected # NoTime
    BY <1>1, <2>3
  <2> QED BY <1>7, <2>2, <2>3, <2>4 DEF selected, eligible
<1>8. CASE wishes = {} /\ eligible = {}
  BY <1>5, <1>8
<1> QED BY <1>6, <1>7, <1>8

\* readSlots and clickSlot: however the page was drawn anew since the slot was selected, at
\* most one button is pressed, and it is a bookable one of the time that was selected.
THEOREM ClickIsTheSelected ==
  ASSUME NEW buttons \in Seq(Buttons), NEW minutes \in Minutes,
         NEW i \in clickSlot(buttons, minutes)
  PROVE  /\ bookable(buttons[i]) /\ buttons[i].minutes = minutes
         /\ clickSlot(buttons, minutes) = {i}
<1>1. /\ i \in readSlots(buttons) /\ buttons[i].minutes = minutes
      /\ DOMAIN buttons = 1 .. Len(buttons) /\ Len(buttons) \in Nat
  BY DEF clickSlot
<1>2. ASSUME NEW j \in clickSlot(buttons, minutes) PROVE j = i
  <2>1. j \in readSlots(buttons) /\ buttons[j].minutes = minutes
    BY <1>2 DEF clickSlot
  <2>2. /\ i \in 1 .. Len(buttons) /\ j \in 1 .. Len(buttons)
        /\ bookable(buttons[i]) /\ bookable(buttons[j])
    BY <1>1, <2>1 DEF readSlots
  <2>3. i \notin 1 .. j - 1 /\ j \notin 1 .. i - 1
    BY <1>1, <2>1, <2>2 DEF readSlots
  <2> QED BY <1>1, <2>2, <2>3
<1> QED BY <1>1, <1>2 DEF readSlots

-----------------------------------------------------------------------------
(* Configuration *)

\* Options as an older panel may have stored them: any of them may be missing.
olderOptions(o) ==
  /\ o.paymentMethodAutoAdvance \in Switches \cup {Unset}
  /\ o.paymentMethodPolicy \in Policies \cup {Unset}
  /\ o.availabilityProbeMode \in Modes \cup {Unset}
  /\ o.availabilityProbeEnabled \in Switches \cup {Unset}
  /\ o.reservationCompletionEnabled \in Switches \cup {Unset}
  /\ o.maxPaymentAmountKrw = NoAmount
     \/ (o.maxPaymentAmountKrw \in Nat /\ o.maxPaymentAmountKrw <= 500000)
  /\ o.requiredFormDefaultAnswer \in {"text", Unset}

\* normalizeReservationConfig: options of any age, whichever of them are missing, become
\* options a run accepts; the mode of the availability probe that the old switch stood for is
\* kept though the switch is gone; completing a reservation is on only if it was on, and pays
\* nothing more than what was allowed.
THEOREM MigrationKeepsMeaning ==
  ASSUME NEW o, olderOptions(o)
  PROVE  LET today == normalized(o)
         IN /\ validOptions(today)
            /\ resolveAvailabilityProbeMode(today) = resolveAvailabilityProbeMode(o)
            /\ today.reservationCompletionEnabled = "yes" =>
                 o.reservationCompletionEnabled = "yes"
            /\ today.maxPaymentAmountKrw > 0 =>
                 today.maxPaymentAmountKrw = o.maxPaymentAmountKrw
<1> DEFINE today == normalized(o)
<1>1. /\ today.paymentMethodAutoAdvance = orElse(o.paymentMethodAutoAdvance, "yes")
      /\ today.paymentMethodPolicy = orElse(o.paymentMethodPolicy, "selected_allowed")
      /\ today.availabilityProbeMode
           = orElse(o.availabilityProbeMode, resolveAvailabilityProbeMode(o))
      /\ today.availabilityProbeEnabled = Unset
  BY DEF normalized
<1>2. /\ today.reservationCompletionEnabled = orElse(o.reservationCompletionEnabled, "no")
      /\ today.maxPaymentAmountKrw =
           IF o.maxPaymentAmountKrw = NoAmount THEN 0 ELSE o.maxPaymentAmountKrw
      /\ today.requiredFormDefaultAnswer = orElse(o.requiredFormDefaultAnswer, "text")
  BY DEF normalized
<1> HIDE DEF today
<1>3. /\ today.paymentMethodAutoAdvance \in Switches \cup {Unset}
      /\ today.paymentMethodPolicy \in Policies \cup {Unset}
      /\ today.availabilityProbeEnabled \in Switches \cup {Unset}
  BY <1>1 DEF olderOptions, orElse, Switches, Policies
<1>4. today.availabilityProbeMode \in Modes
  BY <1>1 DEF olderOptions, orElse, resolveAvailabilityProbeMode, Modes
<1>5. /\ today.reservationCompletionEnabled \in Switches
      /\ today.maxPaymentAmountKrw \in Nat /\ today.maxPaymentAmountKrw <= 500000
      /\ today.requiredFormDefaultAnswer = "text"
  BY <1>2 DEF olderOptions, orElse, Switches, NoAmount, Unset
<1>6. resolveAvailabilityProbeMode(today) = resolveAvailabilityProbeMode(o)
  BY <1>1 DEF olderOptions, orElse, resolveAvailabilityProbeMode, Modes, Unset
<1>7. today.reservationCompletionEnabled = "yes" => o.reservationCompletionEnabled = "yes"
  BY <1>2 DEF orElse
<1>8. today.maxPaymentAmountKrw > 0 => today.maxPaymentAmountKrw = o.maxPaymentAmountKrw
  BY <1>2 DEF olderOptions, NoAmount
<1> QED BY <1>3, <1>4, <1>5, <1>6, <1>7, <1>8 DEF today, validOptions

\* validateReservationConfig and selectPreferredSlot: no wish is entered in vain.  When a time
\* the user wished for is free, a wished time is selected, and no free wish comes before it.
THEOREM WishesAreHonoured ==
  ASSUME NEW c, NEW nowMs, valid(c, nowMs),
         c.timeRange \in [start : Int, end : Int], c.priorityTimes \in Seq(Int),
         NEW slots \in SUBSET Minutes,
         \E k \in DOMAIN c.priorityTimes : c.priorityTimes[k] \in slots
  PROVE  \E k \in DOMAIN c.priorityTimes :
            /\ selectPreferredSlot(slots, c.timeRange, c.priorityTimes) = c.priorityTimes[k]
            /\ c.priorityTimes[k] \in slots
            /\ \A l \in 1 .. k - 1 : c.priorityTimes[l] \notin slots
<1>1. PICK range \in [start : Int, end : Int], wishes \in Seq(Int) :
        range = c.timeRange /\ wishes = c.priorityTimes
  OBVIOUS
<1> DEFINE eligible == inRange(slots, range)
           selected == selectPreferredSlot(slots, range, wishes)
<1>2. /\ range.start \in Minutes /\ range.end \in Minutes
      /\ \A k \in DOMAIN wishes :
           wishes[k] \in Minutes /\ range.start <= wishes[k] /\ wishes[k] <= range.end
  BY <1>1 DEF valid, validTimes, isMinute
<1>3. range \in [start : Minutes, end : Minutes] /\ wishes \in Seq(Minutes)
  BY <1>2
<1>4. \A k \in DOMAIN wishes : wishes[k] \in eligible <=> wishes[k] \in slots
  BY <1>2 DEF inRange
<1>5. \E k \in DOMAIN wishes : wishes[k] \in eligible
  BY <1>1, <1>4
<1>6. eligible # {}
  BY <1>5
<1>7. \/ \E k \in DOMAIN wishes :
           selected = wishes[k] /\ \A l \in 1 .. k - 1 : wishes[l] \notin eligible
      \/ \A k \in DOMAIN wishes : wishes[k] \notin eligible
  BY <1>3, <1>6, SelectionIsPreferred
<1>8. selected \in eligible
  BY <1>3, <1>6, SelectionIsPreferred
<1> HIDE DEF eligible, selected
<1>9. PICK k \in DOMAIN wishes :
        selected = wishes[k] /\ \A l \in 1 .. k - 1 : wishes[l] \notin eligible
  BY <1>5, <1>7
<1>10. wishes[k] \in slots /\ \A l \in 1 .. k - 1 : wishes[l] \notin slots
  <2>1. \A l \in 1 .. k - 1 : l \in DOMAIN wishes
    BY <1>3
  <2> QED BY <1>4, <1>8, <1>9, <2>1
<1> QED BY <1>1, <1>9, <1>10 DEF selected

-----------------------------------------------------------------------------
(* ToggleSchedule *)

LEMMA CeilingFacts ==
  ASSUME NEW time \in Int, NEW length \in ShortCycles
  PROVE  /\ ceiling(time, length) \in Int
         /\ time <= ceiling(time, length) /\ ceiling(time, length) < time + length
         /\ time <= 0 => ceiling(time, length) <= 0
         /\ -length < time /\ time <= 0 => ceiling(time, length) = 0
         /\ 0 < time /\ time <= length => ceiling(time, length) = length
<1> DEFINE q == (-time) \div length
<1>0. length \in Int /\ length >= 100
  BY DEF ShortCycles
<1>1. q \in Int /\ q * length <= -time /\ -time < q * length + length
  BY <1>0
<1>2. q * length \in Int
  BY <1>0, <1>1
<1>3. time <= 0 => q >= 0
  BY <1>0
<1>4. -length < time /\ time <= 0 => q = 0
  BY <1>0
<1>5. q >= 0 => q * length >= 0
  BY <1>0, <1>1
<1>6. ceiling(time, length) = -(q * length)
  BY <1>0, <1>1 DEF ceiling
<1>7. (q = 0 => q * length = 0) /\ (q = -1 => q * length = -length)
  BY <1>0
<1>8. 0 < time /\ time <= length => q = -1
  BY <1>0
<1> HIDE DEF q
<1> QED BY <1>0, <1>1, <1>2, <1>3, <1>4, <1>5, <1>6, <1>7, <1>8

LEMMA PlanFacts ==
  ASSUME NEW now \in Int, NEW openAt \in Int, NEW interval \in ToggleIntervals
  PROVE  LET plan == nextTogglePlan(now, openAt, interval)
             time == now + SwitchLead - openAt
         IN /\ plan.phase = "precision" =>
                 /\ plan.cycle \in ShortCycles
                 /\ plan.target = openAt + ceiling(time, plan.cycle)
            /\ plan.phase # "precision" =>
                 plan.cycle \in ToggleIntervals /\ plan.target = now + plan.cycle
            /\ plan.phase = "warmup" => plan.cycle <= 400
            /\ plan.adjacent = plan.target - SwitchLead
<1>1. phase(now, openAt) \in {"warmup", "precision", "followup", "long_tail"}
  BY DEF phase
<1>2. /\ phase(now, openAt) = "warmup" => cycle(now, openAt, interval) = least(interval, 400)
      /\ phase(now, openAt) = "precision" => cycle(now, openAt, interval) = least(interval, 150)
      /\ phase(now, openAt) = "followup" => cycle(now, openAt, interval) = most(interval, 250)
      /\ phase(now, openAt) = "long_tail" => cycle(now, openAt, interval) = 2000
  BY <1>1 DEF cycle
<1>3. /\ least(interval, 150) \in ShortCycles
      /\ least(interval, 400) \in ToggleIntervals /\ least(interval, 400) <= 400
      /\ most(interval, 250) \in ToggleIntervals /\ 2000 \in ToggleIntervals
  BY DEF least, most, ToggleIntervals, ShortCycles
<1>4. /\ phase(now, openAt) = "precision" => cycle(now, openAt, interval) \in ShortCycles
      /\ phase(now, openAt) # "precision" => cycle(now, openAt, interval) \in ToggleIntervals
      /\ phase(now, openAt) = "warmup" => cycle(now, openAt, interval) <= 400
  BY <1>1, <1>2, <1>3
<1> QED BY <1>4 DEF nextTogglePlan, targetClickAt

\* nextTogglePlan: both presses lie ahead of the moment the plan is made, the neighbouring
\* date 40 ms before the target, in every phase and however the interval is configured; in
\* the precision phase the wait is shorter than one cycle and the lead.
THEOREM PressesLieAhead ==
  ASSUME NEW now \in Int, NEW openAt \in Int, NEW interval \in ToggleIntervals
  PROVE  LET plan == nextTogglePlan(now, openAt, interval)
         IN /\ now <= plan.adjacent /\ plan.adjacent + SwitchLead = plan.target
            /\ plan.phase = "precision" => plan.target < now + SwitchLead + plan.cycle
<1> DEFINE plan == nextTogglePlan(now, openAt, interval)
           time == now + SwitchLead - openAt
           length == plan.cycle
           target == plan.target
           kind == plan.phase
<1>1. /\ kind = "precision" =>
           length \in ShortCycles /\ target = openAt + ceiling(time, length)
      /\ kind # "precision" => length \in ToggleIntervals /\ target = now + length
      /\ plan.adjacent = target - SwitchLead
  BY PlanFacts
<1>2. time \in Int /\ time = now + SwitchLead - openAt
  BY DEF SwitchLead
<1> HIDE DEF plan, time, length, target, kind
<1>3. CASE kind = "precision"
  <2>0. length \in ShortCycles /\ target = openAt + ceiling(time, length)
    BY <1>1, <1>3
  <2>1. /\ ceiling(time, length) \in Int /\ time <= ceiling(time, length)
        /\ ceiling(time, length) < time + length
    BY <1>2, <2>0, CeilingFacts
  <2>2. now + SwitchLead <= target /\ target < now + SwitchLead + length /\ target \in Int
    BY <1>2, <2>0, <2>1 DEF SwitchLead, ShortCycles
  <2>3. now <= plan.adjacent /\ plan.adjacent + SwitchLead = target
    BY <1>1, <2>2 DEF SwitchLead
  <2> QED BY <2>2, <2>3 DEF plan, target, length, kind
<1>4. CASE kind # "precision"
  <2>0. length \in ToggleIntervals /\ target = now + length
    BY <1>1, <1>4
  <2>1. target \in Int /\ now + SwitchLead <= target
    BY <2>0 DEF SwitchLead, ToggleIntervals
  <2>2. now <= plan.adjacent /\ plan.adjacent + SwitchLead = target
    BY <1>1, <2>1 DEF SwitchLead
  <2> QED BY <1>4, <2>2 DEF plan, target, kind
<1> QED BY <1>3, <1>4

\* nextTogglePlan: no plan made before the opening lets it pass by more than one cycle.  With
\* the lead to spare the target press is not after openAt, and within one cycle of the opening
\* it falls on openAt itself; a plan made in the last 40 ms, too late for that press, puts it
\* one short cycle after openAt.
THEOREM OpeningIsNotSkipped ==
  ASSUME NEW now \in Int, NEW openAt \in Int, NEW interval \in ToggleIntervals, now <= openAt
  PROVE  LET plan == nextTogglePlan(now, openAt, interval)
         IN /\ now + SwitchLead <= openAt =>
                 /\ plan.target <= openAt
                 /\ openAt < now + SwitchLead + plan.cycle /\ plan.phase = "precision" =>
                      plan.target = openAt
            /\ openAt < now + SwitchLead =>
                 plan.target = openAt + plan.cycle /\ plan.cycle \in ShortCycles
<1> DEFINE plan == nextTogglePlan(now, openAt, interval)
           time == now + SwitchLead - openAt
           length == plan.cycle
           target == plan.target
           kind == plan.phase
<1>1. /\ kind = "precision" =>
           length \in ShortCycles /\ target = openAt + ceiling(time, length)
      /\ kind # "precision" => length \in ToggleIntervals /\ target = now + length
      /\ kind = "warmup" => length <= 400
  BY PlanFacts
<1>2. time \in Int /\ time <= SwitchLead /\ time = now + SwitchLead - openAt
  BY DEF SwitchLead
<1>3. kind = phase(now, openAt)
  BY DEF nextTogglePlan
<1>4. /\ kind \in {"warmup", "precision"} /\ (kind = "warmup" => now - openAt < -600)
      /\ openAt < now + SwitchLead => kind = "precision"
  BY <1>3 DEF phase, PrecisionStart, PrecisionEnd, SwitchLead
<1> HIDE DEF plan, time, length, target, kind
<1>5. ASSUME now + SwitchLead <= openAt, kind = "precision"
      PROVE  target <= openAt /\ (openAt < now + SwitchLead + length => target = openAt)
  <2>0. length \in ShortCycles /\ target = openAt + ceiling(time, length)
    BY <1>1, <1>5
  <2>1. /\ ceiling(time, length) \in Int /\ ceiling(time, length) <= 0
        /\ -length < time => ceiling(time, length) = 0
    BY <1>2, <1>5, <2>0, CeilingFacts DEF SwitchLead
  <2>2. target <= openAt
    BY <2>0, <2>1
  <2>3. ASSUME openAt < now + SwitchLead + length PROVE target = openAt
    <3>1. -length < time
      BY <1>2, <2>0, <2>3 DEF SwitchLead, ShortCycles
    <3> QED BY <2>0, <2>1, <3>1
  <2> QED BY <2>2, <2>3
<1>6. ASSUME kind = "warmup" PROVE target <= openAt
  <2>0. length \in ToggleIntervals /\ length <= 400 /\ target = now + length /\ now - openAt < -600
    BY <1>1, <1>4, <1>6
  <2> QED BY <2>0 DEF ToggleIntervals
<1>7. ASSUME openAt < now + SwitchLead PROVE target = openAt + length /\ length \in ShortCycles
  <2>0. length \in ShortCycles /\ target = openAt + ceiling(time, length)
    BY <1>1, <1>4, <1>7
  <2>1. 0 < time /\ time <= length
    BY <1>2, <1>7, <2>0 DEF SwitchLead, ShortCycles
  <2>2. ceiling(time, length) = length
    BY <1>2, <2>0, <2>1, CeilingFacts
  <2> QED BY <2>0, <2>2
<1> QED BY <1>4, <1>5, <1>6, <1>7 DEF plan, target, length, kind
=============================================================================
