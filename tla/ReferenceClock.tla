--------------------------- MODULE ReferenceClock ---------------------------
(***************************************************************************)
(* The estimate of the server's clock (shared/clock.ts), the sampler that  *)
(* feeds it and what the attempt makes of it: the anchor of serverClock    *)
(* and the lead by which the page is armed before the opening.             *)
(*                                                                         *)
(* Times are whole milliseconds.  A centre, a spread, a median or an       *)
(* uncertainty is half a sum in the code; the fields whose name ends in 2  *)
(* hold twice that value.  A cluster or an estimate that the code leaves   *)
(* null is NoCluster or Fallback.                                          *)
(***************************************************************************)
EXTENDS Integers, Sequences, FiniteSetsExt

BufferSize == 64
MaxArmLead == 30000

-----------------------------------------------------------------------------
(* Samples: offset = server clock - monotonic clock lies in [lowerMs, upperMs).        *)

\* A Date header carries whole seconds.
createReferenceClockSample(t0, t1, serverDateMs, fromCache) ==
  [t0 |-> t0, t1 |-> t1, serverDateMs |-> serverDateMs, rttMs |-> t1 - t0,
   lowerMs |-> serverDateMs - t1, upperMs |-> serverDateMs + 1000 - t0, fromCache |-> fromCache]

\* One HEAD request: no sample without a readable Date, or when the request failed or was
\* aborted; an answer with an Age above zero came from a cache.
sampleOnce(t0, t1, response) ==
  IF response.failed \/ ~response.dated THEN {}
  ELSE {createReferenceClockSample(t0, t1, response.date, response.age > 0)}

\* The ring buffer.
pushed(samples, sample) ==
  IF Len(samples) >= BufferSize THEN Append(Tail(samples), sample) ELSE Append(samples, sample)

-----------------------------------------------------------------------------
(* Clusters: I is the set of positions of s that are looked at *)

covering(s, I, point) == {i \in I : s[i].lowerMs <= point /\ point < s[i].upperMs}

\* The region where the intervals around the lower end of sample i overlap.
clusterAt(s, I, i) ==
  LET over    == covering(s, I, s[i].lowerMs)
      lower   == Max({s[j].lowerMs : j \in over})
      upper   == Min({s[j].upperMs : j \in over})
      centres == {s[j].lowerMs + s[j].upperMs : j \in over}
  IN [lower |-> lower, upper |-> upper, center2 |-> lower + upper,
      support |-> Cardinality(over), spread2 |-> Max(centres) - Min(centres)]

NoCluster == [lower |-> 0, upper |-> 0, center2 |-> 0, support |-> 0, spread2 |-> 0]

\* More support, then centres closer together, then the smaller centre.
better(a, b) ==
  \/ a.support > b.support
  \/ a.support = b.support /\ a.spread2 < b.spread2
  \/ a.support = b.support /\ a.spread2 = b.spread2 /\ a.center2 < b.center2

\* The sweep keeps the first of equals.
beats(s, I, j, i) ==
  LET a == clusterAt(s, I, j)
      b == clusterAt(s, I, i)
  IN better(a, b) \/ (~better(b, a) /\ j < i)

findMaxCoverageCluster(s, I) ==
  IF I = {} THEN NoCluster
  ELSE clusterAt(s, I, CHOOSE i \in I : \A j \in I : ~beats(s, I, j, i))

-----------------------------------------------------------------------------
(* The estimate *)

\* The k-th smallest round trip.
smallest(s, I, k) ==
  Min({v \in {s[i].rttMs : i \in I} : k <= Cardinality({i \in I : s[i].rttMs <= v})})

median2(s, I) ==
  LET n == Cardinality(I) IN
  IF n % 2 = 1 THEN 2 * smallest(s, I, n \div 2 + 1)
  ELSE smallest(s, I, n \div 2) + smallest(s, I, n \div 2 + 1)

\* percentile(sorted, 0.95): position ceil(0.95 * (n - 1)), counted from zero.
p95(s, I) == smallest(s, I, (19 * Cardinality(I)) \div 20 + 1)

usable(s) == {i \in DOMAIN s : ~s[i].fromCache}

\* Round trips of more than three times the median are left out.
kept(s) ==
  IF usable(s) = {} THEN {}
  ELSE {i \in usable(s) : 2 * s[i].rttMs <= 3 * median2(s, usable(s))}

apart(a, b) == Max({a.center2 - b.center2, b.center2 - a.center2})

\* Hysteresis: a confident estimate is not left for a cluster with a weak lead when the
\* competing one continues it.
historyWins(dominant, competing, previous) ==
  /\ previous.confidence = "HIGH"
  /\ competing # NoCluster
  /\ apart(competing, previous) + 500 < apart(dominant, previous)
  /\ dominant.support < 2 * competing.support

confidenceOf(count, span, dominant, competing) ==
  IF competing = NoCluster
  THEN IF count >= 5 /\ span >= 3000 THEN "HIGH" ELSE IF count >= 3 THEN "MEDIUM" ELSE "LOW"
  ELSE IF dominant.support >= 2 * competing.support /\ count >= 3 THEN "MEDIUM" ELSE "LOW"

\* Nothing is known: a day of uncertainty.
Fallback == [source |-> "FALLBACK", lower |-> 0, upper |-> 0, center2 |-> 0,
             uncertainty2 |-> 2 * 86400000, confidence |-> "LOW", p95 |-> 0, competing |-> 0]

\* Between two clusters without a clear majority the interval spans both.
combined(s, I, dominant, competing) ==
  LET span == Max({s[i].t1 : i \in I}) - Min({s[i].t0 : i \in I})
      confidence == confidenceOf(Cardinality(I), span, dominant, competing)
      torn  == competing # NoCluster /\ confidence = "LOW"
      lower == IF torn THEN Min({dominant.lower, competing.lower}) ELSE dominant.lower
      upper == IF torn THEN Max({dominant.upper, competing.upper}) ELSE dominant.upper
  IN [source |-> "APP_HEAD_HTTP_DATE", lower |-> lower, upper |-> upper,
      center2 |-> dominant.center2,
      uncertainty2 |-> IF torn THEN Max({upper - lower, apart(dominant, competing)})
                       ELSE upper - lower,
      confidence |-> confidence, p95 |-> p95(s, I), competing |-> competing.support]

estimateReferenceClock(s, previous) ==
  LET I    == kept(s)
      raw  == findMaxCoverageCluster(s, I)
      rest == {i \in I : s[i].upperMs <= raw.lower \/ s[i].lowerMs >= raw.upper}
      rival == findMaxCoverageCluster(s, rest)
  IN IF I = {} THEN Fallback
     ELSE IF historyWins(raw, rival, previous) THEN combined(s, I, rival, raw)
     ELSE combined(s, I, raw, rival)

-----------------------------------------------------------------------------
(* What the attempt makes of it *)

\* serverClock, anchored at the moment mono: twice its reading at the moment now.  Without
\* any sample the wall clock stands in for the server's.
serverNow2(estimate, mono, wall, now) ==
  (IF estimate.source = "FALLBACK" THEN 2 * wall ELSE 2 * mono + estimate.center2)
    + 2 * (now - mono)

armLead2(preOpenLeadMs, estimate) ==
  Min({2 * MaxArmLead, 2 * preOpenLeadMs + estimate.uncertainty2 + 2 * estimate.p95})
=============================================================================
