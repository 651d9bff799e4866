------------------------- MODULE TraceBatch_proofs -------------------------
(***************************************************************************)
(* No event of a trace is lost in silence, for any numbers of runs and     *)
(* events, any sizes of batches and of the queue, and any faults.          *)
(*                                                                         *)
(* An event of a run leaves the page's queue only when it is settled: it   *)
(* is in the database, or the full queue gave it up.  What makes this      *)
(* inductive is that a batch in the worker's queue and an acknowledgement  *)
(* on its way carry the same promise for every number up to their last,    *)
(* of whichever run they are, and that a record of the worker's own never  *)
(* takes the place of an event.                                            *)
(***************************************************************************)
EXTENDS TraceBatch, FiniteMinima, SequenceTheorems

settled(r, i) == stored(r, i) \/ i \in dropped[r]

\* Every event of r up to last is in the sequence or settled.
Covered(r, last, s) == \A i \in 1 .. last : i \in ToSet(s) \/ settled(r, i)

DropsAreOrdinary == \A r \in Runs : dropped[r] \cap Critical = {}

\* What the numbering of the runs keeps.
RunsInOrder ==
  /\ \A r \in Runs : recorded[r] <= Length[r]
  /\ \A r \in Runs : flushOk[r] # "none" =>
       recorded[r] # 0 /\ ~(page.run = r /\ phase # "idle")
  /\ \A r \in Runs, k \in Key : stored(r, k) => k <= recorded[r]

PageIsCovered ==
  IF page.run = NoRun THEN page.queue = <<>> /\ ~page.timer
  ELSE /\ recorded[page.run] # 0
       /\ \A i \in ToSet(page.queue) : i <= recorded[page.run]
       /\ Covered(page.run, recorded[page.run], page.queue)

\* A batch covers its run up to its last event; once put, its events are in the database.
BatchOK(t) ==
  /\ t.stage # "read"
  /\ \A i \in ToSet(t.events) : i <= Last(t.events)
  /\ Last(t.events) <= recorded[t.run]
  /\ Covered(t.run, Last(t.events), t.events)
  /\ t.stage = "stored" => \A i \in ToSet(t.events) : stored(t.run, i)

\* A record of the worker is the first of its run, and is put behind all that is stored.
NoteOK(t) ==
  /\ t.stage # "stored"
  /\ recorded[t.run] # 0
  /\ t.run \in noted
  /\ \A k \in Key : store[t.run][k] # "background"
  /\ t.stage = "read" => t.key \in Key /\ \A k \in Key : k >= t.key => store[t.run][k] = "none"

TasksOK ==
  /\ \A n \in DOMAIN tasks :
       /\ tasks[n].kind = "batch" => BatchOK(tasks[n])
       /\ tasks[n].kind = "note" => NoteOK(tasks[n])
       /\ tasks[n].stage # "queued" => n = 1
  /\ \A m, n \in DOMAIN tasks :
       tasks[m].kind = "note" /\ tasks[n].kind = "note" /\ tasks[m].run = tasks[n].run => m = n
  /\ \A r \in Runs \ noted : \A k \in Key : store[r][k] # "background"

AcksAreCovered ==
  \A n \in DOMAIN acks :
    acks[n].last <= recorded[acks[n].run] /\ Covered(acks[n].run, acks[n].last, <<>>)

IInv ==
  /\ TypeOK /\ DropsAreOrdinary /\ RunsInOrder
  /\ PageIsCovered /\ TasksOK /\ AcksAreCovered
  /\ FlushMeansStored /\ GapsAreDeclared /\ OverflowIsCritical

-----------------------------------------------------------------------------
(* Numbers and sequences *)

Longest == Max({Length[r] : r \in Runs})

LEMMA LongestFacts ==
  /\ Longest \in Nat /\ \A r \in Runs : Length[r] \in Nat /\ 1 <= Length[r] /\ Length[r] <= Longest
  /\ Number = 1 .. Longest /\ Key = 1 .. Longest + 1
<1>1. IsFiniteSet(Runs) /\ Runs # {} /\ \A r \in Runs : Length[r] \in Nat /\ 1 <= Length[r]
  BY BatchAssumption
<1>2. \A r \in Runs : Length[r] \in Int
  BY <1>1
<1>3. /\ Longest \in Int
      /\ \A r \in Runs : Longest >= Length[r]
  BY <1>1, <1>2, GreatestValue DEF Longest
<1> QED BY <1>1, <1>3 DEF Number, Key, Longest

LEMMA RemoveAtFacts ==
  ASSUME NEW S, NEW s \in Seq(S), NEW n \in 1 .. Len(s)
  PROVE  /\ RemoveAt(s, n) \in Seq(S)
         /\ Len(RemoveAt(s, n)) = Len(s) - 1
         /\ \A i \in 1 .. Len(s) - 1 : RemoveAt(s, n)[i] = IF i < n THEN s[i] ELSE s[i + 1]
<1> DEFINE a == SubSeq(s, 1, n - 1)
           b == SubSeq(s, n + 1, Len(s))
<1>1. /\ a \in Seq(S) /\ Len(a) = n - 1
      /\ \A i \in 1 .. n - 1 : a[i] = s[i]
  BY SubSeqProperties
<1>2. /\ b \in Seq(S) /\ Len(b) = Len(s) - n
      /\ \A i \in 1 .. Len(s) - n : b[i] = s[n + i]
  <2>1. n + 1 \in Int /\ Len(s) \in Int /\ \A i \in n + 1 .. Len(s) : s[i] \in S
    OBVIOUS
  <2>2. /\ b \in Seq(S)
        /\ Len(b) = IF n + 1 <= Len(s) THEN Len(s) - (n + 1) + 1 ELSE 0
        /\ \A i \in 1 .. Len(s) - (n + 1) + 1 : b[i] = s[(n + 1) + i - 1]
    BY <2>1, SubSeqProperties
  <2> HIDE DEF b
  <2> QED BY <2>2
<1>3. RemoveAt(s, n) = a \o b
  BY DEF RemoveAt
<1> HIDE DEF a, b
<1>4. /\ a \o b \in Seq(S) /\ Len(a \o b) = Len(a) + Len(b)
      /\ \A i \in 1 .. Len(a) + Len(b) : (a \o b)[i] = IF i <= Len(a) THEN a[i] ELSE b[i - Len(a)]
  BY <1>1, <1>2, ConcatProperties
<1>5. \A i \in 1 .. Len(s) - 1 : (a \o b)[i] = IF i < n THEN s[i] ELSE s[i + 1]
  BY <1>1, <1>2, <1>4
<1> QED BY <1>1, <1>2, <1>3, <1>4, <1>5

LEMMA FrontFacts ==
  ASSUME NEW S, NEW s \in Seq(S), s # <<>>
  PROVE  /\ Front(s) \in Seq(S) /\ Len(Front(s)) = Len(s) - 1 /\ Len(s) \in Nat \ {0}
         /\ \A i \in 1 .. Len(s) - 1 : Front(s)[i] = s[i]
         /\ \A x : x \in ToSet(Front(s)) <=> \E i \in 1 .. Len(s) - 1 : x = s[i]
<1> DEFINE f == SubSeq(s, 1, Len(s) - 1)
<1>0. Len(s) \in Nat \ {0}
  BY EmptySeq
<1>1. /\ Len(s) \in Nat \ {0} /\ 1 \in Int /\ Len(s) - 1 \in Int
      /\ \A i \in 1 .. Len(s) - 1 : s[i] \in S
  BY <1>0
<1>2. /\ f \in Seq(S)
      /\ Len(f) = IF 1 <= Len(s) - 1 THEN Len(s) - 1 - 1 + 1 ELSE 0
      /\ \A i \in 1 .. Len(s) - 1 - 1 + 1 : f[i] = s[1 + i - 1]
  BY <1>1, SubSeqProperties
<1>3. Front(s) = f
  BY DEF Front
<1> HIDE DEF f
<1>4. Len(f) = Len(s) - 1
  <2>1. f \in Seq(S) /\ Len(f) = IF 1 <= Len(s) - 1 THEN Len(s) - 1 - 1 + 1 ELSE 0
    BY <1>2
  <2> QED BY <1>0, <2>1
<1>5. \A i \in 1 .. Len(s) - 1 : f[i] = s[i]
  BY <1>1, <1>2
<1>6. \A x : x \in ToSet(f) <=> \E i \in 1 .. Len(s) - 1 : x = s[i]
  BY <1>2, <1>4, <1>5 DEF ToSet
<1> QED BY <1>1, <1>2, <1>3, <1>4, <1>5, <1>6

LEMMA ToSetFacts ==
  ASSUME NEW S, NEW s \in Seq(S), NEW e \in S
  PROVE  /\ \A x : x \in ToSet(s) <=> \E i \in 1 .. Len(s) : x = s[i]
         /\ ToSet(s) \subseteq S
         /\ ToSet(Append(s, e)) = ToSet(s) \cup {e}
<1>1. DOMAIN s = 1 .. Len(s) /\ Len(s) \in Nat
  OBVIOUS
<1>2. /\ Append(s, e) \in Seq(S) /\ Len(Append(s, e)) = Len(s) + 1
      /\ \A i \in 1 .. Len(s) : Append(s, e)[i] = s[i]
      /\ Append(s, e)[Len(s) + 1] = e
      /\ DOMAIN Append(s, e) = 1 .. Len(s) + 1
  BY AppendProperties, LenProperties
<1>3. \A x : x \in ToSet(s) <=> \E i \in 1 .. Len(s) : x = s[i]
  BY <1>1 DEF ToSet
<1>4. \A x : x \in ToSet(Append(s, e)) <=> \E i \in 1 .. Len(s) + 1 : x = Append(s, e)[i]
  BY <1>2 DEF ToSet
<1>5. \A x : x \in ToSet(Append(s, e)) <=> x \in ToSet(s) \/ x = e
  BY <1>1, <1>2, <1>3, <1>4
<1> QED BY <1>1, <1>3, <1>5

\* RemoveAt takes exactly the one element out of an ascending sequence.
LEMMA RemoveFromAscending ==
  ASSUME NEW s \in Seq(Int), ascending(s), NEW n \in 1 .. Len(s)
  PROVE  /\ ascending(RemoveAt(s, n))
         /\ ToSet(RemoveAt(s, n)) = ToSet(s) \ {s[n]}
<1> DEFINE t == RemoveAt(s, n)
<1>1. /\ t \in Seq(Int) /\ Len(t) = Len(s) - 1
      /\ \A i \in 1 .. Len(s) - 1 : t[i] = IF i < n THEN s[i] ELSE s[i + 1]
  BY RemoveAtFacts
<1>2. /\ DOMAIN s = 1 .. Len(s) /\ Len(s) \in Nat
      /\ \A i \in 1 .. Len(s) : s[i] \in Int
      /\ \A i, j \in 1 .. Len(s) : i < j => s[i] < s[j]
  BY DEF ascending
<1> HIDE DEF t
<1>3. DOMAIN t = 1 .. Len(s) - 1
  BY <1>1, <1>2
<1>4. ascending(t)
  <2> SUFFICES ASSUME NEW i \in 1 .. Len(s) - 1, NEW j \in 1 .. Len(s) - 1, i < j
               PROVE  t[i] < t[j]
    BY <1>3 DEF ascending
  <2> DEFINE source(k) == IF k < n THEN k ELSE k + 1
  <2>0. \A k \in 1 .. Len(s) - 1 : t[k] = s[source(k)]
    <3> SUFFICES ASSUME NEW k \in 1 .. Len(s) - 1 PROVE t[k] = s[source(k)]
      OBVIOUS
    <3>1. CASE k < n
      BY <1>1, <3>1
    <3>2. CASE ~(k < n)
      BY <1>1, <3>2
    <3> QED BY <3>1, <3>2
  <2>1. /\ t[i] = s[source(i)] /\ t[j] = s[source(j)]
        /\ source(i) \in 1 .. Len(s) /\ source(j) \in 1 .. Len(s) /\ source(i) < source(j)
    <3>1. source(i) \in 1 .. Len(s) /\ source(j) \in 1 .. Len(s) /\ source(i) < source(j)
      BY <1>2
    <3> QED BY <2>0, <3>1
  <2> HIDE DEF source
  <2>2. \A k, l \in 1 .. Len(s) : k < l => s[k] < s[l]
    BY <1>2
  <2>3. s[source(i)] < s[source(j)]
    BY <2>1, <2>2
  <2> QED BY <2>1, <2>3
<1>5. ASSUME NEW x PROVE x \in ToSet(t) <=> x \in ToSet(s) \ {s[n]}
  <2>1. x \in ToSet(t) <=> \E i \in 1 .. Len(s) - 1 : x = t[i]
    BY <1>3 DEF ToSet
  <2>2. x \in ToSet(s) <=> \E i \in 1 .. Len(s) : x = s[i]
    BY <1>2 DEF ToSet
  <2>3. ASSUME NEW i \in 1 .. Len(s) - 1, x = t[i] PROVE x \in ToSet(s) /\ x # s[n]
    <3> DEFINE k == IF i < n THEN i ELSE i + 1
    <3>1. t[i] = s[k] /\ k \in 1 .. Len(s) /\ (k < n \/ n < k)
      BY <1>1, <1>2
    <3> HIDE DEF k
    <3>2. s[k] # s[n]
      <4>1. s[k] < s[n] \/ s[n] < s[k]
        BY <1>2, <3>1
      <4>2. s[k] \in Int /\ s[n] \in Int
        BY <1>2, <3>1
      <4> QED BY <4>1, <4>2
    <3> QED BY <2>2, <2>3, <3>1, <3>2
  <2>4. ASSUME NEW i \in 1 .. Len(s), x = s[i], i # n PROVE x \in ToSet(t)
    <3>1. PICK k \in 1 .. Len(s) - 1 : t[k] = s[i]
      <4>1. CASE i < n
        <5>1. i \in 1 .. Len(s) - 1
          BY <1>2, <4>1
        <5> QED BY <1>1, <4>1, <5>1
      <4>2. CASE i > n
        <5>1. i - 1 \in 1 .. Len(s) - 1 /\ ~(i - 1 < n) /\ (i - 1) + 1 = i
          BY <1>2, <4>2
        <5> QED BY <1>1, <5>1
      <4> QED BY <1>2, <2>4, <4>1, <4>2
    <3> QED BY <2>1, <2>4, <3>1
  <2> QED BY <2>1, <2>2, <2>3, <2>4
<1> QED BY <1>4, <1>5 DEF t

\* What acknowledge leaves of an ascending queue: the events after last, as its tail.
LEMMA UnacknowledgedFacts ==
  ASSUME NEW s \in Seq(Number), ascending(s), NEW last \in Int
  PROVE  LET t == unacknowledged(s, last)
         IN /\ t \in Seq(Number) /\ ascending(t) /\ Len(t) <= Len(s)
            /\ ToSet(t) = {i \in ToSet(s) : i > last}
            /\ \A i \in 1 .. Len(t) : t[i] = s[i + (Len(s) - Len(t))]
<1> DEFINE left == {n \in DOMAIN s : s[n] > last}
           t == unacknowledged(s, last)
<1>1. Number \subseteq Int
  BY LongestFacts
<1>2. /\ DOMAIN s = 1 .. Len(s) /\ Len(s) \in Nat
      /\ \A i \in 1 .. Len(s) : s[i] \in Number /\ s[i] \in Int
      /\ \A i, j \in 1 .. Len(s) : i < j => s[i] < s[j]
  <2>1. DOMAIN s = 1 .. Len(s) /\ Len(s) \in Nat /\ \A i \in 1 .. Len(s) : s[i] \in Number
    OBVIOUS
  <2>2. \A i, j \in 1 .. Len(s) : i < j => s[i] < s[j]
    BY <2>1 DEF ascending
  <2> QED BY <1>1, <2>1, <2>2
<1>3. \A x : x \in ToSet(s) <=> \E i \in 1 .. Len(s) : x = s[i]
  BY <1>2 DEF ToSet
<1>4. CASE left = {}
  <2>1. t = <<>>
    BY <1>4 DEF unacknowledged
  <2>2. {i \in ToSet(s) : i > last} = {}
    BY <1>2, <1>3, <1>4
  <2>3. t \in Seq(Number) /\ Len(t) = 0 /\ DOMAIN t = {}
    BY <2>1
  <2>4. ascending(t) /\ ToSet(t) = {}
    BY <2>3 DEF ascending, ToSet
  <2> HIDE DEF t
  <2> QED BY <1>2, <2>2, <2>3, <2>4 DEF t
<1>5. CASE left # {}
  <2> DEFINE m == Min(left)
  <2>1. left \in SUBSET Int /\ IsFiniteSet(left)
    <3>1. left \in SUBSET (1 .. Len(s))
      BY <1>2
    <3>2. IsFiniteSet(1 .. Len(s))
      BY <1>2, FS_Interval
    <3> HIDE DEF left
    <3>3. IsFiniteSet(left)
      BY <3>1, <3>2, FS_Subset
    <3> QED BY <3>1, <3>3
  <2>2. m \in left /\ \A n \in left : m <= n
    <3> HIDE DEF left
    <3> QED BY <1>5, <2>1, MinOfFinite
  <2>3. t = SubSeq(s, m, Len(s))
    BY <1>5 DEF unacknowledged
  <2> HIDE DEF m, t
  <2>4. m \in 1 .. Len(s) /\ s[m] > last /\ \A n \in 1 .. Len(s) : s[n] > last => m <= n
    BY <1>2, <2>2
  <2>5. /\ t \in Seq(Number) /\ Len(t) = Len(s) - m + 1
        /\ \A i \in 1 .. Len(s) - m + 1 : t[i] = s[m + i - 1]
    <3>1. m \in Int /\ Len(s) \in Int /\ m <= Len(s) /\ \A i \in m .. Len(s) : s[i] \in Number
      BY <1>2, <2>4
    <3> QED BY <2>3, <3>1, SubSeqProperties
  <2>6. DOMAIN t = 1 .. Len(s) - m + 1
    BY <2>5
  <2>7. ascending(t)
    <3> SUFFICES ASSUME NEW i \in 1 .. Len(s) - m + 1, NEW j \in 1 .. Len(s) - m + 1, i < j
                 PROVE  t[i] < t[j]
      BY <2>6 DEF ascending
    <3>1. /\ m + i - 1 \in 1 .. Len(s) /\ m + j - 1 \in 1 .. Len(s) /\ m + i - 1 < m + j - 1
          /\ t[i] = s[m + i - 1] /\ t[j] = s[m + j - 1]
      BY <1>2, <2>4, <2>5
    <3> QED BY <1>2, <3>1
  <2>8. ASSUME NEW x PROVE x \in ToSet(t) <=> x \in ToSet(s) /\ x > last
    <3>1. x \in ToSet(t) <=> \E i \in 1 .. Len(s) - m + 1 : x = t[i]
      BY <2>6 DEF ToSet
    <3>2. ASSUME NEW i \in 1 .. Len(s) - m + 1, x = t[i] PROVE x \in ToSet(s) /\ x > last
      <4>1. m + i - 1 \in 1 .. Len(s) /\ x = s[m + i - 1] /\ m <= m + i - 1
        BY <1>2, <2>4, <2>5, <3>2
      <4>2. s[m + i - 1] > last
        <5>1. CASE i = 1
          BY <2>4, <5>1
        <5>2. CASE i # 1
          BY <1>2, <2>4, <4>1, <5>2
        <5> QED BY <5>1, <5>2
      <4> QED BY <1>3, <4>1, <4>2
    <3>3. ASSUME NEW i \in 1 .. Len(s), x = s[i], x > last
          PROVE  \E j \in 1 .. Len(s) - m + 1 : x = t[j]
      <4>1. m <= i
        BY <2>4, <3>3
      <4>2. i - m + 1 \in 1 .. Len(s) - m + 1 /\ m + (i - m + 1) - 1 = i
        BY <1>2, <2>4, <4>1
      <4> QED BY <2>5, <3>3, <4>2
    <3> QED BY <1>3, <3>1, <3>2, <3>3
  <2>9. \A i \in 1 .. Len(t) : t[i] = s[i + (Len(s) - Len(t))]
    BY <1>2, <2>4, <2>5
  <2> QED BY <1>2, <2>4, <2>5, <2>7, <2>8, <2>9 DEF t
<1> QED BY <1>4, <1>5

-----------------------------------------------------------------------------
(* Batches *)

Page == [run : Runs \cup {NoRun}, queue : Seq(Number), inflight : BOOLEAN, timer : BOOLEAN]

\* A batch is the head of the queue: everything of the queue up to its last event.
LEMMA BatchFacts ==
  ASSUME NEW p \in Page, p.run \in Runs, ascending(p.queue), p.queue # <<>>
  PROVE  LET b == batch(p)
         IN /\ b \in Batch /\ b.kind = "batch" /\ b.stage = "queued" /\ b.run = p.run
            /\ Len(b.events) \in 1 .. BatchSize
            /\ Last(b.events) \in ToSet(p.queue)
            /\ \A i \in ToSet(b.events) : i \in ToSet(p.queue) /\ i <= Last(b.events)
            /\ \A i \in ToSet(p.queue) : i <= Last(b.events) => i \in ToSet(b.events)
<1> DEFINE q == p.queue
           size == IF Len(q) < BatchSize THEN Len(q) ELSE BatchSize
           e == SubSeq(q, 1, size)
<1>1. Number \subseteq Int
  BY LongestFacts
<1>2. /\ q \in Seq(Number) /\ Len(q) \in Nat /\ Len(q) >= 1 /\ DOMAIN q = 1 .. Len(q)
      /\ \A i \in 1 .. Len(q) : q[i] \in Number
  BY EmptySeq DEF Page
<1>3. \A i, j \in 1 .. Len(q) : i < j => q[i] < q[j]
  BY <1>2 DEF ascending
<1>4. BatchSize \in Nat /\ BatchSize >= 1
  BY BatchAssumption
<1>5. size \in 1 .. Len(q) /\ size \in 1 .. BatchSize
  BY <1>2, <1>4
<1>6. batch(p) = [kind |-> "batch", run |-> p.run, alive |-> TRUE, stage |-> "queued",
                  key |-> 0, events |-> e]
  BY DEF batch
<1> HIDE DEF q, size
<1>7. e \in Seq(Number) /\ Len(e) = size /\ \A i \in 1 .. size : e[i] = q[i]
  <2>1. 1 \in Int /\ size \in Int /\ \A i \in 1 .. size : q[i] \in Number
    BY <1>2, <1>5
  <2>2. /\ e \in Seq(Number)
        /\ Len(e) = IF 1 <= size THEN size - 1 + 1 ELSE 0
        /\ \A i \in 1 .. size - 1 + 1 : e[i] = q[1 + i - 1]
    BY <2>1, SubSeqProperties
  <2> HIDE DEF e
  <2> QED BY <1>5, <2>1, <2>2
<1> HIDE DEF e
<1>8. DOMAIN e = 1 .. size
  BY <1>5, <1>7
<1>9. Last(e) = q[size]
  BY <1>5, <1>7 DEF Last
<1>10. \A x : x \in ToSet(e) <=> \E i \in 1 .. size : x = q[i]
  BY <1>7, <1>8 DEF ToSet
<1>11. \A x : x \in ToSet(q) <=> \E i \in 1 .. Len(q) : x = q[i]
  BY <1>2 DEF ToSet
<1>12. \A i \in 1 .. size : q[i] <= q[size]
  <2> SUFFICES ASSUME NEW i \in 1 .. size PROVE q[i] <= q[size]
    OBVIOUS
  <2>1. i \in 1 .. Len(q) /\ size \in 1 .. Len(q) /\ (i = size \/ i < size)
    BY <1>2, <1>5
  <2>2. q[i] \in Int /\ q[size] \in Int
    BY <1>1, <1>2, <2>1
  <2> QED BY <1>3, <2>1, <2>2
<1>13. \A i \in 1 .. Len(q) : q[i] <= q[size] => i \in 1 .. size
  <2> SUFFICES ASSUME NEW i \in 1 .. Len(q), ~(i \in 1 .. size) PROVE ~(q[i] <= q[size])
    OBVIOUS
  <2>1. size \in 1 .. Len(q) /\ size < i
    BY <1>2, <1>5
  <2>2. q[i] \in Int /\ q[size] \in Int
    BY <1>1, <1>2, <2>1
  <2> QED BY <1>3, <2>1, <2>2
<1>14. /\ Last(e) \in ToSet(q)
       /\ \A x \in ToSet(e) : x \in ToSet(q) /\ x <= Last(e)
       /\ \A x \in ToSet(q) : x <= Last(e) => x \in ToSet(e)
  <2>1. size \in 1 .. Len(q) /\ \A i \in 1 .. size : i \in 1 .. Len(q)
    BY <1>2, <1>5
  <2> QED BY <1>9, <1>10, <1>11, <1>12, <1>13, <2>1
<1>15. batch(p) \in Batch
  BY <1>6, <1>7 DEF Batch
<1> QED BY <1>5, <1>6, <1>7, <1>14, <1>15 DEF q

LEMMA FlushFacts ==
  ASSUME NEW p \in Page, Flush(p), port \in {"none", "open", "broken"}
  PROVE  /\ page' \in Page /\ page'.run = p.run /\ page'.queue = p.queue
         /\ port' \in {"none", "open", "broken"}
         /\ \/ tasks' = tasks
            \/ p.queue # <<>> /\ tasks' = Append(tasks, batch(p))
<1>1. page' \in Page /\ page'.run = p.run /\ page'.queue = p.queue
  BY DEF Flush, Page
<1>2. \/ UNCHANGED <<port, tasks>>
      \/ p.queue # <<>> /\ Send(batch(p))
  BY DEF Flush
<1> QED BY <1>1, <1>2 DEF Send

-----------------------------------------------------------------------------
(* What stays true while runs record, drop and store more *)

Grows ==
  \A r \in Runs :
    /\ recorded[r] \in Int /\ recorded'[r] \in Int /\ recorded[r] <= recorded'[r]
    /\ dropped[r] \subseteq dropped'[r]
    /\ \A i \in Key : stored(r, i) => stored(r, i)'

LEMMA CoveredKept ==
  ASSUME NEW r \in Runs, NEW last \in Number, NEW s, Grows, Covered(r, last, s)
  PROVE  Covered(r, last, s)'
<1>1. \A i \in 1 .. last : i \in Key
  BY LongestFacts
<1>2. \A i \in Key : settled(r, i) => settled(r, i)'
  BY DEF Grows, settled
<1> QED BY <1>1, <1>2 DEF Covered

LEMMA BatchKept ==
  ASSUME NEW t, t.run \in Runs, t.events \in Seq(Number), Last(t.events) \in Number,
         Grows, BatchOK(t)
  PROVE  BatchOK(t)'
<1>1. Covered(t.run, Last(t.events), t.events)'
  BY CoveredKept DEF BatchOK
<1>2. Last(t.events) <= recorded'[t.run]
  BY LongestFacts DEF Grows, BatchOK
<1>3. t.stage = "stored" => \A i \in ToSet(t.events) : stored(t.run, i)'
  <2>1. ToSet(t.events) \subseteq Key
    <3>1. ToSet(t.events) \subseteq Number
      BY ToSetFacts
    <3> QED BY <3>1, LongestFacts
  <2> QED BY <2>1 DEF Grows, BatchOK
<1> QED BY <1>1, <1>2, <1>3 DEF BatchOK

LEMMA BatchTypes ==
  ASSUME TypeOK, NEW n \in DOMAIN tasks
  PROVE  /\ tasks[n] \in Batch /\ tasks[n].run \in Runs
         /\ tasks[n].kind = "batch" =>
              /\ tasks[n].events \in Seq(Number) /\ Len(tasks[n].events) \in 1 .. BatchSize
              /\ Last(tasks[n].events) \in Number /\ Last(tasks[n].events) \in Int
<1>1. /\ tasks \in Seq(Batch)
      /\ tasks[n].kind = "batch" => Len(tasks[n].events) \in 1 .. BatchSize
  BY DEF TypeOK
<1>2. PICK b \in Batch : b = tasks[n]
  BY <1>1
<1>3. b.run \in Runs /\ b.events \in Seq(Number)
  BY DEF Batch
<1>4. ASSUME Len(b.events) \in 1 .. BatchSize
      PROVE  Last(b.events) \in Number /\ Last(b.events) \in Int
  <2>1. Len(b.events) \in 1 .. Len(b.events)
    BY <1>3, <1>4
  <2>2. Last(b.events) \in Number
    BY <1>3, <2>1, ElementOfSeq DEF Last
  <2> QED BY <2>2, LongestFacts
<1> QED BY <1>1, <1>2, <1>3, <1>4

\* Acknowledgements that are left keep their promise.
LEMMA AcksKept ==
  ASSUME TypeOK, AcksAreCovered, Grows,
         \A n \in DOMAIN acks' : \E m \in DOMAIN acks : acks'[n] = acks[m]
  PROVE  AcksAreCovered'
<1> SUFFICES ASSUME NEW n \in DOMAIN acks'
             PROVE  /\ acks'[n].last <= recorded'[acks'[n].run]
                    /\ Covered(acks[n].run, acks[n].last, <<>>)'
  BY DEF AcksAreCovered
<1>1. PICK m \in DOMAIN acks : acks'[n] = acks[m]
  OBVIOUS
<1>2. PICK a \in [run : Runs, last : Number] : a = acks[m]
  <2>1. acks \in Seq([run : Runs, last : Number])
    BY DEF TypeOK
  <2>2. acks[m] \in [run : Runs, last : Number]
    BY <2>1, ElementOfSeq, LenProperties
  <2> QED BY <2>2
<1>3. a.last <= recorded[a.run] /\ Covered(a.run, a.last, <<>>)
  BY <1>2 DEF AcksAreCovered
<1>4. a.run \in Runs /\ a.last \in Int
  BY LongestFacts
<1>5. a.last <= recorded'[a.run]
  BY <1>3, <1>4 DEF Grows
<1>6. Covered(a.run, a.last, <<>>)'
  BY <1>3, <1>4, CoveredKept
<1> QED BY <1>1, <1>2, <1>5, <1>6 DEF Covered, settled, stored

-----------------------------------------------------------------------------
(* The page's steps *)

\* A flush keeps the worker's queue in order, when what is flushed covers the run.
LEMMA FlushKeeps ==
  ASSUME TypeOK, RunsInOrder, TasksOK,
         NEW p \in Page, p.run \in Runs, ascending(p.queue),
         \A i \in ToSet(p.queue) : i <= recorded[p.run],
         Covered(p.run, recorded[p.run], p.queue),
         Flush(p), UNCHANGED <<recorded, dropped, store, noted>>
  PROVE  /\ page' \in Page /\ page'.run = p.run /\ page'.queue = p.queue
         /\ port' \in {"none", "open", "broken"}
         /\ tasks' \in Seq(Batch)
         /\ \A n \in DOMAIN tasks' :
              tasks'[n].kind = "batch" => Len(tasks'[n].events) \in 1 .. BatchSize
         /\ TasksOK'
<1>1. /\ page' \in Page /\ page'.run = p.run /\ page'.queue = p.queue
      /\ port' \in {"none", "open", "broken"}
      /\ \/ tasks' = tasks
         \/ p.queue # <<>> /\ tasks' = Append(tasks, batch(p))
  BY FlushFacts DEF TypeOK
<1>2. /\ tasks \in Seq(Batch)
      /\ \A n \in DOMAIN tasks :
           tasks[n].kind = "batch" => Len(tasks[n].events) \in 1 .. BatchSize
  BY DEF TypeOK
<1>3. CASE tasks' = tasks
  <2>1. TasksOK'
    BY <1>3 DEF TasksOK, BatchOK, NoteOK, Covered, settled, stored
  <2> QED BY <1>1, <1>2, <1>3, <2>1
<1>4. CASE p.queue # <<>> /\ tasks' = Append(tasks, batch(p))
  <2> DEFINE b == batch(p)
  <2>1. /\ b \in Batch /\ b.kind = "batch" /\ b.stage = "queued" /\ b.run = p.run
        /\ Len(b.events) \in 1 .. BatchSize
        /\ Last(b.events) \in ToSet(p.queue)
        /\ \A i \in ToSet(b.events) : i \in ToSet(p.queue) /\ i <= Last(b.events)
        /\ \A i \in ToSet(p.queue) : i <= Last(b.events) => i \in ToSet(b.events)
    BY <1>4, BatchFacts
  <2>2. tasks' = Append(tasks, b)
    BY <1>4
  <2> HIDE DEF b
  <2>3. /\ tasks' \in Seq(Batch) /\ Len(tasks') = Len(tasks) + 1 /\ Len(tasks) \in Nat
        /\ \A n \in 1 .. Len(tasks) : tasks'[n] = tasks[n]
        /\ tasks'[Len(tasks) + 1] = b
    BY <1>2, <2>1, <2>2, AppendProperties
  <2>4. DOMAIN tasks = 1 .. Len(tasks) /\ DOMAIN tasks' = 1 .. Len(tasks) + 1
    BY <1>2, <2>3
  <2>5. \A n \in DOMAIN tasks' :
          (n \in DOMAIN tasks /\ tasks'[n] = tasks[n]) \/ tasks'[n] = b
    BY <2>3, <2>4
  <2>6. BatchOK(b)
    <3>1. Last(b.events) <= recorded[b.run] /\ Last(b.events) \in Int /\ recorded[b.run] \in Int
      <4>1. Last(b.events) \in Number /\ Number \subseteq Int
        BY <2>1, ToSetFacts, LongestFacts DEF Page, Batch
      <4>2. recorded[b.run] \in Int
        BY <2>1, LongestFacts DEF TypeOK
      <4> QED BY <2>1, <4>1, <4>2
    <3>2. Covered(b.run, Last(b.events), b.events)
      <4> SUFFICES ASSUME NEW i \in 1 .. Last(b.events)
                   PROVE  i \in ToSet(b.events) \/ settled(b.run, i)
        BY DEF Covered
      <4>1. i \in 1 .. recorded[p.run] /\ i <= Last(b.events)
        BY <2>1, <3>1
      <4> QED BY <2>1, <4>1 DEF Covered
    <3> QED BY <2>1, <3>1, <3>2 DEF BatchOK
  <2>7. BatchOK(b)'
    BY <2>6 DEF BatchOK, Covered, settled, stored
  <2>8. TasksOK'
    <3>1. ASSUME NEW n \in DOMAIN tasks'
          PROVE  /\ tasks'[n].kind = "batch" => BatchOK(tasks[n])'
                 /\ tasks'[n].kind = "note" => NoteOK(tasks[n])'
                 /\ tasks'[n].stage # "queued" => n = 1
      <4>1. CASE n \in DOMAIN tasks /\ tasks'[n] = tasks[n]
        BY <4>1 DEF TasksOK, BatchOK, NoteOK, Covered, settled, stored
      <4>2. CASE tasks'[n] = b
        BY <2>1, <2>7, <4>2 DEF BatchOK, Covered, settled, stored
      <4> QED BY <2>5, <4>1, <4>2
    <3>2. \A m, n \in DOMAIN tasks' :
            tasks'[m].kind = "note" /\ tasks'[n].kind = "note" /\ tasks'[m].run = tasks'[n].run
              => m = n
      BY <2>1, <2>5 DEF TasksOK
    <3>3. \A r \in Runs \ noted' : \A k \in Key : store'[r][k] # "background"
      BY DEF TasksOK
    <3> QED BY <3>1, <3>2, <3>3 DEF TasksOK
  <2>9. \A n \in DOMAIN tasks' :
          tasks'[n].kind = "batch" => Len(tasks'[n].events) \in 1 .. BatchSize
    BY <1>2, <2>1, <2>5
  <2> QED BY <1>1, <2>3, <2>8, <2>9
<1> QED BY <1>1, <1>3, <1>4

LEMMA InitOK == Init => IInv
<1> SUFFICES ASSUME Init PROVE IInv
  OBVIOUS
<1>1. Longest \in Nat /\ Number = 1 .. Longest /\ Key = 1 .. Longest + 1
      /\ \A r \in Runs : 1 <= Length[r] /\ Length[r] \in Nat
  BY LongestFacts
<1>2. TypeOK
  <2>1. page = [run |-> NoRun, queue |-> <<>>, inflight |-> FALSE, timer |-> FALSE]
    BY DEF Init, Fresh
  <2>2. page \in Page /\ ascending(page.queue)
    BY <2>1 DEF Page, ascending
  <2>3. MaxFaults \in Nat
    BY BatchAssumption
  <2> QED BY <2>2, <2>3 DEF Init, TypeOK, Page
<1>3. page.run = NoRun /\ page.queue = <<>> /\ ~page.timer
  BY DEF Init, Fresh
<1>4. DropsAreOrdinary /\ AcksAreCovered /\ FlushMeansStored
  BY DEF Init, DropsAreOrdinary, AcksAreCovered, FlushMeansStored
<1>5. RunsInOrder
  BY <1>1 DEF Init, RunsInOrder, stored
<1>6. PageIsCovered
  BY <1>3 DEF PageIsCovered
<1>7. TasksOK
  BY DEF Init, TasksOK
<1>8. GapsAreDeclared
  BY DEF Init, GapsAreDeclared
<1>9. OverflowIsCritical
  <2>1. ~(Len(page.queue) > QueueSize)
    BY <1>3, BatchAssumption
  <2> QED BY <2>1 DEF OverflowIsCritical
<1> QED BY <1>2, <1>4, <1>5, <1>6, <1>7, <1>8, <1>9 DEF IInv

LEMMA StartRunKeeps ==
  ASSUME IInv, NEW r \in Runs, StartRun(r)
  PROVE  IInv'
<1>1. /\ page' = [run |-> r, queue |-> <<1>>, inflight |-> FALSE, timer |-> TRUE]
      /\ recorded[r] = 0 /\ recorded' = [recorded EXCEPT ![r] = 1]
      /\ phase = "idle" /\ phase' = "running" /\ tries' = 0
      /\ UNCHANGED <<dropped, flushOk, port, acks, tasks, store, noted, faults>>
  BY DEF StartRun, Fresh, workerSide
<1>2. TypeOK /\ r # NoRun
  BY BatchAssumption DEF IInv
<1>3. Longest \in Nat /\ Number = 1 .. Longest /\ Length[r] \in Nat /\ 1 <= Length[r]
      /\ Length[r] <= Longest
  BY LongestFacts
<1>4. /\ <<1>> \in Seq(Number) /\ Len(<<1>>) = 1 /\ ToSet(<<1>>) = {1} /\ ascending(<<1>>)
      /\ Front(<<1>>) = <<>>
  <2>1. <<1>> \in Seq(Number) /\ DOMAIN <<1>> = {1}
    BY <1>3
  <2>2. ascending(<<1>>)
    BY <2>1 DEF ascending
  <2>3. Front(<<1>>) = <<>>
    BY DEF Front
  <2> QED BY <2>1, <2>2, <2>3 DEF ToSet
<1>5. TypeOK'
  BY <1>1, <1>2, <1>3, <1>4 DEF TypeOK
<1>6. \A q \in Runs : /\ q # r => recorded'[q] = recorded[q]
                      /\ recorded[q] \in Int /\ recorded[q] <= recorded'[q]
  BY <1>1, <1>2, LongestFacts DEF TypeOK
<1>7. recorded'[r] = 1
  BY <1>1, <1>2 DEF TypeOK
<1>8. DropsAreOrdinary'
  BY <1>1 DEF IInv, DropsAreOrdinary
<1>9. flushOk[r] = "none" /\ \A k \in Key : ~stored(r, k)
  BY <1>1, LongestFacts DEF IInv, RunsInOrder
<1>10. RunsInOrder'
  <2>1. \A q \in Runs : recorded'[q] <= Length[q]
    BY <1>3, <1>6, <1>7 DEF IInv, RunsInOrder
  <2>2. \A q \in Runs : flushOk'[q] # "none" =>
          recorded'[q] # 0 /\ ~(page'.run = q /\ phase' # "idle")
    BY <1>1, <1>6, <1>9 DEF IInv, RunsInOrder
  <2>3. \A q \in Runs, k \in Key : stored(q, k)' => k <= recorded'[q]
    BY <1>1, <1>6, <1>9 DEF IInv, RunsInOrder, stored
  <2> QED BY <2>1, <2>2, <2>3 DEF RunsInOrder
<1>11. PageIsCovered'
  BY <1>1, <1>2, <1>4, <1>7 DEF PageIsCovered, Covered
<1>17. Grows
  BY <1>1, <1>6, <1>7 DEF Grows, stored
<1>12. TasksOK'
  <2>1. ASSUME NEW n \in DOMAIN tasks', tasks[n].kind = "batch"
        PROVE  BatchOK(tasks[n])'
    <3>1. BatchOK(tasks[n])
      BY <1>1, <2>1 DEF IInv, TasksOK
    <3>2. PICK b : b = tasks[n]
      OBVIOUS
    <3>3. b.run \in Runs /\ b.events \in Seq(Number) /\ Last(b.events) \in Number
      BY <1>1, <1>2, <2>1, <3>2, BatchTypes
    <3>4. BatchOK(b)'
      BY <1>17, <3>1, <3>2, <3>3, BatchKept
    <3> QED BY <1>1, <3>2, <3>4
  <2>2. ASSUME NEW n \in DOMAIN tasks', tasks[n].kind = "note"
        PROVE  NoteOK(tasks[n])'
    <3>1. NoteOK(tasks[n])
      BY <1>1, <2>2 DEF IInv, TasksOK
    <3>2. tasks[n].run \in Runs
      BY <1>1, <1>2, BatchTypes
    <3>3. recorded'[tasks[n].run] # 0
      BY <1>6, <1>7, <3>1, <3>2 DEF NoteOK
    <3> QED BY <1>1, <3>1, <3>3 DEF NoteOK
  <2> QED BY <1>1, <2>1, <2>2 DEF IInv, TasksOK
<1>13. AcksAreCovered'
  BY <1>1, <1>2, <1>17, AcksKept DEF IInv
<1>14. FlushMeansStored'
  BY <1>1, <1>6, <1>9 DEF IInv, FlushMeansStored, stored
<1>15. GapsAreDeclared'
  <2> SUFFICES ASSUME NEW q \in Runs, NEW i \in 1 .. recorded'[q], NEW j \in 1 .. recorded'[q],
                      stored(q, i)', j < i
               PROVE  stored(q, j)' \/ j \in dropped'[q]
    BY DEF GapsAreDeclared
  <2>1. CASE q = r
    BY <1>7, <2>1
  <2>2. CASE q # r
    BY <1>1, <1>6, <2>2 DEF IInv, GapsAreDeclared, stored
  <2> QED BY <2>1, <2>2
<1>16. OverflowIsCritical'
  BY <1>1, <1>4 DEF OverflowIsCritical, ToSet
<1> QED BY <1>5, <1>8, <1>10, <1>11, <1>12, <1>13, <1>14, <1>15, <1>16 DEF IInv

\* A full queue gives up its first ordinary event, if it has one.
LEMMA VictimFacts ==
  ASSUME NEW q \in Seq(Number)
  PROVE  LET n == victim(q)
         IN \/ /\ n = 0
               /\ Len(q) >= QueueSize => \A m \in 1 .. Len(q) : q[m] \in Critical
            \/ /\ n \in 1 .. Len(q) /\ Len(q) >= QueueSize /\ q[n] \notin Critical
               /\ \A m \in 1 .. Len(q) : q[m] \notin Critical => n <= m
<1> DEFINE ordinary == {n \in DOMAIN q : q[n] \notin Critical}
<1>1. DOMAIN q = 1 .. Len(q) /\ Len(q) \in Nat
  OBVIOUS
<1>2. CASE Len(q) >= QueueSize /\ ordinary # {}
  <2>1. ordinary \in SUBSET Int /\ IsFiniteSet(ordinary)
    <3>1. ordinary \in SUBSET (1 .. Len(q)) /\ IsFiniteSet(1 .. Len(q))
      BY <1>1, FS_Interval
    <3> HIDE DEF ordinary
    <3>2. IsFiniteSet(ordinary)
      BY <3>1, FS_Subset
    <3> QED BY <3>1, <3>2
  <2>2. Min(ordinary) \in ordinary /\ \A m \in ordinary : Min(ordinary) <= m
    <3> HIDE DEF ordinary
    <3> QED BY <1>2, <2>1, MinOfFinite
  <2>3. victim(q) = Min(ordinary)
    BY <1>2 DEF victim, oldestOrdinary
  <2> QED BY <1>1, <1>2, <2>2, <2>3
<1>3. CASE Len(q) >= QueueSize /\ ordinary = {}
  BY <1>1, <1>3 DEF victim, oldestOrdinary
<1>4. CASE ~(Len(q) >= QueueSize)
  BY <1>4 DEF victim
<1> QED BY <1>2, <1>3, <1>4

\* The queue after record(): its order, its elements and what is beyond its limit.
LEMMA QueueAfterRecord ==
  ASSUME NEW q \in Seq(Number), ascending(q), NEW seq \in Number,
         \A i \in ToSet(q) : i < seq,
         Len(q) > QueueSize => ToSet(Front(q)) \subseteq Critical
  PROVE  LET n == victim(q)
             t == Append(IF n = 0 THEN q ELSE RemoveAt(q, n), seq)
         IN /\ t \in Seq(Number) /\ ascending(t)
            /\ ToSet(t) = (IF n = 0 THEN ToSet(q) ELSE ToSet(q) \ {q[n]}) \cup {seq}
            /\ Len(t) > QueueSize => ToSet(Front(t)) \subseteq Critical
            /\ n = 0 \/ (n \in 1 .. Len(q) /\ q[n] \in ToSet(q) /\ q[n] \notin Critical)
<1> DEFINE n == victim(q)
           u == IF n = 0 THEN q ELSE RemoveAt(q, n)
           t == Append(u, seq)
<1>0. Number \subseteq Int /\ q \in Seq(Int) /\ DOMAIN q = 1 .. Len(q) /\ Len(q) \in Nat
      /\ QueueSize \in Int
  BY LongestFacts, BatchAssumption, SeqMonotonic
<1>1. \/ /\ n = 0
         /\ Len(q) >= QueueSize => \A m \in 1 .. Len(q) : q[m] \in Critical
      \/ /\ n \in 1 .. Len(q) /\ Len(q) >= QueueSize /\ q[n] \notin Critical
         /\ \A m \in 1 .. Len(q) : q[m] \notin Critical => n <= m
  BY VictimFacts
<1> HIDE DEF n
<1>2. \A x : x \in ToSet(q) <=> \E m \in 1 .. Len(q) : x = q[m]
  BY <1>0 DEF ToSet
<1>3. /\ u \in Seq(Number) /\ ascending(u)
      /\ ToSet(u) = IF n = 0 THEN ToSet(q) ELSE ToSet(q) \ {q[n]}
  <2>1. CASE n = 0
    BY <2>1
  <2>2. CASE n # 0
    <3>1. n \in 1 .. Len(q)
      BY <1>1, <2>2
    <3>2. RemoveAt(q, n) \in Seq(Number)
      BY <3>1, RemoveAtFacts
    <3>3. ascending(RemoveAt(q, n)) /\ ToSet(RemoveAt(q, n)) = ToSet(q) \ {q[n]}
      BY <1>0, <3>1, RemoveFromAscending
    <3> QED BY <2>2, <3>2, <3>3
  <2> QED BY <2>1, <2>2
<1>4. \A m \in 1 .. Len(u) : u[m] < seq
  <2>1. \A i \in ToSet(u) : i < seq
    BY <1>3
  <2> HIDE DEF u
  <2>2. \A m \in 1 .. Len(u) : u[m] \in ToSet(u)
    BY <1>3 DEF ToSet
  <2> QED BY <2>1, <2>2
<1>5. /\ t \in Seq(Number) /\ Len(t) = Len(u) + 1 /\ Len(u) \in Nat
      /\ \A m \in 1 .. Len(u) : t[m] = u[m]
      /\ t[Len(u) + 1] = seq
  <2> HIDE DEF u
  <2> QED BY <1>3, AppendProperties
<1>6. ToSet(t) = ToSet(u) \cup {seq}
  <2> HIDE DEF u
  <2> QED BY <1>3, ToSetFacts
<1>7. Len(u) = IF n = 0 THEN Len(q) ELSE Len(q) - 1
  <2>1. CASE n = 0
    BY <2>1
  <2>2. CASE n # 0
    <3>1. n \in 1 .. Len(q)
      BY <1>1, <2>2
    <3> QED BY <2>2, <3>1, RemoveAtFacts
  <2> QED BY <2>1, <2>2
<1>8. Front(t) = u
  <2> HIDE DEF u, t
  <2>1. t # <<>>
    BY <1>5
  <2>2. /\ Front(t) \in Seq(Number) /\ Len(Front(t)) = Len(t) - 1
        /\ \A m \in 1 .. Len(t) - 1 : Front(t)[m] = t[m]
    BY <1>5, <2>1, FrontFacts
  <2> QED BY <1>3, <1>5, <2>2, SeqEqual
<1>9. ascending(t)
  <2> HIDE DEF u, t
  <2>1. DOMAIN t = 1 .. Len(u) + 1 /\ DOMAIN u = 1 .. Len(u)
    BY <1>3, <1>5
  <2>2. \A i, j \in 1 .. Len(u) : i < j => u[i] < u[j]
    BY <1>3, <2>1 DEF ascending
  <2> SUFFICES ASSUME NEW i \in 1 .. Len(u) + 1, NEW j \in 1 .. Len(u) + 1, i < j
               PROVE  t[i] < t[j]
    BY <2>1 DEF ascending
  <2>3. i \in 1 .. Len(u) /\ t[i] = u[i]
    BY <1>5
  <2>4. CASE j = Len(u) + 1
    BY <1>4, <1>5, <2>3, <2>4
  <2>5. CASE j # Len(u) + 1
    <3>1. j \in 1 .. Len(u) /\ t[j] = u[j]
      BY <1>5, <2>5
    <3> QED BY <2>2, <2>3, <3>1
  <2> QED BY <2>4, <2>5
<1>10. ASSUME Len(t) > QueueSize PROVE ToSet(u) \subseteq Critical
  <2>1. CASE n = 0
    <3>1. Len(q) >= QueueSize
      <4> HIDE DEF u, t
      <4> QED BY <1>0, <1>5, <1>7, <1>10, <2>1
    <3>2. ToSet(q) \subseteq Critical
      BY <1>0, <1>1, <1>2, <2>1, <3>1
    <3> QED BY <1>3, <2>1, <3>2
  <2>2. CASE n # 0
    <3>1. n \in 1 .. Len(q) /\ Len(q) > QueueSize
      <4> HIDE DEF u, t
      <4> QED BY <1>0, <1>1, <1>5, <1>7, <1>10, <2>2
    <3>2. \A m \in 1 .. Len(q) - 1 : q[m] \in Critical
      <4>1. ToSet(Front(q)) \subseteq Critical
        BY <3>1
      <4>2. \A x : x \in ToSet(Front(q)) <=> \E m \in 1 .. Len(q) - 1 : x = q[m]
        BY <3>1, FrontFacts
      <4> QED BY <4>1, <4>2
    <3>3. n = Len(q)
      <4>1. q[n] \notin Critical
        BY <1>1, <2>2
      <4>2. n \notin 1 .. Len(q) - 1
        BY <3>2, <4>1
      <4>3. n \in 1 .. Len(q) /\ Len(q) \in Nat
        BY <1>0, <3>1
      <4> HIDE DEF u, t
      <4> QED BY <4>2, <4>3
    <3>4. ASSUME NEW x \in ToSet(u) PROVE x \in Critical
      <4>1. x \in ToSet(q) /\ x # q[n]
        BY <1>3, <2>2, <3>4
      <4>2. PICK m \in 1 .. Len(q) : x = q[m]
        BY <1>2, <4>1
      <4>3. m \in 1 .. Len(q) - 1
        BY <1>0, <3>3, <4>1, <4>2
      <4> QED BY <3>2, <4>2, <4>3
    <3> QED BY <3>4
  <2> QED BY <2>1, <2>2
<1>11. n = 0 \/ (n \in 1 .. Len(q) /\ q[n] \in ToSet(q) /\ q[n] \notin Critical)
  BY <1>1, <1>2
<1> QED BY <1>3, <1>5, <1>6, <1>8, <1>9, <1>10, <1>11 DEF n

\* Tasks that stay as they are keep their promise while the store of events grows.
LEMMA TasksKept ==
  ASSUME TypeOK, TasksOK, Grows, UNCHANGED <<tasks, store, noted>>
  PROVE  TasksOK'
<1>1. ASSUME NEW n \in DOMAIN tasks', tasks[n].kind = "batch"
      PROVE  BatchOK(tasks[n])'
  <2>1. BatchOK(tasks[n])
    BY <1>1 DEF TasksOK
  <2>2. PICK b : b = tasks[n]
    OBVIOUS
  <2>3. b.run \in Runs /\ b.events \in Seq(Number) /\ Last(b.events) \in Number
    BY <1>1, <2>2, BatchTypes
  <2>4. BatchOK(b)'
    BY <2>1, <2>2, <2>3, BatchKept
  <2> QED BY <2>2, <2>4
<1>2. ASSUME NEW n \in DOMAIN tasks', tasks[n].kind = "note"
      PROVE  NoteOK(tasks[n])'
  <2>1. NoteOK(tasks[n])
    BY <1>2 DEF TasksOK
  <2>2. PICK b : b = tasks[n]
    OBVIOUS
  <2>3. b.run \in Runs /\ recorded[b.run] \in Int /\ recorded'[b.run] \in Int
        /\ recorded[b.run] <= recorded'[b.run]
    BY <1>2, <2>2, BatchTypes DEF Grows
  <2>4. recorded[b.run] # 0 /\ recorded[b.run] >= 0
    BY <2>1, <2>2, <2>3, LongestFacts DEF NoteOK, TypeOK
  <2>5. recorded'[b.run] # 0
    BY <2>3, <2>4
  <2> QED BY <2>1, <2>2, <2>5 DEF NoteOK
<1> QED BY <1>1, <1>2 DEF TasksOK

LEMMA RecordKeeps ==
  ASSUME IInv, Record
  PROVE  IInv'
<1> DEFINE r == page.run
           q == page.queue
           seq == recorded[r] + 1
           n == victim(q)
           t == Append(IF n = 0 THEN q ELSE RemoveAt(q, n), seq)
<1>1. /\ phase = "running" /\ seq <= Length[r]
      /\ recorded' = [recorded EXCEPT ![r] = seq]
      /\ dropped' = IF n = 0 THEN dropped ELSE [dropped EXCEPT ![r] = @ \cup {q[n]}]
      /\ page' = [page EXCEPT !.queue = t, !.timer = TRUE]
      /\ UNCHANGED <<phase, tries, flushOk, port, acks, tasks, store, noted, faults>>
  BY DEF Record, workerSide
<1>2. TypeOK /\ r \in Runs /\ r # NoRun
  BY <1>1, BatchAssumption DEF IInv, TypeOK
<1>3. /\ q \in Seq(Number) /\ ascending(q) /\ page \in Page
      /\ recorded \in [Runs -> {0} \cup Number] /\ dropped \in [Runs -> SUBSET Number]
  BY <1>2 DEF TypeOK, Page
<1>4. /\ Longest \in Nat /\ Number = 1 .. Longest /\ Length[r] \in Nat /\ Length[r] <= Longest
      /\ Key = 1 .. Longest + 1
  BY <1>2, LongestFacts
<1>5. seq \in Number /\ recorded[r] \in Int /\ recorded[r] >= 0 /\ seq = recorded[r] + 1
  BY <1>1, <1>2, <1>3, <1>4
<1>6. \A i \in ToSet(q) : i <= recorded[r] /\ i \in Int
  <2>1. ToSet(q) \subseteq Number
    BY <1>3, <1>5, ToSetFacts
  <2> QED BY <1>2, <1>4, <2>1 DEF IInv, PageIsCovered
<1> HIDE DEF r, q, seq, n
<1>7. /\ t \in Seq(Number) /\ ascending(t)
      /\ ToSet(t) = (IF n = 0 THEN ToSet(q) ELSE ToSet(q) \ {q[n]}) \cup {seq}
      /\ Len(t) > QueueSize => ToSet(Front(t)) \subseteq Critical
      /\ n = 0 \/ (n \in 1 .. Len(q) /\ q[n] \in ToSet(q) /\ q[n] \notin Critical)
  <2>1. \A i \in ToSet(q) : i < seq
    BY <1>5, <1>6
  <2>2. Len(q) > QueueSize => ToSet(Front(q)) \subseteq Critical
    BY DEF IInv, OverflowIsCritical, q
  <2>3. n = victim(q)
    BY DEF n
  <2> QED BY <1>3, <1>5, <2>1, <2>2, <2>3, QueueAfterRecord
<1>8. /\ page' \in Page /\ page'.run = r /\ page'.queue = t
  BY <1>1, <1>2, <1>3, <1>7 DEF Page, r
<1> HIDE DEF t
<1>9. /\ recorded'[r] = seq
      /\ \A p \in Runs : recorded[p] \in Int /\ recorded'[p] \in Int
                         /\ recorded[p] <= recorded'[p] /\ (p # r => recorded'[p] = recorded[p])
  BY <1>1, <1>2, <1>3, <1>4, <1>5
<1>10. /\ dropped' \in [Runs -> SUBSET Number]
       /\ \A p \in Runs : dropped[p] \subseteq dropped'[p]
       /\ \A p \in Runs : p # r => dropped'[p] = dropped[p]
       /\ dropped'[r] = IF n = 0 THEN dropped[r] ELSE dropped[r] \cup {q[n]}
  <2>1. CASE n = 0
    BY <1>1, <1>3, <2>1
  <2>2. CASE n # 0
    <3>1. q[n] \in Number
      BY <1>3, <1>7, <2>2
    <3>2. dropped' = [dropped EXCEPT ![r] = @ \cup {q[n]}]
      BY <1>1, <2>2
    <3> QED BY <1>2, <1>3, <2>2, <3>1, <3>2
  <2> QED BY <2>1, <2>2
<1>11. Grows
  BY <1>1, <1>9, <1>10 DEF Grows, stored
<1>12. TypeOK'
  <2>1. recorded' \in [Runs -> {0} \cup Number]
    BY <1>1, <1>2, <1>3, <1>5
  <2>2. phase' # "idle" => page'.run \in Runs
    BY <1>2, <1>8
  <2>3. ascending(page'.queue)
    BY <1>7, <1>8
  <2> QED BY <1>1, <1>2, <1>8, <1>10, <2>1, <2>2, <2>3 DEF TypeOK, Page
<1>13. DropsAreOrdinary'
  <2>1. \A p \in Runs : dropped[p] \cap Critical = {}
    BY DEF IInv, DropsAreOrdinary
  <2>2. dropped'[r] \cap Critical = {}
    BY <1>2, <1>7, <1>10, <2>1
  <2> QED BY <1>10, <2>1, <2>2 DEF DropsAreOrdinary
<1>14. RunsInOrder'
  <2>1. \A p \in Runs : recorded'[p] <= Length[p]
    <3>1. \A p \in Runs : recorded[p] <= Length[p]
      BY DEF IInv, RunsInOrder
    <3>2. \A p \in Runs : p # r => recorded'[p] = recorded[p]
      BY <1>9
    <3> QED BY <1>1, <1>9, <3>1, <3>2
  <2>2. flushOk[r] = "none"
    <3>1. flushOk[r] # "none" => ~(page.run = r /\ phase # "idle")
      BY <1>2 DEF IInv, RunsInOrder
    <3> QED BY <1>1, <3>1 DEF r
  <2>3. ASSUME NEW p \in Runs, flushOk'[p] # "none"
        PROVE  recorded'[p] # 0 /\ ~(page'.run = p /\ phase' # "idle")
    <3>1. p # r /\ recorded[p] # 0
      BY <1>1, <2>2, <2>3 DEF IInv, RunsInOrder
    <3> QED BY <1>8, <1>9, <3>1
  <2>4. ASSUME NEW p \in Runs, NEW k \in Key, stored(p, k)' PROVE k <= recorded'[p]
    <3>1. k <= recorded[p] /\ k \in Int
      BY <1>1, <1>4, <2>4 DEF IInv, RunsInOrder, stored
    <3> QED BY <1>9, <3>1
  <2> QED BY <2>1, <2>3, <2>4 DEF RunsInOrder
<1>15. PageIsCovered'
  <2>1. ToSet(t) \subseteq ToSet(q) \cup {seq} /\ seq \in ToSet(t)
    BY <1>7
  <2>2. \A i \in ToSet(t) : i <= recorded'[r]
    BY <1>5, <1>6, <1>9, <2>1
  <2>3. Covered(r, recorded[r], q)
    BY <1>2 DEF IInv, PageIsCovered, r, q
  <2> PICK run, last, queue : run = r /\ last = seq /\ queue = t
    OBVIOUS
  <2>4. Covered(run, last, queue)'
    <3> SUFFICES ASSUME NEW i \in 1 .. last
                 PROVE  i \in ToSet(queue) \/ stored(run, i)' \/ i \in dropped'[run]
      BY DEF Covered, settled
    <3>1. CASE i = last
      BY <2>1, <3>1
    <3>2. CASE i # last
      <4>1. i \in 1 .. recorded[run]
        BY <1>5, <3>2
      <4>2. i \in ToSet(q) \/ stored(run, i) \/ i \in dropped[run]
        BY <2>3, <4>1 DEF Covered, settled
      <4>4. stored(run, i) => stored(run, i)'
        BY <1>1 DEF stored
      <4> QED BY <1>2, <1>7, <1>10, <4>2, <4>4
    <3> QED BY <3>1, <3>2
  <2>5. page'.run = run /\ recorded'[run] = last /\ page'.queue = queue
    BY <1>8, <1>9
  <2>6. Covered(page.run, recorded[page.run], page.queue)'
    BY <2>4, <2>5 DEF Covered, settled, stored
  <2>7. recorded'[run] # 0 /\ run # NoRun /\ \A i \in ToSet(queue) : i <= recorded'[run]
    BY <1>2, <1>5, <1>9, <2>2
  <2> QED BY <2>5, <2>6, <2>7 DEF PageIsCovered
<1>16. TasksOK'
  BY <1>1, <1>2, <1>11, TasksKept DEF IInv
<1>17. AcksAreCovered'
  BY <1>1, <1>2, <1>11, AcksKept DEF IInv
<1>18. FlushMeansStored'
  <2> SUFFICES ASSUME NEW p \in Runs, flushOk'[p] = "yes", NEW i \in 1 .. recorded'[p]
               PROVE  stored(p, i)' \/ i \in dropped'[p]
    BY DEF FlushMeansStored
  <2>1. flushOk[r] = "none"
    <3>1. flushOk[r] # "none" => ~(page.run = r /\ phase # "idle")
      BY <1>2 DEF IInv, RunsInOrder
    <3> QED BY <1>1, <3>1 DEF r
  <2>2. p # r /\ recorded'[p] = recorded[p]
    BY <1>1, <1>9, <2>1
  <2>3. stored(p, i) \/ i \in dropped[p]
    BY <1>1, <2>2 DEF IInv, FlushMeansStored
  <2> QED BY <1>1, <1>10, <2>3 DEF stored
<1>19. GapsAreDeclared'
  <2> SUFFICES ASSUME NEW p \in Runs, NEW i \in 1 .. recorded'[p], NEW j \in 1 .. recorded'[p],
                      stored(p, i)', j < i
               PROVE  stored(p, j)' \/ j \in dropped'[p]
    BY DEF GapsAreDeclared
  <2>1. recorded'[p] <= Longest /\ recorded'[p] \in Int
    BY <1>4, <1>5, <1>9, <1>12 DEF TypeOK
  <2>2. i \in Key
    BY <1>4, <2>1
  <2>3. stored(p, i) /\ i <= recorded[p]
    BY <1>1, <2>2 DEF IInv, RunsInOrder, stored
  <2>4. i \in 1 .. recorded[p] /\ j \in 1 .. recorded[p]
    BY <1>9, <2>3
  <2>5. stored(p, j) \/ j \in dropped[p]
    BY <2>3, <2>4 DEF IInv, GapsAreDeclared
  <2> QED BY <1>1, <1>10, <2>5 DEF stored
<1>20. OverflowIsCritical'
  BY <1>7, <1>8 DEF OverflowIsCritical
<1> QED BY <1>12, <1>13, <1>14, <1>15, <1>16, <1>17, <1>18, <1>19, <1>20 DEF IInv

\* A step of the page with its run: it acknowledges, flushes or reports, and records nothing.
LEMMA PageMoves ==
  ASSUME IInv, page.run \in Runs, NEW q, NEW result,
         page' \in Page, page'.run = page.run, page'.queue = q, ascending(q),
         ToSet(q) \subseteq ToSet(page.queue),
         Covered(page.run, recorded[page.run], q),
         Len(q) > QueueSize => ToSet(Front(q)) \subseteq Critical,
         port' \in {"none", "open", "broken"},
         tasks' \in Seq(Batch),
         \A n \in DOMAIN tasks' :
           tasks'[n].kind = "batch" => Len(tasks'[n].events) \in 1 .. BatchSize,
         TasksOK',
         tries' \in 0 .. 3,
         acks' \in Seq([run : Runs, last : Number]),
         \A n \in DOMAIN acks' : \E m \in DOMAIN acks : acks'[n] = acks[m],
         \/ /\ UNCHANGED flushOk
            /\ phase' \in {phase, "idle"} \/ (phase # "idle" /\ phase' = "flushing")
         \/ /\ phase # "idle" /\ phase' = "idle"
            /\ flushOk' = [flushOk EXCEPT ![page.run] = result]
            /\ result = "no" \/ (result = "yes" /\ q = <<>>),
         UNCHANGED <<recorded, dropped, store, noted, faults>>
  PROVE  IInv'
<1> PICK r \in Runs : r = page.run
  OBVIOUS
<1>1. TypeOK /\ r # NoRun
  BY BatchAssumption DEF IInv
<1>2. phase' # "idle" => phase # "idle"
  OBVIOUS
<1>3. /\ flushOk' \in [Runs -> {"none", "yes", "no"}]
      /\ \A p \in Runs : p # r => flushOk'[p] = flushOk[p]
      /\ \/ flushOk'[r] = flushOk[r]
         \/ (phase' = "idle" /\ flushOk'[r] = result /\ (result = "yes" => q = <<>>))
  <2>1. flushOk \in [Runs -> {"none", "yes", "no"}]
    BY <1>1 DEF TypeOK
  <2> QED BY <2>1
<1>4. TypeOK'
  <2>1. phase' \in {"idle", "running", "flushing"}
    BY <1>1 DEF TypeOK
  <2> QED BY <1>1, <1>3, <2>1 DEF TypeOK, Page
<1>5. DropsAreOrdinary'
  BY DEF IInv, DropsAreOrdinary
<1>6. recorded[r] # 0 /\ Covered(r, recorded[r], q) /\ \A i \in ToSet(q) : i <= recorded[r]
  BY <1>1 DEF IInv, PageIsCovered
<1>7. RunsInOrder'
  <2>1. \A p \in Runs : recorded'[p] <= Length[p]
    BY DEF IInv, RunsInOrder
  <2>2. \A p \in Runs, k \in Key : stored(p, k)' => k <= recorded'[p]
    BY DEF IInv, RunsInOrder, stored
  <2>3. ASSUME NEW p \in Runs, flushOk'[p] # "none"
        PROVE  recorded'[p] # 0 /\ ~(page'.run = p /\ phase' # "idle")
    <3>1. flushOk[p] # "none" => recorded[p] # 0 /\ ~(page.run = p /\ phase # "idle")
      BY DEF IInv, RunsInOrder
    <3>2. CASE p # r
      BY <1>3, <2>3, <3>1, <3>2
    <3>3. CASE p = r
      BY <1>2, <1>3, <1>6, <2>3, <3>1, <3>3
    <3> QED BY <3>2, <3>3
  <2> QED BY <2>1, <2>2, <2>3 DEF RunsInOrder
<1>8. PageIsCovered'
  <2>1. Covered(r, recorded[r], q)'
    BY <1>6 DEF Covered, settled, stored
  <2>2. page'.run = r /\ page'.queue = q /\ recorded'[r] = recorded[r]
    OBVIOUS
  <2>3. Covered(page.run, recorded[page.run], page.queue)'
    BY <2>1, <2>2 DEF Covered, settled, stored
  <2> QED BY <1>1, <1>6, <2>2, <2>3 DEF PageIsCovered
<1>9. AcksAreCovered'
  <2>1. recorded \in [Runs -> {0} \cup Number] /\ {0} \cup Number \subseteq Int
    BY <1>1, LongestFacts DEF TypeOK
  <2>2. Grows
    BY <2>1 DEF Grows, stored
  <2> QED BY <1>1, <2>2, AcksKept DEF IInv
<1>10. FlushMeansStored'
  <2> SUFFICES ASSUME NEW p \in Runs, flushOk'[p] = "yes", NEW i \in 1 .. recorded[p]
               PROVE  stored(p, i)' \/ i \in dropped'[p]
    BY DEF FlushMeansStored
  <2>1. CASE flushOk'[p] = flushOk[p]
    BY <2>1 DEF IInv, FlushMeansStored, stored
  <2>2. CASE p = r /\ q = <<>>
    <3>1. i \in ToSet(q) \/ stored(r, i) \/ i \in dropped[r]
      BY <1>6, <2>2 DEF Covered, settled
    <3>2. i \notin ToSet(q)
      BY <2>2 DEF ToSet
    <3> QED BY <2>2, <3>1, <3>2 DEF stored
  <2> QED BY <1>3, <2>1, <2>2
<1>11. GapsAreDeclared'
  BY DEF IInv, GapsAreDeclared, stored
<1>12. OverflowIsCritical'
  BY DEF OverflowIsCritical
<1> QED BY <1>4, <1>5, <1>7, <1>8, <1>9, <1>10, <1>11, <1>12 DEF IInv

\* What the page knows of its queue, as it stands.
LEMMA QueueFacts ==
  ASSUME IInv
  PROVE  /\ TypeOK /\ RunsInOrder /\ TasksOK /\ page \in Page /\ ascending(page.queue)
         /\ Len(page.queue) > QueueSize => ToSet(Front(page.queue)) \subseteq Critical
         /\ page.run \in Runs => /\ \A i \in ToSet(page.queue) : i <= recorded[page.run]
                                 /\ Covered(page.run, recorded[page.run], page.queue)
         /\ (phase # "idle" \/ page.timer \/ page.queue # <<>>) => page.run \in Runs
<1>1. TypeOK /\ RunsInOrder /\ TasksOK
  BY DEF IInv
<1>2. page \in Page /\ ascending(page.queue) /\ (phase # "idle" => page.run \in Runs)
  BY <1>1 DEF TypeOK, Page
<1>3. page.run \in Runs \cup {NoRun}
  BY <1>2 DEF Page
<1>4. /\ page.run = NoRun => page.queue = <<>> /\ ~page.timer
      /\ page.run \in Runs => /\ \A i \in ToSet(page.queue) : i <= recorded[page.run]
                              /\ Covered(page.run, recorded[page.run], page.queue)
  BY BatchAssumption DEF IInv, PageIsCovered
<1>5. Len(page.queue) > QueueSize => ToSet(Front(page.queue)) \subseteq Critical
  BY DEF IInv, OverflowIsCritical
<1> QED BY <1>1, <1>2, <1>3, <1>4, <1>5

LEMMA TasksSame ==
  ASSUME TasksOK, UNCHANGED <<tasks, store, noted, recorded, dropped>>
  PROVE  TasksOK'
BY DEF TasksOK, BatchOK, NoteOK, Covered, settled, stored

LEMMA TimerFiresKeeps == ASSUME IInv, TimerFires PROVE IInv'
<1> PICK p : p = [page EXCEPT !.timer = FALSE, !.inflight = FALSE]
  OBVIOUS
<1>1. page.timer /\ Flush(p)
      /\ UNCHANGED <<phase, tries, recorded, dropped, flushOk, acks, store, noted, faults>>
  BY DEF TimerFires
<1>2. /\ TypeOK /\ RunsInOrder /\ TasksOK /\ page \in Page /\ ascending(page.queue)
      /\ page.run \in Runs
      /\ Len(page.queue) > QueueSize => ToSet(Front(page.queue)) \subseteq Critical
      /\ \A i \in ToSet(page.queue) : i <= recorded[page.run]
      /\ Covered(page.run, recorded[page.run], page.queue)
  BY <1>1, QueueFacts
<1>3. p \in Page /\ p.run = page.run /\ p.queue = page.queue
  BY <1>2 DEF Page
<1>4. /\ page' \in Page /\ page'.run = page.run /\ page'.queue = page.queue
      /\ port' \in {"none", "open", "broken"}
      /\ tasks' \in Seq(Batch)
      /\ \A n \in DOMAIN tasks' :
           tasks'[n].kind = "batch" => Len(tasks'[n].events) \in 1 .. BatchSize
      /\ TasksOK'
  BY <1>1, <1>2, <1>3, FlushKeeps
<1>5. tries' \in 0 .. 3 /\ acks' \in Seq([run : Runs, last : Number])
  BY <1>1, <1>2 DEF TypeOK
<1> QED BY <1>1, <1>2, <1>4, <1>5, PageMoves

\* forceFlush, called while the run is running or flushing.
LEMMA ForceFlushKeeps ==
  ASSUME IInv, NEW n \in 0 .. 3, ForceFlush(n), phase # "idle",
         UNCHANGED <<recorded, dropped, acks, store, noted, faults>>
  PROVE  IInv'
<1>1. /\ TypeOK /\ RunsInOrder /\ TasksOK /\ page \in Page /\ ascending(page.queue)
      /\ page.run \in Runs
      /\ Len(page.queue) > QueueSize => ToSet(Front(page.queue)) \subseteq Critical
      /\ \A i \in ToSet(page.queue) : i <= recorded[page.run]
      /\ Covered(page.run, recorded[page.run], page.queue)
  BY QueueFacts
<1>2. tries' \in 0 .. 3 /\ acks' \in Seq([run : Runs, last : Number])
  BY <1>1 DEF TypeOK, ForceFlush
<1>3. CASE page.queue = <<>>
  <2>1. /\ UNCHANGED <<page, port, tasks>> /\ phase' = "idle"
        /\ flushOk' = [flushOk EXCEPT ![page.run] = "yes"]
    BY <1>3 DEF ForceFlush, Report
  <2>2. TasksOK'
    BY <1>1, <2>1, TasksSame
  <2>3. /\ port' \in {"none", "open", "broken"}
        /\ tasks' \in Seq(Batch)
        /\ \A m \in DOMAIN tasks' :
             tasks'[m].kind = "batch" => Len(tasks'[m].events) \in 1 .. BatchSize
    BY <1>1, <2>1 DEF TypeOK
  <2> QED BY <1>1, <1>2, <1>3, <2>1, <2>2, <2>3, PageMoves
<1>4. CASE page.queue # <<>>
  <2>1. Flush(page) /\ phase' = "flushing" /\ UNCHANGED flushOk
    BY <1>4 DEF ForceFlush
  <2> PICK p : p = page
    OBVIOUS
  <2>2. Flush(p) /\ p \in Page /\ p.run = page.run /\ p.queue = page.queue
    BY <1>1, <2>1
  <2>3. /\ page' \in Page /\ page'.run = page.run /\ page'.queue = page.queue
        /\ port' \in {"none", "open", "broken"}
        /\ tasks' \in Seq(Batch)
        /\ \A m \in DOMAIN tasks' :
             tasks'[m].kind = "batch" => Len(tasks'[m].events) \in 1 .. BatchSize
        /\ TasksOK'
    BY <1>1, <2>2, FlushKeeps
  <2> QED BY <1>1, <1>2, <2>1, <2>3, PageMoves
<1> QED BY <1>3, <1>4

LEMMA EndRunKeeps == ASSUME IInv, EndRun PROVE IInv'
<1>1. phase = "running" /\ ForceFlush(1) /\ UNCHANGED <<recorded, dropped, acks, store, noted, faults>>
  BY DEF EndRun
<1> QED BY <1>1, ForceFlushKeeps

LEMMA FlushTimesOutKeeps == ASSUME IInv, FlushTimesOut PROVE IInv'
<1>1. phase = "flushing" /\ UNCHANGED <<recorded, dropped, acks, store, noted, faults>>
  BY DEF FlushTimesOut
<1>2. tries \in 0 .. 3
  BY DEF IInv, TypeOK
<1>3. CASE tries < 3
  <2>1. PICK n \in 0 .. 3 : n = tries + 1
    BY <1>2, <1>3
  <2>2. ForceFlush(n)
    BY <1>3, <2>1 DEF FlushTimesOut
  <2> QED BY <1>1, <2>2, ForceFlushKeeps
<1>4. CASE ~(tries < 3)
  <2>1. /\ UNCHANGED <<page, port, tasks, tries>> /\ phase' = "idle"
        /\ flushOk' = [flushOk EXCEPT ![page.run] = "no"]
    BY <1>4 DEF FlushTimesOut, Report
  <2>2. /\ TypeOK /\ RunsInOrder /\ TasksOK /\ page \in Page /\ ascending(page.queue)
        /\ page.run \in Runs
        /\ Len(page.queue) > QueueSize => ToSet(Front(page.queue)) \subseteq Critical
        /\ \A i \in ToSet(page.queue) : i <= recorded[page.run]
        /\ Covered(page.run, recorded[page.run], page.queue)
    BY <1>1, QueueFacts
  <2>3. TasksOK'
    BY <1>1, <2>1, <2>2, TasksSame
  <2>4. /\ port' \in {"none", "open", "broken"} /\ tries' \in 0 .. 3
        /\ tasks' \in Seq(Batch) /\ acks' \in Seq([run : Runs, last : Number])
        /\ \A m \in DOMAIN tasks' :
             tasks'[m].kind = "batch" => Len(tasks'[m].events) \in 1 .. BatchSize
    BY <1>1, <2>1, <2>2 DEF TypeOK
  <2> QED BY <1>1, <2>1, <2>2, <2>3, <2>4, PageMoves
<1> QED BY <1>3, <1>4

-----------------------------------------------------------------------------
(* The worker's steps *)

\* A step that leaves the page with what it has: the database may gain records.
LEMMA WorkerMoves ==
  ASSUME IInv, UNCHANGED <<page, phase, tries, recorded, dropped, flushOk>>,
         port' \in {"none", "open", "broken"},
         faults' \in 0 .. MaxFaults,
         acks' \in Seq([run : Runs, last : Number]), AcksAreCovered',
         tasks' \in Seq(Batch),
         \A n \in DOMAIN tasks' :
           tasks'[n].kind = "batch" => Len(tasks'[n].events) \in 1 .. BatchSize,
         TasksOK',
         noted' \subseteq Runs,
         store' \in [Runs -> [Key -> {"none", "content", "background"}]],
         Grows,
         \A r \in Runs, k \in Key : stored(r, k)' => k <= recorded[r],
         GapsAreDeclared'
  PROVE  IInv'
<1>1. TypeOK'
  BY DEF IInv, TypeOK
<1>2. DropsAreOrdinary' /\ OverflowIsCritical'
  BY DEF IInv, DropsAreOrdinary, OverflowIsCritical
<1>3. RunsInOrder'
  BY DEF IInv, RunsInOrder
<1>4. /\ recorded \in [Runs -> {0} \cup Number] /\ page.run \in Runs \cup {NoRun}
      /\ \A r \in Runs : recorded[r] # 0 => recorded[r] \in Number
  BY DEF IInv, TypeOK
<1>5. PageIsCovered'
  <2>1. CASE page.run = NoRun
    BY <2>1 DEF IInv, PageIsCovered
  <2>2. CASE page.run # NoRun
    <3> PICK r \in Runs : r = page.run
      BY <1>4, <2>2
    <3> PICK q, last : q = page.queue /\ last = recorded[r]
      OBVIOUS
    <3>1. /\ last # 0 /\ \A i \in ToSet(q) : i <= last
          /\ Covered(r, last, q)
      BY <2>2 DEF IInv, PageIsCovered
    <3>2. last \in Number
      BY <1>4, <3>1
    <3>3. Covered(r, last, q)'
      BY <3>1, <3>2, CoveredKept
    <3>4. r = page'.run /\ q = page'.queue /\ last = recorded'[r]
      OBVIOUS
    <3>5. Covered(page.run, recorded[page.run], page.queue)'
      BY <3>3, <3>4 DEF Covered, settled, stored
    <3> QED BY <2>2, <3>1, <3>4, <3>5 DEF PageIsCovered
  <2> QED BY <2>1, <2>2
<1>6. FlushMeansStored'
  <2> SUFFICES ASSUME NEW r \in Runs, flushOk[r] = "yes", NEW i \in 1 .. recorded[r]
               PROVE  stored(r, i)' \/ i \in dropped[r]
    BY DEF FlushMeansStored
  <2>1. stored(r, i) \/ i \in dropped[r]
    BY DEF IInv, FlushMeansStored
  <2>2. i \in Key
    <3>1. recorded[r] \in {0} \cup Number
      BY <1>4
    <3> QED BY <3>1, LongestFacts
  <2> QED BY <2>1, <2>2 DEF Grows
<1> QED BY <1>1, <1>2, <1>3, <1>5, <1>6 DEF IInv

\* The special case of a step that does not touch the database.
LEMMA QueueMoves ==
  ASSUME IInv, UNCHANGED <<page, phase, tries, recorded, dropped, flushOk, store>>,
         port' \in {"none", "open", "broken"},
         faults' \in 0 .. MaxFaults,
         acks' \in Seq([run : Runs, last : Number]),
         \A n \in DOMAIN acks' : \E m \in DOMAIN acks : acks'[n] = acks[m],
         tasks' \in Seq(Batch),
         \A n \in DOMAIN tasks' :
           tasks'[n].kind = "batch" => Len(tasks'[n].events) \in 1 .. BatchSize,
         TasksOK',
         noted' \subseteq Runs
  PROVE  IInv'
<1>1. TypeOK /\ AcksAreCovered
  BY DEF IInv
<1>2. recorded \in [Runs -> {0} \cup Number]
      /\ store \in [Runs -> [Key -> {"none", "content", "background"}]]
  BY <1>1 DEF TypeOK
<1>3. Grows
  BY <1>2, LongestFacts DEF Grows, stored
<1>4. AcksAreCovered'
  BY <1>1, <1>3, AcksKept
<1>5. \A r \in Runs, k \in Key : stored(r, k)' => k <= recorded[r]
  BY DEF IInv, RunsInOrder, stored
<1>6. GapsAreDeclared'
  BY DEF IInv, GapsAreDeclared, stored
<1> QED BY <1>2, <1>3, <1>4, <1>5, <1>6, WorkerMoves

\* When the first task is done, or given up, the rest of the queue moves up.
LEMMA TailTasks ==
  ASSUME TypeOK, TasksOK, Grows, tasks # <<>>,
         tasks' \in Seq(Batch), Len(tasks') = Len(tasks) - 1,
         \A i \in 1 .. Len(tasks) - 1 : tasks'[i] = tasks[i + 1],
         \/ UNCHANGED store
         \/ /\ tasks[1].kind = "note"
            /\ \A r \in Runs : r # tasks[1].run => store'[r] = store[r],
         UNCHANGED <<recorded, noted>>
  PROVE  /\ TasksOK'
         /\ \A n \in DOMAIN tasks' :
              tasks'[n].kind = "batch" => Len(tasks'[n].events) \in 1 .. BatchSize
<1>1. tasks \in Seq(Batch) /\ Len(tasks) \in Nat /\ Len(tasks) >= 1 /\ DOMAIN tasks = 1 .. Len(tasks)
  BY EmptySeq DEF TypeOK
<1>2. DOMAIN tasks' = 1 .. Len(tasks) - 1
  BY <1>1
<1>3. \A n \in DOMAIN tasks' : n + 1 \in DOMAIN tasks /\ n + 1 # 1 /\ tasks'[n] = tasks[n + 1]
  BY <1>1, <1>2
<1>4. ASSUME NEW n \in DOMAIN tasks'
      PROVE  /\ tasks'[n].kind = "batch" => BatchOK(tasks[n])'
             /\ tasks'[n].kind = "note" => NoteOK(tasks[n])'
             /\ tasks'[n].stage = "queued"
             /\ tasks'[n].kind = "batch" => Len(tasks'[n].events) \in 1 .. BatchSize
  <2> PICK m \in DOMAIN tasks : m = n + 1 /\ m # 1 /\ tasks'[n] = tasks[m]
    BY <1>3
  <2> PICK b : b = tasks[m] /\ b = tasks'[n]
    OBVIOUS
  <2>1. /\ b.kind = "batch" => BatchOK(b)
        /\ b.kind = "note" => NoteOK(b)
        /\ b.stage = "queued"
    BY DEF TasksOK
  <2>2. /\ b.run \in Runs
        /\ b.kind = "batch" => b.events \in Seq(Number) /\ Last(b.events) \in Number
                               /\ Len(b.events) \in 1 .. BatchSize
    BY BatchTypes
  <2>3. b.kind = "batch" => BatchOK(b)'
    BY <2>1, <2>2, BatchKept
  <2>4. b.kind = "note" => store'[b.run] = store[b.run]
    <3>1. 1 \in DOMAIN tasks
      BY <1>1
    <3>2. b.kind = "note" /\ tasks[1].kind = "note" => b.run # tasks[1].run
      BY <3>1 DEF TasksOK
    <3> QED BY <2>2, <3>2
  <2>5. b.kind = "note" => NoteOK(b)'
    BY <2>1, <2>4 DEF NoteOK
  <2>6. b = tasks'[n]
    OBVIOUS
  <2>7. b.kind = "batch" => BatchOK(tasks[n])'
    BY <2>3, <2>6 DEF BatchOK, Covered, settled, stored
  <2>8. b.kind = "note" => NoteOK(tasks[n])'
    BY <2>5, <2>6 DEF NoteOK
  <2> QED BY <2>1, <2>2, <2>6, <2>7, <2>8
<1>5. \A m, n \in DOMAIN tasks' :
        tasks'[m].kind = "note" /\ tasks'[n].kind = "note" /\ tasks'[m].run = tasks'[n].run
          => m = n
  <2> SUFFICES ASSUME NEW m \in DOMAIN tasks', NEW n \in DOMAIN tasks',
                      tasks'[m].kind = "note", tasks'[n].kind = "note",
                      tasks'[m].run = tasks'[n].run
               PROVE  m = n
    OBVIOUS
  <2>1. m + 1 = n + 1
    BY <1>3 DEF TasksOK
  <2>2. m \in Int /\ n \in Int
    BY <1>1, <1>2
  <2> QED BY <2>1, <2>2
<1>6. \A r \in Runs \ noted : \A k \in Key : store'[r][k] # "background"
  <2>1. CASE UNCHANGED store
    BY <2>1 DEF TasksOK
  <2>2. CASE tasks[1].kind = "note" /\ \A r \in Runs : r # tasks[1].run => store'[r] = store[r]
    <3>1. 1 \in DOMAIN tasks
      BY <1>1
    <3>2. tasks[1].run \in noted
      BY <2>2, <3>1 DEF TasksOK, NoteOK
    <3> QED BY <2>2, <3>2 DEF TasksOK
  <2> QED BY <2>1, <2>2
<1>7. TasksOK'
  BY <1>4, <1>5, <1>6 DEF TasksOK
<1> QED BY <1>4, <1>7

\* The first of a sequence and what follows it.
LEMMA TailFacts ==
  ASSUME NEW S, NEW s \in Seq(S), s # <<>>
  PROVE  /\ Len(s) \in Nat \ {0} /\ s[1] \in S /\ Head(s) = s[1] /\ 1 \in DOMAIN s
         /\ Tail(s) \in Seq(S) /\ Len(Tail(s)) = Len(s) - 1
         /\ \A i \in 1 .. Len(s) - 1 : Tail(s)[i] = s[i + 1]
         /\ RemoveAt(s, 1) \in Seq(S) /\ Len(RemoveAt(s, 1)) = Len(s) - 1
         /\ \A i \in 1 .. Len(s) - 1 : RemoveAt(s, 1)[i] = s[i + 1]
<1>1. Len(s) \in Nat \ {0} /\ s[1] \in S /\ Head(s) = s[1] /\ 1 \in DOMAIN s
  BY EmptySeq
<1>2. /\ Tail(s) \in Seq(S) /\ Len(Tail(s)) = Len(s) - 1
      /\ \A i \in 1 .. Len(s) - 1 : Tail(s)[i] = s[i + 1]
  BY HeadTailProperties
<1>3. 1 \in 1 .. Len(s)
  BY <1>1
<1>4. /\ RemoveAt(s, 1) \in Seq(S) /\ Len(RemoveAt(s, 1)) = Len(s) - 1
      /\ \A i \in 1 .. Len(s) - 1 : RemoveAt(s, 1)[i] = IF i < 1 THEN s[i] ELSE s[i + 1]
  BY <1>3, RemoveAtFacts
<1>5. \A i \in 1 .. Len(s) - 1 : RemoveAt(s, 1)[i] = s[i + 1]
  <2> SUFFICES ASSUME NEW i \in 1 .. Len(s) - 1 PROVE RemoveAt(s, 1)[i] = s[i + 1]
    OBVIOUS
  <2>1. ~(i < 1)
    OBVIOUS
  <2>2. RemoveAt(s, 1)[i] = IF i < 1 THEN s[i] ELSE s[i + 1]
    BY <1>4
  <2> QED BY <2>1, <2>2
<1> QED BY <1>1, <1>2, <1>4, <1>5

LEMMA SuffixFront ==
  ASSUME NEW s \in Seq(Number), NEW t \in Seq(Number), t # <<>>, Len(t) <= Len(s),
         \A i \in 1 .. Len(t) : t[i] = s[i + (Len(s) - Len(t))]
  PROVE  ToSet(Front(t)) \subseteq ToSet(Front(s))
<1> PICK k \in Nat, l \in Nat : k = Len(t) /\ l = Len(s)
  OBVIOUS
<1>1. k >= 1 /\ k <= l /\ s # <<>>
  BY EmptySeq
<1>2. /\ \A x : x \in ToSet(Front(t)) <=> \E i \in 1 .. k - 1 : x = t[i]
      /\ \A x : x \in ToSet(Front(s)) <=> \E i \in 1 .. l - 1 : x = s[i]
  BY <1>1, FrontFacts
<1>3. \A i \in 1 .. k - 1 : i \in 1 .. k /\ i + (l - k) \in 1 .. l - 1
  BY <1>1
<1>4. \A i \in 1 .. k : t[i] = s[i + (l - k)]
  OBVIOUS
<1>5. ASSUME NEW x \in ToSet(Front(t)) PROVE x \in ToSet(Front(s))
  <2>1. PICK i \in 1 .. k - 1 : x = t[i]
    BY <1>2
  <2>2. PICK j \in 1 .. l - 1 : j = i + (l - k)
    BY <1>3
  <2>3. x = s[j]
    BY <1>3, <1>4, <2>1, <2>2
  <2> QED BY <1>2, <2>3
<1> QED BY <1>5

LEMMA AckArrivesKeeps == ASSUME IInv, AckArrives PROVE IInv'
<1> PICK ack : ack = Head(acks)
  OBVIOUS
<1> PICK s, q : s = page.queue /\ q = unacknowledged(page.queue, ack.last)
  OBVIOUS
<1>1. /\ TypeOK /\ RunsInOrder /\ TasksOK /\ page \in Page /\ ascending(page.queue)
      /\ Len(page.queue) > QueueSize => ToSet(Front(page.queue)) \subseteq Critical
      /\ page.run \in Runs => /\ \A i \in ToSet(page.queue) : i <= recorded[page.run]
                              /\ Covered(page.run, recorded[page.run], page.queue)
      /\ phase # "idle" => page.run \in Runs
  BY QueueFacts
<1>2. /\ acks # <<>> /\ acks' = Tail(acks)
      /\ UNCHANGED <<tries, recorded, dropped, store, noted, faults>>
  BY DEF AckArrives
<1>3. acks \in Seq([run : Runs, last : Number])
  BY <1>1 DEF TypeOK
<1>4. /\ ack \in [run : Runs, last : Number] /\ ack = acks[1] /\ 1 \in DOMAIN acks
      /\ acks' \in Seq([run : Runs, last : Number])
      /\ Len(acks') = Len(acks) - 1 /\ Len(acks) \in Nat
      /\ \A i \in 1 .. Len(acks) - 1 : acks'[i] = acks[i + 1]
  <2> PICK Acks : Acks = [run : Runs, last : Number]
    OBVIOUS
  <2>1. acks \in Seq(Acks)
    BY <1>3
  <2>2. /\ Len(acks) \in Nat \ {0} /\ acks[1] \in Acks /\ Head(acks) = acks[1] /\ 1 \in DOMAIN acks
        /\ Tail(acks) \in Seq(Acks) /\ Len(Tail(acks)) = Len(acks) - 1
        /\ \A i \in 1 .. Len(acks) - 1 : Tail(acks)[i] = acks[i + 1]
    BY <1>2, <2>1, TailFacts
  <2> QED BY <1>2, <2>2
<1>5. \A n \in DOMAIN acks' : \E m \in DOMAIN acks : acks'[n] = acks[m]
  <2>1. DOMAIN acks' = 1 .. Len(acks) - 1 /\ DOMAIN acks = 1 .. Len(acks)
    BY <1>3, <1>4
  <2>2. \A i \in 1 .. Len(acks) - 1 : i + 1 \in 1 .. Len(acks)
    BY <1>4
  <2> QED BY <1>4, <2>1, <2>2
<1>6. ack.last <= recorded[ack.run] /\ Covered(ack.run, ack.last, <<>>)
  BY <1>4 DEF IInv, AcksAreCovered
<1>7. s \in Seq(Number) /\ ack.last \in Number /\ ack.last \in Int /\ Number \subseteq Int
  BY <1>1, <1>4, LongestFacts DEF Page
<1>8. /\ q \in Seq(Number) /\ ascending(q) /\ Len(q) <= Len(s)
      /\ ToSet(q) = {i \in ToSet(s) : i > ack.last}
      /\ \A i \in 1 .. Len(q) : q[i] = s[i + (Len(s) - Len(q))]
  BY <1>1, <1>7, UnacknowledgedFacts
<1>9. CASE concerns(page, ack)
  <2> PICK p : p = [page EXCEPT !.inflight = FALSE, !.queue = q]
    OBVIOUS
  <2>1. /\ Flush(p)
        /\ IF phase = "flushing" /\ p.queue = <<>>
           THEN flushOk' = [flushOk EXCEPT ![page.run] = "yes"] /\ phase' = "idle"
           ELSE UNCHANGED <<phase, flushOk>>
    BY <1>9 DEF AckArrives, Report
  <2>2. page.run = ack.run /\ page.run \in Runs
    BY <1>4, <1>9 DEF concerns
  <2>3. p \in Page /\ p.run = page.run /\ p.queue = q
    BY <1>1, <1>8 DEF Page
  <2>4. ToSet(q) \subseteq ToSet(s) /\ \A i \in ToSet(q) : i <= recorded[page.run]
    BY <1>1, <1>8, <2>2
  <2>5. Covered(page.run, recorded[page.run], q)
    <3> SUFFICES ASSUME NEW i \in 1 .. recorded[page.run]
                 PROVE  i \in ToSet(q) \/ settled(page.run, i)
      BY DEF Covered
    <3>1. i \in ToSet(s) \/ settled(page.run, i)
      BY <1>1, <2>2 DEF Covered
    <3>2. CASE i > ack.last
      BY <1>8, <3>1, <3>2
    <3>3. CASE ~(i > ack.last)
      <4>1. i \in 1 .. ack.last
        BY <1>7, <3>3
      <4>2. i \in ToSet(<<>>) \/ settled(page.run, i)
        BY <1>6, <2>2, <4>1 DEF Covered
      <4>3. ToSet(<<>>) = {}
        BY DEF ToSet
      <4> QED BY <4>2, <4>3
    <3> QED BY <3>2, <3>3
  <2>6. Len(q) > QueueSize => ToSet(Front(q)) \subseteq Critical
    <3>1. Len(s) \in Nat /\ Len(q) \in Nat /\ QueueSize \in Nat /\ Len(q) <= Len(s)
      BY <1>7, <1>8, BatchAssumption
    <3>2. ASSUME Len(q) > QueueSize PROVE ToSet(Front(q)) \subseteq Critical
      <4>1. q # <<>> /\ Len(s) > QueueSize
        BY <3>1, <3>2
      <4>2. /\ s \in Seq(Number) /\ q \in Seq(Number) /\ Len(q) <= Len(s)
            /\ \A i \in 1 .. Len(q) : q[i] = s[i + (Len(s) - Len(q))]
        BY <1>7, <1>8
      <4>3. ToSet(Front(q)) \subseteq ToSet(Front(s))
        BY <4>1, <4>2, SuffixFront
      <4> QED BY <1>1, <4>1, <4>3
    <3> QED BY <3>2
  <2>7. /\ page' \in Page /\ page'.run = page.run /\ page'.queue = q
        /\ port' \in {"none", "open", "broken"}
        /\ tasks' \in Seq(Batch)
        /\ \A m \in DOMAIN tasks' :
             tasks'[m].kind = "batch" => Len(tasks'[m].events) \in 1 .. BatchSize
        /\ TasksOK'
    <3> PICK r, last : r = page.run /\ last = recorded[page.run]
      OBVIOUS
    <3>1. Covered(p.run, recorded[p.run], p.queue) /\ \A i \in ToSet(p.queue) : i <= recorded[p.run]
      BY <2>3, <2>4, <2>5
    <3>2. p.run \in Runs /\ ascending(p.queue)
      BY <1>8, <2>2, <2>3
    <3>3. /\ page' \in Page /\ page'.run = p.run /\ page'.queue = p.queue
          /\ port' \in {"none", "open", "broken"}
          /\ tasks' \in Seq(Batch)
          /\ \A m \in DOMAIN tasks' :
               tasks'[m].kind = "batch" => Len(tasks'[m].events) \in 1 .. BatchSize
          /\ TasksOK'
      BY <1>1, <1>2, <2>1, <2>3, <3>1, <3>2, FlushKeeps
    <3> QED BY <2>3, <3>3
  <2>8. tries' \in 0 .. 3
    BY <1>1, <1>2 DEF TypeOK
  <2>9. CASE phase = "flushing" /\ q = <<>>
    BY <1>2, <1>4, <1>5, <1>8, <2>1, <2>2, <2>3, <2>4, <2>5, <2>6, <2>7, <2>8, <2>9, PageMoves
  <2>10. CASE ~(phase = "flushing" /\ q = <<>>)
    BY <1>2, <1>4, <1>5, <1>8, <2>1, <2>2, <2>3, <2>4, <2>5, <2>6, <2>7, <2>8, <2>10, PageMoves
  <2> QED BY <2>9, <2>10
<1>10. CASE ~concerns(page, ack)
  <2>1. UNCHANGED <<page, port, tasks, phase, flushOk>>
    BY <1>10 DEF AckArrives
  <2>2. TasksOK'
    BY <1>1, <1>2, <2>1, TasksSame
  <2>3. /\ port' \in {"none", "open", "broken"} /\ faults' \in 0 .. MaxFaults
        /\ tasks' \in Seq(Batch) /\ noted' \subseteq Runs
        /\ \A m \in DOMAIN tasks' :
             tasks'[m].kind = "batch" => Len(tasks'[m].events) \in 1 .. BatchSize
    BY <1>1, <1>2, <2>1 DEF TypeOK
  <2> QED BY <1>2, <1>4, <1>5, <2>1, <2>2, <2>3, QueueMoves
<1> QED BY <1>9, <1>10

LEMMA PageGoneKeeps == ASSUME IInv, PageGone PROVE IInv'
<1>1. /\ faults < MaxFaults /\ faults' = faults + 1
      /\ page' = [run |-> NoRun, queue |-> <<>>, inflight |-> FALSE, timer |-> FALSE]
      /\ phase' = "idle" /\ port' = "none" /\ acks' = <<>>
      /\ tasks' = [n \in DOMAIN tasks |-> [tasks[n] EXCEPT !.alive = FALSE]]
      /\ UNCHANGED <<tries, recorded, dropped, flushOk, store, noted>>
  BY DEF PageGone, Fresh
<1>2. TypeOK /\ TasksOK
  BY DEF IInv
<1>3. /\ tasks \in Seq(Batch)
      /\ \A n \in DOMAIN tasks :
           tasks[n].kind = "batch" => Len(tasks[n].events) \in 1 .. BatchSize
  BY <1>2 DEF TypeOK
<1>4. /\ DOMAIN tasks' = DOMAIN tasks /\ DOMAIN tasks = 1 .. Len(tasks) /\ Len(tasks) \in Nat
      /\ \A n \in DOMAIN tasks :
           /\ tasks'[n] \in Batch /\ tasks[n] \in Batch
           /\ tasks'[n].kind = tasks[n].kind /\ tasks'[n].run = tasks[n].run
           /\ tasks'[n].stage = tasks[n].stage /\ tasks'[n].key = tasks[n].key
           /\ tasks'[n].events = tasks[n].events
  <2>1. DOMAIN tasks' = DOMAIN tasks /\ DOMAIN tasks = 1 .. Len(tasks) /\ Len(tasks) \in Nat
    BY <1>1, <1>3
  <2>2. ASSUME NEW n \in DOMAIN tasks
        PROVE  /\ tasks'[n] \in Batch /\ tasks[n] \in Batch
               /\ tasks'[n].kind = tasks[n].kind /\ tasks'[n].run = tasks[n].run
               /\ tasks'[n].stage = tasks[n].stage /\ tasks'[n].key = tasks[n].key
               /\ tasks'[n].events = tasks[n].events
    <3>1. tasks[n] \in Batch
      BY <1>3
    <3>2. tasks'[n] = [tasks[n] EXCEPT !.alive = FALSE]
      BY <1>1
    <3> QED BY <3>1, <3>2 DEF Batch
  <2> QED BY <2>1, <2>2
<1>5. tasks' \in Seq(Batch)
  <2>1. tasks' = [n \in 1 .. Len(tasks) |-> tasks'[n]]
    BY <1>1, <1>4
  <2> PICK k \in Nat : k = Len(tasks)
    BY <1>4
  <2>2. tasks' \in [1 .. k -> Batch]
    BY <1>4, <2>1
  <2> QED BY <2>2, SeqDef
<1>6. TasksOK'
  <2>1. ASSUME NEW n \in DOMAIN tasks'
        PROVE  /\ tasks'[n].kind = "batch" => BatchOK(tasks[n])'
               /\ tasks'[n].kind = "note" => NoteOK(tasks[n])'
               /\ tasks'[n].stage # "queued" => n = 1
    <3> PICK b, c : b = tasks[n] /\ c = tasks'[n]
      OBVIOUS
    <3>1. /\ b.kind = "batch" => BatchOK(b)
          /\ b.kind = "note" => NoteOK(b)
          /\ b.stage # "queued" => n = 1
      BY <1>2, <1>4 DEF TasksOK
    <3>2. /\ c.kind = b.kind /\ c.run = b.run /\ c.stage = b.stage /\ c.key = b.key
          /\ c.events = b.events
      BY <1>4
    <3>3. c.kind = "batch" => BatchOK(c)'
      <4>1. BatchOK(b) => BatchOK(c)
        BY <3>2 DEF BatchOK
      <4>2. BatchOK(c) => BatchOK(c)'
        BY <1>1 DEF BatchOK, Covered, settled, stored
      <4> QED BY <3>1, <3>2, <4>1, <4>2
    <3>6. c.kind = "note" => NoteOK(c)'
      <4>1. NoteOK(b) => NoteOK(c)
        BY <3>2 DEF NoteOK
      <4>2. NoteOK(c) => NoteOK(c)'
        BY <1>1 DEF NoteOK
      <4> QED BY <3>1, <3>2, <4>1, <4>2
    <3>4. c.kind = "batch" => BatchOK(tasks[n])'
      BY <3>3 DEF BatchOK, Covered, settled, stored
    <3>5. c.kind = "note" => NoteOK(tasks[n])'
      BY <3>6 DEF NoteOK
    <3> QED BY <3>1, <3>2, <3>4, <3>5
  <2>2. \A m, n \in DOMAIN tasks' :
          tasks'[m].kind = "note" /\ tasks'[n].kind = "note" /\ tasks'[m].run = tasks'[n].run
            => m = n
    BY <1>2, <1>4 DEF TasksOK
  <2>3. \A r \in Runs \ noted' : \A k \in Key : store'[r][k] # "background"
    BY <1>1, <1>2 DEF TasksOK
  <2> QED BY <2>1, <2>2, <2>3 DEF TasksOK
<1>7. TypeOK'
  <2>1. \A n \in DOMAIN tasks' :
          tasks'[n].kind = "batch" => Len(tasks'[n].events) \in 1 .. BatchSize
    BY <1>3, <1>4
  <2>2. page' \in Page /\ ascending(page'.queue)
    BY <1>1 DEF Page, ascending
  <2>3. faults' \in 0 .. MaxFaults
    BY <1>1, <1>2, BatchAssumption DEF TypeOK
  <2>4. acks' \in Seq([run : Runs, last : Number])
    BY <1>1
  <2> QED BY <1>1, <1>2, <1>5, <2>1, <2>2, <2>3, <2>4 DEF TypeOK, Page
<1>8. PageIsCovered' /\ OverflowIsCritical'
  <2>1. page'.run = NoRun /\ page'.queue = <<>> /\ ~page'.timer
    BY <1>1
  <2>2. ~(Len(page'.queue) > QueueSize)
    BY <2>1, BatchAssumption
  <2> QED BY <2>1, <2>2 DEF PageIsCovered, OverflowIsCritical
<1>9. DropsAreOrdinary' /\ RunsInOrder' /\ AcksAreCovered'
  BY <1>1 DEF IInv, DropsAreOrdinary, RunsInOrder, AcksAreCovered, stored
<1>10. FlushMeansStored' /\ GapsAreDeclared'
  BY <1>1 DEF IInv, FlushMeansStored, GapsAreDeclared, stored
<1> QED BY <1>6, <1>7, <1>8, <1>9, <1>10 DEF IInv

LEMMA NoteKeeps == ASSUME IInv, NEW r \in Runs, Note(r) PROVE IInv'
<1> PICK b : b = [kind |-> "note", run |-> r, alive |-> FALSE, stage |-> "queued", key |-> 0,
                  events |-> <<>>]
  OBVIOUS
<1>1. /\ recorded[r] # 0 /\ r \notin noted /\ noted' = noted \cup {r}
      /\ tasks' = Append(tasks, b)
      /\ UNCHANGED <<page, phase, tries, recorded, dropped, flushOk, port, acks, store, faults>>
  BY DEF Note, pageSide
<1>2. TypeOK /\ TasksOK
  BY DEF IInv
<1>3. /\ tasks \in Seq(Batch)
      /\ \A n \in DOMAIN tasks :
           tasks[n].kind = "batch" => Len(tasks[n].events) \in 1 .. BatchSize
  BY <1>2 DEF TypeOK
<1>4. b \in Batch /\ b.kind = "note" /\ b.run = r /\ b.stage = "queued"
  BY DEF Batch
<1>5. /\ tasks' \in Seq(Batch)
      /\ \A n \in DOMAIN tasks' : (n \in DOMAIN tasks /\ tasks'[n] = tasks[n])
                                  \/ (n = Len(tasks) + 1 /\ tasks'[n] = b)
  <2>1. /\ tasks' \in Seq(Batch) /\ Len(tasks') = Len(tasks) + 1 /\ Len(tasks) \in Nat
        /\ \A n \in 1 .. Len(tasks) : tasks'[n] = tasks[n]
        /\ tasks'[Len(tasks) + 1] = b
    BY <1>1, <1>3, <1>4, AppendProperties
  <2>2. DOMAIN tasks = 1 .. Len(tasks) /\ DOMAIN tasks' = 1 .. Len(tasks) + 1
    BY <1>3, <2>1
  <2> QED BY <2>1, <2>2
<1>6. TasksOK'
  <2>1. ASSUME NEW n \in DOMAIN tasks'
        PROVE  /\ tasks'[n].kind = "batch" => BatchOK(tasks[n])'
               /\ tasks'[n].kind = "note" => NoteOK(tasks[n])'
               /\ tasks'[n].stage # "queued" => n = 1
    <3>1. CASE n \in DOMAIN tasks /\ tasks'[n] = tasks[n]
      <4> PICK c : c = tasks[n] /\ c = tasks'[n]
        BY <3>1
      <4>1. /\ c.kind = "batch" => BatchOK(c)
            /\ c.kind = "note" => NoteOK(c)
            /\ c.stage # "queued" => n = 1
        BY <1>2, <3>1 DEF TasksOK
      <4>2. c.kind = "batch" => BatchOK(tasks[n])'
        BY <1>1, <4>1 DEF BatchOK, Covered, settled, stored
      <4>3. c.kind = "note" => NoteOK(tasks[n])'
        BY <1>1, <4>1 DEF NoteOK
      <4> QED BY <4>1, <4>2, <4>3
    <3>2. CASE tasks'[n] = b
      <4>1. \A k \in Key : store[r][k] # "background"
        BY <1>1, <1>2 DEF TasksOK
      <4> QED BY <1>1, <1>4, <3>2, <4>1 DEF NoteOK
    <3> QED BY <1>5, <3>1, <3>2
  <2>2. \A n \in DOMAIN tasks : tasks[n].kind = "note" => tasks[n].run # r
    BY <1>1, <1>2 DEF TasksOK, NoteOK
  <2>3. \A m, n \in DOMAIN tasks' :
          tasks'[m].kind = "note" /\ tasks'[n].kind = "note" /\ tasks'[m].run = tasks'[n].run
            => m = n
    BY <1>2, <1>4, <1>5, <2>2 DEF TasksOK
  <2>4. \A p \in Runs \ noted' : \A k \in Key : store'[p][k] # "background"
    BY <1>1, <1>2 DEF TasksOK
  <2> QED BY <2>1, <2>3, <2>4 DEF TasksOK
<1>7. \A n \in DOMAIN tasks' :
        tasks'[n].kind = "batch" => Len(tasks'[n].events) \in 1 .. BatchSize
  BY <1>3, <1>4, <1>5
<1>8. /\ port' \in {"none", "open", "broken"} /\ faults' \in 0 .. MaxFaults
      /\ acks' \in Seq([run : Runs, last : Number]) /\ noted' \subseteq Runs
  BY <1>1, <1>2 DEF TypeOK
<1> QED BY <1>1, <1>5, <1>6, <1>7, <1>8, QueueMoves

\* A task that is given up or stopped, a port that breaks: nothing is stored.
LEMMA FaultKeeps ==
  ASSUME IInv, WriteFails \/ WorkerStops \/ Disconnected
  PROVE  IInv'
<1>1. TypeOK /\ TasksOK
  BY DEF IInv
<1>2. /\ tasks \in Seq(Batch) /\ acks \in Seq([run : Runs, last : Number])
      /\ port \in {"none", "open", "broken"} /\ faults \in 0 .. MaxFaults
      /\ noted \subseteq Runs
      /\ \A n \in DOMAIN tasks :
           tasks[n].kind = "batch" => Len(tasks[n].events) \in 1 .. BatchSize
  BY <1>1 DEF TypeOK
<1>3. MaxFaults \in Nat
  BY BatchAssumption
<1>4. CASE WriteFails
  <2>1. /\ UNCHANGED <<page, phase, tries, recorded, dropped, flushOk, port, acks, store, noted>>
        /\ tasks # <<>> /\ tasks' = Tail(tasks) /\ faults < MaxFaults /\ faults' = faults + 1
    BY <1>4 DEF WriteFails, pageSide
  <2>2. /\ tasks' \in Seq(Batch) /\ Len(tasks') = Len(tasks) - 1
        /\ \A i \in 1 .. Len(tasks) - 1 : tasks'[i] = tasks[i + 1]
    <3>1. /\ Tail(tasks) \in Seq(Batch) /\ Len(Tail(tasks)) = Len(tasks) - 1
          /\ \A i \in 1 .. Len(tasks) - 1 : Tail(tasks)[i] = tasks[i + 1]
      BY <1>2, <2>1, TailFacts
    <3> QED BY <2>1, <3>1
  <2>3. Grows
    <3>1. recorded \in [Runs -> {0} \cup Number] /\ {0} \cup Number \subseteq Int
      BY <1>1, LongestFacts DEF TypeOK
    <3> QED BY <2>1, <3>1 DEF Grows, stored
  <2>4. /\ TasksOK'
        /\ \A n \in DOMAIN tasks' :
             tasks'[n].kind = "batch" => Len(tasks'[n].events) \in 1 .. BatchSize
    BY <1>1, <2>1, <2>2, <2>3, TailTasks
  <2>5. faults' \in 0 .. MaxFaults
    BY <1>2, <1>3, <2>1
  <2> QED BY <1>2, <2>1, <2>2, <2>4, <2>5, QueueMoves
<1>5. CASE WorkerStops
  <2>1. /\ UNCHANGED <<page, phase, tries, recorded, dropped, flushOk, store, noted>>
        /\ tasks' = <<>> /\ acks' \in {acks, <<>>} /\ port' \in {"broken", port}
        /\ faults < MaxFaults /\ faults' = faults + 1
    BY <1>5 DEF WorkerStops, pageSide
  <2>2. TasksOK'
    BY <1>1, <2>1 DEF TasksOK
  <2>3. faults' \in 0 .. MaxFaults
    BY <1>2, <1>3, <2>1
  <2>4. /\ acks' \in Seq([run : Runs, last : Number])
        /\ \A n \in DOMAIN acks' : \E m \in DOMAIN acks : acks'[n] = acks[m]
    <3>1. CASE acks' = acks
      BY <1>2, <3>1
    <3>2. CASE acks' = <<>>
      BY <3>2
    <3> QED BY <2>1, <3>1, <3>2
  <2>5. /\ tasks' \in Seq(Batch)
        /\ \A n \in DOMAIN tasks' :
             tasks'[n].kind = "batch" => Len(tasks'[n].events) \in 1 .. BatchSize
    BY <2>1
  <2> QED BY <1>2, <2>1, <2>2, <2>3, <2>4, <2>5, QueueMoves
<1>6. CASE Disconnected
  <2>1. /\ UNCHANGED <<page, phase, tries, recorded, dropped, flushOk, acks, tasks, store, noted>>
        /\ port' = "none" /\ UNCHANGED faults
    BY <1>6 DEF Disconnected, pageSide, workerSide
  <2>2. TasksOK'
    BY <1>1, <2>1, TasksSame
  <2> QED BY <1>2, <2>1, <2>2, QueueMoves
<1> QED BY <1>4, <1>5, <1>6

\* One step of the task the worker is at, and the others as they were.
LEMMA OneTask ==
  ASSUME TypeOK, TasksOK, Grows, 1 \in DOMAIN tasks,
         NEW b \in Batch, tasks' = [tasks EXCEPT ![1] = b],
         b.kind = tasks[1].kind, b.run = tasks[1].run, b.events = tasks[1].events,
         b.kind = "batch" => BatchOK(b)',
         b.kind = "note" => NoteOK(b)',
         \A n \in DOMAIN tasks : n # 1 /\ tasks[n].kind = "note" =>
           \A k \in Key : store'[tasks[n].run][k] # "background",
         \A r \in Runs \ noted : \A k \in Key : store'[r][k] # "background",
         UNCHANGED <<recorded, noted>>
  PROVE  /\ tasks' \in Seq(Batch) /\ TasksOK'
         /\ \A n \in DOMAIN tasks' :
              tasks'[n].kind = "batch" => Len(tasks'[n].events) \in 1 .. BatchSize
<1>1. /\ tasks \in Seq(Batch) /\ DOMAIN tasks = 1 .. Len(tasks)
      /\ \A n \in DOMAIN tasks :
           tasks[n].kind = "batch" => Len(tasks[n].events) \in 1 .. BatchSize
  BY DEF TypeOK
<1>2. /\ tasks' \in Seq(Batch) /\ DOMAIN tasks' = DOMAIN tasks
      /\ tasks'[1] = b /\ \A n \in DOMAIN tasks : n # 1 => tasks'[n] = tasks[n]
  BY <1>1
<1>3. ASSUME NEW n \in DOMAIN tasks
      PROVE  /\ tasks'[n].kind = "batch" => BatchOK(tasks[n])'
             /\ tasks'[n].kind = "note" => NoteOK(tasks[n])'
             /\ tasks'[n].stage # "queued" => n = 1
  <2>1. CASE n = 1
    <3> PICK m : m = n
      OBVIOUS
    <3>1. b = tasks'[m]
      BY <1>2, <2>1
    <3>2. b.kind = "batch" => BatchOK(tasks[m])'
      BY <3>1 DEF BatchOK, Covered, settled, stored
    <3>3. b.kind = "note" => NoteOK(tasks[m])'
      BY <3>1 DEF NoteOK
    <3> QED BY <2>1, <3>1, <3>2, <3>3
  <2>2. CASE n # 1
    <3> PICK c : c = tasks[n] /\ c = tasks'[n]
      BY <1>2, <2>2
    <3>1. /\ c.kind = "batch" => BatchOK(c)
          /\ c.kind = "note" => NoteOK(c)
          /\ c.stage # "queued" => n = 1
      BY DEF TasksOK
    <3>2. c.kind = "batch" => c.run \in Runs /\ c.events \in Seq(Number) /\ Last(c.events) \in Number
      BY BatchTypes
    <3>3. c.kind = "batch" => BatchOK(c)'
      BY <3>1, <3>2, BatchKept
    <3>4. c.kind = "note" => NoteOK(c)'
      <4>1. c.kind = "note" => \A k \in Key : store'[c.run][k] # "background"
        BY <2>2
      <4>2. c.stage = "queued"
        BY <2>2, <3>1
      <4> QED BY <3>1, <4>1, <4>2 DEF NoteOK
    <3>5. c.kind = "batch" => BatchOK(tasks[n])'
      BY <3>3 DEF BatchOK, Covered, settled, stored
    <3>6. c.kind = "note" => NoteOK(tasks[n])'
      BY <3>4 DEF NoteOK
    <3> QED BY <3>1, <3>5, <3>6
  <2> QED BY <2>1, <2>2
<1>4. \A n \in DOMAIN tasks :
        /\ tasks'[n].kind = tasks[n].kind /\ tasks'[n].run = tasks[n].run
        /\ tasks'[n].events = tasks[n].events
  BY <1>2
<1>5. TasksOK'
  <2>1. \A m, n \in DOMAIN tasks' :
          tasks'[m].kind = "note" /\ tasks'[n].kind = "note" /\ tasks'[m].run = tasks'[n].run
            => m = n
    BY <1>2, <1>4 DEF TasksOK
  <2> QED BY <1>2, <1>3, <2>1 DEF TasksOK
<1> QED BY <1>1, <1>2, <1>4, <1>5

\* What the first task of the queue knows.
LEMMA FirstTask ==
  ASSUME IInv, NEW n \in runnable(tasks)
  PROVE  /\ n = 1 /\ 1 \in DOMAIN tasks /\ tasks \in Seq(Batch) /\ tasks # <<>>
         /\ tasks[1] \in Batch /\ tasks[1].run \in Runs
         /\ tasks[1].kind = "batch" =>
              /\ BatchOK(tasks[1])
              /\ tasks[1].events \in Seq(Number) /\ Last(tasks[1].events) \in Number
              /\ ToSet(tasks[1].events) \subseteq Number
         /\ tasks[1].kind = "note" => NoteOK(tasks[1])
<1>1. TypeOK /\ TasksOK /\ n = 1 /\ tasks # <<>>
  BY DEF IInv, runnable
<1>2. tasks \in Seq(Batch)
  BY <1>1 DEF TypeOK
<1>3. 1 \in DOMAIN tasks
  BY <1>1, <1>2, EmptySeq
<1>4. /\ tasks[1] \in Batch /\ tasks[1].run \in Runs
      /\ tasks[1].kind = "batch" =>
           tasks[1].events \in Seq(Number) /\ Last(tasks[1].events) \in Number
  BY <1>1, <1>3, BatchTypes
<1>5. /\ tasks[1].kind = "batch" => BatchOK(tasks[1])
      /\ tasks[1].kind = "note" => NoteOK(tasks[1])
  BY <1>1, <1>3 DEF TasksOK
<1>6. tasks[1].kind = "batch" => ToSet(tasks[1].events) \subseteq Number
  <2> PICK e : e = tasks[1].events
    OBVIOUS
  <2>1. e \in Seq(Number) => ToSet(e) \subseteq Number
    BY DEF ToSet
  <2> QED BY <1>4, <2>1
<1> QED BY <1>1, <1>2, <1>3, <1>4, <1>5, <1>6

LEMMA PutFacts ==
  ASSUME TypeOK, NEW r \in Runs, NEW keys, NEW who \in {"content", "background"},
         store' = put(r, keys, who)
  PROVE  /\ store' \in [Runs -> [Key -> {"none", "content", "background"}]]
         /\ \A p \in Runs : p # r => store'[p] = store[p]
         /\ \A k \in Key : store'[r][k] = IF k \in keys THEN who ELSE store[r][k]
<1>1. store \in [Runs -> [Key -> {"none", "content", "background"}]]
  BY DEF TypeOK
<1> DEFINE row == [k \in Key |-> IF k \in keys THEN who ELSE store[r][k]]
<1>2. store' = [store EXCEPT ![r] = row]
  BY DEF put
<1>3. row \in [Key -> {"none", "content", "background"}]
  <2> PICK old, Marks : old = store[r] /\ Marks = {"none", "content", "background"}
    OBVIOUS
  <2>1. old \in [Key -> Marks] /\ who \in Marks
    BY <1>1
  <2>2. [k \in Key |-> IF k \in keys THEN who ELSE old[k]] \in [Key -> Marks]
    BY <2>1
  <2> QED BY <2>2
<1>4. \A k \in Key : row[k] = IF k \in keys THEN who ELSE store[r][k]
  OBVIOUS
<1> HIDE DEF row
<1> QED BY <1>1, <1>2, <1>3, <1>4

LEMMA PutKeeps ==
  ASSUME IInv, NEW n \in runnable(tasks), Put(n), UNCHANGED <<pageSide, port, faults>>
  PROVE  IInv'
<1> PICK r, e : r = tasks[1].run /\ e = tasks[1].events
  OBVIOUS
<1> PICK b : b = [tasks[1] EXCEPT !.stage = "stored"]
  OBVIOUS
<1>1. /\ 1 \in DOMAIN tasks /\ tasks \in Seq(Batch) /\ tasks[1] \in Batch /\ r \in Runs
      /\ tasks[1].kind = "batch" /\ BatchOK(tasks[1])
      /\ e \in Seq(Number) /\ Last(e) \in Number /\ ToSet(e) \subseteq Number
      /\ store' = put(r, ToSet(e), "content")
      /\ tasks' = [tasks EXCEPT ![1] = b]
      /\ UNCHANGED <<page, phase, tries, recorded, dropped, flushOk, port, faults, acks, noted>>
  BY FirstTask DEF Put, pageSide
<1>2. TypeOK /\ TasksOK
  BY DEF IInv
<1>3. /\ b \in Batch /\ b.kind = "batch" /\ b.run = r /\ b.events = e /\ b.stage = "stored"
  BY <1>1 DEF Batch
<1>4. /\ store' \in [Runs -> [Key -> {"none", "content", "background"}]]
      /\ \A p \in Runs : p # r => store'[p] = store[p]
      /\ \A k \in Key : store'[r][k] = IF k \in ToSet(e) THEN "content" ELSE store[r][k]
  BY <1>1, <1>2, PutFacts
<1>5. /\ recorded \in [Runs -> {0} \cup Number] /\ {0} \cup Number \subseteq Int
      /\ Number \subseteq Key /\ \A i \in Number : 1 .. i \subseteq Number
  BY <1>2, LongestFacts DEF TypeOK
<1>6. Grows
  BY <1>1, <1>4, <1>5 DEF Grows, stored
<1>7. /\ \A i \in ToSet(e) : i <= Last(e)
      /\ Last(e) <= recorded[r]
      /\ Covered(r, Last(e), e)
  BY <1>1 DEF BatchOK
<1>8. \A i \in ToSet(e) : stored(r, i)'
  BY <1>1, <1>4, <1>5 DEF stored
<1>9. BatchOK(b)'
  <2>1. Covered(r, Last(e), e)'
    BY <1>1, <1>6, <1>7, CoveredKept
  <2> QED BY <1>1, <1>3, <1>7, <1>8, <2>1 DEF BatchOK
<1>10. /\ \A m \in DOMAIN tasks : m # 1 /\ tasks[m].kind = "note" =>
            \A k \in Key : store'[tasks[m].run][k] # "background"
       /\ \A p \in Runs \ noted : \A k \in Key : store'[p][k] # "background"
  <2>1. \A p \in Runs, k \in Key : store'[p][k] = store[p][k] \/ store'[p][k] = "content"
    BY <1>4
  <2>2. \A m \in DOMAIN tasks : tasks[m].kind = "note" =>
          tasks[m].run \in Runs /\ \A k \in Key : store[tasks[m].run][k] # "background"
    BY <1>2, BatchTypes DEF TasksOK, NoteOK
  <2>3. \A p \in Runs \ noted : \A k \in Key : store[p][k] # "background"
    BY <1>2 DEF TasksOK
  <2> QED BY <2>1, <2>2, <2>3
<1>11. /\ tasks' \in Seq(Batch) /\ TasksOK'
       /\ \A m \in DOMAIN tasks' :
            tasks'[m].kind = "batch" => Len(tasks'[m].events) \in 1 .. BatchSize
  BY <1>1, <1>2, <1>3, <1>6, <1>9, <1>10, OneTask
<1>12. \A p \in Runs, k \in Key : stored(p, k)' => k <= recorded[p]
  <2> SUFFICES ASSUME NEW p \in Runs, NEW k \in Key, stored(p, k)' PROVE k <= recorded[p]
    OBVIOUS
  <2>1. stored(p, k) => k <= recorded[p]
    BY DEF IInv, RunsInOrder
  <2>2. CASE p = r /\ k \in ToSet(e)
    <3>1. k \in Int /\ Last(e) \in Int /\ recorded[r] \in Int /\ k <= Last(e) /\ Last(e) <= recorded[r]
      BY <1>1, <1>5, <1>7, <2>2
    <3> QED BY <2>2, <3>1
  <2>3. CASE ~(p = r /\ k \in ToSet(e))
    BY <1>4, <2>1, <2>3 DEF stored
  <2> QED BY <2>2, <2>3
<1>13. GapsAreDeclared'
  <2> SUFFICES ASSUME NEW p \in Runs, NEW i \in 1 .. recorded[p], NEW j \in 1 .. recorded[p],
                      stored(p, i)', j < i
               PROVE  stored(p, j)' \/ j \in dropped[p]
    BY <1>1 DEF GapsAreDeclared
  <2>1. i \in Key /\ j \in Key
    <3>1. recorded[p] \in {0} \cup Number
      BY <1>5
    <3>2. recorded[p] \in Number
      BY <1>5, <3>1
    <3> QED BY <1>5, <3>2
  <2>2. stored(p, i) => stored(p, j) \/ j \in dropped[p]
    BY DEF IInv, GapsAreDeclared
  <2>3. CASE p = r /\ i \in ToSet(e)
    <3>1. j \in 1 .. Last(e)
      <4>1. Last(e) \in Int /\ i <= Last(e)
        BY <1>1, <1>5, <1>7, <2>3
      <4> QED BY <4>1
    <3>2. j \in ToSet(e) \/ stored(r, j) \/ j \in dropped[r]
      BY <1>7, <3>1 DEF Covered, settled
    <3> QED BY <1>6, <1>8, <2>1, <2>3, <3>2 DEF Grows
  <2>4. CASE ~(p = r /\ i \in ToSet(e))
    <3>1. stored(p, i)
      BY <1>4, <2>1, <2>4 DEF stored
    <3> QED BY <1>6, <2>1, <2>2, <3>1 DEF Grows
  <2> QED BY <2>3, <2>4
<1>14. /\ port' \in {"none", "open", "broken"} /\ faults' \in 0 .. MaxFaults
       /\ acks' \in Seq([run : Runs, last : Number]) /\ noted' \subseteq Runs
  BY <1>1, <1>2 DEF TypeOK
<1>15. AcksAreCovered'
  BY <1>1, <1>2, <1>6, AcksKept DEF IInv
<1> QED BY <1>1, <1>4, <1>6, <1>11, <1>12, <1>13, <1>14, <1>15, WorkerMoves

LEMMA AcknowledgeKeeps ==
  ASSUME IInv, NEW n \in runnable(tasks), Acknowledge(n), UNCHANGED <<pageSide, port, faults>>
  PROVE  IInv'
<1> PICK r, e, Acks : /\ r = tasks[1].run /\ e = tasks[1].events
                      /\ Acks = [run : Runs, last : Number]
  OBVIOUS
<1> PICK a : a = [run |-> r, last |-> Last(e)]
  OBVIOUS
<1>1. /\ 1 \in DOMAIN tasks /\ tasks \in Seq(Batch) /\ tasks # <<>> /\ r \in Runs
      /\ tasks[1].kind = "batch" /\ tasks[1].stage = "stored" /\ BatchOK(tasks[1])
      /\ Last(e) \in Number
      /\ acks' \in {acks, Append(acks, a)}
      /\ tasks' = RemoveAt(tasks, 1)
      /\ UNCHANGED <<page, phase, tries, recorded, dropped, flushOk, port, faults, store, noted>>
  BY FirstTask DEF Acknowledge, pageSide
<1>2. TypeOK /\ TasksOK
  BY DEF IInv
<1>3. a \in Acks /\ acks \in Seq(Acks) /\ a.run = r /\ a.last = Last(e)
  BY <1>1, <1>2 DEF TypeOK
<1>4. Grows
  BY <1>1, <1>2, LongestFacts DEF TypeOK, Grows, stored
<1>5. a.last <= recorded[a.run] /\ Covered(a.run, a.last, <<>>)
  <2>1. Last(e) <= recorded[r] /\ Covered(r, Last(e), e) /\ \A i \in ToSet(e) : stored(r, i)
    BY <1>1 DEF BatchOK
  <2>2. Covered(r, Last(e), <<>>)
    BY <2>1 DEF Covered, settled
  <2> QED BY <1>3, <2>1, <2>2
<1>6. Covered(a.run, a.last, <<>>)'
  BY <1>1, <1>3, <1>4, <1>5, CoveredKept
<1>7. acks' \in Seq(Acks) /\ AcksAreCovered'
  <2>1. CASE acks' = acks
    <3>1. \A m \in DOMAIN acks' : \E k \in DOMAIN acks : acks'[m] = acks[k]
      BY <2>1
    <3>2. AcksAreCovered
      BY DEF IInv
    <3>3. AcksAreCovered'
      BY <1>2, <1>4, <3>1, <3>2, AcksKept
    <3> QED BY <1>3, <2>1, <3>3
  <2>2. CASE acks' = Append(acks, a)
    <3>1. /\ acks' \in Seq(Acks) /\ Len(acks') = Len(acks) + 1 /\ Len(acks) \in Nat
          /\ \A m \in 1 .. Len(acks) : acks'[m] = acks[m]
          /\ acks'[Len(acks) + 1] = a
      BY <1>3, <2>2, AppendProperties
    <3>2. DOMAIN acks = 1 .. Len(acks) /\ DOMAIN acks' = 1 .. Len(acks) + 1
      BY <1>3, <3>1
    <3>3. \A m \in DOMAIN acks' : (m \in DOMAIN acks /\ acks'[m] = acks[m]) \/ acks'[m] = a
      BY <3>1, <3>2
    <3>4. ASSUME NEW m \in DOMAIN acks'
          PROVE  /\ acks'[m].last <= recorded'[acks'[m].run]
                 /\ Covered(acks[m].run, acks[m].last, <<>>)'
      <4> PICK c : c = acks'[m]
        OBVIOUS
      <4>1. c.last <= recorded[c.run] /\ Covered(c.run, c.last, <<>>)
        <5>1. CASE m \in DOMAIN acks /\ acks'[m] = acks[m]
          BY <5>1 DEF IInv, AcksAreCovered
        <5>2. CASE acks'[m] = a
          BY <1>5, <5>2
        <5> QED BY <3>3, <5>1, <5>2
      <4>2. Covered(c.run, c.last, <<>>)'
        BY <1>1, <4>1 DEF Covered, settled, stored
      <4> QED BY <1>1, <4>1, <4>2 DEF Covered, settled, stored
    <3> QED BY <3>1, <3>4 DEF AcksAreCovered
  <2> QED BY <1>1, <2>1, <2>2
<1>8. /\ tasks' \in Seq(Batch) /\ Len(tasks') = Len(tasks) - 1
      /\ \A i \in 1 .. Len(tasks) - 1 : tasks'[i] = tasks[i + 1]
  <2>1. /\ RemoveAt(tasks, 1) \in Seq(Batch) /\ Len(RemoveAt(tasks, 1)) = Len(tasks) - 1
        /\ \A i \in 1 .. Len(tasks) - 1 : RemoveAt(tasks, 1)[i] = tasks[i + 1]
    BY <1>1, TailFacts
  <2> QED BY <1>1, <2>1
<1>9. /\ TasksOK'
      /\ \A m \in DOMAIN tasks' :
           tasks'[m].kind = "batch" => Len(tasks'[m].events) \in 1 .. BatchSize
  BY <1>1, <1>2, <1>4, <1>8, TailTasks
<1>10. /\ port' \in {"none", "open", "broken"} /\ faults' \in 0 .. MaxFaults
       /\ noted' \subseteq Runs
       /\ store' \in [Runs -> [Key -> {"none", "content", "background"}]]
  BY <1>1, <1>2 DEF TypeOK
<1>11. /\ \A p \in Runs, k \in Key : stored(p, k)' => k <= recorded[p]
       /\ GapsAreDeclared'
  BY <1>1 DEF IInv, RunsInOrder, GapsAreDeclared, stored
<1> QED BY <1>1, <1>4, <1>7, <1>8, <1>9, <1>10, <1>11, WorkerMoves

\* The number under which the worker puts its record is free, and so is every later one.
LEMMA LastKeyFacts ==
  ASSUME IInv, NEW r \in Runs, \A k \in Key : store[r][k] # "background"
  PROVE  /\ lastKey(r) + 1 \in Key
         /\ \A k \in Key : k >= lastKey(r) + 1 => store[r][k] = "none"
<1> DEFINE used == {0} \cup {k \in Key : store[r][k] # "none"}
           last == Max(used)
<1>1. /\ Longest \in Nat /\ Length[r] \in Nat /\ Length[r] <= Longest
      /\ Key = 1 .. Longest + 1 /\ Number = 1 .. Longest
  BY LongestFacts
<1>2. recorded[r] \in Int /\ recorded[r] <= Length[r] /\ recorded[r] >= 0
  <2>1. recorded[r] \in {0} \cup Number
    BY DEF IInv, TypeOK
  <2>2. recorded[r] <= Length[r]
    BY DEF IInv, RunsInOrder
  <2> QED BY <1>1, <2>1, <2>2
<1>3. \A k \in Key : store[r][k] # "none" => k <= recorded[r]
  <2>1. \A k \in Key : store[r][k] \in {"none", "content", "background"}
    BY DEF IInv, TypeOK
  <2>2. \A k \in Key : stored(r, k) => k <= recorded[r]
    BY DEF IInv, RunsInOrder
  <2> QED BY <2>1, <2>2 DEF stored
<1>4. used \in SUBSET Int /\ used # {} /\ IsFiniteSet(used)
  <2>1. used \subseteq 0 .. Longest + 1
    BY <1>1
  <2>2. IsFiniteSet(0 .. Longest + 1)
    BY <1>1, FS_Interval
  <2>3. 0 \in used
    OBVIOUS
  <2> HIDE DEF used
  <2>4. IsFiniteSet(used)
    BY <2>1, <2>2, FS_Subset
  <2>5. used \subseteq Int
    BY <1>1, <2>1
  <2> QED BY <2>3, <2>4, <2>5
<1>5. last \in used /\ \A k \in used : last >= k
  <2> HIDE DEF used
  <2> QED BY <1>4, MaxOfFinite
<1> HIDE DEF last
<1>6. last \in Int /\ 0 <= last /\ last <= recorded[r]
  BY <1>1, <1>2, <1>3, <1>5
<1>7. last + 1 \in Key
  BY <1>1, <1>2, <1>6
<1>8. ASSUME NEW k \in Key, k >= last + 1 PROVE store[r][k] = "none"
  <2>1. k \in Int /\ ~(last >= k)
    BY <1>1, <1>6, <1>8
  <2> QED BY <1>5, <2>1
<1> QED BY <1>7, <1>8 DEF lastKey, last

LEMMA ReadLastKeeps ==
  ASSUME IInv, NEW n \in runnable(tasks), ReadLast(n), UNCHANGED <<pageSide, port, faults>>
  PROVE  IInv'
<1> PICK r, key : r = tasks[1].run /\ key = lastKey(tasks[1].run) + 1
  OBVIOUS
<1> PICK b : b = [tasks[1] EXCEPT !.stage = "read", !.key = key]
  OBVIOUS
<1>1. /\ 1 \in DOMAIN tasks /\ tasks \in Seq(Batch) /\ tasks[1] \in Batch /\ r \in Runs
      /\ tasks[1].kind = "note" /\ NoteOK(tasks[1])
      /\ tasks' = [tasks EXCEPT ![1] = b]
      /\ UNCHANGED <<page, phase, tries, recorded, dropped, flushOk, port, faults,
                     acks, store, noted>>
  BY FirstTask DEF ReadLast, pageSide
<1>2. TypeOK /\ TasksOK
  BY DEF IInv
<1>3. /\ \A k \in Key : store[r][k] # "background"
      /\ recorded[r] # 0 /\ r \in noted
  BY <1>1 DEF NoteOK
<1>4. key \in Key /\ \A k \in Key : k >= key => store[r][k] = "none"
  BY <1>1, <1>3, LastKeyFacts
<1>5. /\ b \in Batch /\ b.kind = "note" /\ b.run = r /\ b.events = tasks[1].events
      /\ b.stage = "read" /\ b.key = key
  BY <1>1, <1>4 DEF Batch
<1>6. NoteOK(b)'
  BY <1>1, <1>3, <1>4, <1>5 DEF NoteOK
<1>7. Grows
  BY <1>1, <1>2, LongestFacts DEF TypeOK, Grows, stored
<1>8. /\ \A m \in DOMAIN tasks : m # 1 /\ tasks[m].kind = "note" =>
           \A k \in Key : store'[tasks[m].run][k] # "background"
      /\ \A p \in Runs \ noted : \A k \in Key : store'[p][k] # "background"
  BY <1>1, <1>2 DEF TasksOK, NoteOK
<1>9. /\ tasks' \in Seq(Batch) /\ TasksOK'
      /\ \A m \in DOMAIN tasks' :
           tasks'[m].kind = "batch" => Len(tasks'[m].events) \in 1 .. BatchSize
  BY <1>1, <1>2, <1>5, <1>6, <1>7, <1>8, OneTask
<1>10. /\ port' \in {"none", "open", "broken"} /\ faults' \in 0 .. MaxFaults
       /\ noted' \subseteq Runs /\ acks' \in Seq([run : Runs, last : Number])
       /\ \A m \in DOMAIN acks' : \E k \in DOMAIN acks : acks'[m] = acks[k]
  BY <1>1, <1>2 DEF TypeOK
<1> QED BY <1>1, <1>9, <1>10, QueueMoves

LEMMA WriteNoteKeeps ==
  ASSUME IInv, NEW n \in runnable(tasks), WriteNote(n), UNCHANGED <<pageSide, port, faults>>
  PROVE  IInv'
<1> PICK r, key : r = tasks[1].run /\ key = tasks[1].key
  OBVIOUS
<1>1. /\ 1 \in DOMAIN tasks /\ tasks \in Seq(Batch) /\ tasks # <<>> /\ r \in Runs
      /\ tasks[1].kind = "note" /\ tasks[1].stage = "read" /\ NoteOK(tasks[1])
      /\ store' = put(r, {key}, "background")
      /\ tasks' = RemoveAt(tasks, 1)
      /\ UNCHANGED <<page, phase, tries, recorded, dropped, flushOk, port, faults, acks, noted>>
  BY FirstTask DEF WriteNote, pageSide
<1>2. TypeOK /\ TasksOK
  BY DEF IInv
<1>3. key \in Key /\ key \in Int /\ store[r][key] = "none"
  <2>1. key \in Key /\ \A k \in Key : k >= key => store[r][k] = "none"
    BY <1>1 DEF NoteOK
  <2> QED BY <2>1, LongestFacts
<1>4. /\ store' \in [Runs -> [Key -> {"none", "content", "background"}]]
      /\ \A p \in Runs : p # r => store'[p] = store[p]
      /\ \A k \in Key : store'[r][k] = IF k \in {key} THEN "background" ELSE store[r][k]
  BY <1>1, <1>2, PutFacts
<1>5. \A p \in Runs, k \in Key : stored(p, k)' <=> stored(p, k)
  BY <1>3, <1>4 DEF stored
<1>6. /\ recorded \in [Runs -> {0} \cup Number] /\ {0} \cup Number \subseteq Int
      /\ Number \subseteq Key /\ \A i \in Number : 1 .. i \subseteq Number
  BY <1>2, LongestFacts DEF TypeOK
<1>7. Grows
  BY <1>1, <1>5, <1>6 DEF Grows
<1>8. /\ tasks' \in Seq(Batch) /\ Len(tasks') = Len(tasks) - 1
      /\ \A i \in 1 .. Len(tasks) - 1 : tasks'[i] = tasks[i + 1]
  <2>1. /\ RemoveAt(tasks, 1) \in Seq(Batch) /\ Len(RemoveAt(tasks, 1)) = Len(tasks) - 1
        /\ \A i \in 1 .. Len(tasks) - 1 : RemoveAt(tasks, 1)[i] = tasks[i + 1]
    BY <1>1, TailFacts
  <2> QED BY <1>1, <2>1
<1>9. /\ TasksOK'
      /\ \A m \in DOMAIN tasks' :
           tasks'[m].kind = "batch" => Len(tasks'[m].events) \in 1 .. BatchSize
  BY <1>1, <1>2, <1>4, <1>7, <1>8, TailTasks
<1>10. /\ port' \in {"none", "open", "broken"} /\ faults' \in 0 .. MaxFaults
       /\ acks' \in Seq([run : Runs, last : Number]) /\ noted' \subseteq Runs
       /\ \A m \in DOMAIN acks' : \E k \in DOMAIN acks : acks'[m] = acks[k]
  BY <1>1, <1>2 DEF TypeOK
<1>11. AcksAreCovered'
  BY <1>2, <1>7, <1>10, AcksKept DEF IInv
<1>12. \A p \in Runs, k \in Key : stored(p, k)' => k <= recorded[p]
  BY <1>5 DEF IInv, RunsInOrder
<1>13. GapsAreDeclared'
  <2> SUFFICES ASSUME NEW p \in Runs, NEW i \in 1 .. recorded[p], NEW j \in 1 .. recorded[p],
                      stored(p, i)', j < i
               PROVE  stored(p, j)' \/ j \in dropped[p]
    BY <1>1 DEF GapsAreDeclared
  <2>1. i \in Key /\ j \in Key
    <3>1. recorded[p] \in {0} \cup Number
      BY <1>6
    <3>2. recorded[p] \in Number
      BY <1>6, <3>1
    <3> QED BY <1>6, <3>2
  <2>2. stored(p, i) => stored(p, j) \/ j \in dropped[p]
    BY DEF IInv, GapsAreDeclared
  <2> QED BY <1>5, <2>1, <2>2
<1> QED BY <1>1, <1>4, <1>7, <1>8, <1>9, <1>10, <1>11, <1>12, <1>13, WorkerMoves

-----------------------------------------------------------------------------
(* The theorems *)

LEMMA StepKeeps == ASSUME IInv, Next PROVE IInv'
<1>1. ASSUME NEW r \in Runs, StartRun(r) \/ Note(r) PROVE IInv'
  BY <1>1, StartRunKeeps, NoteKeeps
<1>2. CASE Record
  BY <1>2, RecordKeeps
<1>3. CASE TimerFires
  BY <1>3, TimerFiresKeeps
<1>4. CASE EndRun
  BY <1>4, EndRunKeeps
<1>5. CASE FlushTimesOut
  BY <1>5, FlushTimesOutKeeps
<1>6. CASE AckArrives
  BY <1>6, AckArrivesKeeps
<1>7. CASE PageGone
  BY <1>7, PageGoneKeeps
<1>8. CASE Work
  <2>1. PICK n \in runnable(tasks) : Put(n) \/ Acknowledge(n) \/ ReadLast(n) \/ WriteNote(n)
    BY <1>8 DEF Work
  <2>2. UNCHANGED <<pageSide, port, faults>>
    BY <1>8 DEF Work
  <2> QED BY <2>1, <2>2, PutKeeps, AcknowledgeKeeps, ReadLastKeeps, WriteNoteKeeps
<1>9. CASE WriteFails \/ WorkerStops \/ Disconnected
  BY <1>9, FaultKeeps
<1> QED BY <1>1, <1>2, <1>3, <1>4, <1>5, <1>6, <1>7, <1>8, <1>9 DEF Next

LEMMA StutterKeeps == ASSUME IInv, UNCHANGED vars PROVE IInv'
<1>1. TypeOK'
  BY DEF IInv, TypeOK, vars
<1>2. TasksOK'
  BY TasksSame DEF IInv, vars
<1>3. PageIsCovered'
  BY DEF IInv, PageIsCovered, Covered, settled, stored, vars
<1>4. AcksAreCovered'
  BY DEF IInv, AcksAreCovered, Covered, settled, stored, vars
<1>5. DropsAreOrdinary' /\ RunsInOrder' /\ FlushMeansStored' /\ GapsAreDeclared'
  BY DEF IInv, DropsAreOrdinary, RunsInOrder, FlushMeansStored, GapsAreDeclared, stored, vars
<1>6. OverflowIsCritical'
  BY DEF IInv, OverflowIsCritical, vars
<1> QED BY <1>1, <1>2, <1>3, <1>4, <1>5, <1>6 DEF IInv

\* The promises of the page, of the batches and of the acknowledgements hold together in
\* every state of the trace's transport.
THEOREM PromisesKept == Spec => []IInv
<1>1. Init => IInv
  BY InitOK
<1>2. IInv /\ [Next]_vars => IInv'
  BY StepKeeps, StutterKeeps
<1> QED BY <1>1, <1>2, PTL DEF Spec

\* Every state of the transport has its type: the queue of the page stays in the order of
\* recording and no batch is empty or too long.
THEOREM TypeCorrect == Spec => []TypeOK
<1>1. IInv => TypeOK
  BY DEF IInv
<1> QED BY <1>1, PromisesKept, PTL

\* NothingSilentlyLost, for any runs, sizes and faults: what left the queue of record() is
\* in the database, or is an ordinary event a full queue gave up.
THEOREM NothingIsSilentlyLost == Spec => []NothingSilentlyLost
<1>1. ASSUME IInv PROVE NothingSilentlyLost
  <2> SUFFICES ASSUME page.run # NoRun, NEW i \in 1 .. recorded[page.run]
               PROVE  \/ i \in ToSet(page.queue)
                      \/ stored(page.run, i)
                      \/ i \in dropped[page.run] /\ i \notin Critical
    BY DEF NothingSilentlyLost
  <2>1. page.run \in Runs
    BY <1>1 DEF IInv, TypeOK
  <2>2. i \in ToSet(page.queue) \/ stored(page.run, i) \/ i \in dropped[page.run]
    BY <1>1 DEF IInv, PageIsCovered, Covered, settled
  <2>3. dropped[page.run] \cap Critical = {}
    BY <1>1, <2>1 DEF IInv, DropsAreOrdinary
  <2> QED BY <2>2, <2>3
<1>2. IInv => NothingSilentlyLost
  BY <1>1
<1> QED BY <1>2, PromisesKept, PTL

\* FlushMeansStored, for any runs, sizes and faults: when forceFlush reported success, every
\* event that was not given up is in the database, and nothing written later replaces it.
THEOREM FlushMeansIsStored == Spec => []FlushMeansStored
<1>1. IInv => FlushMeansStored
  BY DEF IInv
<1> QED BY <1>1, PromisesKept, PTL

\* GapsAreDeclared, for any runs, sizes and faults: the events of a run reach the database
\* in their order, but for those a full queue gave up.
THEOREM GapsAreAllDeclared == Spec => []GapsAreDeclared
<1>1. IInv => GapsAreDeclared
  BY DEF IInv
<1> QED BY <1>1, PromisesKept, PTL

\* OverflowIsCritical, for any size of the queue: what record() keeps beyond the limit is
\* critical, but for the event it recorded last.
THEOREM OverflowIsAllCritical == Spec => []OverflowIsCritical
<1>1. IInv => OverflowIsCritical
  BY DEF IInv
<1> QED BY <1>1, PromisesKept, PTL

\* An event in the database stays what the page recorded: no repeated batch, no record of
\* the worker's own (recordRecovery, recordBackgroundTerminal) and no fault replaces it.
THEOREM EventsStay == Spec => [][\A r \in Runs, k \in Key : stored(r, k) => stored(r, k)']_vars
<1> DEFINE Kept == \A r \in Runs, k \in Key : stored(r, k) => stored(r, k)'
<1>1. ASSUME IInv, [Next]_vars, NEW r \in Runs, NEW k \in Key, stored(r, k)
      PROVE  stored(r, k)'
  <2>1. CASE UNCHANGED store
    BY <1>1, <2>1 DEF stored
  <2>2. ASSUME NEW n \in runnable(tasks), Put(n) PROVE stored(r, k)'
    <3> PICK p, keys : p = tasks[1].run /\ keys = ToSet(tasks[1].events)
      OBVIOUS
    <3>1. TypeOK /\ p \in Runs /\ store' = put(p, keys, "content")
      BY <1>1, <2>2, FirstTask DEF IInv, Put
    <3>2. /\ \A q \in Runs : q # p => store'[q] = store[q]
          /\ \A i \in Key : store'[p][i] = IF i \in keys THEN "content" ELSE store[p][i]
      BY <3>1, PutFacts
    <3> QED BY <1>1, <3>2 DEF stored
  <2>3. ASSUME NEW n \in runnable(tasks), WriteNote(n) PROVE stored(r, k)'
    <3> PICK p, key : p = tasks[1].run /\ key = tasks[1].key
      OBVIOUS
    <3>1. /\ TypeOK /\ p \in Runs /\ store' = put(p, {key}, "background")
          /\ tasks[1].kind = "note" /\ tasks[1].stage = "read" /\ NoteOK(tasks[1])
      BY <1>1, <2>3, FirstTask DEF IInv, WriteNote
    <3>2. key \in Key /\ store[p][key] = "none"
      <4>1. key \in Key /\ \A i \in Key : i >= key => store[p][i] = "none"
        BY <3>1 DEF NoteOK
      <4> QED BY <4>1, LongestFacts
    <3>3. /\ \A q \in Runs : q # p => store'[q] = store[q]
          /\ \A i \in Key : store'[p][i] = IF i \in {key} THEN "background" ELSE store[p][i]
      BY <3>1, PutFacts
    <3> QED BY <1>1, <3>2, <3>3 DEF stored
  <2>4. \/ UNCHANGED store
        \/ \E n \in runnable(tasks) : Put(n) \/ WriteNote(n)
    <3>1. CASE Work
      BY <3>1 DEF Work, Acknowledge, ReadLast
    <3>2. CASE UNCHANGED vars
      BY <3>2 DEF vars
    <3>3. CASE TimerFires \/ EndRun \/ FlushTimesOut \/ AckArrives
      BY <3>3 DEF TimerFires, EndRun, FlushTimesOut, AckArrives
    <3>4. CASE PageGone \/ Record \/ WriteFails \/ WorkerStops \/ Disconnected
      BY <3>4 DEF PageGone, Record, WriteFails, WorkerStops, Disconnected, workerSide
    <3>5. ASSUME NEW p \in Runs, StartRun(p) \/ Note(p) PROVE UNCHANGED store
      BY <3>5 DEF StartRun, Note, workerSide
    <3>6. CASE Next
      BY <3>1, <3>3, <3>4, <3>5, <3>6 DEF Next
    <3> QED BY <1>1, <3>2, <3>6
  <2> QED BY <2>1, <2>2, <2>3, <2>4
<1>2. IInv /\ [Next]_vars => [Kept]_vars
  BY <1>1
<1>3. Spec => [][Kept]_vars
  <2> HIDE DEF Kept
  <2> QED BY <1>2, PromisesKept, PTL DEF Spec
<1> QED BY <1>3
=============================================================================
