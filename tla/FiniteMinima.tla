---------------------------- MODULE FiniteMinima ----------------------------
(***************************************************************************)
(* Least and greatest elements of finite sets exist.  The proof is an      *)
(* induction over the size of the set, by the well-founded order of strict *)
(* inclusion: a smallest set without a minimal element has none once an    *)
(* element is taken out.                                                   *)
(***************************************************************************)
EXTENDS FiniteSetsExt, FiniteSetTheorems, WellFoundedInduction, TLAPS

\* A transitive, irreflexive relation on a non-empty finite set has a minimal element.
LEMMA HasMinimal ==
  ASSUME NEW S, IsFiniteSet(S), S # {}, NEW R,
         \A a \in S : <<a, a>> \notin R,
         \A a, b, c \in S : <<a, b>> \in R /\ <<b, c>> \in R => <<a, c>> \in R
  PROVE  \E x \in S : \A y \in S : <<y, x>> \notin R
<1> DEFINE Bad == {X \in SUBSET S : X # {} /\ \A x \in X : \E y \in X : <<y, x>> \in R}
<1>1. SUFFICES ASSUME S \in Bad PROVE FALSE
  OBVIOUS
<1>2. IsWellFoundedOn(StrictSubsetOrdering(S), SUBSET S)
  BY FS_StrictSubsetOrderingWellFounded, FS_FiniteSubsetsOfFinite
<1>3. PICK X \in Bad : \A Y \in Bad : <<Y, X>> \notin StrictSubsetOrdering(S)
  <2>1. Bad \subseteq SUBSET S /\ Bad # {}
    BY <1>1
  <2> HIDE DEF Bad
  <2> QED BY <1>2, <2>1, WFMin
<1>4. PICK x \in X : TRUE
  OBVIOUS
<1> DEFINE Y == X \ {x}
<1>5. Y \notin Bad
  <2>1. <<Y, X>> \in StrictSubsetOrdering(S)
    BY <1>4 DEF StrictSubsetOrdering
  <2> QED BY <1>3, <2>1
<1>6. PICK z \in X : <<z, x>> \in R
  BY <1>4
<1>7. z \in Y
  BY <1>4, <1>6
<1>8. PICK m \in Y : \A y \in Y : <<y, m>> \notin R
  BY <1>5, <1>7
<1>9. PICK w \in X : <<w, m>> \in R
  BY <1>8
<1>10. w = x
  BY <1>8, <1>9
<1>11. <<z, m>> \in R
  BY <1>6, <1>8, <1>9, <1>10
<1> QED BY <1>7, <1>8, <1>11

\* The least number of a non-empty finite set.
LEMMA MinOfFinite ==
  ASSUME NEW S \in SUBSET Int, IsFiniteSet(S), S # {}
  PROVE  Min(S) \in S /\ \A x \in S : Min(S) <= x
<1> DEFINE R == {p \in S \X S : p[1] < p[2]}
<1>1. \A a, b \in S : <<a, b>> \in R <=> a < b
  OBVIOUS
<1>2. \A a \in S : <<a, a>> \notin R
  BY <1>1
<1>3. \A a, b, c \in S : <<a, b>> \in R /\ <<b, c>> \in R => <<a, c>> \in R
  BY <1>1
<1>4. \E x \in S : \A y \in S : <<y, x>> \notin R
  <2> HIDE DEF R
  <2> QED BY <1>2, <1>3, HasMinimal
<1>5. PICK x \in S : \A y \in S : <<y, x>> \notin R
  BY <1>4
<1>6. \A y \in S : ~(y < x)
  BY <1>1, <1>5
<1>7. \A y \in S : x <= y
  BY <1>6
<1> QED BY <1>7 DEF Min

\* The greatest number of a non-empty finite set.
LEMMA MaxOfFinite ==
  ASSUME NEW S \in SUBSET Int, IsFiniteSet(S), S # {}
  PROVE  Max(S) \in S /\ \A x \in S : Max(S) >= x
<1> DEFINE R == {p \in S \X S : p[1] > p[2]}
<1>1. \A a, b \in S : <<a, b>> \in R <=> a > b
  OBVIOUS
<1>2. \A a \in S : <<a, a>> \notin R
  BY <1>1
<1>3. \A a, b, c \in S : <<a, b>> \in R /\ <<b, c>> \in R => <<a, c>> \in R
  BY <1>1
<1>4. \E x \in S : \A y \in S : <<y, x>> \notin R
  <2> HIDE DEF R
  <2> QED BY <1>2, <1>3, HasMinimal
<1>5. PICK x \in S : \A y \in S : <<y, x>> \notin R
  BY <1>4
<1>6. \A y \in S : ~(y > x)
  BY <1>1, <1>5
<1>7. \A y \in S : x >= y
  BY <1>6
<1> QED BY <1>7 DEF Max

\* The values a function takes on a finite set.
LEMMA ImageOfFinite ==
  ASSUME NEW I, IsFiniteSet(I), NEW f
  PROVE  IsFiniteSet({f[i] : i \in I})
<1> DEFINE g == [i \in I |-> f[i]]
<1>1. g \in Surjection(I, {f[i] : i \in I})
  BY DEF Surjection
<1> QED BY <1>1, FS_Surjection

\* The least and the greatest of the values f takes on I.
LEMMA LeastValue ==
  ASSUME NEW I, IsFiniteSet(I), I # {}, NEW f, \A i \in I : f[i] \in Int
  PROVE  /\ Min({f[i] : i \in I}) \in Int
         /\ \E k \in I : Min({f[i] : i \in I}) = f[k]
         /\ \A k \in I : Min({f[i] : i \in I}) <= f[k]
<1> DEFINE S == {f[i] : i \in I}
<1>1. S \in SUBSET Int /\ S # {} /\ IsFiniteSet(S)
  BY ImageOfFinite
<1>2. Min(S) \in S /\ \A x \in S : Min(S) <= x
  BY <1>1, MinOfFinite
<1> QED BY <1>1, <1>2

LEMMA GreatestValue ==
  ASSUME NEW I, IsFiniteSet(I), I # {}, NEW f, \A i \in I : f[i] \in Int
  PROVE  /\ Max({f[i] : i \in I}) \in Int
         /\ \E k \in I : Max({f[i] : i \in I}) = f[k]
         /\ \A k \in I : Max({f[i] : i \in I}) >= f[k]
<1> DEFINE S == {f[i] : i \in I}
<1>1. S \in SUBSET Int /\ S # {} /\ IsFiniteSet(S)
  BY ImageOfFinite
<1>2. Max(S) \in S /\ \A x \in S : Max(S) >= x
  BY <1>1, MaxOfFinite
<1> QED BY <1>1, <1>2
=============================================================================
