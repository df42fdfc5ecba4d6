---------------------------- MODULE CommonLemmas ----------------------------
(* Facts about numbers and sequences that the proofs of several components *)
(* rest on.                                                                *)
EXTENDS SequencesExt, SequenceTheorems, WellFoundedInduction, TLAPS

\* A set of naturals has a least element.
LEMMA LeastOf ==
  ASSUME NEW S \in SUBSET Nat, S # {}
  PROVE  \E x \in S : \A y \in S : x <= y
<1> DEFINE R == OpToRel(<, Nat)
<1>1. IsWellFoundedOn(R, Nat)
  BY NatLessThanWellFounded
<1> HIDE DEF R
<1>2. PICK x \in S : \A y \in S : ~ (<<y, x>> \in R)
  BY <1>1, WFMin
<1>3. R = {ss \in Nat \X Nat : ss[1] < ss[2]}
  BY Zenon DEF R, OpToRel
<1>4. ASSUME NEW y \in S PROVE x <= y
  <2>1. <<y, x>> \in Nat \X Nat /\ <<y, x>>[1] = y /\ <<y, x>>[2] = x
    OBVIOUS
  <2>2. ~ (y < x)
    BY <1>2, <1>3, <2>1, Zenon
  <2> QED
    BY <2>2
<1> QED
  BY <1>4

\* ... which is what Min returns.
LEMMA MinOfNats ==
  ASSUME NEW S \in SUBSET Nat, S # {}
  PROVE  Min(S) \in S /\ \A y \in S : Min(S) <= y
BY LeastOf DEF Min

\* A set of naturals that do not pass a bound has a greatest element, which is
\* what Max returns.
LEMMA MaxOfNats ==
  ASSUME NEW S \in SUBSET Nat, S # {}, NEW n \in Nat, \A x \in S : x <= n
  PROVE  Max(S) \in S /\ \A y \in S : y <= Max(S)
<1> DEFINE T == {k \in Nat : n - k \in S}
<1>1. T # {}
  <2>1. PICK x \in S : TRUE
    OBVIOUS
  <2>2. n - x \in Nat /\ n - (n - x) = x
    BY <2>1
  <2> QED
    BY <2>1, <2>2
<1>2. PICK k \in T : \A y \in T : k <= y
  BY <1>1, LeastOf
<1>3. ASSUME NEW y \in S PROVE n - k >= y
  <2>1. n - y \in T /\ y \in Nat /\ k \in Nat
    OBVIOUS
  <2>2. k <= n - y
    BY <1>2, <2>1
  <2> QED
    BY <2>1, <2>2
<1>4. \E x \in S : \A y \in S : x >= y
  BY <1>2, <1>3
<1>5. Max(S) \in S /\ \A y \in S : Max(S) >= y
  BY <1>4 DEF Max
<1> QED
  BY <1>5

\* A set with zero and every successor holds all naturals: what is proved of
\* every natural by steps is proved with this set.
LEMMA NatSteps ==
  ASSUME NEW P, 0 \in P, \A k \in Nat : k \in P => k + 1 \in P
  PROVE  Nat \subseteq P
<1> SUFFICES ASSUME NEW z \in Nat, z \notin P PROVE FALSE
  OBVIOUS
<1> DEFINE S == Nat \ P
<1>1. S \in SUBSET Nat /\ S # {}
  OBVIOUS
<1> HIDE DEF S
<1>2. PICK x \in S : \A y \in S : ~ (<<y, x>> \in OpToRel(<, Nat))
  BY <1>1, NatLessThanWellFounded, WFMin
<1>3. OpToRel(<, Nat) = {ss \in Nat \X Nat : ss[1] < ss[2]}
  BY DEF OpToRel
<1>4. ASSUME NEW y \in S PROVE ~ (y < x)
  <2>1. <<y, x>> \in Nat \X Nat /\ <<y, x>>[1] = y /\ <<y, x>>[2] = x
    BY <1>1
  <2> QED
    BY <1>2, <1>3, <2>1, Zenon
<1>5. x \in Nat /\ x \notin P /\ x # 0
  BY DEF S
<1>6. x - 1 \in Nat /\ x - 1 \notin P /\ x - 1 < x
  BY <1>5
<1> QED
  BY <1>4, <1>6 DEF S

\* Where the elements are after an insertion.
LEMMA InsertAtElements ==
  ASSUME NEW S, NEW s \in Seq(S), NEW x \in S, NEW i \in 1 .. Len(s) + 1
  PROVE  /\ InsertAt(s, i, x) \in Seq(S)
         /\ Len(InsertAt(s, i, x)) = Len(s) + 1
         /\ \A k \in 1 .. Len(s) + 1 :
              InsertAt(s, i, x)[k] = IF k < i THEN s[k] ELSE IF k = i THEN x ELSE s[k - 1]
<1> DEFINE a == SubSeq(s, 1, i - 1)
           b == SubSeq(s, i, Len(s))
           ax == a \o <<x>>
<1>1. a \in Seq(S) /\ Len(a) = i - 1 /\ \A k \in 1 .. i - 1 : a[k] = s[k]
  OBVIOUS
<1>2. b \in Seq(S) /\ Len(b) = Len(s) - i + 1
      /\ \A k \in 1 .. Len(s) - i + 1 : b[k] = s[i + k - 1]
  OBVIOUS
<1>3. ax \in Seq(S) /\ Len(ax) = i /\ ax[i] = x /\ \A k \in 1 .. i - 1 : ax[k] = s[k]
  <2> HIDE DEF a
  <2> QED
    BY <1>1
<1> HIDE DEF ax, b
<1>4. i <= Len(s) + 1 /\ i \in Nat /\ Len(s) \in Nat
  OBVIOUS
<1>5. /\ ax \o b \in Seq(S) /\ Len(ax \o b) = Len(ax) + Len(b)
      /\ \A k \in 1 .. Len(ax) + Len(b) :
           (ax \o b)[k] = IF k <= Len(ax) THEN ax[k] ELSE b[k - Len(ax)]
  BY <1>2, <1>3, ConcatProperties, Zenon
<1>6. Len(ax) + Len(b) = Len(s) + 1
  BY <1>2, <1>3, <1>4
<1>7. ASSUME NEW k \in 1 .. Len(s) + 1
      PROVE  (ax \o b)[k] = IF k < i THEN s[k] ELSE IF k = i THEN x ELSE s[k - 1]
  <2>1. CASE k < i
    <3>1. k \in 1 .. Len(ax) + Len(b) /\ k <= Len(ax) /\ k \in 1 .. i - 1
      BY <1>3, <1>4, <1>6, <2>1
    <3>2. (ax \o b)[k] = ax[k] /\ ax[k] = s[k]
      BY <1>3, <1>5, <3>1, Zenon
    <3> QED
      BY <1>4, <2>1, <3>2
  <2>2. CASE k = i
    BY <1>3, <1>4, <1>5, <1>6, <2>2
  <2>3. CASE k > i
    <3>1. (ax \o b)[k] = b[k - i] /\ k - i \in 1 .. Len(s) - i + 1
      BY <1>3, <1>4, <1>5, <1>6, <2>3
    <3>2. b[k - i] = s[i + (k - i) - 1]
      BY <1>2, <3>1
    <3> QED
      BY <1>4, <2>3, <3>1, <3>2
  <2>4. k < i \/ k = i \/ k > i
    BY <1>4
  <2> QED
    BY <2>1, <2>2, <2>3, <2>4, Zenon
<1> QED
  BY <1>5, <1>6, <1>7 DEF InsertAt, ax, b
=============================================================================
