-------------------------- MODULE Candidate_proofs --------------------------
(***************************************************************************)
(* Theorems about what a candidate meets around an attempt, for any number *)
(* of candidates, papers, uploads, requests and windows:                   *)
(*                                                                         *)
(*   RankAssignment  the loop of assignRanks() gives every candidate the   *)
(*                   rank that competition ranking means, and what is      *)
(*                   stored with a rank agrees with it                     *)
(*   ExamPaper       a student is served the paper of the attempt, and the *)
(*                   imports of papers are accounted for                   *)
(*   QuestionTiming  no time is counted outside of the attempt or twice    *)
(*   ExamMonitoring  an attempt keeps one session, and its risk and its    *)
(*                   verdict follow its events and its reviews             *)
(*   Marking         four services tell one student one story              *)
(*                                                                         *)
(* The five parts share no state; each has an inductive invariant of its   *)
(* own, and MCCandidate puts them beside each other.                       *)
(***************************************************************************)
EXTENDS MCCandidate, FiniteSetTheorems, WellFoundedInduction, TLAPS

(***************************************************************************)
(* Ranks                                                                   *)
(***************************************************************************)

-----------------------------------------------------------------------------
(* Division and rounding                                                   *)

\* The quotient is the greatest integer that fits.
LEMMA DivBounds ==
    ASSUME NEW x \in Int, NEW y \in Int, y > 0
    PROVE  /\ x \div y \in Int
           /\ y * (x \div y) <= x
           /\ x < y * (x \div y) + y
<1> DEFINE d == y * (x \div y)
           m == x % y
<1>1. x \div y \in Int
  OBVIOUS
<1>2. x = d + m /\ m >= 0 /\ m < y /\ m \in Int /\ d \in Int
  OBVIOUS
<1> HIDE DEF d, m
<1>3. d <= x /\ x < d + y
  BY <1>2
<1> QED BY <1>1, <1>3 DEF d

\* A positive factor can be cancelled.
LEMMA MulLess ==
    ASSUME NEW y \in Int, y > 0, NEW p \in Int, NEW q \in Int, y * p > y * q
    PROVE  p > q
  BY Z3

\* Math.round() of a quotient keeps integer bounds, and keeps apart what is
\* apart by one at least.
LEMMA QuotientBounds ==
    ASSUME NEW a \in Int, NEW b \in Nat \ {0}, NEW m \in Int
    PROVE  /\ RoundedQuotient(a, b) \in Int
           /\ a >= m * b => RoundedQuotient(a, b) >= m
           /\ a <= m * b => RoundedQuotient(a, b) <= m
<1> DEFINE n == 2 * a + b
           y == 2 * b
           p == n \div y
<1>1. n \in Int /\ y \in Int /\ y > 0
  OBVIOUS
<1>2. y * m = 2 * (m * b) /\ m * b \in Int /\ y = b + b
  BY Z3
<1>3. n = a + a + b
  OBVIOUS
<1> HIDE DEF n, y, p
<1>4. p \in Int /\ y * p <= n /\ n < y * p + y
  BY <1>1, DivBounds DEF p
<1>5. y * (p + 1) = y * p + y /\ y * (m + 1) = y * m + y
  BY <1>1, <1>4, Z3
<1>6. y * p \in Int /\ y * m \in Int
  BY <1>1, <1>4
<1>7. ASSUME a >= m * b PROVE p >= m
  <2>1. y * (p + 1) > y * m
    BY <1>2, <1>3, <1>4, <1>5, <1>6, <1>7
  <2>2. p + 1 > m
    BY <2>1, <1>1, <1>4, MulLess
  <2> QED BY <2>2, <1>4
<1>8. ASSUME a <= m * b PROVE p <= m
  <2>1. y * (m + 1) > y * p
    BY <1>2, <1>3, <1>4, <1>5, <1>6, <1>8
  <2>2. m + 1 > p
    BY <2>1, <1>1, <1>4, MulLess
  <2> QED BY <2>2, <1>4
<1> QED BY <1>4, <1>7, <1>8 DEF RoundedQuotient, p, n, y

\* Quotients of numerators that differ by the divisor differ when rounded.
LEMMA QuotientStep ==
    ASSUME NEW a \in Int, NEW c \in Int, NEW b \in Nat \ {0}, a >= c + b
    PROVE  RoundedQuotient(a, b) > RoundedQuotient(c, b)
<1> DEFINE n == 2 * a + b
           k == 2 * c + b
           y == 2 * b
           p == n \div y
           q == k \div y
<1>1. n \in Int /\ k \in Int /\ y \in Int /\ y > 0 /\ n >= k + y
  OBVIOUS
<1> HIDE DEF n, k, y, p, q
<1>2. p \in Int /\ n < y * p + y /\ q \in Int /\ y * q <= k
  BY <1>1, DivBounds DEF p, q
<1>3. y * q \in Int /\ y * p \in Int
  BY <1>1, <1>2
<1>4. y * p > y * q
  BY <1>1, <1>2, <1>3
<1>5. p > q
  BY <1>1, <1>2, <1>4, MulLess
<1> QED BY <1>5 DEF RoundedQuotient, p, q, n, k, y

-----------------------------------------------------------------------------
(* Percentiles and predictions                                             *)

\* calculatePercentile() keeps ranks apart in populations of up to a million;
\* beyond, four decimals would not be enough.
LEMMA PercentileOrder ==
    ASSUME NEW total \in Nat \ {0}, total <= Hundred, NEW r \in 1 .. total, NEW s \in 1 .. total
    PROVE  /\ Percentile(r, total) \in 1 .. Hundred
           /\ r = 1 => Percentile(r, total) = Hundred
           /\ r < s => Percentile(r, total) > Percentile(s, total)
<1>0. Hundred \in Nat /\ Hundred >= 1 /\ 1 \in 1 .. total
  BY SMT DEF Hundred
<1> DEFINE A(k) == (total - (k - 1)) * Hundred
           Q(k) == RoundedQuotient(A(k), total)
<1>1. CASE total = 1
  BY <1>0, <1>1 DEF Percentile
<1>2. CASE total # 1
  <2>1. ASSUME NEW k \in 1 .. total
        PROVE  A(k) \in Int /\ A(k) >= 1 * total /\ A(k) <= Hundred * total
    BY SMT DEF Hundred
  <2>2. A(1) >= Hundred * total
    BY SMT DEF Hundred
  <2>3. r < s => A(r) >= A(s) + total
    BY SMT DEF Hundred
  <2> HIDE DEF A
  <2>4. ASSUME NEW k \in 1 .. total
        PROVE  Q(k) \in 1 .. Hundred
    <3>1. Q(k) \in Int /\ Q(k) >= 1
      BY <1>0, <2>1, QuotientBounds
    <3>2. Q(k) <= Hundred
      BY <1>0, <2>1, QuotientBounds
    <3> QED BY <3>1, <3>2
  <2>5. Q(1) >= Hundred
    BY <1>0, <2>1, <2>2, QuotientBounds
  <2>6. r < s => Q(r) > Q(s)
    BY <2>1, <2>3, QuotientStep
  <2>7. ASSUME NEW k \in 1 .. total PROVE Percentile(k, total) = Q(k)
    <3>1. Percentile(k, total) = Greatest(0, Least(Hundred, Q(k)))
      BY <1>2 DEF Percentile, A
    <3> HIDE DEF Q
    <3> QED BY <1>0, <3>1, <2>4 DEF Greatest, Least
  <2> HIDE DEF Q
  <2> QED BY <1>0, <2>4, <2>5, <2>6, <2>7
<1> QED BY <1>1, <1>2

\* predictRankRange() returns a range of ranks around the actual one, and the first
\* place for a result with no marks to be had.
LEMMA PredictionRange ==
    ASSUME NEW total \in Nat, NEW r \in 1 .. total, NEW m \in Int
    PROVE  /\ Prediction(r, total, m).min \in 1 .. r
           /\ Prediction(r, total, m).max \in Prediction(r, total, m).min .. total
           /\ Prediction(r, total, m).max >= r \/ m <= 0
<1> DEFINE spread == Spread(r, total)
           down == spread \div 2
           up == (spread + 1) \div 2
<1>1. spread \in Int /\ spread >= 2
  <2>1. Variance(total) \in Int
    BY DEF Variance
  <2>2. r * Variance(total) \in Int
    BY <2>1
  <2>3. RoundedQuotient(r * Variance(total), 100) \in Int
    BY <2>2, QuotientBounds
  <2> QED BY <2>3 DEF Spread, Greatest
<1> HIDE DEF spread
<1>2. down \in Nat /\ up \in Nat
  BY <1>1
<1> HIDE DEF down, up
<1>3. CASE m <= 0
  <2>1. Prediction(r, total, m) = [min |-> 1, max |-> 1]
    BY <1>3 DEF Prediction
  <2> QED BY <1>3, <2>1
<1>4. CASE m > 0
  <2>1. /\ Prediction(r, total, m).min = Greatest(1, r - down)
        /\ Prediction(r, total, m).max = Least(total, r + up)
    BY <1>4 DEF Prediction, spread, down, up
  <2> QED BY <1>2, <2>1 DEF Greatest, Least
<1> QED BY <1>3, <1>4

-----------------------------------------------------------------------------
(* The order of the candidates                                             *)

PapersType == paper \in [Attempts -> Papers]

\* Each of the six keys of a candidate is an integer.
LEMMA KeysType ==
    ASSUME PapersType, NEW a \in Attempts, NEW k \in 1 .. 6
    PROVE  Keys(a)[k] \in Int
<1>1. paper[a] \in [Metrics -> Int]
  BY RankAssumption DEF PapersType
<1> QED BY <1>1 DEF Keys, Metrics

\* Of two candidates one is better, or they are tied.
LEMMA Trichotomy ==
    ASSUME PapersType, NEW a \in Attempts, NEW b \in Attempts
    PROVE  Better(a, b) \/ Tied(a, b) \/ Better(b, a)
<1> DEFINE Equal(k) == \A i \in 1 .. k - 1 : Keys(a)[i] = Keys(b)[i]
           Decided == Better(a, b) \/ Better(b, a)
<1>1. ASSUME NEW k \in 1 .. 6, Equal(k)
      PROVE  Equal(k + 1) \/ Decided
  <2>1. Keys(a)[k] \in Int /\ Keys(b)[k] \in Int
    BY KeysType
  <2>2. CASE Keys(a)[k] < Keys(b)[k]
    BY <1>1, <2>2 DEF Better
  <2>3. CASE Keys(b)[k] < Keys(a)[k]
    BY <1>1, <2>3 DEF Better
  <2>4. CASE Keys(a)[k] = Keys(b)[k]
    <3>1. \A i \in 1 .. (k + 1) - 1 : i \in 1 .. k - 1 \/ i = k
      OBVIOUS
    <3> QED BY <1>1, <2>4, <3>1
  <2> QED BY <2>1, <2>2, <2>3, <2>4
<1>2. Equal(1)
  OBVIOUS
<1>3. Equal(7) => Tied(a, b)
  BY DEF Tied
<1> HIDE DEF Equal, Decided
<1>4. Equal(7) \/ Decided
  BY <1>1, <1>2
<1> QED BY <1>3, <1>4 DEF Decided

\* Of two tied candidates none is better.
LEMMA BetterIrreflexive ==
    ASSUME PapersType, NEW a \in Attempts, NEW b \in Attempts, Tied(a, b)
    PROVE  ~Better(a, b)
<1> SUFFICES ASSUME NEW k \in 1 .. 6, Keys(a)[k] < Keys(b)[k] PROVE FALSE
  BY DEF Better
<1> QED BY KeysType DEF Tied

\* Better is transitive, also through a tie.
LEMMA BetterTransitive ==
    ASSUME PapersType, NEW a \in Attempts, NEW b \in Attempts, NEW c \in Attempts,
           Better(a, b), Better(b, c) \/ Tied(b, c)
    PROVE  Better(a, c)
<1> DEFINE Equal(x, y, k) == \A i \in 1 .. k - 1 : Keys(x)[i] = Keys(y)[i]
<1>0. \A k \in 1 .. 6 : /\ Keys(a)[k] \in Int
                        /\ Keys(b)[k] \in Int
                        /\ Keys(c)[k] \in Int
  BY KeysType
<1>1. PICK k \in 1 .. 6 : Equal(a, b, k) /\ Keys(a)[k] < Keys(b)[k]
  BY DEF Better
<1>2. CASE Tied(b, c)
  <2>1. Equal(a, c, k) /\ Keys(a)[k] < Keys(c)[k]
    BY <1>1, <1>2 DEF Tied
  <2> QED BY <2>1 DEF Better
<1>3. CASE Better(b, c)
  <2>1. PICK l \in 1 .. 6 : Equal(b, c, l) /\ Keys(b)[l] < Keys(c)[l]
    BY <1>3 DEF Better
  <2>2. CASE k <= l
    <3>1. Equal(a, c, k)
      BY <1>1, <2>1, <2>2
    <3>2. Keys(a)[k] < Keys(c)[k]
      <4>1. Keys(b)[k] <= Keys(c)[k]
        <5>1. CASE k = l
          BY <1>0, <2>1, <5>1
        <5>2. CASE k < l
          BY <1>0, <2>1, <5>2
        <5> QED BY <2>2, <5>1, <5>2
      <4> QED BY <1>0, <1>1, <4>1
    <3> QED BY <3>1, <3>2 DEF Better
  <2>3. CASE l < k
    <3>1. Equal(a, c, l)
      BY <1>1, <2>1, <2>3
    <3>2. Keys(a)[l] < Keys(c)[l]
      BY <1>0, <1>1, <2>1, <2>3
    <3> QED BY <3>1, <3>2 DEF Better
  <2> QED BY <2>2, <2>3
<1> QED BY <1>2, <1>3

\* A candidate that is tied with another is better than the same.
LEMMA TiedBetter ==
    ASSUME PapersType, NEW a \in Attempts, NEW b \in Attempts, NEW c \in Attempts,
           Tied(a, b), Better(b, c)
    PROVE  Better(a, c)
<1>1. PICK k \in 1 .. 6 : /\ \A i \in 1 .. k - 1 : Keys(b)[i] = Keys(c)[i]
                         /\ Keys(b)[k] < Keys(c)[k]
  BY DEF Better
<1>2. /\ \A i \in 1 .. k - 1 : Keys(a)[i] = Keys(c)[i]
      /\ Keys(a)[k] < Keys(c)[k]
  BY <1>1 DEF Tied
<1> QED BY <1>2 DEF Better

\* Ties are symmetric and transitive.
LEMMA TiedEquivalence ==
    ASSUME NEW a, NEW b, NEW c, Tied(a, b), Tied(b, c)
    PROVE  Tied(b, a) /\ Tied(a, c)
  BY DEF Tied

-----------------------------------------------------------------------------
(* The loop                                                                *)

\* The population is sorted once and stays so.
Ordered ==
    /\ sorted \in Seq(Attempts)
    /\ Len(sorted) <= Cardinality(Attempts)
    /\ \A i, j \in 1 .. Len(sorted) : sorted[i] = sorted[j] => i = j
    /\ \A i, j \in 1 .. Len(sorted) : i < j => ~Better(sorted[j], sorted[i])

\* Ranks and counters never run ahead of the position.
Position == IF ranks = <<>> THEN 1 ELSE Len(ranks)
InRange ==
    /\ \A k \in 1 .. Len(ranks) : ranks[k] \in 1 .. k
    /\ currentRank \in 1 .. Position
    /\ denseRank \in 1 .. Position

\* The candidates before a rank are better than its holder, those from there
\* to the holder are tied with it.
Placed(k) == \A j \in 1 .. k :
    /\ j < ranks[k] => Better(sorted[j], sorted[k])
    /\ j >= ranks[k] => Tied(sorted[j], sorted[k])
RankInv == mode = "COMPETITION" => \A k \in 1 .. Len(ranks) : Placed(k)

\* The loop starts on a sorted list of candidates, with every variable in its type.
LEMMA InitTypes ==
    ASSUME Init
    PROVE  TypeOK /\ PapersType /\ Ordered
<1>1. PICK population \in SUBSET Attempts : sorted \in SortedSeqs(population)
  BY DEF Init
<1>2. /\ IsFiniteSet(population)
      /\ Cardinality(population) \in Nat
      /\ Cardinality(population) <= Cardinality(Attempts)
  BY RankAssumption, FS_Subset, FS_CardinalityType
<1>3. /\ sorted \in [1 .. Cardinality(population) -> population]
      /\ \A i, j \in DOMAIN sorted : sorted[i] = sorted[j] => i = j
      /\ \A i, j \in DOMAIN sorted : i < j => ~Before(sorted[j], sorted[i])
  BY <1>1 DEF SortedSeqs, Arrangements
<1>4. sorted \in Seq(population) /\ Len(sorted) = Cardinality(population)
  BY <1>2, <1>3
<1>5. sorted \in Seq(Attempts)
  BY <1>4
<1>6. DOMAIN sorted = 1 .. Len(sorted)
  BY <1>3, <1>4
<1>7. Ordered
  BY <1>2, <1>3, <1>4, <1>5, <1>6 DEF Ordered, Before
<1>8. TypeOK /\ PapersType
  BY <1>5 DEF Init, TypeOK, PapersType
<1> QED BY <1>7, <1>8

\* What every step does: it gives the next candidate a rank.
LEMMA StepGives ==
    ASSUME TypeOK, InRange, Next
    PROVE  \E r \in 1 .. NextIndex :
        /\ Give(r)
        /\ Len(ranks) < Len(sorted)
        /\ currentRank' \in 1 .. NextIndex /\ denseRank' \in 1 .. NextIndex
        /\ mode = "COMPETITION" =>
            r = IF ranks = <<>> THEN 1
                ELSE IF Tied(sorted[NextIndex], sorted[Len(ranks)])
                     THEN ranks[Len(ranks)] ELSE NextIndex
<1>1. CASE GiveFirst
  <2>1. ranks = <<>> /\ Len(sorted) > 0 /\ Len(ranks) = 0 /\ NextIndex = 1
    BY <1>1 DEF GiveFirst, TypeOK, NextIndex
  <2> QED BY <1>1, <2>1 DEF GiveFirst, InRange, Position
<1>2. CASE GiveTied
  <2>1. /\ Len(ranks) \in Nat /\ Len(ranks) >= 1 /\ ranks # <<>>
        /\ Len(ranks) < Len(sorted) /\ NextIndex = Len(ranks) + 1
    BY <1>2 DEF GiveTied, TypeOK, NextIndex
  <2>2. /\ ranks[Len(ranks)] \in 1 .. Len(ranks)
        /\ currentRank \in 1 .. Len(ranks) /\ denseRank \in 1 .. Len(ranks)
    BY <2>1 DEF InRange, Position
  <2>3. CASE mode = "COMPETITION"
    BY <1>2, <2>1, <2>2, <2>3 DEF GiveTied
  <2>4. CASE mode = "DENSE"
    BY <1>2, <2>1, <2>2, <2>4 DEF GiveTied
  <2>5. CASE mode = "ORDINAL"
    BY <1>2, <2>1, <2>2, <2>5 DEF GiveTied
  <2> QED BY <2>3, <2>4, <2>5 DEF TypeOK, Modes
<1>3. CASE GiveNext
  <2>1. /\ Len(ranks) \in Nat /\ Len(ranks) >= 1 /\ ranks # <<>>
        /\ Len(ranks) < Len(sorted) /\ NextIndex = Len(ranks) + 1
    BY <1>3 DEF GiveNext, TypeOK, NextIndex
  <2>2. currentRank \in 1 .. Len(ranks) /\ denseRank \in 1 .. Len(ranks)
    BY <2>1 DEF InRange, Position
  <2>3. CASE mode \in {"COMPETITION", "ORDINAL"}
    BY <1>3, <2>1, <2>2, <2>3 DEF GiveNext
  <2>4. CASE mode = "DENSE"
    BY <1>3, <2>1, <2>2, <2>4 DEF GiveNext
  <2> QED BY <2>3, <2>4 DEF TypeOK, Modes
<1> QED BY <1>1, <1>2, <1>3 DEF Next

Invariant == TypeOK /\ PapersType /\ Ordered /\ InRange /\ RankInv

\* Before the first candidate no rank is assigned.
LEMMA InvariantInit == Init => Invariant
<1> SUFFICES ASSUME Init PROVE Invariant
  OBVIOUS
<1>1. ranks = <<>> /\ Len(ranks) = 0 /\ currentRank = 1 /\ denseRank = 1
  BY DEF Init
<1>2. InRange /\ RankInv
  BY <1>1 DEF InRange, Position, RankInv
<1> QED BY <1>2, InitTypes DEF Invariant

\* A tied candidate shares the place of the one before; any other is behind
\* all candidates before it.
LEMMA NextPlaced ==
    ASSUME Invariant, mode = "COMPETITION", ranks # <<>>, Len(ranks) < Len(sorted),
           NEW r, r = IF Tied(sorted[NextIndex], sorted[Len(ranks)])
                      THEN ranks[Len(ranks)] ELSE NextIndex,
           NEW j \in 1 .. NextIndex
    PROVE  /\ j < r => Better(sorted[j], sorted[NextIndex])
           /\ j >= r => Tied(sorted[j], sorted[NextIndex])
<1> DEFINE n == Len(ranks)
<1>1. n \in Nat /\ n >= 1 /\ NextIndex = n + 1 /\ n < Len(sorted)
  BY DEF Invariant, TypeOK, NextIndex
<1> HIDE DEF n
<1>2. PapersType /\ \A i \in 1 .. Len(sorted) : sorted[i] \in Attempts
  BY DEF Invariant, TypeOK
<1>3. /\ sorted[n] \in Attempts /\ sorted[NextIndex] \in Attempts
      /\ sorted[j] \in Attempts
  BY <1>1, <1>2
<1>4. /\ ranks[n] \in 1 .. n
      /\ j <= n /\ j < ranks[n] => Better(sorted[j], sorted[n])
      /\ j <= n /\ j >= ranks[n] => Tied(sorted[j], sorted[n])
  BY <1>1 DEF Invariant, InRange, RankInv, Placed, n
<1>5. Tied(sorted[NextIndex], sorted[NextIndex])
  BY DEF Tied
<1>6. CASE Tied(sorted[NextIndex], sorted[n])
  <2>1. r = ranks[n]
    BY <1>6 DEF n
  <2>2. Tied(sorted[n], sorted[NextIndex])
    BY <1>6 DEF Tied
  <2>3. ASSUME j < r PROVE Better(sorted[j], sorted[NextIndex])
    <3>1. Better(sorted[j], sorted[n])
      BY <1>1, <1>4, <2>1, <2>3
    <3> QED BY <1>2, <1>3, <2>2, <3>1, BetterTransitive
  <2>4. ASSUME j >= r PROVE Tied(sorted[j], sorted[NextIndex])
    <3>1. CASE j = NextIndex
      BY <1>5, <3>1
    <3>2. CASE j # NextIndex
      <4>1. Tied(sorted[j], sorted[n])
        BY <1>1, <1>4, <2>1, <2>4, <3>2
      <4> QED BY <4>1, <2>2, TiedEquivalence
    <3> QED BY <3>1, <3>2
  <2> QED BY <2>3, <2>4
<1>7. CASE ~Tied(sorted[NextIndex], sorted[n])
  <2>1. r = NextIndex
    BY <1>7 DEF n
  <2>2. ~Better(sorted[NextIndex], sorted[n])
    BY <1>1 DEF Invariant, Ordered
  <2>3. ~Tied(sorted[n], sorted[NextIndex])
    BY <1>7 DEF Tied
  <2>4. Better(sorted[n], sorted[NextIndex])
    BY <1>2, <1>3, <2>2, <2>3, Trichotomy
  <2>5. ASSUME j < r PROVE Better(sorted[j], sorted[NextIndex])
    <3>1. CASE Better(sorted[j], sorted[n])
      BY <1>2, <1>3, <2>4, <3>1, BetterTransitive
    <3>2. CASE Tied(sorted[j], sorted[n])
      BY <1>2, <1>3, <2>4, <3>2, TiedBetter
    <3> QED BY <1>1, <1>4, <2>1, <2>5, <3>1, <3>2
  <2>6. ASSUME j >= r PROVE Tied(sorted[j], sorted[NextIndex])
    <3>1. j = NextIndex
      BY <1>1, <2>1, <2>6
    <3> QED BY <1>5, <3>1
  <2> QED BY <2>5, <2>6
<1> QED BY <1>6, <1>7

\* One candidate more keeps the ranks right.
LEMMA InvariantStep == Invariant /\ [Next]_vars => Invariant'
<1> SUFFICES ASSUME Invariant, [Next]_vars PROVE Invariant'
  OBVIOUS
<1>0. TypeOK /\ PapersType /\ Ordered /\ InRange /\ RankInv
  BY DEF Invariant
<1>1. CASE UNCHANGED vars
  <2>2. Ordered'
    BY <1>0, <1>1 DEF Ordered, Better, Keys, vars
  <2>3. RankInv'
    BY <1>0, <1>1 DEF RankInv, Placed, Better, Tied, Keys, vars
  <2>4. TypeOK' /\ PapersType' /\ InRange'
    BY <1>0, <1>1 DEF TypeOK, PapersType, InRange, Position, vars
  <2> QED BY <2>2, <2>3, <2>4 DEF Invariant
<1>2. CASE Next
  <2>1. PICK r \in 1 .. NextIndex :
            /\ Give(r)
            /\ Len(ranks) < Len(sorted)
            /\ currentRank' \in 1 .. NextIndex /\ denseRank' \in 1 .. NextIndex
            /\ mode = "COMPETITION" =>
                r = IF ranks = <<>> THEN 1
                    ELSE IF Tied(sorted[NextIndex], sorted[Len(ranks)])
                         THEN ranks[Len(ranks)] ELSE NextIndex
    BY <1>0, <1>2, StepGives
  <2>3. /\ ranks' \in Seq(Nat) /\ ranks' # <<>>
        /\ Len(ranks') = NextIndex /\ NextIndex = Len(ranks) + 1
        /\ Len(ranks) \in Nat /\ NextIndex \in Nat
        /\ \A k \in 1 .. Len(ranks) : ranks'[k] = ranks[k]
        /\ ranks'[NextIndex] = r
    BY <1>0, <2>1 DEF Give, NextIndex, TypeOK
  <2>4. TypeOK' /\ PapersType'
    BY <1>0, <2>1, <2>3 DEF TypeOK, PapersType, Give
  <2>5. Ordered'
    <3>1. sorted' = sorted /\ paper' = paper
      BY <2>1 DEF Give
    <3> QED BY <1>0, <3>1 DEF Ordered, Better, Keys
  <2>6. InRange'
    <3>1. Position' = NextIndex
      BY <2>3 DEF Position
    <3>2. ASSUME NEW k \in 1 .. NextIndex PROVE ranks'[k] \in 1 .. k
      <4>1. CASE k = NextIndex
        BY <2>1, <2>3, <4>1
      <4>2. CASE k # NextIndex
        <5>1. k \in 1 .. Len(ranks)
          BY <2>3, <4>2
        <5> QED BY <1>0, <2>3, <5>1 DEF InRange
      <4> QED BY <4>1, <4>2
    <3> QED BY <2>1, <2>3, <3>1, <3>2 DEF InRange
  <2>7. RankInv'
    <3> SUFFICES ASSUME mode' = "COMPETITION", NEW k \in 1 .. NextIndex
                 PROVE  Placed(k)'
      BY <2>3 DEF RankInv
    <3>1. mode = "COMPETITION"
      BY <2>1 DEF Give
    <3>2. CASE k = NextIndex
      <4>1. CASE ranks = <<>>
        <5>1. r = 1 /\ k = 1
          BY <2>1, <2>3, <3>1, <3>2, <4>1
        <5>2. Tied(sorted[k], sorted[k])
          BY DEF Tied
        <5> QED BY <2>1, <2>3, <3>2, <5>1, <5>2 DEF Placed, Tied, Better, Keys, Give
      <4>2. CASE ranks # <<>>
        <5>1. \A j \in 1 .. NextIndex :
                /\ j < r => Better(sorted[j], sorted[NextIndex])
                /\ j >= r => Tied(sorted[j], sorted[NextIndex])
          BY <2>1, <3>1, <4>2, NextPlaced
        <5> QED BY <2>1, <2>3, <3>2, <5>1 DEF Placed, Tied, Better, Keys, Give
      <4> QED BY <4>1, <4>2
    <3>3. CASE k # NextIndex
      <4>1. k \in 1 .. Len(ranks) /\ ranks'[k] = ranks[k]
        BY <2>3, <3>3
      <4> QED BY <1>0, <2>1, <3>1, <4>1 DEF RankInv, Placed, Tied, Better, Keys, Give
    <3> QED BY <3>2, <3>3
  <2> QED BY <2>4, <2>5, <2>6, <2>7 DEF Invariant
<1> QED BY <1>1, <1>2

\* The invariant holds all through the loop.
LEMMA InvariantHolds == Spec => []Invariant
<1> QED BY InvariantInit, InvariantStep, PTL DEF Spec

-----------------------------------------------------------------------------
(* Theorems                                                                *)

\* assignRanks() stays within the population and its types.
THEOREM TypeCorrect == Spec => []TypeOK
<1>1. Invariant => TypeOK
  BY DEF Invariant
<1> QED BY <1>1, InvariantHolds, PTL

\* The candidates that are better than the one at position i are the
\* candidates before its rank.
LEMMA BetterCount ==
    ASSUME Invariant, mode = "COMPETITION", NEW i \in 1 .. Len(ranks)
    PROVE  ranks[i] = 1 + Cardinality({a \in Population : Better(a, sorted[i])})
<1> DEFINE r == ranks[i]
           B == {a \in Population : Better(a, sorted[i])}
           f == [j \in 1 .. r - 1 |-> sorted[j]]
<1>1. /\ i \in 1 .. Len(sorted) /\ Len(sorted) \in Nat
      /\ \A j \in 1 .. Len(sorted) : sorted[j] \in Attempts
      /\ r \in 1 .. i /\ PapersType
  BY DEF Invariant, TypeOK, InRange
<1>2. ASSUME NEW j \in 1 .. Len(sorted)
      PROVE  Better(sorted[j], sorted[i]) <=> j < r
  <2>1. CASE j < r
    BY <1>1, <2>1 DEF Invariant, RankInv, Placed
  <2>2. CASE j >= r /\ j <= i
    <3>1. Tied(sorted[j], sorted[i])
      BY <1>1, <2>2 DEF Invariant, RankInv, Placed
    <3> QED BY <1>1, <2>2, <3>1, BetterIrreflexive
  <2>3. CASE j > i
    <3>1. ~Better(sorted[j], sorted[i])
      BY <1>1, <2>3 DEF Invariant, Ordered
    <3> QED BY <1>1, <2>3, <3>1
  <2> QED BY <1>1, <2>1, <2>2, <2>3
<1> HIDE DEF r
<1>3. \A j \in 1 .. r - 1 : j \in 1 .. Len(sorted) /\ sorted[j] \in B
  BY <1>1, <1>2 DEF Population
<1>4. f \in Injection(1 .. r - 1, B)
  <2>1. f \in [1 .. r - 1 -> B]
    BY <1>3
  <2>2. \A j, k \in 1 .. r - 1 : f[j] = f[k] => j = k
    BY <1>1, <1>3 DEF Invariant, Ordered
  <2> QED BY <2>1, <2>2 DEF Injection, IsInjective
<1>5. f \in Surjection(1 .. r - 1, B)
  <2>1. f \in [1 .. r - 1 -> B]
    BY <1>3
  <2>2. ASSUME NEW b \in B PROVE \E j \in 1 .. r - 1 : f[j] = b
    <3>1. PICK j \in 1 .. Len(sorted) : b = sorted[j]
      BY DEF Population
    <3>2. j \in 1 .. r - 1
      BY <1>1, <1>2, <3>1
    <3> QED BY <3>1, <3>2
  <2> QED BY <2>1, <2>2 DEF Surjection
<1>6. ExistsBijection(1 .. r - 1, B)
  BY <1>4, <1>5 DEF ExistsBijection, Bijection
<1>7. IsFiniteSet(1 .. r - 1) /\ Cardinality(1 .. r - 1) = r - 1
  <2> DEFINE m == r - 1
  <2>1. m \in Nat
    BY <1>1
  <2> HIDE DEF m
  <2>2. IsFiniteSet(1 .. m) /\ Cardinality(1 .. m) = IF 1 > m THEN 0 ELSE m - 1 + 1
    BY <2>1, FS_Interval
  <2>3. Cardinality(1 .. m) = m
    BY <2>1, <2>2
  <2> QED BY <2>2, <2>3 DEF m
<1>8. Cardinality(B) = r - 1
  BY <1>6, <1>7, FS_Bijection
<1> QED BY <1>1, <1>8 DEF r

\* The rank given in COMPETITION mode, the one the program uses, is one more
\* than the number of better candidates: it does not depend on how sort()
\* arranges candidates that are tied, nor on the number of candidates.
THEOREM CompetitionCorrect == Spec => []CompetitionRanks
<1>1. Invariant => CompetitionRanks
  BY BetterCount DEF CompetitionRanks
<1> QED BY <1>1, InvariantHolds, PTL

-----------------------------------------------------------------------------
(* The other two modes                                                     *)

\* The different results that are better than that of position k.
BetterKeys(k) == {Keys(a) : a \in {b \in Population : Better(b, sorted[k])}}

\* The two counters run with the ranks of their mode.
OtherInv ==
    /\ mode = "DENSE" =>
          /\ \A k \in 1 .. Len(ranks) : ranks[k] = 1 + Cardinality(BetterKeys(k))
          /\ ranks # <<>> => denseRank = ranks[Len(ranks)]
    /\ mode = "ORDINAL" =>
          /\ \A k \in 1 .. Len(ranks) : ranks[k] = k
          /\ ranks # <<>> => currentRank = Len(ranks)

\* Tied candidates have the same keys.
LEMMA TiedKeys ==
    ASSUME PapersType, NEW a \in Attempts, NEW b \in Attempts, Tied(a, b)
    PROVE  Keys(a) = Keys(b)
<1>1. \A k \in 1 .. 6 : Keys(a)[k] = Keys(b)[k]
  BY DEF Tied
<1>2. /\ Keys(a) = <<Keys(a)[1], Keys(a)[2], Keys(a)[3], Keys(a)[4], Keys(a)[5], Keys(a)[6]>>
      /\ Keys(b) = <<Keys(b)[1], Keys(b)[2], Keys(b)[3], Keys(b)[4], Keys(b)[5], Keys(b)[6]>>
  BY DEF Keys
<1>3. QED
  BY <1>1, <1>2

\* Only finitely many keys are better than one.
LEMMA KeysFinite ==
    ASSUME Invariant, NEW k
    PROVE  IsFiniteSet(BetterKeys(k)) /\ Cardinality(BetterKeys(k)) \in Nat
<1> DEFINE B == {b \in Population : Better(b, sorted[k])}
<1>1. Population \subseteq Attempts
  BY DEF Invariant, TypeOK, Population
<1>2. IsFiniteSet(B)
  BY <1>1, RankAssumption, FS_Subset
<1> HIDE DEF B
<1>3. IsFiniteSet({Keys(a) : a \in B})
  <2> DEFINE T == {Keys(a) : a \in B}
             f == [a \in B |-> Keys(a)]
  <2>1. f \in Surjection(B, T)
    BY DEF Surjection
  <2> HIDE DEF T, f
  <2>2. PICK g \in Surjection(B, T) : TRUE
    BY <2>1
  <2>3. IsFiniteSet(T)
    BY <1>2, <2>2, FS_Surjection
  <2>4. QED
    BY <2>3 DEF T
<1>4. QED
  BY <1>3, FS_CardinalityType DEF BetterKeys, B

\* Nobody is better than the first.
LEMMA FirstBest ==
    ASSUME Invariant, Len(sorted) > 0
    PROVE  Cardinality(BetterKeys(1)) = 0
<1>1. /\ PapersType /\ Len(sorted) \in Nat /\ 1 \in 1 .. Len(sorted)
      /\ \A j \in 1 .. Len(sorted) : sorted[j] \in Attempts
  BY DEF Invariant, TypeOK
<1>2. ASSUME NEW j \in 1 .. Len(sorted) PROVE ~Better(sorted[j], sorted[1])
  <2>1. CASE j = 1
    BY <1>1, <2>1, BetterIrreflexive DEF Tied
  <2>2. CASE j > 1
    BY <1>1, <2>2 DEF Invariant, Ordered
  <2>3. QED
    BY <2>1, <2>2
<1>3. BetterKeys(1) = {}
  BY <1>2 DEF BetterKeys, Population
<1>4. QED
  BY <1>3, FS_EmptySet

\* Who is tied with the one before has the same results before him; who is not
\* has one more, that of the one before.
LEMMA NextKeys ==
    ASSUME Invariant, NEW n \in 1 .. Len(sorted), n + 1 \in 1 .. Len(sorted)
    PROVE  /\ Tied(sorted[n + 1], sorted[n]) => BetterKeys(n + 1) = BetterKeys(n)
           /\ ~Tied(sorted[n + 1], sorted[n]) =>
                  Cardinality(BetterKeys(n + 1)) = Cardinality(BetterKeys(n)) + 1
<1>1. /\ PapersType /\ Len(sorted) \in Nat /\ Population \subseteq Attempts
      /\ \A j \in 1 .. Len(sorted) : sorted[j] \in Attempts
      /\ sorted[n] \in Population
      /\ \A b \in Population : \E j \in 1 .. Len(sorted) : b = sorted[j]
  BY DEF Invariant, TypeOK, Population
<1> DEFINE x == sorted[n]
           y == sorted[n + 1]
<1>2. x \in Attempts /\ y \in Attempts /\ x \in Population
  BY <1>1
<1>3. ASSUME Tied(y, x) PROVE BetterKeys(n + 1) = BetterKeys(n)
  <2>1. Tied(x, y)
    BY <1>3 DEF Tied
  <2>2. \A b \in Population : Better(b, y) <=> Better(b, x)
    BY <1>1, <1>2, <1>3, <2>1, BetterTransitive
  <2>3. QED
    BY <2>2 DEF BetterKeys
<1>4. ASSUME ~Tied(y, x)
      PROVE  Cardinality(BetterKeys(n + 1)) = Cardinality(BetterKeys(n)) + 1
  <2>1. Better(x, y)
    <3>1. ~Better(y, x) /\ ~Tied(x, y)
      BY <1>4 DEF Invariant, Ordered, Tied
    <3>2. QED
      BY <1>1, <1>2, <3>1, Trichotomy
  <2>2. ASSUME NEW b \in Population, Better(b, y)
        PROVE  Better(b, x) \/ Keys(b) = Keys(x)
    <3>1. PICK j \in 1 .. Len(sorted) : b = sorted[j]
      BY <1>1
    <3>2. j <= n
      <4>1. CASE j = n + 1
        BY <1>1, <1>2, <2>2, <3>1, <4>1, BetterIrreflexive DEF Tied
      <4>2. CASE j > n + 1
        BY <2>2, <3>1, <4>2 DEF Invariant, Ordered
      <4>3. QED
        BY <4>1, <4>2
    <3>3. j = n \/ ~Better(x, b)
      BY <3>1, <3>2 DEF Invariant, Ordered
    <3>4. Better(b, x) \/ Tied(b, x)
      <4>1. CASE j = n
        BY <3>1, <4>1 DEF Tied
      <4>2. CASE ~Better(x, b)
        BY <1>1, <1>2, <4>2, Trichotomy
      <4>3. QED
        BY <3>3, <4>1, <4>2
    <3>5. QED
      BY <1>1, <1>2, <3>4, TiedKeys
  <2>3. \A b \in Population : Better(b, x) => Better(b, y)
    BY <1>1, <1>2, <2>1, BetterTransitive
  <2>4. BetterKeys(n + 1) = BetterKeys(n) \cup {Keys(x)}
    BY <1>2, <2>1, <2>2, <2>3 DEF BetterKeys
  <2>5. Keys(x) \notin BetterKeys(n)
    <3> SUFFICES ASSUME NEW b \in Population, Better(b, x), Keys(b) = Keys(x) PROVE FALSE
      BY DEF BetterKeys
    <3>1. Tied(b, x)
      BY DEF Tied
    <3>2. QED
      BY <1>1, <1>2, <3>1, BetterIrreflexive
  <2>6. QED
    BY <2>4, <2>5, KeysFinite, FS_AddElement
<1>5. QED
  BY <1>3, <1>4

\* One candidate more keeps the dense and the ordinal ranks right.
LEMMA OtherStep == Invariant /\ OtherInv /\ [Next]_vars => OtherInv'
<1> SUFFICES ASSUME Invariant, OtherInv, [Next]_vars PROVE OtherInv'
  OBVIOUS
<1>0. TypeOK /\ PapersType /\ Ordered /\ InRange
  BY DEF Invariant
<1>1. ASSUME UNCHANGED <<paper, sorted>>, NEW k
      PROVE  BetterKeys(k)' = BetterKeys(k)
  BY <1>1 DEF BetterKeys, Keys, Better, Population
<1>2. CASE UNCHANGED vars
  BY <1>1, <1>2 DEF OtherInv, vars
<1>3. CASE Next
  <2>1. PICK r \in 1 .. NextIndex : Give(r) /\ Len(ranks) < Len(sorted)
    BY <1>0, <1>3, StepGives
  <2>2. /\ Len(ranks) \in Nat /\ Len(sorted) \in Nat /\ NextIndex = Len(ranks) + 1
        /\ Len(ranks') = NextIndex /\ ranks' # <<>>
        /\ \A k \in 1 .. Len(ranks) : ranks'[k] = ranks[k]
        /\ ranks'[NextIndex] = r
        /\ UNCHANGED <<paper, mode, sorted>>
        /\ ranks # <<>> <=> Len(ranks) >= 1
    BY <1>0, <2>1 DEF Give, NextIndex, TypeOK
  <2> DEFINE n == Len(ranks)
  <2>3. \A k \in 1 .. NextIndex : k \in 1 .. n \/ k = n + 1
    BY <2>2
  <2>4. ASSUME mode = "DENSE"
        PROVE  r = 1 + Cardinality(BetterKeys(n + 1)) /\ denseRank' = r
    <3>1. CASE GiveFirst
      <4>1. n = 0 /\ r = 1 /\ denseRank' = denseRank /\ denseRank = 1
        BY <1>0, <2>2, <3>1 DEF GiveFirst, Give, InRange, Position, TypeOK
      <4>2. QED
        BY <2>1, <2>2, <4>1, FirstBest
    <3>2. CASE GiveTied
      <4>1. /\ n \in 1 .. Len(sorted) /\ n + 1 \in 1 .. Len(sorted) /\ ranks # <<>>
            /\ Tied(sorted[n + 1], sorted[n])
            /\ ranks' = Append(ranks, denseRank) /\ denseRank' = denseRank
        BY <2>1, <2>2, <2>4, <3>2 DEF GiveTied, Give, TypeOK
      <4>2. r = denseRank
        BY <1>0, <2>2, <4>1 DEF TypeOK
      <4>3. denseRank = 1 + Cardinality(BetterKeys(n))
        BY <2>2, <2>4, <4>1 DEF OtherInv
      <4>4. QED
        BY <4>1, <4>2, <4>3, NextKeys
    <3>3. CASE GiveNext
      <4>1. /\ n \in 1 .. Len(sorted) /\ n + 1 \in 1 .. Len(sorted) /\ ranks # <<>>
            /\ ~Tied(sorted[n + 1], sorted[n])
            /\ ranks' = Append(ranks, denseRank + 1) /\ denseRank' = denseRank + 1
        BY <2>1, <2>2, <2>4, <3>3 DEF GiveNext, Give, TypeOK
      <4>2. r = denseRank + 1
        BY <1>0, <2>2, <4>1 DEF TypeOK
      <4>3. denseRank = 1 + Cardinality(BetterKeys(n))
        BY <2>2, <2>4, <4>1 DEF OtherInv
      <4>4. Cardinality(BetterKeys(n)) \in Nat
        BY KeysFinite
      <4>5. QED
        BY <4>1, <4>2, <4>3, <4>4, NextKeys
    <3>4. QED
      BY <1>3, <3>1, <3>2, <3>3 DEF Next
  <2>5. ASSUME mode = "ORDINAL" PROVE r = n + 1 /\ currentRank' = n + 1
    <3>1. CASE GiveFirst
      BY <1>0, <2>2, <3>1 DEF GiveFirst, Give, InRange, Position, TypeOK
    <3>2. CASE GiveTied
      <4>1. ranks # <<>> /\ ranks' = Append(ranks, currentRank + 1) /\ currentRank' = currentRank + 1
        BY <2>5, <3>2 DEF GiveTied, Give
      <4>2. QED
        BY <1>0, <2>2, <2>5, <4>1 DEF OtherInv, TypeOK
    <3>3. CASE GiveNext
      BY <1>0, <2>2, <2>5, <3>3 DEF GiveNext, Give, TypeOK
    <3>4. QED
      BY <1>3, <3>1, <3>2, <3>3 DEF Next
  <2>6. ASSUME mode' = "DENSE"
        PROVE  /\ \A k \in 1 .. Len(ranks') : ranks'[k] = 1 + Cardinality(BetterKeys(k)')
               /\ denseRank' = ranks'[Len(ranks')]
    BY <1>1, <2>2, <2>3, <2>4, <2>6 DEF OtherInv
  <2>7. ASSUME mode' = "ORDINAL"
        PROVE  /\ \A k \in 1 .. Len(ranks') : ranks'[k] = k
               /\ currentRank' = Len(ranks')
    BY <2>2, <2>3, <2>5, <2>7 DEF OtherInv
  <2>8. QED
    BY <2>6, <2>7 DEF OtherInv
<1>4. QED
  BY <1>2, <1>3

\* In DENSE mode a rank is one more than the number of different better results,
\* in ORDINAL mode it is the position: assignRanks() carries two counters from
\* candidate to candidate, and they agree with what they count.
THEOREM OthersCorrect == Spec => []OtherRanks
<1>1. Init => OtherInv
  BY DEF Init, OtherInv
<1>2. Invariant /\ OtherInv => OtherRanks
  BY DEF OtherInv, OtherRanks, BetterKeys
<1>3. QED
  BY <1>1, <1>2, InvariantHolds, OtherStep, PTL DEF Spec

\* Percentiles agree with ranks for up to a million candidates.
LEMMA PercentilesCorrect ==
    ASSUME Cardinality(Attempts) <= Hundred
    PROVE  Spec => []PercentilesFollowRanks
<1>1. Invariant => PercentilesFollowRanks
  <2> SUFFICES ASSUME Invariant, Done, NEW i \in 1 .. Len(sorted), NEW j \in 1 .. Len(sorted)
               PROVE  /\ Percentile(ranks[i], Len(sorted)) \in 1 .. Hundred
                      /\ ranks[i] = 1 => Percentile(ranks[i], Len(sorted)) = Hundred
                      /\ ranks[i] < ranks[j] => Percentile(ranks[i], Len(sorted))
                                                 > Percentile(ranks[j], Len(sorted))
    BY DEF PercentilesFollowRanks
  <2>1. ranks[i] \in 1 .. Len(sorted) /\ ranks[j] \in 1 .. Len(sorted)
    BY DEF Invariant, InRange, Done
  <2>2. Len(sorted) \in Nat \ {0}
    BY DEF Invariant, TypeOK
  <2>3. Len(sorted) <= Hundred
    <3>1. Hundred \in Nat
      BY SMT DEF Hundred
    <3>2. Cardinality(Attempts) \in Nat
      BY RankAssumption, FS_CardinalityType
    <3> QED BY <2>2, <3>1, <3>2 DEF Invariant, Ordered
  <2> QED BY <2>1, <2>2, <2>3, PercentileOrder
<1> QED BY <1>1, InvariantHolds, PTL

\* The predicted range is one of ranks, and holds the rank of every result with marks
\* to be had, for populations of any size.
LEMMA PredictionsCorrect == Spec => []PredictionHoldsRank
<1>1. Invariant => PredictionHoldsRank
  <2> SUFFICES ASSUME Invariant, Done, NEW i \in 1 .. Len(sorted)
               PROVE  LET maxScore == paper[sorted[i]]["max"]
                          range == Prediction(ranks[i], Len(sorted), maxScore)
                      IN  /\ range.min \in 1 .. ranks[i]
                          /\ range.max \in range.min .. Len(sorted)
                          /\ range.max >= ranks[i] \/ maxScore <= 0
    BY DEF PredictionHoldsRank
  <2>1. ranks[i] \in 1 .. Len(sorted) /\ Len(sorted) \in Nat
    BY DEF Invariant, TypeOK, InRange, Done
  <2>2. paper[sorted[i]]["max"] \in Int
    <3>1. sorted[i] \in Attempts
      BY DEF Invariant, TypeOK
    <3>2. paper[sorted[i]] \in [Metrics -> Int]
      BY <3>1, RankAssumption DEF Invariant, PapersType
    <3> QED BY <3>2 DEF Metrics
  <2> QED BY <2>1, <2>2, PredictionRange
<1> QED BY <1>1, InvariantHolds, PTL

\* The percentile and the predicted range stored with a rank agree with it, in a
\* population of up to a million, the range of a result with no marks to be had
\* excepted.
THEOREM StoredCorrect ==
    ASSUME Cardinality(Attempts) <= Hundred
    PROVE  Spec => []StoredWithRank
<1>1. Spec => []PercentilesFollowRanks
  BY PercentilesCorrect
<1>2. QED
  BY <1>1, PredictionsCorrect, PTL DEF StoredWithRank

(***************************************************************************)
(* Papers and imports                                                      *)
(***************************************************************************)

-----------------------------------------------------------------------------
(* The inductive invariant *)

\* Paper, version and schedule change together
VersionsKept == version = current /\ scheduled = current

\* A key is written with a paper of its version or of a later one
SnapshotsKept == \A v \in PaperNumbers : snap[v] # 0 => v <= snap[v] /\ snap[v] <= current

BuildKept ==
    /\ build.at # "idle" => 1 <= build.v /\ build.v <= current
    /\ build.at \in {"write", "verify"} => build.v <= build.p /\ build.p <= current

\* What a request of a student has read.  A student whose paper was not
\* replaced has the current one, and is given it.
StudentKept(s) ==
    /\ visit[s].do # "idle" => 1 <= visit[s].v /\ visit[s].v <= current
    /\ visit[s].do \in {"ensure", "look", "build", "store", "serve"} => attempt[s].in
    /\ visit[s].do \in {"insert", "store"} => 1 <= visit[s].p
    /\ visit[s].do = "store" => visit[s].v <= visit[s].p /\ visit[s].p <= current
    /\ attempt[s].in => 1 <= attempt[s].v /\ attempt[s].v <= current
    /\ attempt[s].p \in {0, current}
    /\ s \in blank => s \in replaced /\ attempt[s].in
    /\ s \notin replaced =>
        /\ attempt[s].in => attempt[s].v = current
        /\ visit[s].do # "idle" => visit[s].v = current
        /\ visit[s].do \in {"look", "build", "store", "serve"} => attempt[s].p = current
        /\ visit[s].do \in {"store", "serve"} => visit[s].p = current

\* Where an upload and its job are
UploadsKept ==
    \A i \in Uploads :
        /\ upload[i] = "NONE" => importJob[i] = "none"
        /\ upload[i] = "FAILED" => importJob[i] = "failed"
        /\ importJob[i] \in {"committed", "completed"} => upload[i] = "COMPLETED"
        /\ upload[i] = "COMPLETED" => i \in sound /\ importJob[i] # "none"

\* Where a request of an administrator is
TasksKept ==
    \A u \in Uploaders :
        /\ task[u].do = "enqueue" =>
              task[u].on \in Uploads /\ importJob[task[u].on] = "none" /\ upload[task[u].on] = "PROCESSING"
        /\ task[u].do \in {"reset", "requeue"} =>
              /\ task[u].on \in Uploads /\ importJob[task[u].on] = "failed"
              /\ upload[task[u].on] \in {"FAILED", "PROCESSING"}
        /\ \A w \in Uploaders :
              task[u].do = "enqueue" /\ task[w].do = "enqueue" /\ task[u].on = task[w].on => u = w

\* Unless an upload was begun beside another one
AloneKept ==
    ~doubled =>
        /\ \A u, w \in Uploaders : task[u].do \in {"create", "enqueue"} /\ task[w].do \in {"create", "enqueue"} => u = w
        /\ \A u \in Uploaders, i \in LiveJobs : task[u].do \in {"create", "enqueue"} => upload[i] = "COMPLETED"
        /\ \A i, k \in LiveJobs : upload[i] # "COMPLETED" /\ upload[k] # "COMPLETED" => i = k

\* One job at a time; what is carried out again was interrupted by a crash
Completed == {i \in Uploads : upload[i] = "COMPLETED"}
Again == {i \in Completed : importJob[i] \in {"waiting", "active"}}
RunsKept ==
    /\ \A i, k \in Running : i = k
    /\ version = 1 + Cardinality(Completed) + reruns
    /\ reruns + Cardinality(Again) <= errors

\* What is read of the paper
ReadInv ==
    /\ VersionsKept /\ SnapshotsKept /\ BuildKept
    /\ \A s \in Students : StudentKept(s)

\* How it is replaced
UploadInv == UploadsKept /\ UploadTracked /\ TasksKept /\ AloneKept /\ RunsKept

PaperInv == PaperTypeOK /\ ReadInv /\ UploadInv

-----------------------------------------------------------------------------
(* The newest and the oldest of some uploads *)

\* The oldest of some uploads is one of them.
LEMMA OldestExists ==
    ASSUME NEW S \in SUBSET Uploads, S # {}
    PROVE  Oldest(S) \in S /\ \A k \in S : Oldest(S) <= k
<1>1. S \subseteq Nat
  BY DEF Uploads
<1>2. PICK i \in S : \A k \in S : ~(<<k, i>> \in OpToRel(<, Nat))
  BY <1>1, NatLessThanWellFounded, WFMin
<1>3. ASSUME NEW k \in S PROVE i <= k
  <2>1. <<k, i>> \in OpToRel(<, Nat) <=> k < i
    BY <1>1 DEF OpToRel
  <2>2. k \in Nat /\ i \in Nat /\ ~(k < i)
    BY <1>1, <1>2, <2>1
  <2> QED
    BY <2>2
<1> QED
  BY <1>3 DEF Oldest

\* The newest of some uploads is one of them.
LEMMA NewestExists ==
    ASSUME NEW S \in SUBSET Uploads, S # {}
    PROVE  Newest(S) \in S /\ \A k \in S : k <= Newest(S)
<1> DEFINE T == {MaxUploads - k : k \in S}
<1>1. \A k \in S : k \in Nat /\ k <= MaxUploads /\ MaxUploads - k \in Nat
  BY PaperAssumption DEF Uploads
<1>2. T \in SUBSET Nat /\ T # {}
  BY <1>1
<1>3. PICK m \in T : \A n \in T : ~(<<n, m>> \in OpToRel(<, Nat))
  BY <1>2, NatLessThanWellFounded, WFMin
<1>4. PICK i \in S : m = MaxUploads - i
  BY <1>3
<1>5. ASSUME NEW k \in S PROVE k <= i
  <2>1. MaxUploads - k \in T
    OBVIOUS
  <2>2. ~(<<MaxUploads - k, m>> \in OpToRel(<, Nat))
    BY <1>3, <2>1
  <2>3. <<MaxUploads - k, m>> \in OpToRel(<, Nat) <=> MaxUploads - k < m
    BY <1>1, <1>4 DEF OpToRel
  <2>4. ~(MaxUploads - k < MaxUploads - i) /\ k \in Nat /\ i \in Nat /\ MaxUploads \in Nat
    BY <1>1, <1>4, <2>2, <2>3, PaperAssumption
  <2> QED
    BY <2>4
<1> QED
  BY <1>5 DEF Newest

-----------------------------------------------------------------------------
(* What a step leaves alone *)

\* What is known of the paper stays while nothing of it changes.
LEMMA ReadStays ==
    ASSUME ReadInv, UNCHANGED <<paperVars, snap, build, viewVars>>
    PROVE  ReadInv'
BY DEF ReadInv, VersionsKept, SnapshotsKept, BuildKept, StudentKept, paperVars, viewVars

\* What is known of the uploads stays while nothing of them changes.
LEMMA UploadsStay ==
    ASSUME UploadInv, UNCHANGED <<version, upload, sound, importJob, doubled, cause, task, errors, reruns>>
    PROVE  UploadInv'
BY DEF UploadInv, UploadsKept, UploadTracked, TasksKept, AloneKept, RunsKept, Processing, LiveJobs,
       Running, Completed, Again

VisitRecords == [do : Visits, v : 0 .. MaxPapers, p : 0 .. MaxPapers]
AttemptRecords == [in : BOOLEAN, v : 0 .. MaxPapers, p : 0 .. MaxPapers]

\* The types that the requests of a student meet
LEMMA StudentTypes ==
    ASSUME PaperTypeOK, ReadInv
    PROVE  /\ visit \in [Students -> VisitRecords] /\ attempt \in [Students -> AttemptRecords]
           /\ snap \in [PaperNumbers -> 0 .. MaxPapers] /\ PaperNumbers = 1 .. MaxPapers
           /\ blank \subseteq Students /\ replaced \subseteq Students
           /\ requests \in 0 .. MaxRequests
           /\ current \in 1 .. MaxPapers /\ scheduled = current /\ version = current
           /\ current \in 0 .. MaxPapers /\ scheduled \in 0 .. MaxPapers
           /\ 0 \in 0 .. MaxPapers /\ MaxPapers \in Nat /\ MaxRequests \in Nat
BY PaperAssumption DEF PaperTypeOK, PaperNumbers, VisitRecords, AttemptRecords, ReadInv, VersionsKept

\* Requests begin while there are any.
LEMMA Accepted ==
    ASSUME requests \in 0 .. MaxRequests, MaxRequests \in Nat, Accept
    PROVE  requests' \in 0 .. MaxRequests
BY DEF Accept

-----------------------------------------------------------------------------
(* The paper is read *)

\* Reads and writes of the cache
LEMMA CacheKeeps ==
    ASSUME PaperInv, CacheNext
    PROVE  PaperInv'
<1> USE DEF PaperInv
<1>1. UploadInv'
  BY UploadsStay DEF CacheNext, PrepareStart, PrepareRead, PrepareWrite, PrepareVerify, Evict,
     uploadVars, paperVars
<1>2. UNCHANGED <<paperVars, viewVars>>
  BY DEF CacheNext, PrepareStart, PrepareRead, PrepareWrite, PrepareVerify, Evict
<1>3. VersionsKept' /\ (\A s \in Students : StudentKept(s)')
  BY <1>2 DEF ReadInv, VersionsKept, StudentKept, viewVars, paperVars
<1> DEFINE Builds == [at : {"idle", "read", "write", "verify"}, v : 0 .. MaxPapers, p : 0 .. MaxPapers]
<1>4. /\ build \in Builds /\ snap \in [PaperNumbers -> 0 .. MaxPapers] /\ SnapshotsKept /\ BuildKept
      /\ current' = current
  BY <1>2 DEF PaperTypeOK, ReadInv, paperVars
<1>5. /\ build' \in Builds /\ snap' \in [PaperNumbers -> 0 .. MaxPapers] /\ requests' \in 0 .. MaxRequests
      /\ SnapshotsKept' /\ BuildKept'
  <2>1. ASSUME NEW v \in 1 .. version, PrepareStart(v)
        PROVE  /\ build' \in Builds /\ snap' \in [PaperNumbers -> 0 .. MaxPapers]
               /\ requests' \in 0 .. MaxRequests /\ SnapshotsKept' /\ BuildKept'
    <3>1. build' = [at |-> "read", v |-> v, p |-> 0] /\ snap' = snap
      BY <2>1 DEF PrepareStart
    <3>2. build' \in Builds /\ build'.at = "read" /\ 1 <= build'.v /\ build'.v <= current
      BY <3>1, StudentTypes
    <3> QED
      BY <1>4, <2>1, <3>1, <3>2, Accepted, StudentTypes DEF PrepareStart, SnapshotsKept, BuildKept
  <2>2. CASE PrepareRead
    <3>1. build' = [build EXCEPT !.at = "write", !.p = current] /\ build.at = "read" /\ snap' = snap
      BY <2>2 DEF PrepareRead
    <3>2. current \in 0 .. MaxPapers
      BY StudentTypes
    <3>3. /\ build' \in Builds /\ build'.at = "write" /\ build'.v = build.v /\ build'.p = current
      BY <1>4, <3>1, <3>2
    <3> QED
      BY <1>4, <2>2, <3>1, <3>3, StudentTypes DEF PrepareRead, SnapshotsKept, BuildKept
  <2>3. CASE PrepareWrite
    <3>1. /\ build' \in Builds /\ build.at = "write" /\ build'.at = "verify" /\ build'.v = build.v
          /\ build'.p = build.p /\ snap' = [snap EXCEPT ![build.v] = build.p]
      BY <1>4, <2>3, StudentTypes DEF PrepareWrite
    <3> QED
      BY <1>4, <2>3, <3>1, StudentTypes DEF PrepareWrite, SnapshotsKept, BuildKept
  <2>4. CASE PrepareVerify
    <3>1. /\ build' \in Builds /\ build'.at = "idle" 
          /\ snap' = snap \/ snap' = [snap EXCEPT ![build.v] = 0]
      BY <1>4, <2>4, StudentTypes DEF PrepareVerify, NoBuild
    <3> QED
      BY <1>4, <2>4, <3>1, StudentTypes DEF PrepareVerify, SnapshotsKept, BuildKept
  <2>5. ASSUME NEW S \in SUBSET PaperNumbers, Evict(S)
        PROVE  /\ build' \in Builds /\ snap' \in [PaperNumbers -> 0 .. MaxPapers]
               /\ requests' \in 0 .. MaxRequests /\ SnapshotsKept' /\ BuildKept'
    BY <1>4, <2>5, Accepted, StudentTypes DEF Evict, SnapshotsKept, BuildKept
  <2> QED
    BY <2>1, <2>2, <2>3, <2>4, <2>5 DEF CacheNext
<1>6. PaperTypeOK'
  BY <1>2, <1>5 DEF PaperTypeOK, CacheNext, PrepareStart, PrepareRead, PrepareWrite, PrepareVerify, Evict,
     paperVars, uploadVars, viewVars
<1> QED
  BY <1>1, <1>3, <1>5, <1>6 DEF ReadInv

\* What a request of a student changes: of that student only
Changed(s) ==
    /\ visit' \in [Students -> VisitRecords] /\ attempt' \in [Students -> AttemptRecords]
    /\ snap' \in [PaperNumbers -> 0 .. MaxPapers]
    /\ blank' \subseteq Students /\ replaced' \subseteq Students
    /\ requests' \in 0 .. MaxRequests
    /\ \A t \in Students \ {s} :
        /\ visit'[t] = visit[t] /\ attempt'[t] = attempt[t]
        /\ t \in blank' <=> t \in blank
        /\ t \in replaced' <=> t \in replaced
    /\ SnapshotsKept' /\ StudentKept(s)'

\* The steps of the requests

\* The access check of a start notes the version of the schedule.
LEMMA StartAccessChanges ==
    ASSUME PaperTypeOK, ReadInv, NEW s \in Students, StartAccess(s)
    PROVE  Changed(s)
<1> DEFINE R == [do |-> "questions", v |-> scheduled, p |-> 0]
<1>1. /\ visit[s] \in VisitRecords /\ attempt[s] \in AttemptRecords /\ StudentKept(s)
      /\ visit[s].do = "idle" /\ ~attempt[s].in
  BY StudentTypes DEF StartAccess, ReadInv, NoVisit
<1>2. R \in VisitRecords /\ R.do = "questions" /\ R.v = scheduled /\ R.p = 0
  BY <1>1, StudentTypes DEF VisitRecords, AttemptRecords, Visits
<1>3. visit'[s] = R /\ \A t \in Students \ {s} : visit'[t] = visit[t]
  BY <1>1, StudentTypes DEF StartAccess, NoVisit
<1>4. visit' \in [Students -> VisitRecords]
  BY <1>2, <1>3, StudentTypes DEF StartAccess
<1>5. attempt' = attempt
  BY DEF StartAccess, viewVars
<1>6. /\ blank' = blank
      /\ replaced' = replaced \ {s} /\ current' = current
      /\ snap' = snap
      /\ requests' \in 0 .. MaxRequests
  BY StudentTypes, Accepted DEF StartAccess, viewVars, paperVars
<1>7. SnapshotsKept' /\ snap' \in [PaperNumbers -> 0 .. MaxPapers]
  BY <1>1, <1>6, StudentTypes DEF SnapshotsKept, ReadInv
<1>8. StudentKept(s)'
  BY <1>1, <1>2, <1>3, <1>4, <1>5, <1>6, StudentTypes DEF StudentKept, VisitRecords, AttemptRecords
<1> HIDE DEF R
<1> QED
  BY <1>3, <1>4, <1>5, <1>6, <1>7, <1>8, StudentTypes DEF Changed

\* The start reads the current paper.
LEMMA StartReadChanges ==
    ASSUME PaperTypeOK, ReadInv, NEW s \in Students, StartRead(s)
    PROVE  Changed(s)
<1> DEFINE R == [visit[s] EXCEPT !.do = "insert", !.p = current]
<1>1. /\ visit[s] \in VisitRecords /\ attempt[s] \in AttemptRecords /\ StudentKept(s)
      /\ visit[s].do = "questions"
  BY StudentTypes DEF StartRead, ReadInv, NoVisit
<1>2. R \in VisitRecords /\ R.do = "insert" /\ R.v = visit[s].v /\ R.p = current
  BY <1>1, StudentTypes DEF VisitRecords, AttemptRecords, Visits
<1>3. visit'[s] = R /\ \A t \in Students \ {s} : visit'[t] = visit[t]
  BY <1>1, StudentTypes DEF StartRead, NoVisit
<1>4. visit' \in [Students -> VisitRecords]
  BY <1>2, <1>3, StudentTypes DEF StartRead
<1>5. attempt' = attempt
  BY DEF StartRead, viewVars
<1>6. /\ blank' = blank
      /\ replaced' = replaced /\ current' = current
      /\ snap' = snap
      /\ requests' \in 0 .. MaxRequests
  BY StudentTypes DEF StartRead, viewVars, paperVars
<1>7. SnapshotsKept' /\ snap' \in [PaperNumbers -> 0 .. MaxPapers]
  BY <1>1, <1>6, StudentTypes DEF SnapshotsKept, ReadInv
<1>8. StudentKept(s)'
  BY <1>1, <1>2, <1>3, <1>4, <1>5, <1>6, StudentTypes DEF StudentKept, VisitRecords, AttemptRecords
<1> HIDE DEF R
<1> QED
  BY <1>3, <1>4, <1>5, <1>6, <1>7, <1>8, StudentTypes DEF Changed

\* The attempt is created with the version that was noted.
LEMMA StartInsertChanges ==
    ASSUME PaperTypeOK, ReadInv, NEW s \in Students, StartInsert(s)
    PROVE  Changed(s)
<1> DEFINE R == [do |-> "idle", v |-> 0, p |-> 0]
<1>1. /\ visit[s] \in VisitRecords /\ attempt[s] \in AttemptRecords /\ StudentKept(s)
      /\ visit[s].do = "insert"
  BY StudentTypes DEF StartInsert, ReadInv, NoVisit
<1>2. R \in VisitRecords /\ R.do = "idle" /\ R.v = 0 /\ R.p = 0
  BY <1>1, StudentTypes DEF VisitRecords, AttemptRecords, Visits
<1>3. visit'[s] = R /\ \A t \in Students \ {s} : visit'[t] = visit[t]
  BY <1>1, StudentTypes DEF StartInsert, NoVisit
<1>4. visit' \in [Students -> VisitRecords]
  BY <1>2, <1>3, StudentTypes DEF StartInsert
<1> DEFINE A == IF visit[s].p = current THEN [in |-> TRUE, v |-> visit[s].v, p |-> current] ELSE attempt[s]
<1>5. /\ attempt'[s] = A /\ A \in AttemptRecords /\ \A t \in Students \ {s} : attempt'[t] = attempt[t]
      /\ attempt' \in [Students -> AttemptRecords]
  BY <1>1, StudentTypes DEF StartInsert, VisitRecords, AttemptRecords
<1>6. /\ blank' = blank
      /\ replaced' = replaced /\ current' = current
      /\ snap' = snap
      /\ requests' \in 0 .. MaxRequests
  BY StudentTypes DEF StartInsert, viewVars, paperVars
<1>7. SnapshotsKept' /\ snap' \in [PaperNumbers -> 0 .. MaxPapers]
  BY <1>1, <1>6, StudentTypes DEF SnapshotsKept, ReadInv
<1>8. StudentKept(s)'
  BY <1>1, <1>2, <1>3, <1>4, <1>5, <1>6, StudentTypes DEF StudentKept, VisitRecords, AttemptRecords
<1> HIDE DEF R, A
<1> QED
  BY <1>3, <1>4, <1>5, <1>6, <1>7, <1>8, StudentTypes DEF Changed

\* A resumed attempt goes by the version of the schedule.
LEMMA ResumeChanges ==
    ASSUME PaperTypeOK, ReadInv, NEW s \in Students, Resume(s)
    PROVE  Changed(s)
<1> DEFINE R == [do |-> "ensure", v |-> scheduled, p |-> 0]
<1>1. /\ visit[s] \in VisitRecords /\ attempt[s] \in AttemptRecords /\ StudentKept(s)
      /\ visit[s].do = "idle" /\ attempt[s].in
  BY StudentTypes DEF Resume, ReadInv, NoVisit
<1>2. R \in VisitRecords /\ R.do = "ensure" /\ R.v = scheduled /\ R.p = 0
  BY <1>1, StudentTypes DEF VisitRecords, AttemptRecords, Visits
<1>3. visit'[s] = R /\ \A t \in Students \ {s} : visit'[t] = visit[t]
  BY <1>1, StudentTypes DEF Resume, NoVisit
<1>4. visit' \in [Students -> VisitRecords]
  BY <1>2, <1>3, StudentTypes DEF Resume
<1> DEFINE A == [attempt[s] EXCEPT !.v = scheduled]
<1>5. /\ attempt'[s] = A /\ A \in AttemptRecords /\ \A t \in Students \ {s} : attempt'[t] = attempt[t]
      /\ attempt' \in [Students -> AttemptRecords]
      /\ A.in = attempt[s].in /\ A.v = scheduled /\ A.p = attempt[s].p
  <2>1. A \in AttemptRecords /\ A.in = attempt[s].in /\ A.v = scheduled /\ A.p = attempt[s].p
    BY <1>1, StudentTypes DEF AttemptRecords, StudentKept
  <2>2. attempt'[s] = A /\ \A t \in Students \ {s} : attempt'[t] = attempt[t]
    BY <1>1, StudentTypes DEF Resume
  <2> QED
    BY <2>1, <2>2, StudentTypes DEF Resume
<1>6. /\ blank' = blank \ {s}
      /\ replaced' = replaced \ {s} /\ current' = current
      /\ snap' = snap
      /\ requests' \in 0 .. MaxRequests
  BY StudentTypes, Accepted DEF Resume, viewVars, paperVars
<1>7. SnapshotsKept' /\ snap' \in [PaperNumbers -> 0 .. MaxPapers]
  BY <1>1, <1>6, StudentTypes DEF SnapshotsKept, ReadInv
<1>8. StudentKept(s)'
  BY <1>1, <1>2, <1>3, <1>4, <1>5, <1>6, StudentTypes DEF StudentKept, VisitRecords, AttemptRecords
<1> HIDE DEF R, A
<1> QED
  BY <1>3, <1>4, <1>5, <1>6, <1>7, <1>8, StudentTypes DEF Changed

\* A view of the questions goes by the version of the attempt.
LEMMA ViewQuestionsChanges ==
    ASSUME PaperTypeOK, ReadInv, NEW s \in Students, ViewQuestions(s)
    PROVE  Changed(s)
<1> DEFINE R == [do |-> "ensure", v |-> attempt[s].v, p |-> 0]
<1>1. /\ visit[s] \in VisitRecords /\ attempt[s] \in AttemptRecords /\ StudentKept(s)
      /\ visit[s].do = "idle" /\ attempt[s].in
  BY StudentTypes DEF ViewQuestions, ReadInv, NoVisit
<1>2. R \in VisitRecords /\ R.do = "ensure" /\ R.v = attempt[s].v /\ R.p = 0
  BY <1>1, StudentTypes DEF VisitRecords, AttemptRecords, Visits
<1>3. visit'[s] = R /\ \A t \in Students \ {s} : visit'[t] = visit[t]
  BY <1>1, StudentTypes DEF ViewQuestions, NoVisit
<1>4. visit' \in [Students -> VisitRecords]
  BY <1>2, <1>3, StudentTypes DEF ViewQuestions
<1>5. attempt' = attempt
  BY DEF ViewQuestions, viewVars
<1>6. /\ blank' = blank
      /\ replaced' = replaced /\ current' = current
      /\ snap' = snap
      /\ requests' \in 0 .. MaxRequests
  BY StudentTypes, Accepted DEF ViewQuestions, viewVars, paperVars
<1>7. SnapshotsKept' /\ snap' \in [PaperNumbers -> 0 .. MaxPapers]
  BY <1>1, <1>6, StudentTypes DEF SnapshotsKept, ReadInv
<1>8. StudentKept(s)'
  BY <1>1, <1>2, <1>3, <1>4, <1>5, <1>6, StudentTypes DEF StudentKept, VisitRecords, AttemptRecords
<1> HIDE DEF R
<1> QED
  BY <1>3, <1>4, <1>5, <1>6, <1>7, <1>8, StudentTypes DEF Changed

\* The key of the version is asked for.
LEMMA EnsureChanges ==
    ASSUME PaperTypeOK, ReadInv, NEW s \in Students, Ensure(s)
    PROVE  Changed(s)
<1> DEFINE R == [visit[s] EXCEPT !.do = "look"]
<1>1. /\ visit[s] \in VisitRecords /\ attempt[s] \in AttemptRecords /\ StudentKept(s)
      /\ visit[s].do = "ensure"
  BY StudentTypes DEF Ensure, ReadInv, NoVisit
<1>2. R \in VisitRecords /\ R.do = "look" /\ R.v = visit[s].v /\ R.p = visit[s].p
  BY <1>1, StudentTypes DEF VisitRecords, AttemptRecords, Visits
<1>3. visit'[s] = R /\ \A t \in Students \ {s} : visit'[t] = visit[t]
  BY <1>1, StudentTypes DEF Ensure, NoVisit
<1>4. visit' \in [Students -> VisitRecords]
  BY <1>2, <1>3, StudentTypes DEF Ensure
<1> DEFINE A == [attempt[s] EXCEPT !.p = IF attempt[s].p = 0 THEN current ELSE attempt[s].p]
<1>5. /\ attempt'[s] = A /\ A \in AttemptRecords /\ \A t \in Students \ {s} : attempt'[t] = attempt[t]
      /\ attempt' \in [Students -> AttemptRecords]
      /\ A.in = attempt[s].in /\ A.v = attempt[s].v /\ A.p = current
  <2>1. A \in AttemptRecords /\ A.in = attempt[s].in /\ A.v = attempt[s].v /\ A.p = current
    BY <1>1, StudentTypes DEF AttemptRecords, StudentKept
  <2>2. attempt'[s] = A /\ \A t \in Students \ {s} : attempt'[t] = attempt[t]
    BY <1>1, StudentTypes DEF Ensure
  <2> QED
    BY <2>1, <2>2, StudentTypes DEF Ensure
<1>6. /\ blank' = blank
      /\ replaced' = replaced /\ current' = current
      /\ snap' = snap
      /\ requests' \in 0 .. MaxRequests
  BY StudentTypes DEF Ensure, viewVars, paperVars
<1>7. SnapshotsKept' /\ snap' \in [PaperNumbers -> 0 .. MaxPapers]
  BY <1>1, <1>6, StudentTypes DEF SnapshotsKept, ReadInv
<1>8. StudentKept(s)'
  BY <1>1, <1>2, <1>3, <1>4, <1>5, <1>6, StudentTypes DEF StudentKept, VisitRecords, AttemptRecords
<1> HIDE DEF R, A
<1> QED
  BY <1>3, <1>4, <1>5, <1>6, <1>7, <1>8, StudentTypes DEF Changed

\* The request takes the paper of the key when there is one.
LEMMA LookChanges ==
    ASSUME PaperTypeOK, ReadInv, NEW s \in Students, Look(s)
    PROVE  Changed(s)
<1> DEFINE R == [visit[s] EXCEPT !.do = IF snap[visit[s].v] # 0 THEN "serve" ELSE "build", !.p = snap[visit[s].v]]
<1>1. /\ visit[s] \in VisitRecords /\ attempt[s] \in AttemptRecords /\ StudentKept(s)
      /\ visit[s].do = "look"
  BY StudentTypes DEF Look, ReadInv, NoVisit
<1>2. R \in VisitRecords /\ R.do = (IF snap[visit[s].v] # 0 THEN "serve" ELSE "build")
      /\ R.v = visit[s].v /\ R.p = snap[visit[s].v]
  <2>1. visit[s].v \in 1 .. MaxPapers
    BY <1>1, StudentTypes DEF StudentKept, VisitRecords
  <2>2. snap[visit[s].v] \in 0 .. MaxPapers
    BY <2>1, StudentTypes
  <2>3. (IF snap[visit[s].v] # 0 THEN "serve" ELSE "build") \in Visits
    BY DEF Visits
  <2> QED
    BY <1>1, <2>2, <2>3, StudentTypes DEF VisitRecords
<1>3. visit'[s] = R /\ \A t \in Students \ {s} : visit'[t] = visit[t]
  BY <1>1, StudentTypes DEF Look, NoVisit
<1>4. visit' \in [Students -> VisitRecords]
  BY <1>2, <1>3, StudentTypes DEF Look
<1>5. attempt' = attempt
  BY DEF Look, viewVars
<1>6. /\ blank' = blank
      /\ replaced' = replaced /\ current' = current
      /\ snap' = snap
      /\ requests' \in 0 .. MaxRequests
  BY StudentTypes DEF Look, viewVars, paperVars
<1>7. SnapshotsKept' /\ snap' \in [PaperNumbers -> 0 .. MaxPapers]
  BY <1>1, <1>6, StudentTypes DEF SnapshotsKept, ReadInv
<1>8. StudentKept(s)'
  BY <1>1, <1>2, <1>3, <1>4, <1>5, <1>6, StudentTypes DEF StudentKept, VisitRecords, AttemptRecords, SnapshotsKept, ReadInv
<1> HIDE DEF R
<1> QED
  BY <1>3, <1>4, <1>5, <1>6, <1>7, <1>8, StudentTypes DEF Changed

\* The request takes the current paper when there is no key.
LEMMA RebuildChanges ==
    ASSUME PaperTypeOK, ReadInv, NEW s \in Students, Rebuild(s)
    PROVE  Changed(s)
<1> DEFINE R == [visit[s] EXCEPT !.do = "store", !.p = current]
<1>1. /\ visit[s] \in VisitRecords /\ attempt[s] \in AttemptRecords /\ StudentKept(s)
      /\ visit[s].do = "build"
  BY StudentTypes DEF Rebuild, ReadInv, NoVisit
<1>2. R \in VisitRecords /\ R.do = "store" /\ R.v = visit[s].v /\ R.p = current
  BY <1>1, StudentTypes DEF VisitRecords, AttemptRecords, Visits
<1>3. visit'[s] = R /\ \A t \in Students \ {s} : visit'[t] = visit[t]
  BY <1>1, StudentTypes DEF Rebuild, NoVisit
<1>4. visit' \in [Students -> VisitRecords]
  BY <1>2, <1>3, StudentTypes DEF Rebuild
<1>5. attempt' = attempt
  BY DEF Rebuild, viewVars
<1>6. /\ blank' = blank
      /\ replaced' = replaced /\ current' = current
      /\ snap' = snap
      /\ requests' \in 0 .. MaxRequests
  BY StudentTypes DEF Rebuild, viewVars, paperVars
<1>7. SnapshotsKept' /\ snap' \in [PaperNumbers -> 0 .. MaxPapers]
  BY <1>1, <1>6, StudentTypes DEF SnapshotsKept, ReadInv
<1>8. StudentKept(s)'
  BY <1>1, <1>2, <1>3, <1>4, <1>5, <1>6, StudentTypes DEF StudentKept, VisitRecords, AttemptRecords
<1> HIDE DEF R
<1> QED
  BY <1>3, <1>4, <1>5, <1>6, <1>7, <1>8, StudentTypes DEF Changed

\* The request writes the key of the version it goes by.
LEMMA StoreChanges ==
    ASSUME PaperTypeOK, ReadInv, NEW s \in Students, Store(s)
    PROVE  Changed(s)
<1> DEFINE R == [visit[s] EXCEPT !.do = "serve"]
<1>1. /\ visit[s] \in VisitRecords /\ attempt[s] \in AttemptRecords /\ StudentKept(s)
      /\ visit[s].do = "store"
  BY StudentTypes DEF Store, ReadInv, NoVisit
<1>2. R \in VisitRecords /\ R.do = "serve" /\ R.v = visit[s].v /\ R.p = visit[s].p
  BY <1>1, StudentTypes DEF VisitRecords, AttemptRecords, Visits
<1>3. visit'[s] = R /\ \A t \in Students \ {s} : visit'[t] = visit[t]
  BY <1>1, StudentTypes DEF Store, NoVisit
<1>4. visit' \in [Students -> VisitRecords]
  BY <1>2, <1>3, StudentTypes DEF Store
<1>5. attempt' = attempt
  BY DEF Store, viewVars
<1>6. /\ blank' = blank
      /\ replaced' = replaced /\ current' = current
      /\ snap' = [snap EXCEPT ![visit[s].v] = visit[s].p]
      /\ requests' \in 0 .. MaxRequests
  BY StudentTypes DEF Store, viewVars, paperVars
<1>7. SnapshotsKept' /\ snap' \in [PaperNumbers -> 0 .. MaxPapers]
  BY <1>1, <1>6, StudentTypes DEF SnapshotsKept, ReadInv, StudentKept, VisitRecords
<1>8. StudentKept(s)'
  BY <1>1, <1>2, <1>3, <1>4, <1>5, <1>6, StudentTypes DEF StudentKept, VisitRecords, AttemptRecords, SnapshotsKept, ReadInv
<1> HIDE DEF R
<1> QED
  BY <1>3, <1>4, <1>5, <1>6, <1>7, <1>8, StudentTypes DEF Changed

\* The request ends with its paper.
LEMMA ServeChanges ==
    ASSUME PaperTypeOK, ReadInv, NEW s \in Students, Serve(s)
    PROVE  Changed(s)
<1> DEFINE R == [do |-> "idle", v |-> 0, p |-> 0]
<1>1. /\ visit[s] \in VisitRecords /\ attempt[s] \in AttemptRecords /\ StudentKept(s)
      /\ visit[s].do = "serve"
  BY StudentTypes DEF Serve, ReadInv, NoVisit
<1>2. R \in VisitRecords /\ R.do = "idle" /\ R.v = 0 /\ R.p = 0
  BY <1>1, StudentTypes DEF VisitRecords, AttemptRecords, Visits
<1>3. visit'[s] = R /\ \A t \in Students \ {s} : visit'[t] = visit[t]
  BY <1>1, StudentTypes DEF Serve, NoVisit
<1>4. visit' \in [Students -> VisitRecords]
  BY <1>2, <1>3, StudentTypes DEF Serve
<1>5. attempt' = attempt
  BY DEF Serve, viewVars
<1>6. /\ blank' = IF attempt[s].p # 0 /\ visit[s].p = attempt[s].p THEN blank \ {s} ELSE blank \cup {s}
      /\ replaced' = replaced /\ current' = current
      /\ snap' = snap
      /\ requests' \in 0 .. MaxRequests
  BY StudentTypes DEF Serve, viewVars, paperVars
<1>7. SnapshotsKept' /\ snap' \in [PaperNumbers -> 0 .. MaxPapers]
  BY <1>1, <1>6, StudentTypes DEF SnapshotsKept, ReadInv
<1>8. StudentKept(s)'
  BY <1>1, <1>2, <1>3, <1>4, <1>5, <1>6, StudentTypes DEF StudentKept, VisitRecords, AttemptRecords
<1> HIDE DEF R
<1> QED
  BY <1>3, <1>4, <1>5, <1>6, <1>7, <1>8, StudentTypes DEF Changed

\* The requests of a student
LEMMA StudentKeeps ==
    ASSUME PaperInv, NEW s \in Students, StudentNext(s)
    PROVE  PaperInv'
<1> USE DEF PaperInv
<1>1. UploadInv'
  BY UploadsStay DEF StudentNext, StartAccess, StartRead, StartInsert, Resume, ViewQuestions, Ensure,
     Look, Rebuild, Store, Serve, uploadVars, paperVars
<1>2. UNCHANGED <<paperVars, build, uploadVars, task, errors, reruns>>
  BY DEF StudentNext, StartAccess, StartRead, StartInsert, Resume, ViewQuestions, Ensure,
     Look, Rebuild, Store, Serve
<1>3. Changed(s)
  BY StartAccessChanges, StartReadChanges, StartInsertChanges, ResumeChanges, ViewQuestionsChanges,
     EnsureChanges, LookChanges, RebuildChanges, StoreChanges, ServeChanges DEF StudentNext
<1>4. VersionsKept' /\ BuildKept'
  BY <1>2 DEF ReadInv, VersionsKept, BuildKept, paperVars
<1>5. PaperTypeOK'
  BY <1>2, <1>3 DEF PaperTypeOK, Changed, paperVars, uploadVars, VisitRecords, AttemptRecords
<1>6. ASSUME NEW t \in Students PROVE StudentKept(t)'
  <2>1. CASE t = s
    BY <1>3, <2>1 DEF Changed
  <2>2. CASE t # s
    <3>1. /\ visit'[t] = visit[t] /\ attempt'[t] = attempt[t] /\ current' = current
          /\ t \in blank' <=> t \in blank
          /\ t \in replaced' <=> t \in replaced
      BY <1>2, <1>3, <2>2 DEF Changed, paperVars
    <3>2. StudentKept(t)
      BY DEF ReadInv
    <3> QED
      BY <3>1, <3>2 DEF StudentKept
  <2> QED
    BY <2>1, <2>2
<1> QED
  BY <1>1, <1>3, <1>4, <1>5, <1>6 DEF ReadInv, Changed

-----------------------------------------------------------------------------
(* The paper is replaced *)

\* The types that the uploads meet
UploadTypes ==
    /\ upload \in [Uploads -> UploadStatuses] /\ importJob \in [Uploads -> JobStates]
    /\ cause \in [Uploads -> Causes] /\ task \in [Uploaders -> [do : Tasks, on : 0 .. MaxUploads]]
    /\ sound \subseteq Uploads /\ doubled \in BOOLEAN /\ aged \subseteq Uploads
    /\ errors \in 0 .. MaxErrors /\ requests \in 0 .. MaxRequests

\* The types that the imports meet
LEMMA TypesOfUploads ==
    PaperTypeOK => /\ UploadTypes /\ version \in Nat /\ reruns \in Nat /\ errors \in Nat
                   /\ 0 \in 0 .. MaxUploads /\ \A i \in Uploads : i \in 0 .. MaxUploads
BY PaperAssumption DEF PaperTypeOK, UploadTypes, PaperNumbers, Uploads

\* Steps that leave the paper alone have to keep the types of the uploads.
LEMMA TypesStay ==
    ASSUME PaperTypeOK, UploadTypes', UNCHANGED <<paperVars, snap, build, viewVars, reruns>>
    PROVE  PaperTypeOK'
BY DEF PaperTypeOK, UploadTypes, paperVars, viewVars

\* A live job is of an upload that is being processed or was completed.
LEMMA LiveUploads ==
    ASSUME UploadTypes, UploadsKept, NEW i \in LiveJobs
    PROVE  i \in Uploads /\ upload[i] \in {"PROCESSING", "COMPLETED"}
BY DEF UploadTypes, UploadsKept, LiveJobs, UploadStatuses

\* Any set of uploads is finite, so that it can be counted.
LEMMA UploadsFinite ==
    ASSUME NEW S \in SUBSET Uploads
    PROVE  IsFiniteSet(S) /\ Cardinality(S) \in Nat
<1>1. IsFiniteSet(Uploads)
  BY PaperAssumption, FS_Interval DEF Uploads
<1> QED
  BY <1>1, FS_Subset, FS_CardinalityType

\* Nothing is completed or carried out again by a step of a request.
LEMMA RunsStay ==
    ASSUME RunsKept, UNCHANGED <<version, reruns, errors>>, Running' = Running,
           Completed' = Completed, Again' = Again
    PROVE  RunsKept'
BY DEF RunsKept

\* A request is checked: nothing else is under way unless it is on record.
LEMMA SubmitUploadKeeps ==
    ASSUME PaperInv, NEW u \in Uploaders, SubmitUpload(u)
    PROVE  PaperInv'
<1> USE DEF PaperInv
<1>1. /\ task[u] = NoTask /\ task'[u].do = "create" /\ \A w \in Uploaders \ {u} : task'[w] = task[w]
      /\ task' \in [Uploaders -> [do : Tasks, on : 0 .. MaxUploads]]
      /\ UNCHANGED <<upload, importJob, cause, sound, aged, errors, reruns, version>>
      /\ requests' \in 0 .. MaxRequests /\ doubled' \in BOOLEAN
  <2>1. [task[u] EXCEPT !.do = "create"] \in [do : Tasks, on : 0 .. MaxUploads]
    BY TypesOfUploads DEF UploadTypes, Tasks
  <2> QED
    BY <2>1, TypesOfUploads, Accepted, PaperAssumption DEF SubmitUpload, UploadTypes, paperVars
<1>2. UNCHANGED <<paperVars, snap, build, viewVars>>
  BY DEF SubmitUpload
<1>3. PaperTypeOK'
  BY <1>1, <1>2, TypesOfUploads, TypesStay DEF UploadTypes
<1>4. ReadInv'
  BY <1>2, ReadStays
<1>5. UploadsKept' /\ RunsKept'
  BY <1>1, RunsStay DEF UploadInv, UploadsKept, Completed, Again, Running
<1>6. UploadTracked'
  BY <1>1 DEF UploadInv, UploadTracked, Processing, LiveJobs, NoTask
<1>7. TasksKept'
  BY <1>1 DEF UploadInv, TasksKept
<1>8. AloneKept'
  <2>1. CASE doubled'
    BY <2>1 DEF AloneKept
  <2>2. CASE ~doubled'
    <3>1. ~doubled /\ Processing \cap aged = {} /\ \A w \in Uploaders \ {u} : task[w].do # "create"
      BY <2>2 DEF SubmitUpload
    <3>2. Processing = {}
      <4>1. SUFFICES ASSUME Processing # {} PROVE FALSE
        OBVIOUS
      <4>2. Newest(Processing) \in Processing /\ \A k \in Processing : k <= Newest(Processing)
        BY <4>1, NewestExists DEF Processing
      <4> QED
        BY <3>1, <4>2 DEF SubmitUpload, MaySubmit
    <3>3. \A i \in LiveJobs : upload[i] = "COMPLETED"
      BY <3>2, LiveUploads, TypesOfUploads DEF UploadInv, Processing
    <3>4. \A w \in Uploaders : task[w].do # "enqueue"
      BY <3>2 DEF UploadInv, TasksKept, Processing
    <3> QED
      BY <1>1, <3>1, <3>3, <3>4 DEF AloneKept, LiveJobs
  <2> QED
    BY <1>1, <2>1, <2>2
<1> QED
  BY <1>3, <1>4, <1>5, <1>6, <1>7, <1>8 DEF UploadInv

\* The row is inserted,
LEMMA CreateUploadKeeps ==
    ASSUME PaperInv, NEW u \in Uploaders, NEW valid \in BOOLEAN, CreateUpload(u, valid)
    PROVE  PaperInv'
<1> USE DEF PaperInv
<1> DEFINE i == Oldest(FreeUploads)
<1>1. i \in Uploads /\ upload[i] = "NONE"
  BY OldestExists DEF CreateUpload, FreeUploads
<1> HIDE DEF i
<1>2. /\ task[u].do = "create" /\ task'[u] = [do |-> "enqueue", on |-> i]
      /\ \A w \in Uploaders \ {u} : task'[w] = task[w]
      /\ task' \in [Uploaders -> [do : Tasks, on : 0 .. MaxUploads]]
      /\ upload' \in [Uploads -> UploadStatuses] /\ upload'[i] = "PROCESSING"
      /\ \A k \in Uploads \ {i} : upload'[k] = upload[k]
      /\ UNCHANGED <<importJob, cause, doubled, aged, errors, reruns, version, requests>>
      /\ sound \subseteq sound' /\ sound' \subseteq Uploads
  <2>1. [do |-> "enqueue", on |-> i] \in [do : Tasks, on : 0 .. MaxUploads]
    BY <1>1, TypesOfUploads DEF Tasks
  <2>2. /\ task[u].do = "create" /\ task' = [task EXCEPT ![u] = [do |-> "enqueue", on |-> i]]
        /\ upload' = [upload EXCEPT ![i] = "PROCESSING"]
        /\ sound' = IF valid THEN sound \cup {i} ELSE sound
        /\ UNCHANGED <<importJob, cause, doubled, aged, errors, reruns, version, requests>>
    BY DEF CreateUpload, i, paperVars
  <2> QED
    BY <1>1, <2>1, <2>2, TypesOfUploads DEF UploadTypes, UploadStatuses
<1>3. UNCHANGED <<paperVars, snap, build, viewVars>>
  BY DEF CreateUpload
<1>4. PaperTypeOK'
  BY <1>2, <1>3, TypesOfUploads, TypesStay DEF UploadTypes
<1>5. ReadInv'
  BY <1>3, ReadStays
<1>6. importJob[i] = "none"
  BY <1>1 DEF UploadInv, UploadsKept
<1>7. UploadsKept'
  BY <1>1, <1>2, <1>6 DEF UploadInv, UploadsKept
<1>8. RunsKept'
  <2>1. Completed' = Completed
    BY <1>1, <1>2 DEF Completed
  <2> QED
    BY <1>2, <2>1, RunsStay DEF UploadInv, Again, Running
<1>9. UploadTracked'
  BY <1>1, <1>2 DEF UploadInv, UploadTracked, Processing, LiveJobs
<1>10. TasksKept'
  BY <1>1, <1>2, <1>6 DEF UploadInv, TasksKept
<1>11. AloneKept'
  BY <1>1, <1>2, <1>6 DEF UploadInv, AloneKept, LiveJobs
<1> QED
  BY <1>4, <1>5, <1>7, <1>8, <1>9, <1>10, <1>11 DEF UploadInv

\* and the job is added, or the queue fails.
LEMMA EnqueueUploadKeeps ==
    ASSUME PaperInv, NEW u \in Uploaders, EnqueueUpload(u)
    PROVE  PaperInv'
<1> USE DEF PaperInv
<1> DEFINE i == task[u].on
<1>1. i \in Uploads /\ importJob[i] = "none" /\ upload[i] = "PROCESSING"
  BY DEF EnqueueUpload, UploadInv, TasksKept
<1> HIDE DEF i
<1>2. /\ task[u].do = "enqueue" /\ task[u].on = i /\ task'[u] = NoTask
      /\ \A w \in Uploaders \ {u} : task'[w] = task[w]
      /\ task' \in [Uploaders -> [do : Tasks, on : 0 .. MaxUploads]]
      /\ importJob' \in [Uploads -> JobStates] /\ cause' \in [Uploads -> Causes]
      /\ errors' \in 0 .. MaxErrors /\ errors <= errors'
      /\ \A k \in Uploads \ {i} : importJob'[k] = importJob[k] /\ cause'[k] = cause[k]
      /\ importJob'[i] = "waiting" \/ (importJob'[i] = "none" /\ cause'[i] = "queueError")
      /\ UNCHANGED <<upload, sound, doubled, aged, reruns, version, requests>>
  <2>1. NoTask \in [do : Tasks, on : 0 .. MaxUploads]
    BY TypesOfUploads DEF NoTask, Tasks
  <2>2. /\ task[u].do = "enqueue" /\ task[u].on = i /\ task' = [task EXCEPT ![u] = NoTask]
        /\ UNCHANGED <<upload, sound, doubled, aged, reruns, version, requests>>
    BY DEF EnqueueUpload, i, paperVars
  <2>3. /\ importJob' \in [Uploads -> JobStates] /\ cause' \in [Uploads -> Causes]
        /\ errors' \in 0 .. MaxErrors /\ errors <= errors'
        /\ \A k \in Uploads \ {i} : importJob'[k] = importJob[k] /\ cause'[k] = cause[k]
        /\ importJob'[i] = "waiting" \/ (importJob'[i] = "none" /\ cause'[i] = "queueError")
    <3>1. CASE importJob' = [importJob EXCEPT ![i] = "waiting"] /\ UNCHANGED <<cause, errors>>
      BY <1>1, <3>1, TypesOfUploads DEF UploadTypes, JobStates
    <3>2. CASE /\ errors < MaxErrors /\ errors' = errors + 1
               /\ cause' = [cause EXCEPT ![i] = "queueError"] /\ importJob' = importJob
      BY <1>1, <3>2, TypesOfUploads, PaperAssumption DEF UploadTypes, Causes
    <3> QED
      BY <3>1, <3>2 DEF EnqueueUpload, i
  <2> QED
    BY <2>1, <2>2, <2>3, TypesOfUploads DEF UploadTypes
<1>3. UNCHANGED <<paperVars, snap, build, viewVars>>
  BY DEF EnqueueUpload
<1>4. PaperTypeOK'
  BY <1>2, <1>3, TypesOfUploads, TypesStay DEF UploadTypes
<1>5. ReadInv'
  BY <1>3, ReadStays
<1>7. UploadsKept'
  BY <1>1, <1>2 DEF UploadInv, UploadsKept
<1>8. RunsKept'
  <2>1. Completed' = Completed /\ Again' = Again /\ Running' = Running
    BY <1>1, <1>2 DEF Completed, Again, Running
  <2>2. Cardinality(Again) \in Nat /\ reruns \in Nat /\ errors \in Nat /\ errors' \in Nat
    BY <1>2, UploadsFinite, TypesOfUploads, PaperAssumption DEF Again, Completed
  <2> QED
    BY <1>2, <2>1, <2>2 DEF UploadInv, RunsKept
<1>9. UploadTracked'
  <2>1. SUFFICES ASSUME NEW k \in Uploads, upload'[k] = "PROCESSING"
                 PROVE  \/ k \in LiveJobs'
                        \/ \E w \in Uploaders : task'[w] = [do |-> "enqueue", on |-> k]
                        \/ cause'[k] # "none"
    BY DEF UploadTracked, Processing
  <2>2. CASE k = i
    BY <1>1, <1>2, <2>2 DEF LiveJobs
  <2>3. CASE k # i
    <3>1. \/ k \in LiveJobs \/ cause[k] # "none"
          \/ \E w \in Uploaders : task[w] = [do |-> "enqueue", on |-> k]
      BY <1>2, <2>1 DEF UploadInv, UploadTracked, Processing
    <3>2. \A w \in Uploaders : task[w] = [do |-> "enqueue", on |-> k] => w # u
      BY <1>2, <2>3
    <3> QED
      BY <1>2, <2>3, <3>1, <3>2 DEF LiveJobs
  <2> QED
    BY <2>2, <2>3
<1>10. TasksKept'
  BY <1>1, <1>2 DEF UploadInv, TasksKept, NoTask
<1>11. AloneKept'
  BY <1>1, <1>2 DEF UploadInv, AloneKept, LiveJobs, NoTask
<1> QED
  BY <1>4, <1>5, <1>7, <1>8, <1>9, <1>10, <1>11 DEF UploadInv

-----------------------------------------------------------------------------
(* An upload that failed is retried *)

\* The upload that is retried has failed, and its job is kept.
LEMMA RetryReadKeeps ==
    ASSUME PaperInv, NEW u \in Uploaders, RetryRead(u)
    PROVE  PaperInv'
<1> USE DEF PaperInv
<1> DEFINE failed == {k \in Uploads : upload[k] = "FAILED"}
           i == Newest(failed)
<1>1. i \in Uploads /\ upload[i] = "FAILED" /\ importJob[i] = "failed"
  <2>1. i \in failed
    BY NewestExists DEF RetryRead
  <2> QED
    BY <2>1 DEF UploadInv, UploadsKept
<1>2. task[u] = NoTask /\ task' = [task EXCEPT ![u] = [do |-> "reset", on |-> i]]
  BY DEF RetryRead
<1> HIDE DEF i
<1>3. /\ task'[u] = [do |-> "reset", on |-> i] /\ \A w \in Uploaders \ {u} : task'[w] = task[w]
      /\ task' \in [Uploaders -> [do : Tasks, on : 0 .. MaxUploads]]
      /\ UNCHANGED <<upload, importJob, cause, sound, aged, errors, reruns, version, doubled>>
      /\ requests' \in 0 .. MaxRequests
  <2>1. [do |-> "reset", on |-> i] \in [do : Tasks, on : 0 .. MaxUploads]
    BY <1>1, TypesOfUploads DEF Tasks
  <2> QED
    BY <1>2, <2>1, TypesOfUploads, Accepted, PaperAssumption DEF RetryRead, UploadTypes, paperVars, uploadVars
<1>4. UNCHANGED <<paperVars, snap, build, viewVars>>
  BY DEF RetryRead
<1>5. PaperTypeOK'
  BY <1>3, <1>4, TypesOfUploads, TypesStay DEF UploadTypes
<1>6. ReadInv'
  BY <1>4, ReadStays
<1>7. UploadsKept' /\ RunsKept'
  BY <1>3, RunsStay DEF UploadInv, UploadsKept, Completed, Again, Running
<1>8. UploadTracked'
  BY <1>2, <1>3 DEF UploadInv, UploadTracked, Processing, LiveJobs, NoTask
<1>9. TasksKept'
  BY <1>1, <1>3 DEF UploadInv, TasksKept
<1>10. AloneKept'
  BY <1>3 DEF UploadInv, AloneKept, LiveJobs
<1> QED
  BY <1>5, <1>6, <1>7, <1>8, <1>9, <1>10 DEF UploadInv

\* Its row is reset,
LEMMA RetryResetKeeps ==
    ASSUME PaperInv, NEW u \in Uploaders, RetryReset(u)
    PROVE  PaperInv'
<1> USE DEF PaperInv
<1> DEFINE i == task[u].on
<1>1. i \in Uploads /\ importJob[i] = "failed" /\ upload[i] \in {"FAILED", "PROCESSING"}
  BY DEF RetryReset, UploadInv, TasksKept
<1>2. /\ task[u].do = "reset" /\ task'[u].do = "requeue" /\ task'[u].on = i
      /\ \A w \in Uploaders \ {u} : task'[w] = task[w]
      /\ task' \in [Uploaders -> [do : Tasks, on : 0 .. MaxUploads]]
  <2>1. [task[u] EXCEPT !.do = "requeue"] \in [do : Tasks, on : 0 .. MaxUploads]
    BY TypesOfUploads DEF UploadTypes, Tasks
  <2> QED
    BY <2>1, TypesOfUploads DEF RetryReset, UploadTypes
<1>3. /\ upload' = [upload EXCEPT ![i] = "PROCESSING"] /\ cause' = [cause EXCEPT ![i] = "retried"]
      /\ aged' = aged \ {i}
      /\ UNCHANGED <<sound, importJob, doubled, errors, reruns, version, requests>>
  BY DEF RetryReset, paperVars
<1> HIDE DEF i
<1>4. UNCHANGED <<paperVars, snap, build, viewVars>>
  BY DEF RetryReset
<1>5. /\ upload'[i] = "PROCESSING" /\ cause'[i] = "retried"
      /\ \A k \in Uploads \ {i} : upload'[k] = upload[k] /\ cause'[k] = cause[k]
      /\ upload' \in [Uploads -> UploadStatuses] /\ cause' \in [Uploads -> Causes]
  BY <1>1, <1>3, TypesOfUploads DEF UploadTypes, UploadStatuses, Causes
<1>6. PaperTypeOK'
  BY <1>2, <1>3, <1>4, <1>5, TypesOfUploads, TypesStay DEF UploadTypes
<1>7. ReadInv'
  BY <1>4, ReadStays
<1>8. UploadsKept'
  BY <1>1, <1>3, <1>5 DEF UploadInv, UploadsKept
<1>9. RunsKept'
  <2>1. Completed' = Completed
    BY <1>1, <1>5 DEF Completed
  <2> QED
    BY <1>3, <2>1, RunsStay DEF UploadInv, Again, Running
<1>10. UploadTracked'
  <2>1. SUFFICES ASSUME NEW k \in Uploads, upload'[k] = "PROCESSING", k # i
                 PROVE  \/ k \in LiveJobs'
                        \/ \E w \in Uploaders : task'[w] = [do |-> "enqueue", on |-> k]
                        \/ cause'[k] # "none"
    BY <1>5 DEF UploadTracked, Processing
  <2>2. \/ k \in LiveJobs \/ cause[k] # "none"
        \/ \E w \in Uploaders : task[w] = [do |-> "enqueue", on |-> k]
    BY <1>5, <2>1 DEF UploadInv, UploadTracked, Processing
  <2>3. \A w \in Uploaders : task[w] = [do |-> "enqueue", on |-> k] => w # u
    BY <1>2
  <2> QED
    BY <1>2, <1>3, <1>5, <2>1, <2>2, <2>3 DEF LiveJobs
<1>11. TasksKept'
  BY <1>1, <1>2, <1>3, <1>5 DEF UploadInv, TasksKept
<1>12. AloneKept'
  BY <1>1, <1>2, <1>3, <1>5 DEF UploadInv, AloneKept, LiveJobs
<1> QED
  BY <1>6, <1>7, <1>8, <1>9, <1>10, <1>11, <1>12 DEF UploadInv

\* and the queue ignores its job.
LEMMA RetryRequeueKeeps ==
    ASSUME PaperInv, NEW u \in Uploaders, RetryRequeue(u)
    PROVE  PaperInv'
<1> USE DEF PaperInv
<1>1. task[u].on \in Uploads /\ importJob[task[u].on] = "failed"
  BY DEF RetryRequeue, UploadInv, TasksKept
<1>2. /\ task[u].do = "requeue" /\ task'[u] = NoTask
      /\ \A w \in Uploaders \ {u} : task'[w] = task[w]
      /\ task' \in [Uploaders -> [do : Tasks, on : 0 .. MaxUploads]]
  <2>1. NoTask \in [do : Tasks, on : 0 .. MaxUploads]
    BY TypesOfUploads DEF NoTask, Tasks
  <2> QED
    BY <2>1, TypesOfUploads DEF RetryRequeue, UploadTypes
<1>3. /\ importJob' \in [Uploads -> JobStates] /\ \A k \in Uploads : importJob'[k] = importJob[k]
      /\ UNCHANGED <<upload, aged, sound, doubled, cause, errors, reruns, version, requests>>
  BY <1>1, TypesOfUploads DEF RetryRequeue, UploadTypes, paperVars
<1>4. UNCHANGED <<paperVars, snap, build, viewVars>>
  BY DEF RetryRequeue
<1>5. PaperTypeOK'
  BY <1>2, <1>3, <1>4, TypesOfUploads, TypesStay DEF UploadTypes
<1>6. ReadInv'
  BY <1>4, ReadStays
<1>7. UploadsKept'
  BY <1>3 DEF UploadInv, UploadsKept
<1>8. RunsKept'
  <2>1. Completed' = Completed /\ Again' = Again /\ Running' = Running
    BY <1>3 DEF Completed, Again, Running
  <2> QED
    BY <1>3, <2>1, RunsStay DEF UploadInv
<1>9. UploadTracked'
  <2>1. SUFFICES ASSUME NEW k \in Uploads, upload[k] = "PROCESSING"
                 PROVE  \/ k \in LiveJobs'
                        \/ \E w \in Uploaders : task'[w] = [do |-> "enqueue", on |-> k]
                        \/ cause[k] # "none"
    BY <1>3 DEF UploadTracked, Processing
  <2>2. \/ k \in LiveJobs \/ cause[k] # "none"
        \/ \E w \in Uploaders : task[w] = [do |-> "enqueue", on |-> k]
    BY <2>1 DEF UploadInv, UploadTracked, Processing
  <2>3. k \in LiveJobs => k \in LiveJobs'
    BY <1>3 DEF LiveJobs
  <2>4. \A w \in Uploaders : task[w] = [do |-> "enqueue", on |-> k] => w # u
    BY <1>2
  <2> QED
    BY <1>2, <2>2, <2>3, <2>4
<1>10. TasksKept'
  BY <1>2, <1>3 DEF UploadInv, TasksKept, NoTask
<1>11. AloneKept'
  BY <1>2, <1>3 DEF UploadInv, AloneKept, LiveJobs, NoTask
<1> QED
  BY <1>5, <1>6, <1>7, <1>8, <1>9, <1>10, <1>11 DEF UploadInv

-----------------------------------------------------------------------------
(* The worker *)

\* A step of the worker before the transaction: the job of one upload changes,
\* and it may fail.
Worked(i) ==
    /\ importJob' \in [Uploads -> JobStates] /\ upload' \in [Uploads -> UploadStatuses]
    /\ cause' \in [Uploads -> Causes]
    /\ errors' \in 0 .. MaxErrors /\ errors <= errors'
    /\ \A k \in Uploads \ {i} : importJob'[k] = importJob[k] /\ upload'[k] = upload[k] /\ cause'[k] = cause[k]
    /\ UNCHANGED <<sound, doubled, task, reruns, version, requests>>
    /\ importJob[i] \in {"waiting", "active", "committed"} /\ i \in Uploads
    /\ aged' \subseteq Uploads
    /\ Running' \subseteq {i} \/ Running' \subseteq Running
    /\ \/ /\ importJob'[i] \in {"active", "completed"} /\ upload'[i] = upload[i]
          /\ importJob'[i] = "completed" => importJob[i] = "committed"
          /\ importJob'[i] = "active" => importJob[i] = "waiting"
       \/ /\ importJob'[i] = "failed" /\ importJob[i] = "active"
          /\ \/ upload'[i] = "FAILED" /\ i \notin sound
             \/ upload'[i] = upload[i] /\ cause'[i] # "none"

\* A job that ends, completed or failed, disturbs nothing else.
LEMMA WorkedKeeps ==
    ASSUME PaperInv, NEW i, Worked(i), UNCHANGED <<paperVars, snap, build, viewVars>>
    PROVE  PaperInv'
<1> USE DEF PaperInv
<1>1. PaperTypeOK'
  BY TypesOfUploads, TypesStay DEF UploadTypes, Worked
<1>2. ReadInv'
  BY ReadStays
<1>3. i \in Uploads /\ i \in LiveJobs
  BY DEF Worked, LiveJobs
<1>4. UploadsKept'
  BY <1>3 DEF UploadInv, UploadsKept, Worked
<1>5. upload[i] = "COMPLETED" => upload'[i] = "COMPLETED"
  BY <1>3 DEF UploadInv, UploadsKept, Worked
<1>6. upload'[i] = "COMPLETED" => upload[i] = "COMPLETED"
  BY <1>3 DEF Worked
<1>7. RunsKept'
  <2>1. Completed' = Completed
    BY <1>5, <1>6 DEF Worked, Completed
  <2>2. Again' \subseteq Again
    <3>1. SUFFICES ASSUME NEW k \in Completed, importJob'[k] \in {"waiting", "active"}
                   PROVE  importJob[k] \in {"waiting", "active"}
      BY <2>1 DEF Again
    <3>2. k \in Uploads
      BY DEF Completed
    <3>3. CASE k = i
      BY <3>1, <3>3 DEF Worked
    <3>4. CASE k # i
      BY <3>1, <3>2, <3>4 DEF Worked
    <3> QED
      BY <3>3, <3>4
  <2>3. Cardinality(Again') <= Cardinality(Again) /\ Cardinality(Again) \in Nat /\ Cardinality(Again') \in Nat
    BY <2>1, <2>2, UploadsFinite, FS_Subset DEF Again, Completed
  <2>4. reruns \in Nat /\ errors \in Nat /\ errors' \in Nat
    BY TypesOfUploads, PaperAssumption DEF Worked
  <2>5. \A j, k \in Running' : j = k
    BY DEF Worked, UploadInv, RunsKept
  <2>6. version' = version /\ reruns' = reruns /\ errors <= errors'
    BY DEF Worked
  <2> QED
    BY <2>1, <2>3, <2>4, <2>5, <2>6 DEF RunsKept, UploadInv
<1>8. UploadTracked'
  <2>1. SUFFICES ASSUME NEW k \in Uploads, upload'[k] = "PROCESSING"
                 PROVE  \/ k \in LiveJobs'
                        \/ \E w \in Uploaders : task'[w] = [do |-> "enqueue", on |-> k]
                        \/ cause'[k] # "none"
    BY DEF UploadTracked, Processing
  <2>2. CASE k = i
    <3>1. importJob'[i] # "completed"
      BY <1>3, <2>1, <2>2 DEF Worked, UploadInv, UploadsKept
    <3> QED
      BY <1>3, <2>1, <2>2, <3>1 DEF Worked, LiveJobs
  <2>3. CASE k # i
    BY <2>1, <2>3 DEF Worked, UploadInv, UploadTracked, Processing, LiveJobs
  <2> QED
    BY <2>2, <2>3
<1>9. TasksKept'
  <2>1. \A u \in Uploaders : task[u].do \in {"enqueue", "reset", "requeue"} => task[u].on # i
    BY DEF Worked, UploadInv, TasksKept
  <2> QED
    BY <2>1 DEF Worked, UploadInv, TasksKept
<1>10. AloneKept'
  <2>1. LiveJobs' \subseteq LiveJobs
    BY <1>3 DEF Worked, LiveJobs
  <2>2. \A k \in LiveJobs' : upload'[k] = upload[k]
    BY DEF Worked, LiveJobs
  <2> QED
    BY <2>1, <2>2 DEF Worked, UploadInv, AloneKept
<1> QED
  BY <1>1, <1>2, <1>4, <1>7, <1>8, <1>9, <1>10 DEF UploadInv

\* The worker takes a job, and ends it.
LEMMA WorkerKeeps ==
    ASSUME PaperInv, NEW i \in Uploads, Age(i) \/ ImportStart(i) \/ ImportReject(i) \/ ImportError(i) \/ ImportDone(i)
    PROVE  PaperInv'
<1> USE DEF PaperInv
<1>1. CASE Age(i)
  <2>1. UploadInv' /\ ReadInv'
    BY <1>1, UploadsStay, ReadStays DEF Age, paperVars
  <2>2. PaperTypeOK'
    BY <1>1, TypesOfUploads, TypesStay DEF Age, UploadTypes, paperVars
  <2> QED
    BY <2>1, <2>2
<1>2. ASSUME ImportStart(i) \/ ImportReject(i) \/ ImportError(i) \/ ImportDone(i)
      PROVE  UNCHANGED <<paperVars, snap, build, viewVars>>
  BY <1>2 DEF ImportStart, ImportReject, ImportError, ImportDone
<1>3. CASE ImportStart(i)
  BY <1>2, <1>3, TypesOfUploads, WorkedKeeps DEF ImportStart, Worked, UploadTypes, JobStates, Running, paperVars
<1>4. CASE ImportReject(i)
  BY <1>2, <1>4, TypesOfUploads, WorkedKeeps DEF ImportReject, Worked, UploadTypes, JobStates, UploadStatuses,
     Running, paperVars
<1>5. CASE ImportError(i)
  <2>1. errors' \in 0 .. MaxErrors /\ errors <= errors'
    BY <1>5, TypesOfUploads, PaperAssumption DEF ImportError, UploadTypes
  <2> QED
    BY <1>2, <1>5, <2>1, TypesOfUploads, WorkedKeeps DEF ImportError, Worked, UploadTypes, JobStates, Causes,
       Running, paperVars
<1>6. CASE ImportDone(i)
  BY <1>2, <1>6, TypesOfUploads, WorkedKeeps DEF ImportDone, Worked, UploadTypes, JobStates, Running, paperVars
<1> QED
  BY <1>1, <1>3, <1>4, <1>5, <1>6

-----------------------------------------------------------------------------
(* The transaction, and a crash *)

\* The transaction makes a version, and replaces the paper of every student.
LEMMA ImportCommitKeeps ==
    ASSUME PaperInv, NEW i \in Uploads, ImportCommit(i)
    PROVE  PaperInv'
<1> USE DEF PaperInv
<1>1. /\ version' = version + 1 /\ current' = version + 1 /\ scheduled' = version + 1
      /\ version \in 1 .. MaxPapers - 1 /\ version = current
      /\ current' \in 1 .. MaxPapers /\ current < current'
  BY StudentTypes DEF ImportCommit, Committed
<1>2. /\ importJob[i] = "active" /\ i \in sound /\ i \in LiveJobs /\ i \in Running
      /\ upload[i] \in {"PROCESSING", "COMPLETED"}
  BY LiveUploads, TypesOfUploads DEF ImportCommit, Committed, LiveJobs, Running, UploadInv
<1>3. /\ upload'[i] = "COMPLETED" /\ importJob'[i] = "committed"
      /\ \A k \in Uploads \ {i} : upload'[k] = upload[k] /\ importJob'[k] = importJob[k]
      /\ importJob' \in [Uploads -> JobStates] /\ upload' \in [Uploads -> UploadStatuses]
      /\ reruns' = IF upload[i] = "COMPLETED" THEN reruns + 1 ELSE reruns
      /\ UNCHANGED <<aged, sound, doubled, cause, task, requests, errors>>
  BY TypesOfUploads DEF ImportCommit, Committed, UploadTypes, JobStates, UploadStatuses
<1>4. UNCHANGED <<snap, build, visit, blank>>
  BY DEF ImportCommit, Committed
<1>5. /\ attempt' \in [Students -> AttemptRecords]
      /\ \A s \in Students : /\ attempt'[s].in = attempt[s].in
                             /\ attempt'[s].v = attempt[s].v
                             /\ attempt'[s].p = 0
      /\ replaced' \subseteq Students
      /\ \A s \in Students : s \in replaced' <=> (attempt[s].in \/ visit[s] # NoVisit)
  <2>1. /\ attempt' = [s \in Students |-> [attempt[s] EXCEPT !.p = 0]]
        /\ replaced' = {s \in Students : attempt[s].in \/ visit[s] # NoVisit}
    BY DEF ImportCommit, Committed
  <2>2. ASSUME NEW s \in Students
        PROVE  /\ [attempt[s] EXCEPT !.p = 0] \in AttemptRecords
               /\ [attempt[s] EXCEPT !.p = 0].in = attempt[s].in
               /\ [attempt[s] EXCEPT !.p = 0].v = attempt[s].v
               /\ [attempt[s] EXCEPT !.p = 0].p = 0
    <3>1. attempt[s] \in AttemptRecords /\ 0 \in 0 .. MaxPapers
      BY StudentTypes
    <3> QED
      BY <3>1 DEF AttemptRecords
  <2> QED
    BY <2>1, <2>2
<1>6. Completed' = Completed \cup {i} /\ Again' = Again \ {i}
  <2>1. i \in Completed' /\ i \notin Again'
    BY <1>3 DEF Completed, Again
  <2>2. \A k \in Uploads \ {i} : (k \in Completed' <=> k \in Completed) /\ (k \in Again' <=> k \in Again)
    BY <1>3 DEF Completed, Again
  <2>3. Completed' \subseteq Uploads /\ Completed \subseteq Uploads /\ Again \subseteq Uploads /\ Again' \subseteq Uploads
    BY DEF Completed, Again
  <2> QED
    BY <2>1, <2>2, <2>3
<1>7. /\ IsFiniteSet(Completed) /\ Cardinality(Completed) \in Nat
      /\ IsFiniteSet(Again) /\ Cardinality(Again) \in Nat
  BY UploadsFinite DEF Completed, Again
<1>8. /\ version = 1 + Cardinality(Completed) + reruns
      /\ reruns + Cardinality(Again) <= errors
      /\ reruns \in Nat /\ errors \in Nat /\ version \in Nat /\ errors <= MaxErrors
  BY TypesOfUploads, PaperAssumption DEF UploadInv, RunsKept, UploadTypes
<1>9. /\ version' = 1 + Cardinality(Completed') + reruns'
      /\ reruns' + Cardinality(Again') <= errors /\ reruns' \in Nat
  <2>1. CASE upload[i] = "COMPLETED"
    <3>1. i \in Completed /\ i \in Again
      BY <1>2, <2>1 DEF Completed, Again
    <3>2. Completed' = Completed /\ Cardinality(Again') = Cardinality(Again) - 1
      <4>1. Cardinality(Again \ {i}) = Cardinality(Again) - 1
        BY <1>7, <3>1, FS_RemoveElement
      <4> QED
        BY <1>6, <3>1, <4>1
    <3> QED
      BY <1>1, <1>3, <1>7, <1>8, <2>1, <3>2
  <2>2. CASE upload[i] # "COMPLETED"
    <3>1. i \notin Completed /\ i \notin Again
      BY <2>2 DEF Completed, Again
    <3>2. Cardinality(Completed') = Cardinality(Completed) + 1 /\ Again' = Again
      <4>1. Cardinality(Completed \cup {i}) = Cardinality(Completed) + 1
        BY <1>7, <3>1, FS_AddElement
      <4> QED
        BY <1>6, <3>1, <4>1
    <3> QED
      BY <1>1, <1>3, <1>7, <1>8, <2>2, <3>2
  <2> QED
    BY <2>1, <2>2
<1>10. PaperTypeOK'
  <2>1. reruns' \in 0 .. MaxErrors
    <3>1. Cardinality(Again') \in Nat
      BY UploadsFinite, <1>6 DEF Again, Completed
    <3> QED
      BY <1>8, <1>9, <3>1, PaperAssumption
  <2> QED
    BY <1>1, <1>3, <1>4, <1>5, <2>1 DEF PaperTypeOK, PaperNumbers, AttemptRecords
<1>11. ReadInv'
  <2>1. VersionsKept' /\ SnapshotsKept' /\ BuildKept'
    <3>1. \A v \in 1 .. MaxPapers : snap[v] \in 0 .. MaxPapers
      BY StudentTypes
    <3>2. build.at # "idle" => build.v \in 0 .. MaxPapers /\ build.p \in 0 .. MaxPapers
      BY DEF PaperTypeOK
    <3>3. current \in Nat /\ current' \in Nat
      BY <1>1, StudentTypes
    <3> QED
      BY <1>1, <1>4, <3>1, <3>2, <3>3, StudentTypes DEF ReadInv, VersionsKept, SnapshotsKept, BuildKept
  <2>2. ASSUME NEW s \in Students PROVE StudentKept(s)'
    <3>1. /\ visit'[s] = visit[s] /\ blank' = blank
          /\ visit[s] \in VisitRecords /\ attempt[s] \in AttemptRecords
      BY <1>4, StudentTypes
    <3>2. s \notin replaced' => ~attempt[s].in /\ visit[s].do = "idle"
      BY <1>5 DEF NoVisit
    <3>3. StudentKept(s)
      BY DEF ReadInv
    <3>4. current \in Nat /\ current' \in Nat
      BY <1>1, StudentTypes
    <3> QED
      BY <1>1, <1>5, <3>1, <3>2, <3>3, <3>4 DEF StudentKept, VisitRecords, AttemptRecords
  <2> QED
    BY <2>1, <2>2 DEF ReadInv
<1>12. UploadsKept'
  BY <1>2, <1>3 DEF UploadInv, UploadsKept
<1>13. UploadTracked'
  <2>1. \A k \in Uploads : upload'[k] = "PROCESSING" => k # i
    BY <1>3
  <2> QED
    BY <1>3, <2>1 DEF UploadInv, UploadTracked, Processing, LiveJobs
<1>14. TasksKept'
  <2>1. \A u \in Uploaders : task[u].do \in {"enqueue", "reset", "requeue"} => task[u].on # i
    BY <1>2 DEF UploadInv, TasksKept
  <2> QED
    BY <1>3, <2>1 DEF UploadInv, TasksKept
<1>15. AloneKept'
  BY <1>2, <1>3 DEF UploadInv, AloneKept, LiveJobs
<1>16. RunsKept'
  <2>1. \A j, k \in Running' : j = k
    BY <1>2, <1>3 DEF UploadInv, RunsKept, Running
  <2> QED
    BY <1>3, <1>9, <2>1 DEF RunsKept
<1> QED
  BY <1>10, <1>11, <1>12, <1>13, <1>14, <1>15, <1>16 DEF UploadInv

\* A crash ends all requests, and the job it interrupts is carried out again.
LEMMA ServerCrashKeeps ==
    ASSUME PaperInv, ServerCrash
    PROVE  PaperInv'
<1> USE DEF PaperInv
<1>1. /\ \A u \in Uploaders : task'[u] = NoTask
      /\ \A s \in Students : visit'[s] = NoVisit
      /\ \A i \in Uploads : importJob'[i] = IF i \in Running THEN "waiting" ELSE importJob[i]
      /\ \A i \in Uploads : cause'[i] = cause[i] \/ cause'[i] = "crash"
      /\ \A i \in Uploads : (\E u \in Uploaders : task[u] = [do |-> "enqueue", on |-> i]) => cause'[i] = "crash"
      /\ build' = NoBuild /\ errors' = errors + 1 /\ errors < MaxErrors
      /\ UNCHANGED <<paperVars, upload, aged, sound, doubled, snap, attempt, blank, replaced, requests, reruns>>
  BY DEF ServerCrash
<1>2. PaperTypeOK'
  <2>1. /\ task' \in [Uploaders -> [do : Tasks, on : 0 .. MaxUploads]]
        /\ visit' \in [Students -> VisitRecords]
        /\ build' \in [at : {"idle", "read", "write", "verify"}, v : 0 .. MaxPapers, p : 0 .. MaxPapers]
    <3>1. /\ NoTask \in [do : Tasks, on : 0 .. MaxUploads] /\ NoVisit \in VisitRecords
          /\ NoBuild \in [at : {"idle", "read", "write", "verify"}, v : 0 .. MaxPapers, p : 0 .. MaxPapers]
      BY TypesOfUploads, StudentTypes DEF NoTask, NoVisit, NoBuild, Tasks, Visits, VisitRecords
    <3> QED
      BY <3>1 DEF ServerCrash
  <2>2. importJob' \in [Uploads -> JobStates] /\ cause' \in [Uploads -> Causes]
    BY TypesOfUploads DEF ServerCrash, UploadTypes, JobStates, Causes
  <2>3. errors' \in 0 .. MaxErrors
    BY <1>1, TypesOfUploads, PaperAssumption DEF UploadTypes
  <2> QED
    BY <1>1, <2>1, <2>2, <2>3 DEF PaperTypeOK, VisitRecords, paperVars
<1>3. ReadInv'
  <2>1. VersionsKept' /\ SnapshotsKept' /\ BuildKept'
    BY <1>1 DEF ReadInv, VersionsKept, SnapshotsKept, BuildKept, NoBuild, paperVars
  <2>2. ASSUME NEW s \in Students PROVE StudentKept(s)'
    <3>1. visit'[s] = NoVisit /\ attempt' = attempt /\ blank' = blank /\ replaced' = replaced /\ current' = current
      BY <1>1 DEF paperVars
    <3>2. StudentKept(s)
      BY DEF ReadInv
    <3> QED
      BY <3>1, <3>2 DEF StudentKept, NoVisit
  <2> QED
    BY <2>1, <2>2 DEF ReadInv
<1>4. LiveJobs' = LiveJobs
  <2>1. \A i \in Uploads : i \in LiveJobs' <=> i \in LiveJobs
    BY <1>1 DEF LiveJobs, Running
  <2> QED
    BY <2>1 DEF LiveJobs
<1>5. UploadsKept'
  BY <1>1 DEF UploadInv, UploadsKept, Running
<1>6. UploadTracked'
  BY <1>1, <1>4 DEF UploadInv, UploadTracked, Processing
<1>7. TasksKept'
  BY <1>1 DEF TasksKept, NoTask
<1>8. AloneKept'
  BY <1>1, <1>4 DEF UploadInv, AloneKept, NoTask
<1>9. Running' = {}
  BY <1>1 DEF Running
<1>10. Completed' = Completed
  BY <1>1 DEF Completed
<1>11. /\ IsFiniteSet(Again) /\ Cardinality(Again) \in Nat /\ Cardinality(Again') \in Nat
       /\ Cardinality(Again') <= Cardinality(Again) + 1
  <2>1. IsFiniteSet(Again) /\ Cardinality(Again) \in Nat /\ IsFiniteSet(Again') /\ Cardinality(Again') \in Nat
    BY <1>10, UploadsFinite DEF Again, Completed
  <2>2. CASE Running = {}
    <3>1. Again' = Again
      BY <1>1, <1>10, <2>2 DEF Again, Completed
    <3> QED
      BY <2>1, <3>1
  <2>3. CASE Running # {}
    <3>1. PICK j \in Running : TRUE
      BY <2>3
    <3>2. Again' \subseteq Again \cup {j}
      BY <1>1, <1>10, <3>1 DEF Again, Completed, UploadInv, RunsKept
    <3>3. IsFiniteSet(Again \cup {j}) /\ Cardinality(Again \cup {j}) <= Cardinality(Again) + 1
          /\ Cardinality(Again \cup {j}) \in Nat
      <4>1. IsFiniteSet(Again \cup {j})
        BY <2>1, FS_AddElement
      <4>2. j \in Again => Again \cup {j} = Again
        OBVIOUS
      <4>3. j \notin Again => Cardinality(Again \cup {j}) = Cardinality(Again) + 1
        BY <2>1, FS_AddElement
      <4> QED
        BY <2>1, <4>1, <4>2, <4>3
    <3>4. Cardinality(Again') <= Cardinality(Again \cup {j})
      BY <3>2, <3>3, FS_Subset
    <3> QED
      BY <2>1, <3>3, <3>4
  <2> QED
    BY <2>2, <2>3
<1>12. RunsKept'
  <2>1. reruns \in Nat /\ errors \in Nat
    BY TypesOfUploads
  <2> QED
    BY <1>1, <1>9, <1>10, <1>11, <2>1 DEF UploadInv, RunsKept, paperVars
<1> QED
  BY <1>2, <1>3, <1>5, <1>6, <1>7, <1>8, <1>12 DEF UploadInv

-----------------------------------------------------------------------------
(* The theorems *)

\* The first paper is built, and nothing is uploaded.
LEMMA PaperBegins == PaperInit => PaperInv
<1> SUFFICES ASSUME PaperInit PROVE PaperInv
  OBVIOUS
<1>1. /\ 1 \in 1 .. MaxPapers /\ 0 \in 0 .. MaxPapers /\ 0 \in 0 .. MaxUploads /\ 0 \in 0 .. MaxErrors
      /\ MaxRequests \in 0 .. MaxRequests
  BY PaperAssumption
<1>2. PaperTypeOK
  <2>1. /\ NoTask \in [do : Tasks, on : 0 .. MaxUploads]
        /\ NoVisit \in [do : Visits, v : 0 .. MaxPapers, p : 0 .. MaxPapers]
        /\ NotStarted \in [in : BOOLEAN, v : 0 .. MaxPapers, p : 0 .. MaxPapers]
        /\ NoBuild \in [at : {"idle", "read", "write", "verify"}, v : 0 .. MaxPapers, p : 0 .. MaxPapers]
    BY <1>1 DEF NoTask, NoVisit, NoBuild, NotStarted, Tasks, Visits
  <2> QED
    BY <1>1, <2>1 DEF PaperInit, PaperTypeOK, PaperNumbers, UploadStatuses, JobStates, Causes
<1>3. ReadInv
  <2>1. VersionsKept /\ SnapshotsKept /\ BuildKept
    BY DEF PaperInit, VersionsKept, SnapshotsKept, BuildKept, NoBuild
  <2>2. \A s \in Students : StudentKept(s)
    BY DEF PaperInit, StudentKept, NoVisit, NotStarted
  <2> QED
    BY <2>1, <2>2 DEF ReadInv
<1>4. UploadInv
  <2>1. UploadsKept /\ UploadTracked /\ TasksKept
    BY DEF PaperInit, UploadsKept, UploadTracked, Processing, TasksKept, NoTask
  <2>2. AloneKept
    BY DEF PaperInit, AloneKept, LiveJobs, NoTask
  <2>3. Completed = {} /\ Again = {} /\ Running = {}
    BY DEF PaperInit, Completed, Again, Running
  <2>4. RunsKept
    BY <2>3, FS_EmptySet DEF PaperInit, RunsKept
  <2> QED
    BY <2>1, <2>2, <2>4 DEF UploadInv
<1> QED
  BY <1>2, <1>3, <1>4 DEF PaperInv

\* Every step keeps the invariant.
LEMMA PaperStep ==
    ASSUME PaperInv, [PaperNext]_allPaperVars
    PROVE  PaperInv'
<1>1. ASSUME NEW u \in Uploaders, UploaderNext(u) PROVE PaperInv'
  BY <1>1, SubmitUploadKeeps, CreateUploadKeeps, EnqueueUploadKeeps, RetryReadKeeps, RetryResetKeeps,
     RetryRequeueKeeps DEF UploaderNext
<1>2. ASSUME NEW i \in Uploads, ImportNext(i) PROVE PaperInv'
  BY <1>2, WorkerKeeps, ImportCommitKeeps DEF ImportNext
<1>3. CASE UNCHANGED allPaperVars
  <2>1. ReadInv' /\ UploadInv'
    BY <1>3, ReadStays, UploadsStay DEF PaperInv, allPaperVars, paperVars, uploadVars
  <2>2. PaperTypeOK'
    BY <1>3 DEF PaperInv, PaperTypeOK, allPaperVars, paperVars, uploadVars, viewVars
  <2> QED
    BY <2>1, <2>2 DEF PaperInv
<1> QED
  BY <1>1, <1>2, <1>3, CacheKeeps, StudentKeeps, ServerCrashKeeps DEF PaperNext

\* The invariant holds in every state.
LEMMA PaperInvariant == PaperSpec => []PaperInv
<1>1. PaperInv /\ [PaperNext]_allPaperVars => PaperInv'
  BY PaperStep
<1> QED
  BY PaperBegins, <1>1, PTL DEF PaperSpec

\* The invariant says what is promised of a snapshot, of a page and of an upload.
LEMMA PaperInvImplies == PaperInv => PaperRead /\ ImportsAccounted
<1> SUFFICES ASSUME PaperInv PROVE PaperRead /\ ImportsAccounted
  OBVIOUS
<1>1. SnapshotNotOlder
  <2>1. \A v \in PaperNumbers : snap[v] \in Nat /\ v \in Nat
    <3>1. PaperNumbers = 1 .. MaxPapers /\ snap \in [PaperNumbers -> 0 .. MaxPapers]
      BY StudentTypes DEF PaperInv
    <3> QED
      BY <3>1
  <2> QED
    BY <2>1 DEF PaperInv, ReadInv, SnapshotsKept, SnapshotNotOlder
<1>2. BlankOnlyReplaced
  BY DEF PaperInv, PaperTypeOK, ReadInv, StudentKept, BlankOnlyReplaced
<1>3. OneImport
  <2> DEFINE S == {i \in LiveJobs : upload[i] # "COMPLETED"}
  <2>1. SUFFICES ASSUME ~doubled PROVE Cardinality(S) <= 1
    BY DEF OneImport
  <2>2. \A i, k \in S : i = k
    BY <2>1 DEF PaperInv, UploadInv, AloneKept
  <2>3. CASE S = {}
    BY <2>3, FS_EmptySet
  <2>4. CASE S # {}
    <3>1. PICK i \in S : TRUE
      BY <2>4
    <3>2. S = {i}
      BY <2>2, <3>1
    <3> HIDE DEF S
    <3> QED
      BY <3>2, FS_Singleton
  <2> QED
    BY <2>3, <2>4
<1>4. OneVersionPerUpload
  BY DEF PaperInv, UploadInv, RunsKept, Completed, OneVersionPerUpload
<1> QED
  BY <1>1, <1>2, <1>3, <1>4 DEF PaperInv, UploadInv, PaperRead, ImportsAccounted

\* Every variable has its type, for any number of uploads, papers and students.
THEOREM PaperTypeCorrect == PaperSpec => []PaperTypeOK
BY PaperInvariant, PTL DEF PaperInv

\* The snapshot kept under a version is never older than the version, and a
\* student gets an empty page only when the paper was replaced after the attempt
\* was started or last resumed.
THEOREM PaperIsRead == PaperSpec => []PaperRead
BY PaperInvariant, PaperInvImplies, PTL

\* Every upload that is PROCESSING has a job, a request or an accident that
\* explains it; one import is under way unless one was begun beside another; and
\* every completed upload made one version, or one more for every crash.
THEOREM ImportsAreAccounted == PaperSpec => []ImportsAccounted
BY PaperInvariant, PaperInvImplies, PTL

(***************************************************************************)
(* The time of the questions                                               *)
(***************************************************************************)

-----------------------------------------------------------------------------
(* The inductive invariant *)

\* The intervals the server measured end by t.
EndBy(t) == \A i \in ByServer : logs[i].till <= t

\* What a request is for decides what it does.
Flow ==
    \A c \in Clients :
        /\ step[c] \in {"visit", "set"} => purpose[c] = "start"
        /\ step[c] = "clear" => purpose[c] # "start"
        /\ step[c] = "commit" => purpose[c] = "submit"
        /\ step[c] \in {"ask", "lookup", "analyse", "store", "cache"} => purpose[c] \in Analyses
        /\ purpose[c] = "start" /\ step[c] # "none" => question[c] \in Questions
        /\ step[c] = "close" => seen[c] # NoInterval
        /\ step[c] = "set" => number[c] # 0

\* Requests that run together are on record.
Together == \A c, d \in Busy : c # d => purpose[c] \in overlapped

\* Nothing is measured after the clock or the deadline.
Clocks ==
    /\ EndBy(time) /\ EndBy(Deadline)
    /\ \A i \in ByServer : logs[i].from <= Deadline
    /\ active # NoInterval => active.from <= Deadline
    /\ \A c \in Clients : /\ at[c] <= time
                          /\ seen[c] # NoInterval => seen[c].from <= Deadline
                          /\ purpose[c] = "start" => at[c] <= Deadline

\* The visits of a question that were measured, below n
VisitedBelow(q, n) == \A i \in ByServer : logs[i].on = q => logs[i].visit < n

\* One request at a time: the intervals follow each other, also with the one
\* that is open unless a request is about to replace it.
InTurn ==
    overlapped = {} /\ died = {} =>
        /\ \A i, j \in ByServer : i < j =>
              /\ logs[i].till <= logs[j].from
              /\ logs[i].on = logs[j].on => logs[i].visit < logs[j].visit
        /\ active # NoInterval /\ (\A c \in Clients : step[c] \notin {"clear", "visit", "set"}) =>
              EndBy(active.from) /\ VisitedBelow(active.on, active.visit)
        /\ \A c \in Clients :
              /\ step[c] = "close" => seen[c] = active
              /\ purpose[c] = "start" /\ step[c] # "none" => EndBy(at[c])
              /\ step[c] = "set" => VisitedBelow(question[c], number[c])

\* Nobody is at a question when the attempt was submitted.
NobodyStarts ==
    "submit" \notin overlapped /\ submittedAt # Never =>
        \A c \in Clients : step[c] # "none" => purpose[c] # "start"

\* A submission closes what is open.
Submission ==
    "submit" \notin overlapped \cup died =>
        /\ submittedAt # Never =>
              /\ EndBy(submittedAt)
              /\ \A c \in Clients : /\ step[c] \in {"close", "clear"} => purpose[c] = "submit"
                                    /\ purpose[c] = "submit" /\ step[c] # "none" => at[c] = submittedAt
              /\ active # NoInterval =>
                    \E c \in Clients : purpose[c] = "submit" /\ step[c] \in {"read", "close", "clear"}
        /\ \A c \in Clients : purpose[c] = "submit" /\ step[c] # "none" =>
              /\ EndBy(at[c])
              /\ step[c] = "commit" <=> submittedAt = Never

\* An analysis after the submission counts everything.
Analysis ==
    ~early /\ overlapped \cap ({"submit"} \cup Analyses) = {} =>
        /\ \A c \in Clients :
              /\ step[c] = "analyse" => active = NoInterval
              /\ step[c] = "store" =>
                    /\ active = NoInterval /\ submittedAt # Never
                    /\ \A i \in ByServer : i <= counted[c]
        /\ stored # NotMade =>
              /\ active = NoInterval /\ submittedAt # Never
              /\ \A i \in ByServer : i <= stored
              /\ \A c \in Clients : step[c] # "close"

TimingInv ==
    /\ TimingTypeOK /\ Flow /\ Together /\ Clocks
    /\ InTurn /\ NobodyStarts /\ Submission /\ Analysis
-----------------------------------------------------------------------------
(* Numbers and rows *)

\* The sooner of two times is one of them, and not after either.
LEMMA SoonerIs ==
    ASSUME NEW s \in Int, NEW t \in Int
    PROVE  Sooner(s, t) \in {s, t} /\ Sooner(s, t) <= s /\ Sooner(s, t) <= t
BY DEF Sooner

\* The highest number among the first rows of a question
LEMMA HighestExists ==
    ASSUME NEW n \in Nat, NEW f, \A i \in 1 .. n : f[i] \in Nat
    PROVE  \E b \in {f[i] : i \in 1 .. n} \cup {0} : \A i \in 1 .. n : f[i] <= b
<1> DEFINE Has(m) == \E b \in {f[i] : i \in 1 .. m} \cup {0} : \A i \in 1 .. m : f[i] <= b
           Bad == {m \in 0 .. n : ~Has(m)}
<1>1. SUFFICES ASSUME Bad # {} PROVE FALSE
  <2>1. n \notin Bad => Has(n)
    OBVIOUS
  <2> QED
    BY <1>1, <2>1
<1>2. PICK m \in Bad : \A k \in Bad : ~(<<k, m>> \in OpToRel(<, Nat))
  <2>1. Bad \subseteq Nat
    OBVIOUS
  <2> HIDE DEF Bad
  <2> QED
    BY <1>1, <2>1, NatLessThanWellFounded, WFMin
<1>3. ASSUME NEW k \in Bad PROVE ~(k < m)
  <2>1. k \in Nat /\ m \in Nat
    OBVIOUS
  <2>2. <<k, m>> \in OpToRel(<, Nat) <=> k < m
    BY <2>1 DEF OpToRel
  <2> QED
    BY <1>2, <2>2
<1>4. m \in 0 .. n /\ ~Has(m)
  OBVIOUS
<1>5. m # 0
  <2>1. Has(0)
    OBVIOUS
  <2> QED
    BY <1>4, <2>1
<1>6. m - 1 \in 0 .. n /\ m - 1 \notin Bad
  <2>1. m - 1 \in 0 .. n /\ m - 1 < m
    BY <1>4, <1>5
  <2> HIDE DEF Bad
  <2> QED
    BY <1>3, <2>1
<1>7. PICK b \in {f[i] : i \in 1 .. m - 1} \cup {0} : \A i \in 1 .. m - 1 : f[i] <= b
  BY <1>6
<1>8. b \in Nat /\ f[m] \in Nat /\ m \in 1 .. n
  BY <1>4, <1>5, <1>7
<1>9. b \in {f[i] : i \in 1 .. m} \cup {0} /\ f[m] \in {f[i] : i \in 1 .. m} \cup {0}
  BY <1>4, <1>5, <1>7
<1>10. \A i \in 1 .. m : i \in 1 .. m - 1 \/ i = m
  BY <1>4
<1>11. CASE f[m] <= b
  <2>1. \A i \in 1 .. m : f[i] <= b
    BY <1>7, <1>10, <1>11
  <2> QED
    BY <1>4, <1>9, <2>1
<1>12. CASE b < f[m]
  <2>1. \A i \in 1 .. m : f[i] <= f[m]
    BY <1>4, <1>7, <1>8, <1>10, <1>12
  <2> QED
    BY <1>4, <1>9, <2>1
<1> QED
  BY <1>8, <1>11, <1>12

LogRows == [on : Questions, visit : Nat \ {0}, from : Times, till : Times, by : {"server", "client"}]

\* The next visit of a question has a higher number than those that were
\* measured.
LEMMA LastVisitIs ==
    ASSUME logs \in Seq(LogRows), NEW q
    PROVE  LastVisit(q) \in Nat /\ VisitedBelow(q, LastVisit(q) + 1)
<1> DEFINE n == Len(logs)
           f == [i \in 1 .. n |-> IF logs[i].on = q THEN logs[i].visit ELSE 0]
           Numbers == {logs[i].visit : i \in {j \in DOMAIN logs : logs[j].on = q}} \cup {0}
<1>1. n \in Nat /\ DOMAIN logs = 1 .. n /\ \A i \in 1 .. n : logs[i] \in LogRows
  OBVIOUS
<1>2. \A i \in 1 .. n : logs[i].visit \in Nat
  BY <1>1 DEF LogRows
<1> HIDE DEF n
<1>3. \A i \in 1 .. n : f[i] \in Nat
  BY <1>2
<1>4. PICK b \in {f[i] : i \in 1 .. n} \cup {0} : \A i \in 1 .. n : f[i] <= b
  <2> HIDE DEF f
  <2> QED
    BY <1>1, <1>3, HighestExists
<1>5. b \in Numbers
  BY <1>1, <1>4
<1>6. \A w \in Numbers : w <= b /\ w \in Nat
  BY <1>1, <1>2, <1>4
<1>7. LastVisit(q) = CHOOSE v \in Numbers : \A w \in Numbers : w <= v
  BY DEF LastVisit
<1>8. LastVisit(q) \in Numbers /\ \A w \in Numbers : w <= LastVisit(q)
  <2> HIDE DEF Numbers
  <2> QED
    BY <1>5, <1>6, <1>7
<1>9. ASSUME NEW i \in ByServer, logs[i].on = q
      PROVE  logs[i].visit < LastVisit(q) + 1
  <2>1. i \in 1 .. n /\ logs[i].visit \in Numbers
    BY <1>1, <1>9 DEF ByServer
  <2>2. logs[i].visit <= LastVisit(q) /\ logs[i].visit \in Nat /\ LastVisit(q) \in Nat
    BY <1>6, <1>8, <2>1
  <2> QED
    BY <2>2
<1> QED
  BY <1>6, <1>8, <1>9 DEF VisitedBelow

-----------------------------------------------------------------------------
(* Requests begin, go on and end *)

\* The types that the requests meet
LEMMA TimingTypes ==
    ASSUME TimingTypeOK
    PROVE  /\ time \in Times /\ Deadline \in Times /\ 0 \in Times /\ Times \subseteq Nat /\ Never \notin Times
           /\ submittedAt \in Times \cup {Never}
           /\ active \in Intervals \cup {NoInterval} /\ logs \in Seq(LogRows) /\ Len(logs) \in Nat
           /\ purpose \in [Clients -> Purposes] /\ step \in [Clients -> TimingSteps]
           /\ question \in [Clients -> Questions \cup {NoQuestion}] /\ at \in [Clients -> Times]
           /\ seen \in [Clients -> Intervals \cup {NoInterval}] /\ number \in [Clients -> Nat]
           /\ counted \in [Clients -> Nat] /\ begun \in 0 .. MaxTimings /\ deaths \in 0 .. MaxDeaths
           /\ overlapped \subseteq Purposes /\ died \subseteq Purposes
           /\ \A i \in ByServer : /\ i \in 1 .. Len(logs) /\ logs[i].from \in Times /\ logs[i].till \in Times
                                  /\ logs[i].on \in Questions /\ logs[i].visit \in Nat
           /\ \A v \in Intervals : v.on \in Questions /\ v.visit \in Nat \ {0} /\ v.from \in Times
<1>1. time \in Times /\ Deadline \in Times /\ 0 \in Times /\ Times \subseteq Nat /\ Never \notin Times
  BY TimingAssumption DEF TimingTypeOK, Times, Never
<1>2. logs \in Seq(LogRows) /\ Len(logs) \in Nat /\ DOMAIN logs = 1 .. Len(logs)
  BY DEF TimingTypeOK, LogRows
<1>3. \A i \in ByServer : /\ i \in 1 .. Len(logs) /\ logs[i].from \in Times /\ logs[i].till \in Times
                          /\ logs[i].on \in Questions /\ logs[i].visit \in Nat
  <2>1. \A i \in 1 .. Len(logs) : logs[i] \in LogRows
    BY <1>2
  <2>2. ByServer \subseteq 1 .. Len(logs)
    BY <1>2 DEF ByServer
  <2> QED
    BY <2>1, <2>2 DEF LogRows
<1> QED
  BY <1>1, <1>2, <1>3 DEF TimingTypeOK, Intervals

\* What the beginning of a request changes
LEMMA Began ==
    ASSUME TimingTypeOK, NEW c \in Clients, NEW p \in Purposes, NEW q \in Questions \cup {NoQuestion},
           NEW t \in Times, NEW v \in Intervals \cup {NoInterval}, NEW s \in TimingSteps \ {"none"},
           BeginTiming(c, p, q, t, v, s)
    PROVE  /\ step[c] = "none" /\ step'[c] = s /\ purpose'[c] = p /\ question'[c] = q /\ at'[c] = t /\ seen'[c] = v
           /\ number' = number /\ counted' = counted
           /\ \A d \in Clients \ {c} :
                 /\ step'[d] = step[d] /\ purpose'[d] = purpose[d] /\ question'[d] = question[d]
                 /\ at'[d] = at[d] /\ seen'[d] = seen[d]
                 /\ step[d] # "none" => p \in overlapped' /\ purpose[d] \in overlapped'
           /\ overlapped \subseteq overlapped' /\ overlapped' \subseteq Purposes
           /\ begun' \in 0 .. MaxTimings /\ UNCHANGED <<time, deaths, died>>
           /\ purpose' \in [Clients -> Purposes] /\ step' \in [Clients -> TimingSteps]
           /\ question' \in [Clients -> Questions \cup {NoQuestion}] /\ at' \in [Clients -> Times]
           /\ seen' \in [Clients -> Intervals \cup {NoInterval}]
<1>1. /\ step[c] = "none" /\ step' = [step EXCEPT ![c] = s] /\ purpose' = [purpose EXCEPT ![c] = p]
      /\ question' = [question EXCEPT ![c] = q] /\ at' = [at EXCEPT ![c] = t]
      /\ seen' = [seen EXCEPT ![c] = v] /\ UNCHANGED <<time, number, counted, deaths, died>>
      /\ begun < MaxTimings /\ begun' = begun + 1
      /\ overlapped' = IF Busy = {} THEN overlapped
                       ELSE overlapped \cup {p} \cup {purpose[d] : d \in Busy}
  BY DEF BeginTiming
<1>2. begun' \in 0 .. MaxTimings
  BY <1>1, TimingAssumption DEF TimingTypeOK
<1>3. overlapped \subseteq overlapped' /\ overlapped' \subseteq Purposes
  BY <1>1, TimingTypes DEF Busy
<1>4. \A d \in Clients \ {c} : step[d] # "none" => p \in overlapped' /\ purpose[d] \in overlapped'
  <2>1. SUFFICES ASSUME NEW d \in Clients, step[d] # "none"
                 PROVE  p \in overlapped' /\ purpose[d] \in overlapped'
    OBVIOUS
  <2>2. d \in Busy
    BY <2>1 DEF Busy
  <2> QED
    BY <1>1, <2>2
<1>5. /\ step'[c] = s /\ purpose'[c] = p /\ question'[c] = q /\ at'[c] = t /\ seen'[c] = v
      /\ \A d \in Clients \ {c} :
            /\ step'[d] = step[d] /\ purpose'[d] = purpose[d] /\ question'[d] = question[d]
            /\ at'[d] = at[d] /\ seen'[d] = seen[d]
  BY <1>1, TimingTypes
<1>6. /\ purpose' \in [Clients -> Purposes] /\ step' \in [Clients -> TimingSteps]
      /\ question' \in [Clients -> Questions \cup {NoQuestion}] /\ at' \in [Clients -> Times]
      /\ seen' \in [Clients -> Intervals \cup {NoInterval}]
  BY <1>1, TimingTypes
<1> QED
  BY <1>1, <1>2, <1>3, <1>4, <1>5, <1>6

\* What the next step of a request changes
LEMMA Proceeded ==
    ASSUME TimingTypeOK, NEW c \in Clients, NEW s \in TimingSteps, Proceed(c, s)
    PROVE  /\ step'[c] = s
           /\ s # "none" => question'[c] = question[c] /\ at'[c] = at[c]
           /\ at'[c] \in {0, at[c]}
           /\ \A d \in Clients \ {c} : step'[d] = step[d] /\ question'[d] = question[d] /\ at'[d] = at[d]
           /\ UNCHANGED <<time, purpose, begun, overlapped, deaths, died>>
           /\ step' \in [Clients -> TimingSteps]
           /\ question' \in [Clients -> Questions \cup {NoQuestion}] /\ at' \in [Clients -> Times]
<1>1. CASE s = "none"
  BY <1>1, TimingTypes DEF Proceed
<1>2. CASE s # "none"
  BY <1>2, TimingTypes DEF Proceed
<1> QED
  BY <1>1, <1>2

\* What holds of the rows holds as long as they do not change.
LEMMA RowsStay ==
    ASSUME logs' = logs
    PROVE  /\ ByServer' = ByServer
           /\ \A t : EndBy(t)' <=> \A i \in ByServer : logs[i].till <= t'
BY DEF ByServer, EndBy

\* A request begins: those beside it are on record, and what it has read is true.
LEMMA BeginKeeps ==
    ASSUME TimingInv, NEW c \in Clients, NEW p \in Purposes, NEW q \in Questions \cup {NoQuestion},
           NEW t \in Times, NEW v \in Intervals \cup {NoInterval}, NEW s \in TimingSteps \ {"none"},
           BeginTiming(c, p, q, t, v, s), UNCHANGED <<submittedAt, active, logs, stored, early>>,
           cached' \in Nat \cup {NotMade}, t <= time,
           \/ p = "start" /\ s = "read" /\ q \in Questions /\ t <= Deadline
           \/ p = "expired" /\ s = "read"
           \/ p = "end" /\ s = "close"
           \/ p = "submit" /\ s = "commit"
           \/ p \in Analyses /\ s \in {"ask", "lookup"},
           p \in {"start", "submit"} => EndBy(t),
           p \in {"start", "expired", "submit"} => submittedAt = Never,
           IF s = "close" THEN active # NoInterval /\ v = active ELSE v = NoInterval
    PROVE  TimingInv'
<1> USE DEF TimingInv
<1>1. /\ step[c] = "none" /\ step'[c] = s /\ purpose'[c] = p /\ question'[c] = q /\ at'[c] = t /\ seen'[c] = v
      /\ number' = number /\ counted' = counted
      /\ \A d \in Clients \ {c} :
            /\ step'[d] = step[d] /\ purpose'[d] = purpose[d] /\ question'[d] = question[d]
            /\ at'[d] = at[d] /\ seen'[d] = seen[d]
            /\ step[d] # "none" => p \in overlapped' /\ purpose[d] \in overlapped'
      /\ overlapped \subseteq overlapped' /\ overlapped' \subseteq Purposes
      /\ begun' \in 0 .. MaxTimings /\ UNCHANGED <<time, deaths, died>>
      /\ purpose' \in [Clients -> Purposes] /\ step' \in [Clients -> TimingSteps]
      /\ question' \in [Clients -> Questions \cup {NoQuestion}] /\ at' \in [Clients -> Times]
      /\ seen' \in [Clients -> Intervals \cup {NoInterval}]
  BY Began
<1>2. ByServer' = ByServer /\ logs' = logs
  BY RowsStay
<1>3. Analyses = {"analysis", "recalculation"}
  BY DEF Analyses
<1>4. TimingTypeOK'
  BY <1>1 DEF TimingTypeOK
<1>5. Flow'
  BY <1>1, <1>3 DEF Flow
<1>6. Together'
  BY <1>1 DEF Together, Busy
<1>7. Clocks'
  <2>1. ASSUME NEW d \in Clients
        PROVE  /\ at'[d] <= time
               /\ seen'[d] # NoInterval => seen'[d].from <= Deadline
               /\ purpose'[d] = "start" => at'[d] <= Deadline
    <3>1. CASE d = c
      BY <1>1, <1>3, <3>1 DEF Clocks
    <3>2. CASE d # c
      BY <1>1, <3>2 DEF Clocks
    <3> QED
      BY <3>1, <3>2
  <2> QED
    BY <1>1, <1>2, <2>1 DEF Clocks, EndBy
<1>8. InTurn'
  BY <1>1, <1>2, TimingTypes DEF InTurn, EndBy, VisitedBelow
<1>9. NobodyStarts'
  BY <1>1, <1>2 DEF NobodyStarts
<1>10. Submission'
  <2>1. SUFFICES ASSUME "submit" \notin overlapped' \cup died' PROVE Submission'
    BY DEF Submission
  <2>2. \A d \in Clients \ {c} : step[d] # "none" => purpose[d] # "submit" /\ p # "submit"
    BY <1>1, <2>1
  <2>3. CASE submittedAt # Never
    BY <1>1, <1>2, <2>1, <2>2, <2>3, TimingTypes DEF Submission, EndBy
  <2>4. CASE submittedAt = Never
    <3>1. "submit" \notin overlapped \cup died
      BY <1>1, <2>1
    <3>2. ASSUME NEW d \in Clients, purpose'[d] = "submit", step'[d] # "none"
          PROVE  EndBy(at[d])' /\ (step'[d] = "commit" <=> submittedAt' = Never)
      <4>1. CASE d = c
        BY <1>1, <1>2, <1>3, <2>4, <3>2, <4>1 DEF EndBy
      <4>2. CASE d # c
        BY <1>1, <1>2, <2>4, <3>1, <3>2, <4>2 DEF Submission, EndBy
      <4> QED
        BY <4>1, <4>2
    <3> QED
      BY <2>4, <3>2 DEF Submission
  <2> QED
    BY <2>3, <2>4
<1>11. Analysis'
  BY <1>1, <1>2, <1>3 DEF Analysis
<1> QED
  BY <1>4, <1>5, <1>6, <1>7, <1>8, <1>9, <1>10, <1>11

\* A request goes on, or ends, without a change to what it is about.
LEMMA QuietKeeps ==
    ASSUME TimingInv, NEW c \in Clients, NEW s \in TimingSteps, Proceed(c, s),
           UNCHANGED <<submittedAt, active, logs, stored, early>>, cached' \in Nat \cup {NotMade},
           seen' \in [Clients -> Intervals \cup {NoInterval}], seen'[c] \in {seen[c], NoInterval},
           number' \in [Clients -> Nat], counted' \in [Clients -> Nat],
           \A d \in Clients \ {c} : seen'[d] = seen[d] /\ number'[d] = number[d] /\ counted'[d] = counted[d],
           s \notin {"close", "clear", "commit", "store"},
           s \in {"visit", "set"} => purpose[c] = "start",
           s \in {"ask", "lookup", "analyse", "cache"} => purpose[c] \in Analyses,
           s \in {"visit", "set"} \/ step[c] \notin {"clear", "visit", "set"},
           s = "set" => number'[c] # 0 /\ VisitedBelow(question[c], number'[c]),
           s = "analyse" => active = NoInterval,
           step[c] # "none",
           purpose[c] = "submit" => s = "none" /\ (active = NoInterval \/ step[c] = "commit")
    PROVE  TimingInv'
<1> USE DEF TimingInv
<1>1. /\ step'[c] = s
      /\ s # "none" => question'[c] = question[c] /\ at'[c] = at[c]
      /\ at'[c] \in {0, at[c]}
      /\ \A d \in Clients \ {c} : step'[d] = step[d] /\ question'[d] = question[d] /\ at'[d] = at[d]
      /\ UNCHANGED <<time, purpose, begun, overlapped, deaths, died>>
      /\ step' \in [Clients -> TimingSteps]
      /\ question' \in [Clients -> Questions \cup {NoQuestion}] /\ at' \in [Clients -> Times]
  BY Proceeded
<1>2. ByServer' = ByServer /\ logs' = logs
  BY RowsStay
<1>3. Analyses = {"analysis", "recalculation"}
  BY DEF Analyses
<1>4. TimingTypeOK'
  BY <1>1 DEF TimingTypeOK
<1>5. Flow'
  BY <1>1, <1>3 DEF Flow
<1>6. Together'
  BY <1>1 DEF Together, Busy
<1>7. Clocks'
  <2>1. at'[c] <= at[c] /\ at[c] \in Nat /\ at'[c] \in Nat
    BY <1>1, TimingTypes
  <2>2. ASSUME NEW d \in Clients
        PROVE  /\ at'[d] <= time
               /\ seen'[d] # NoInterval => seen'[d].from <= Deadline
               /\ purpose'[d] = "start" => at'[d] <= Deadline
    <3>1. CASE d = c
      BY <1>1, <2>1, <3>1, TimingTypes DEF Clocks
    <3>2. CASE d # c
      BY <1>1, <3>2 DEF Clocks
    <3> QED
      BY <3>1, <3>2
  <2> QED
    BY <1>1, <1>2, <2>2 DEF Clocks, EndBy
<1>8. InTurn'
  <2>1. SUFFICES ASSUME overlapped = {}, died = {} PROVE InTurn'
    BY <1>1 DEF InTurn
  <2>2. \A i, j \in ByServer' : i < j =>
           /\ logs'[i].till <= logs'[j].from
           /\ logs'[i].on = logs'[j].on => logs'[i].visit < logs'[j].visit
    BY <1>1, <1>2, <2>1 DEF InTurn
  <2>3. ASSUME active # NoInterval, \A d \in Clients : step'[d] \notin {"clear", "visit", "set"}
        PROVE  EndBy(active.from) /\ VisitedBelow(active.on, active.visit)
    <3>1. \A d \in Clients : step[d] \notin {"clear", "visit", "set"}
      BY <1>1, <2>3
    <3> QED
      BY <2>1, <2>3, <3>1 DEF InTurn
  <2>4. ASSUME NEW d \in Clients
        PROVE  /\ step'[d] = "close" => seen'[d] = active
               /\ purpose[d] = "start" /\ step'[d] # "none" => EndBy(at'[d])
               /\ step'[d] = "set" => VisitedBelow(question'[d], number'[d])
    <3>1. CASE d = c
      BY <1>1, <2>1, <3>1 DEF InTurn
    <3>2. CASE d # c
      BY <1>1, <2>1, <3>2 DEF InTurn
    <3> QED
      BY <3>1, <3>2
  <2> QED
    BY <1>1, <1>2, <2>2, <2>3, <2>4 DEF InTurn, EndBy, VisitedBelow
<1>9. NobodyStarts'
  BY <1>1, <1>2 DEF NobodyStarts
<1>10. Submission'
  <2>1. SUFFICES ASSUME "submit" \notin overlapped \cup died PROVE Submission'
    BY <1>1 DEF Submission
  <2>2. CASE purpose[c] = "submit"
    BY <1>1, <1>2, <2>1, <2>2, TimingTypes DEF Submission, EndBy
  <2>3. CASE purpose[c] # "submit"
    BY <1>1, <1>2, <2>1, <2>3, TimingTypes DEF Submission, EndBy
  <2> QED
    BY <2>2, <2>3
<1>11. Analysis'
  BY <1>1, <1>2, <1>3 DEF Analysis
<1> QED
  BY <1>4, <1>5, <1>6, <1>7, <1>8, <1>9, <1>10, <1>11

-----------------------------------------------------------------------------
(* The steps that change what is measured *)

\* A request that runs beside another is on record, and so is the other.
LEMMA Alone ==
    ASSUME TimingInv, NEW c \in Clients, step[c] # "none"
    PROVE  \A d \in Clients \ {c} : step[d] # "none" => purpose[d] \in overlapped /\ purpose[c] \in overlapped
BY DEF TimingInv, Together, Busy

\* The row of a client is none of the server's.
LEMMA SaveTimeLogKeeps ==
    ASSUME TimingInv, NEW q \in Questions, SaveTimeLog(q)
    PROVE  TimingInv'
<1> USE DEF TimingInv
<1> DEFINE n == Len(logs)
           row == [on |-> q, visit |-> 1, from |-> 0, till |-> time, by |-> "client"]
<1>1. /\ logs' = Append(logs, row) /\ begun < MaxTimings /\ begun' = begun + 1
      /\ UNCHANGED <<time, submittedAt, active, analysisState, handlerState, overlapped, deaths, died>>
  BY DEF SaveTimeLog
<1>2. row \in LogRows
  BY TimingTypes DEF LogRows
<1>3. logs \in Seq(LogRows) /\ n \in Nat
  BY TimingTypes
<1> HIDE DEF row
<1>4. /\ logs' \in Seq(LogRows) /\ DOMAIN logs' = 1 .. n + 1 /\ DOMAIN logs = 1 .. n
      /\ \A i \in 1 .. n : logs'[i] = logs[i]
      /\ logs'[n + 1] = row
  BY <1>1, <1>2, <1>3
<1>5. ByServer' = ByServer /\ \A i \in ByServer : logs'[i] = logs[i]
  <2>1. row.by = "client"
    BY DEF row
  <2> QED
    BY <1>3, <1>4, <2>1 DEF ByServer
<1>6. TimingTypeOK'
  <2>1. begun' \in 0 .. MaxTimings
    BY <1>1, TimingAssumption DEF TimingTypeOK
  <2> QED
    BY <1>1, <1>4, <2>1 DEF TimingTypeOK, LogRows, analysisState, handlerState
<1>7. Flow' /\ Together' /\ NobodyStarts'
  BY <1>1 DEF Flow, Together, Busy, NobodyStarts, handlerState
<1>8. Clocks'
  BY <1>1, <1>5 DEF Clocks, EndBy, handlerState
<1>9. InTurn'
  <2>1. SUFFICES ASSUME overlapped = {}, died = {} PROVE InTurn'
    BY <1>1 DEF InTurn
  <2>2. \A i, j \in ByServer : i < j =>
           /\ logs'[i].till <= logs'[j].from
           /\ logs'[i].on = logs'[j].on => logs'[i].visit < logs'[j].visit
    BY <1>5, <2>1 DEF InTurn
  <2>3. \A v : (EndBy(v) => \A i \in ByServer : logs'[i].till <= v)
    BY <1>5 DEF EndBy
  <2>4. \A v, m : (VisitedBelow(v, m) => \A i \in ByServer : logs'[i].on = v => logs'[i].visit < m)
    BY <1>5 DEF VisitedBelow
  <2>5. UNCHANGED <<active, purpose, step, question, at, seen, number>>
    BY <1>1 DEF handlerState
  <2>6. ASSUME active # NoInterval, \A d \in Clients : step[d] \notin {"clear", "visit", "set"}
        PROVE  /\ \A i \in ByServer : logs'[i].till <= active.from
               /\ \A i \in ByServer : logs'[i].on = active.on => logs'[i].visit < active.visit
    BY <2>1, <2>3, <2>4, <2>6 DEF InTurn
  <2>7. ASSUME NEW d \in Clients
        PROVE  /\ step[d] = "close" => seen[d] = active
               /\ purpose[d] = "start" /\ step[d] # "none" => \A i \in ByServer : logs'[i].till <= at[d]
               /\ step[d] = "set" => \A i \in ByServer : logs'[i].on = question[d] => logs'[i].visit < number[d]
    BY <2>1, <2>3, <2>4 DEF InTurn
  <2> QED
    BY <1>5, <2>2, <2>5, <2>6, <2>7 DEF InTurn, EndBy, VisitedBelow
<1>10. Submission'
  BY <1>1, <1>5 DEF Submission, EndBy, handlerState
<1>11. Analysis'
  BY <1>1, <1>5 DEF Analysis, handlerState, analysisState
<1> QED
  BY <1>6, <1>7, <1>8, <1>9, <1>10, <1>11

\* The clock moves.
LEMMA TickKeeps ==
    ASSUME TimingInv, Tick
    PROVE  TimingInv'
<1> USE DEF TimingInv
<1>1. /\ time \in Nat /\ time' = time + 1 /\ time' \in Times
      /\ UNCHANGED <<submittedAt, active, logs, analysisState, handlerState, begun, overlapped, deaths, died>>
  BY TimingAssumption, TimingTypes DEF Tick, Times
<1>2. ByServer' = ByServer
  BY <1>1 DEF ByServer
<1>3. TimingTypeOK'
  BY <1>1 DEF TimingTypeOK, analysisState, handlerState
<1>4. Flow' /\ Together' /\ NobodyStarts'
  BY <1>1 DEF Flow, Together, Busy, NobodyStarts, handlerState
<1>5. Clocks'
  <2>1. ASSUME NEW d \in Clients PROVE at[d] <= time'
    <3>1. at[d] \in Nat /\ at[d] <= time
      BY TimingTypes DEF Clocks
    <3> QED
      BY <1>1, <3>1
  <2>2. ASSUME NEW i \in ByServer PROVE logs[i].till <= time'
    <3>1. logs[i].till \in Nat /\ logs[i].till <= time
      BY TimingTypes DEF Clocks, EndBy
    <3> QED
      BY <1>1, <3>1
  <2> QED
    BY <1>1, <1>2, <2>1, <2>2 DEF Clocks, EndBy, handlerState
<1>6. InTurn'
  BY <1>1, <1>2 DEF InTurn, EndBy, VisitedBelow, handlerState
<1>7. Submission'
  BY <1>1, <1>2 DEF Submission, EndBy, handlerState
<1>8. Analysis'
  BY <1>1, <1>2 DEF Analysis, handlerState, analysisState
<1> QED
  BY <1>3, <1>4, <1>5, <1>6, <1>7, <1>8

\* A request that dies is on record.
LEMMA TimingDiesKeeps ==
    ASSUME TimingInv, NEW c \in Clients, TimingDies(c)
    PROVE  TimingInv'
<1> USE DEF TimingInv
<1>1. /\ step[c] # "none" /\ step'[c] = "none" /\ at'[c] = 0 /\ seen'[c] = NoInterval /\ died' = died \cup {purpose[c]}
      /\ \A d \in Clients \ {c} :
            /\ step'[d] = step[d] /\ question'[d] = question[d] /\ at'[d] = at[d]
            /\ seen'[d] = seen[d] /\ number'[d] = number[d] /\ counted'[d] = counted[d]
      /\ UNCHANGED <<time, submittedAt, active, logs, stored, cached, early, purpose, begun, overlapped>>
  BY TimingTypes DEF TimingDies, analysisState
<1>2. ByServer' = ByServer
  BY <1>1 DEF ByServer
<1>3. TimingTypeOK'
  <2>1. /\ step' \in [Clients -> TimingSteps] /\ question' \in [Clients -> Questions \cup {NoQuestion}]
        /\ at' \in [Clients -> Times] /\ seen' \in [Clients -> Intervals \cup {NoInterval}]
        /\ number' \in [Clients -> Nat] /\ counted' \in [Clients -> Nat]
    BY TimingTypes DEF TimingDies, TimingSteps
  <2>2. deaths' \in 0 .. MaxDeaths
    BY TimingAssumption, TimingTypes DEF TimingDies
  <2>3. died' \subseteq Purposes
    BY <1>1, TimingTypes
  <2> QED
    BY <1>1, <2>1, <2>2, <2>3 DEF TimingTypeOK
<1>4. Flow'
  BY <1>1 DEF Flow
<1>5. Together' /\ NobodyStarts'
  BY <1>1 DEF Together, Busy, NobodyStarts
<1>6. Clocks'
  <2>1. ASSUME NEW d \in Clients
        PROVE  /\ at'[d] <= time
               /\ seen'[d] # NoInterval => seen'[d].from <= Deadline
               /\ purpose'[d] = "start" => at'[d] <= Deadline
    <3>1. CASE d = c
      BY <1>1, <3>1, TimingAssumption, TimingTypes
    <3>2. CASE d # c
      BY <1>1, <3>2 DEF Clocks
    <3> QED
      BY <3>1, <3>2
  <2> QED
    BY <1>1, <1>2, <2>1 DEF Clocks, EndBy
<1>7. InTurn'
  BY <1>1 DEF InTurn
<1>8. Submission'
  <2>1. SUFFICES ASSUME "submit" \notin overlapped \cup died' PROVE Submission'
    BY <1>1 DEF Submission
  <2>2. purpose[c] # "submit" /\ "submit" \notin overlapped \cup died
    BY <1>1, <2>1
  <2> QED
    BY <1>1, <1>2, <2>2 DEF Submission, EndBy
<1>9. Analysis'
  BY <1>1, <1>2 DEF Analysis
<1> QED
  BY <1>3, <1>4, <1>5, <1>6, <1>7, <1>8, <1>9

\* The row is the interval that was open, and ends with the request.
LEMMA CloseIntervalKeeps ==
    ASSUME TimingInv, NEW c \in Clients, CloseInterval(c)
    PROVE  TimingInv'
<1> USE DEF TimingInv
<1> DEFINE n == Len(logs)
           t == Sooner(at[c], Deadline)
           s == IF purpose[c] = "start" THEN "visit" ELSE "clear"
           row == [on |-> seen[c].on, visit |-> seen[c].visit, from |-> seen[c].from, till |-> t, by |-> "server"]
<1>1. /\ step[c] = "close" /\ logs' = Append(logs, row) /\ seen' = [seen EXCEPT ![c] = NoInterval] /\ Proceed(c, s)
      /\ UNCHANGED <<submittedAt, active, stored, cached, early, number, counted>>
  BY DEF CloseInterval, analysisState
<1>2. s \in TimingSteps /\ s \in {"visit", "clear"} /\ (s = "visit" <=> purpose[c] = "start")
  BY DEF TimingSteps
<1> HIDE DEF s
<1>3. /\ step'[c] = s /\ question'[c] = question[c] /\ at'[c] = at[c] /\ seen'[c] = NoInterval
      /\ \A d \in Clients \ {c} : step'[d] = step[d] /\ question'[d] = question[d] /\ at'[d] = at[d] /\ seen'[d] = seen[d]
      /\ UNCHANGED <<time, purpose, begun, overlapped, deaths, died>>
      /\ step' \in [Clients -> TimingSteps] /\ seen' \in [Clients -> Intervals \cup {NoInterval}]
      /\ question' \in [Clients -> Questions \cup {NoQuestion}] /\ at' \in [Clients -> Times]
  BY <1>1, <1>2, Proceeded, TimingTypes
<1>4. seen[c] # NoInterval /\ seen[c] \in Intervals /\ seen[c].from <= Deadline
  BY <1>1, TimingTypes DEF Flow, Clocks
<1>5. t \in Times /\ t <= at[c] /\ t <= Deadline /\ at[c] \in Nat /\ at[c] <= time /\ time \in Nat
  <2>1. at[c] \in Times /\ Deadline \in Times /\ Times \subseteq Nat /\ time \in Nat /\ Nat \subseteq Int
    BY TimingTypes
  <2>2. t \in {at[c], Deadline} /\ t <= at[c] /\ t <= Deadline
    BY <2>1, SoonerIs
  <2> QED
    BY <2>1, <2>2 DEF Clocks
<1>6. row \in LogRows
  BY <1>4, <1>5 DEF LogRows, Intervals
<1>7. /\ row.by = "server" /\ row.till = t /\ row.from = seen[c].from /\ row.on = seen[c].on /\ row.visit = seen[c].visit
  OBVIOUS
<1>8. logs \in Seq(LogRows) /\ n \in Nat
  BY TimingTypes
<1> HIDE DEF row, t
<1>9. /\ logs' \in Seq(LogRows) /\ DOMAIN logs' = 1 .. n + 1 /\ DOMAIN logs = 1 .. n
      /\ \A i \in 1 .. n : logs'[i] = logs[i]
      /\ logs'[n + 1] = row
  BY <1>1, <1>6, <1>8
<1> HIDE DEF n
<1>10. /\ ByServer' = ByServer \cup {n + 1} /\ \A i \in ByServer : logs'[i] = logs[i] /\ i \in 1 .. n /\ i < n + 1
  BY <1>7, <1>8, <1>9 DEF ByServer
<1>11. \A d \in Clients \ {c} : step[d] # "none" => purpose[d] \in overlapped /\ purpose[c] \in overlapped
  BY <1>1, Alone
<1>12. TimingTypeOK'
  BY <1>1, <1>3, <1>9 DEF TimingTypeOK, LogRows
<1>13. Flow'
  BY <1>1, <1>2, <1>3 DEF Flow
<1>14. Together' /\ NobodyStarts'
  BY <1>1, <1>2, <1>3 DEF Together, Busy, NobodyStarts
<1>15. Clocks'
  <2>1. ASSUME NEW i \in ByServer' PROVE logs'[i].till <= time /\ logs'[i].till <= Deadline /\ logs'[i].from <= Deadline
    <3>1. CASE i = n + 1
      BY <1>4, <1>5, <1>7, <1>9, <3>1, TimingTypes
    <3>2. CASE i # n + 1
      BY <1>10, <2>1, <3>2 DEF Clocks, EndBy
    <3> QED
      BY <3>1, <3>2
  <2> QED
    BY <1>1, <1>3, <2>1 DEF Clocks, EndBy
<1>16. InTurn'
  <2>1. SUFFICES ASSUME overlapped = {}, died = {} PROVE InTurn'
    BY <1>3 DEF InTurn
  <2>2. \A d \in Clients \ {c} : step[d] = "none"
    BY <1>11, <2>1
  <2>3. seen[c] = active /\ EndBy(active.from) /\ VisitedBelow(active.on, active.visit)
    BY <1>1, <1>4, <2>1, <2>2 DEF InTurn
  <2>4. ASSUME NEW i \in ByServer', NEW j \in ByServer', i < j
        PROVE  /\ logs'[i].till <= logs'[j].from
               /\ logs'[i].on = logs'[j].on => logs'[i].visit < logs'[j].visit
    <3>1. i \in ByServer /\ i # n + 1
      BY <1>8, <1>10, <2>4
    <3>2. CASE j = n + 1
      BY <1>7, <1>9, <1>10, <2>3, <3>1, <3>2 DEF EndBy, VisitedBelow
    <3>3. CASE j # n + 1
      BY <1>10, <2>1, <2>4, <3>1, <3>3 DEF InTurn
    <3> QED
      BY <3>2, <3>3
  <2>5. ASSUME purpose[c] = "start", NEW i \in ByServer' PROVE logs'[i].till <= at[c]
    <3>1. CASE i = n + 1
      BY <1>5, <1>7, <1>9, <3>1
    <3>2. CASE i # n + 1
      BY <1>1, <1>10, <2>1, <2>5, <3>2 DEF InTurn, EndBy
    <3> QED
      BY <3>1, <3>2
  <2>6. \A d \in Clients : step'[d] \notin {"close", "set"} /\ (step'[d] # "none" => d = c)
    BY <1>2, <1>3, <2>2
  <2> QED
    BY <1>2, <1>3, <2>4, <2>5, <2>6 DEF InTurn, EndBy
<1>17. Submission'
  <2>1. SUFFICES ASSUME "submit" \notin overlapped \cup died PROVE Submission'
    BY <1>3 DEF Submission
  <2>2. submittedAt # Never => purpose[c] = "submit" /\ at[c] = submittedAt
    BY <1>1, <2>1 DEF Submission
  <2>3. \A d \in Clients \ {c} : step[d] # "none" => purpose[d] # "submit" /\ purpose[c] # "submit"
    BY <1>11, <2>1
  <2>4. purpose[c] = "submit" => submittedAt # Never /\ at[c] = submittedAt
    BY <1>1, <2>1 DEF Submission
  <2>5. ASSUME submittedAt # Never, NEW i \in ByServer' PROVE logs'[i].till <= submittedAt
    <3>1. CASE i = n + 1
      BY <1>5, <1>7, <1>9, <2>2, <2>5, <3>1
    <3>2. CASE i # n + 1
      BY <1>10, <2>1, <2>5, <3>2 DEF Submission, EndBy
    <3> QED
      BY <3>1, <3>2
  <2>6. CASE submittedAt = Never
    BY <1>1, <1>2, <1>3, <2>3, <2>4, <2>6 DEF Submission
  <2>7. CASE submittedAt # Never
    <3>1. \A d \in Clients : step'[d] \in {"close", "clear"} => purpose[d] = "submit"
      BY <1>3, <2>1, <2>2, <2>7 DEF Submission
    <3>2. \A d \in Clients : purpose[d] = "submit" /\ step'[d] # "none" => d = c
      BY <1>1, <1>3, <2>3
    <3>3. purpose[c] = "submit" /\ step'[c] = "clear" /\ at'[c] = submittedAt
      BY <1>2, <1>3, <2>2, <2>7
    <3> QED
      BY <1>1, <1>3, <2>5, <2>7, <3>1, <3>2, <3>3 DEF Submission, EndBy
  <2> QED
    BY <2>6, <2>7
<1>18. Analysis'
  <2>1. SUFFICES ASSUME ~early, overlapped \cap ({"submit"} \cup Analyses) = {} PROVE Analysis'
    BY <1>1, <1>3 DEF Analysis
  <2>2. stored = NotMade
    BY <1>1, <2>1 DEF Analysis
  <2>3. \A d \in Clients : step'[d] \in {"analyse", "store"} => d # c /\ step[d] = step'[d] /\ step[d] # "none"
    BY <1>2, <1>3
  <2>4. \A d \in Clients : step'[d] \notin {"analyse", "store"}
    BY <1>11, <2>1, <2>3 DEF Flow
  <2> QED
    BY <1>1, <2>2, <2>4 DEF Analysis
<1> QED
  BY <1>12, <1>13, <1>14, <1>15, <1>16, <1>17, <1>18

\* The interval that was closed is open no longer.
LEMMA ClearKeeps ==
    ASSUME TimingInv, NEW c \in Clients, Clear(c)
    PROVE  TimingInv'
<1> USE DEF TimingInv
<1> DEFINE s == AfterClose(c)
<1>1. /\ step[c] = "clear" /\ active' = NoInterval /\ Proceed(c, s)
      /\ UNCHANGED <<submittedAt, logs, stored, cached, early, seen, number, counted>>
  BY DEF Clear, analysisState
<1>2. purpose[c] # "start"
  BY <1>1 DEF Flow
<1>3. s \in TimingSteps /\ s \in {"analyse", "none"} /\ (s = "analyse" => purpose[c] \in Analyses)
  BY <1>2 DEF TimingSteps, AfterClose
<1> HIDE DEF s
<1>4. /\ step'[c] = s
      /\ s # "none" => question'[c] = question[c] /\ at'[c] = at[c]
      /\ at'[c] \in {0, at[c]}
      /\ \A d \in Clients \ {c} : step'[d] = step[d] /\ question'[d] = question[d] /\ at'[d] = at[d]
      /\ UNCHANGED <<time, purpose, begun, overlapped, deaths, died>>
      /\ step' \in [Clients -> TimingSteps]
      /\ question' \in [Clients -> Questions \cup {NoQuestion}] /\ at' \in [Clients -> Times]
  BY <1>1, <1>3, Proceeded
<1>5. ByServer' = ByServer /\ logs' = logs
  BY <1>1 DEF ByServer
<1>6. \A d \in Clients \ {c} : step[d] # "none" => purpose[d] \in overlapped /\ purpose[c] \in overlapped
  BY <1>1, Alone
<1>7. TimingTypeOK'
  BY <1>1, <1>4 DEF TimingTypeOK
<1>8. Flow'
  BY <1>1, <1>2, <1>3, <1>4 DEF Flow
<1>9. Together' /\ NobodyStarts'
  BY <1>1, <1>4 DEF Together, Busy, NobodyStarts
<1>10. Clocks'
  <2>1. at'[c] <= at[c] /\ at[c] \in Nat /\ at'[c] \in Nat
    BY <1>4, TimingTypes
  <2>2. ASSUME NEW d \in Clients
        PROVE  at'[d] <= time /\ (purpose[d] = "start" => at'[d] <= Deadline)
    <3>1. CASE d = c
      BY <1>2, <2>1, <3>1, TimingTypes DEF Clocks
    <3>2. CASE d # c
      BY <1>4, <3>2 DEF Clocks
    <3> QED
      BY <3>1, <3>2
  <2> QED
    BY <1>1, <1>4, <1>5, <2>2 DEF Clocks, EndBy
<1>11. InTurn'
  <2>1. SUFFICES ASSUME overlapped = {}, died = {} PROVE InTurn'
    BY <1>4 DEF InTurn
  <2>2. \A d \in Clients : step'[d] # "none" => d = c
    BY <1>4, <1>6, <2>1
  <2>3. \A d \in Clients : step'[d] \notin {"close", "set"} /\ (purpose[d] = "start" => step'[d] = "none")
    BY <1>2, <1>3, <1>4, <2>2
  <2>4. \A i, j \in ByServer : i < j =>
           /\ logs[i].till <= logs[j].from
           /\ logs[i].on = logs[j].on => logs[i].visit < logs[j].visit
    BY <2>1 DEF InTurn
  <2> QED
    BY <1>1, <1>4, <1>5, <2>3, <2>4 DEF InTurn
<1>12. Submission'
  <2>1. SUFFICES ASSUME "submit" \notin overlapped \cup died PROVE Submission'
    BY <1>4 DEF Submission
  <2>2. \A d \in Clients : purpose[d] = "submit" /\ step'[d] # "none" => d # c /\ step[d] = step'[d] /\ at'[d] = at[d]
    <3>1. "submit" \notin Analyses
      BY DEF Analyses
    <3> QED
      BY <1>3, <1>4, <3>1
  <2>3. \A d \in Clients : step'[d] \in {"close", "clear"} => d # c /\ step[d] = step'[d]
    BY <1>3, <1>4
  <2>4. \A d \in Clients : purpose[d] = "submit" /\ step'[d] # "none" =>
           (EndBy(at[d])' /\ (step'[d] = "commit" <=> submittedAt = Never))
    <3>1. \A v : (EndBy(v) => \A i \in ByServer : logs[i].till <= v)
      BY DEF EndBy
    <3> QED
      BY <1>5, <2>1, <2>2, <3>1 DEF Submission, EndBy
  <2>5. submittedAt # Never => EndBy(submittedAt)'
    BY <1>1, <1>5, <2>1 DEF Submission, EndBy
  <2> QED
    BY <1>1, <1>4, <2>1, <2>2, <2>3, <2>4, <2>5 DEF Submission
<1>13. Analysis'
  BY <1>1, <1>3, <1>4, <1>5 DEF Analysis
<1> QED
  BY <1>7, <1>8, <1>9, <1>10, <1>11, <1>12, <1>13

\* The question that is opened comes after everything that was measured.
LEMMA SetActiveKeeps ==
    ASSUME TimingInv, NEW c \in Clients, SetActive(c)
    PROVE  TimingInv'
<1> USE DEF TimingInv
<1>1. /\ step[c] = "set" /\ active' = [on |-> question[c], visit |-> number[c], from |-> at[c]]
      /\ number' = [number EXCEPT ![c] = 0] /\ Proceed(c, "none")
      /\ UNCHANGED <<submittedAt, logs, stored, cached, early, seen, counted>>
  BY DEF SetActive, analysisState
<1>2. purpose[c] = "start" /\ question[c] \in Questions /\ number[c] \in Nat \ {0} /\ at[c] \in Times /\ at[c] <= Deadline
  BY <1>1, TimingTypes DEF Flow, Clocks
<1>3. /\ active' \in Intervals /\ active'.on = question[c] /\ active'.visit = number[c] /\ active'.from = at[c]
  BY <1>1, <1>2 DEF Intervals
<1>4. /\ step'[c] = "none" /\ at'[c] \in {0, at[c]}
      /\ \A d \in Clients \ {c} : step'[d] = step[d] /\ question'[d] = question[d] /\ at'[d] = at[d] /\ number'[d] = number[d]
      /\ UNCHANGED <<time, purpose, begun, overlapped, deaths, died>>
      /\ step' \in [Clients -> TimingSteps] /\ number' \in [Clients -> Nat]
      /\ question' \in [Clients -> Questions \cup {NoQuestion}] /\ at' \in [Clients -> Times]
  <2>1. "none" \in TimingSteps
    BY DEF TimingSteps
  <2> QED
    BY <1>1, <2>1, Proceeded, TimingTypes
<1>5. ByServer' = ByServer /\ logs' = logs
  BY <1>1 DEF ByServer
<1>6. \A d \in Clients \ {c} : step[d] # "none" => purpose[d] \in overlapped /\ purpose[c] \in overlapped
  BY <1>1, Alone
<1>7. TimingTypeOK'
  BY <1>1, <1>3, <1>4 DEF TimingTypeOK
<1>8. Flow'
  BY <1>1, <1>4 DEF Flow
<1>9. Together' /\ NobodyStarts'
  BY <1>1, <1>4 DEF Together, Busy, NobodyStarts
<1>10. Clocks'
  <2>1. at'[c] <= at[c] /\ at[c] \in Nat /\ at'[c] \in Nat
    BY <1>4, TimingTypes
  <2>2. ASSUME NEW d \in Clients
        PROVE  at'[d] <= time /\ (purpose[d] = "start" => at'[d] <= Deadline)
    <3>1. CASE d = c
      BY <1>2, <2>1, <3>1, TimingTypes DEF Clocks
    <3>2. CASE d # c
      BY <1>4, <3>2 DEF Clocks
    <3> QED
      BY <3>1, <3>2
  <2> QED
    BY <1>1, <1>2, <1>3, <1>4, <1>5, <2>2 DEF Clocks, EndBy
<1>11. InTurn'
  <2>1. SUFFICES ASSUME overlapped = {}, died = {} PROVE InTurn'
    BY <1>4 DEF InTurn
  <2>2. \A d \in Clients : step'[d] = "none"
    BY <1>4, <1>6, <2>1
  <2>3. EndBy(at[c]) /\ VisitedBelow(question[c], number[c])
    BY <1>1, <1>2, <2>1 DEF InTurn
  <2>4. \A i, j \in ByServer : i < j =>
           /\ logs[i].till <= logs[j].from
           /\ logs[i].on = logs[j].on => logs[i].visit < logs[j].visit
    BY <2>1 DEF InTurn
  <2>5. /\ \A i \in ByServer : logs[i].till <= active'.from
        /\ \A i \in ByServer : logs[i].on = active'.on => logs[i].visit < active'.visit
    BY <1>3, <2>3 DEF EndBy, VisitedBelow
  <2> QED
    BY <1>4, <1>5, <2>2, <2>4, <2>5 DEF InTurn, EndBy, VisitedBelow
<1>12. Submission'
  <2>1. SUFFICES ASSUME "submit" \notin overlapped \cup died PROVE Submission'
    BY <1>4 DEF Submission
  <2>2. submittedAt = Never
    BY <1>1, <1>2, <2>1 DEF NobodyStarts
  <2>3. \A v : (EndBy(v) => \A i \in ByServer : logs[i].till <= v)
    BY DEF EndBy
  <2>4. \A d \in Clients : purpose[d] = "submit" /\ step'[d] # "none" => (EndBy(at[d])' /\ at'[d] = at[d] /\ step'[d] = "commit")
    BY <1>4, <1>5, <2>1, <2>2, <2>3 DEF Submission, EndBy
  <2> QED
    BY <1>1, <1>4, <2>2, <2>4 DEF Submission
<1>13. Analysis'
  <2>1. SUFFICES ASSUME ~early, overlapped \cap ({"submit"} \cup Analyses) = {} PROVE Analysis'
    BY <1>1, <1>4 DEF Analysis
  <2>2. submittedAt = Never
    BY <1>1, <1>2, <2>1 DEF NobodyStarts
  <2>3. stored = NotMade
    BY <2>1, <2>2 DEF Analysis
  <2>4. \A d \in Clients : step'[d] \notin {"analyse", "store"}
    <3>1. \A d \in Clients : step'[d] # "none" => d # c /\ step[d] = step'[d]
      BY <1>4
    <3> QED
      BY <1>6, <2>1, <3>1 DEF Flow
  <2> QED
    BY <1>1, <2>3, <2>4 DEF Analysis
<1> QED
  BY <1>7, <1>8, <1>9, <1>10, <1>11, <1>12, <1>13

\* A request finds an interval open, and takes it.
LEMMA FindKeeps ==
    ASSUME TimingInv, NEW c \in Clients, NEW t \in Times, step[c] = "read", active # NoInterval, t <= time,
           step' = [step EXCEPT ![c] = "close"], at' = [at EXCEPT ![c] = t], seen' = [seen EXCEPT ![c] = active],
           purpose[c] \notin Analyses => t = at[c],
           UNCHANGED <<time, purpose, question, begun, overlapped, deaths, died, submittedAt, active, logs,
                       stored, cached, early, number, counted>>
    PROVE  TimingInv'
<1> USE DEF TimingInv
<1>1. /\ step'[c] = "close" /\ seen'[c] = active /\ at'[c] = t /\ seen' \in [Clients -> Intervals \cup {NoInterval}]
      /\ \A d \in Clients \ {c} : step'[d] = step[d] /\ seen'[d] = seen[d] /\ at'[d] = at[d]
      /\ step' \in [Clients -> TimingSteps] /\ at' \in [Clients -> Times]
  BY TimingTypes DEF TimingSteps
<1>2. ByServer' = ByServer
  BY DEF ByServer
<1>3. \A d \in Clients \ {c} : step[d] # "none" => purpose[d] \in overlapped /\ purpose[c] \in overlapped
  BY Alone
<1>4. "start" \notin Analyses /\ "submit" \notin Analyses
  BY DEF Analyses
<1>5. TimingTypeOK'
  BY <1>1 DEF TimingTypeOK
<1>6. Flow'
  BY <1>1 DEF Flow
<1>7. Together' /\ NobodyStarts'
  BY <1>1 DEF Together, Busy, NobodyStarts
<1>8. Clocks'
  <2>1. ASSUME NEW d \in Clients
        PROVE  /\ at'[d] <= time
               /\ seen'[d] # NoInterval => seen'[d].from <= Deadline
               /\ purpose[d] = "start" => at'[d] <= Deadline
    <3>1. CASE d = c
      BY <1>1, <1>4, <3>1 DEF Clocks
    <3>2. CASE d # c
      BY <1>1, <3>2 DEF Clocks
    <3> QED
      BY <3>1, <3>2
  <2> QED
    BY <1>1, <1>2, <2>1 DEF Clocks, EndBy
<1>9. InTurn'
  <2>1. SUFFICES ASSUME overlapped = {}, died = {} PROVE InTurn'
    BY DEF InTurn
  <2>2. \A d \in Clients : d # c => step[d] = "none"
    BY <1>3, <2>1
  <2>3. \A v : (EndBy(v) => \A i \in ByServer : logs[i].till <= v)
    BY DEF EndBy
  <2>4. \A v, m : (VisitedBelow(v, m) => \A i \in ByServer : logs[i].on = v => logs[i].visit < m)
    BY DEF VisitedBelow
  <2>5. \A i, j \in ByServer : i < j =>
           /\ logs[i].till <= logs[j].from
           /\ logs[i].on = logs[j].on => logs[i].visit < logs[j].visit
    BY <2>1 DEF InTurn
  <2>6. EndBy(active.from) /\ VisitedBelow(active.on, active.visit)
    BY <2>1, <2>2 DEF InTurn
  <2>7. purpose[c] = "start" => at'[c] = at[c] /\ EndBy(at[c])
    BY <1>1, <1>4, <2>1 DEF InTurn
  <2>8. \A d \in Clients : step'[d] # "set" /\ (step'[d] = "close" => seen'[d] = active)
                           /\ (purpose[d] = "start" /\ step'[d] # "none" => d = c)
    BY <1>1, <2>2
  <2>9. \A d \in Clients : purpose[d] = "start" /\ step'[d] # "none" => \A i \in ByServer : logs[i].till <= at'[d]
    BY <2>3, <2>7, <2>8
  <2>10. /\ \A i \in ByServer : logs[i].till <= active.from
         /\ \A i \in ByServer : logs[i].on = active.on => logs[i].visit < active.visit
    BY <2>3, <2>4, <2>6
  <2> QED
    BY <1>2, <2>5, <2>8, <2>9, <2>10 DEF InTurn, EndBy, VisitedBelow
<1>10. Submission'
  <2>1. SUFFICES ASSUME "submit" \notin overlapped \cup died PROVE Submission'
    BY DEF Submission
  <2>2. \A d \in Clients : step[d] # "none" /\ d # c => purpose[d] # "submit" /\ purpose[c] # "submit"
    BY <1>3, <2>1
  <2>3. submittedAt # Never => purpose[c] = "submit"
    BY <2>1, <2>2 DEF Submission
  <2>4. purpose[c] = "submit" => submittedAt # Never /\ at[c] = submittedAt /\ t = at[c] /\ EndBy(at[c])
    BY <1>4, <2>1 DEF Submission
  <2>5. \A v : (EndBy(v) => \A i \in ByServer : logs[i].till <= v)
    BY DEF EndBy
  <2>6. CASE submittedAt = Never
    <3>1. \A d \in Clients : purpose[d] = "submit" /\ step'[d] # "none" =>
             d # c /\ step[d] = step'[d] /\ at'[d] = at[d] /\ step[d] = "commit" /\ EndBy(at[d])
      BY <1>1, <2>1, <2>4, <2>6 DEF Submission
    <3> QED
      BY <1>2, <2>5, <2>6, <3>1 DEF Submission, EndBy
  <2>7. CASE submittedAt # Never
    <3>1. \A d \in Clients : purpose[d] = "submit" /\ step'[d] # "none" => d = c
      BY <1>1, <2>2, <2>3, <2>7
    <3>2. EndBy(submittedAt) /\ \A d \in Clients : step'[d] \in {"close", "clear"} => purpose[d] = "submit"
      BY <1>1, <2>1, <2>3, <2>7 DEF Submission
    <3>3. purpose[c] = "submit" /\ at'[c] = submittedAt /\ step'[c] = "close"
      BY <1>1, <2>3, <2>4, <2>7
    <3>4. \A i \in ByServer : logs[i].till <= submittedAt
      BY <2>5, <3>2
    <3> QED
      BY <1>2, <2>7, <3>1, <3>2, <3>3, <3>4 DEF Submission, EndBy
  <2> QED
    BY <2>6, <2>7
<1>11. Analysis'
  BY <1>1, <1>2 DEF Analysis
<1> QED
  BY <1>5, <1>6, <1>7, <1>8, <1>9, <1>10, <1>11

\* The attempt is submitted.
LEMMA SubmitKeeps ==
    ASSUME TimingInv, NEW c \in Clients, step[c] = "commit", submittedAt = Never, submittedAt' = at[c],
           Proceed(c, "read"),
           UNCHANGED <<active, logs, stored, cached, early, seen, number, counted>>
    PROVE  TimingInv'
<1> USE DEF TimingInv
<1>1. /\ step'[c] = "read" /\ at'[c] = at[c] /\ question'[c] = question[c]
      /\ \A d \in Clients \ {c} : step'[d] = step[d] /\ question'[d] = question[d] /\ at'[d] = at[d]
      /\ UNCHANGED <<time, purpose, begun, overlapped, deaths, died>>
      /\ step' \in [Clients -> TimingSteps]
      /\ question' \in [Clients -> Questions \cup {NoQuestion}] /\ at' \in [Clients -> Times]
  <2>1. "read" \in TimingSteps
    BY DEF TimingSteps
  <2> QED
    BY <2>1, Proceeded
<1>2. ByServer' = ByServer
  BY DEF ByServer
<1>3. \A d \in Clients \ {c} : step[d] # "none" => purpose[d] \in overlapped /\ purpose[c] \in overlapped
  BY Alone
<1>4. purpose[c] = "submit" /\ submittedAt' \in Times /\ submittedAt' # Never
  BY TimingTypes DEF Flow
<1>5. TimingTypeOK'
  BY <1>1, <1>4 DEF TimingTypeOK
<1>6. Flow'
  BY <1>1, <1>4 DEF Flow
<1>7. Together'
  BY <1>1 DEF Together, Busy
<1>8. Clocks'
  <2>1. \A d \in Clients : at'[d] = at[d]
    BY <1>1
  <2> QED
    BY <1>1, <1>2, <2>1 DEF Clocks, EndBy
<1>9. InTurn'
  <2>1. \A d \in Clients : at'[d] = at[d] /\ question'[d] = question[d]
    BY <1>1
  <2>2. SUFFICES ASSUME overlapped = {}, died = {} PROVE InTurn'
    BY <1>1 DEF InTurn
  <2>3. \A d \in Clients : step'[d] # "none" => d = c
    BY <1>1, <1>3, <2>2
  <2>4. \A d \in Clients : step[d] \notin {"clear", "visit", "set"}
    BY <1>1, <2>3
  <2>5. active # NoInterval => EndBy(active.from) /\ VisitedBelow(active.on, active.visit)
    BY <2>2, <2>4 DEF InTurn
  <2>6. \A d \in Clients : step'[d] \notin {"close", "set"} /\ ~(purpose[d] = "start" /\ step'[d] # "none")
    BY <1>1, <1>4, <2>3
  <2>7. \A i, j \in ByServer : i < j =>
           /\ logs[i].till <= logs[j].from
           /\ logs[i].on = logs[j].on => logs[i].visit < logs[j].visit
    BY <2>2 DEF InTurn
  <2>8. active # NoInterval =>
           /\ \A i \in ByServer : logs[i].till <= active.from
           /\ \A i \in ByServer : logs[i].on = active.on => logs[i].visit < active.visit
    BY <2>5 DEF EndBy, VisitedBelow
  <2> QED
    BY <1>1, <1>2, <2>6, <2>7, <2>8 DEF InTurn, EndBy, VisitedBelow
<1>10. NobodyStarts'
  BY <1>1, <1>3, <1>4 DEF NobodyStarts
<1>11. Submission'
  <2>1. SUFFICES ASSUME "submit" \notin overlapped \cup died PROVE Submission'
    BY <1>1 DEF Submission
  <2>2. \A d \in Clients : step'[d] # "none" => d = c
    BY <1>1, <1>3, <1>4, <2>1
  <2>3. EndBy(at[c])
    BY <1>4, <2>1 DEF Submission
  <2>4. \A i \in ByServer : logs[i].till <= at[c]
    BY <2>3 DEF EndBy
  <2> QED
    BY <1>1, <1>2, <1>4, <2>2, <2>4 DEF Submission, EndBy
<1>12. Analysis'
  BY <1>1, <1>2, <1>4 DEF Analysis
<1> QED
  BY <1>5, <1>6, <1>7, <1>8, <1>9, <1>10, <1>11, <1>12

\* The requests that make the analysis disturb only the analysis.
LEMMA AnalysisGoesOn ==
    ASSUME TimingInv, NEW c \in Clients, NEW s \in {"store", "cache"}, step[c] \in {"analyse", "store"}, Proceed(c, s),
           UNCHANGED <<submittedAt, active, logs, seen, number>>
    PROVE  /\ purpose[c] \in Analyses /\ step'[c] = s /\ ByServer' = ByServer
           /\ \A d \in Clients \ {c} :
                 /\ step'[d] = step[d]
                 /\ step[d] # "none" => purpose[d] \in overlapped /\ purpose[c] \in overlapped
           /\ UNCHANGED <<purpose, overlapped, logs>>
           /\ stored' \in Nat \cup {NotMade} /\ cached' \in Nat \cup {NotMade} /\ early' \in BOOLEAN
              /\ counted' \in [Clients -> Nat] => TimingTypeOK'
           /\ Flow' /\ Together' /\ Clocks' /\ InTurn' /\ NobodyStarts' /\ Submission'
<1> USE DEF TimingInv
<1>1. purpose[c] \in Analyses /\ "start" \notin Analyses /\ "submit" \notin Analyses
  BY DEF Flow, Analyses
<1>2. /\ step'[c] = s /\ at'[c] = at[c] /\ question'[c] = question[c]
      /\ \A d \in Clients \ {c} : step'[d] = step[d] /\ question'[d] = question[d] /\ at'[d] = at[d]
      /\ UNCHANGED <<time, purpose, begun, overlapped, deaths, died>>
      /\ step' \in [Clients -> TimingSteps]
      /\ question' \in [Clients -> Questions \cup {NoQuestion}] /\ at' \in [Clients -> Times]
  <2>1. s \in TimingSteps
    BY DEF TimingSteps
  <2> QED
    BY <2>1, Proceeded
<1>3. ByServer' = ByServer /\ logs' = logs
  BY DEF ByServer
<1>4. \A d \in Clients \ {c} : step[d] # "none" => purpose[d] \in overlapped /\ purpose[c] \in overlapped
  BY Alone
<1>5. \A d \in Clients : at'[d] = at[d] /\ question'[d] = question[d]
  BY <1>2
<1>6. stored' \in Nat \cup {NotMade} /\ cached' \in Nat \cup {NotMade} /\ early' \in BOOLEAN
      /\ counted' \in [Clients -> Nat] => TimingTypeOK'
  BY <1>2 DEF TimingTypeOK
<1>7. Flow'
  BY <1>1, <1>2 DEF Flow
<1>8. Together' /\ NobodyStarts'
  BY <1>2 DEF Together, Busy, NobodyStarts
<1>9. Clocks'
  BY <1>2, <1>3, <1>5 DEF Clocks, EndBy
<1>10. InTurn'
  <2>1. SUFFICES ASSUME overlapped = {}, died = {} PROVE InTurn'
    BY <1>2 DEF InTurn
  <2>2. \A d \in Clients : step'[d] # "none" => d = c
    BY <1>2, <1>4, <2>1
  <2>3. \A d \in Clients : step[d] \notin {"clear", "visit", "set"}
    BY <1>2, <2>2
  <2>4. active # NoInterval => EndBy(active.from) /\ VisitedBelow(active.on, active.visit)
    BY <2>1, <2>3 DEF InTurn
  <2>5. \A d \in Clients : step'[d] \notin {"close", "set"} /\ ~(purpose[d] = "start" /\ step'[d] # "none")
    BY <1>1, <1>2, <2>2
  <2>6. \A i, j \in ByServer : i < j =>
           /\ logs[i].till <= logs[j].from
           /\ logs[i].on = logs[j].on => logs[i].visit < logs[j].visit
    BY <2>1 DEF InTurn
  <2>7. active # NoInterval =>
           /\ \A i \in ByServer : logs[i].till <= active.from
           /\ \A i \in ByServer : logs[i].on = active.on => logs[i].visit < active.visit
    BY <2>4 DEF EndBy, VisitedBelow
  <2> QED
    BY <1>2, <1>3, <2>5, <2>6, <2>7 DEF InTurn, EndBy, VisitedBelow
<1>11. Submission'
  <2>1. SUFFICES ASSUME "submit" \notin overlapped \cup died PROVE Submission'
    BY <1>2 DEF Submission
  <2>2. \A v : (EndBy(v) => \A i \in ByServer : logs[i].till <= v)
    BY DEF EndBy
  <2>3. \A d \in Clients : purpose[d] = "submit" /\ step'[d] # "none" =>
           d # c /\ step[d] = step'[d] /\ EndBy(at[d]) /\ (step[d] = "commit" <=> submittedAt = Never)
    BY <1>1, <1>2, <2>1 DEF Submission
  <2>4. CASE submittedAt = Never
    BY <1>2, <1>3, <1>5, <2>2, <2>3, <2>4 DEF Submission, EndBy
  <2>5. CASE submittedAt # Never
    <3>1. \A d \in Clients : step'[d] \in {"close", "clear"} => d # c /\ step[d] = step'[d]
      BY <1>2
    <3>2. EndBy(submittedAt) /\ \A d \in Clients : step'[d] \in {"close", "clear"} => purpose[d] = "submit"
      BY <2>1, <2>5, <3>1 DEF Submission
    <3>3. \A d \in Clients : purpose[d] = "submit" /\ step[d] # "none" => d # c /\ at[d] = submittedAt
      BY <1>1, <2>1, <2>5 DEF Submission
    <3>4. active # NoInterval => \E d \in Clients : purpose[d] = "submit" /\ step'[d] \in {"read", "close", "clear"}
      BY <1>1, <1>2, <2>1, <2>5 DEF Submission
    <3> QED
      BY <1>2, <1>3, <1>5, <2>2, <2>3, <2>5, <3>2, <3>3, <3>4 DEF Submission, EndBy
  <2> QED
    BY <2>4, <2>5
<1> QED
  BY <1>1, <1>2, <1>3, <1>4, <1>6, <1>7, <1>8, <1>9, <1>10, <1>11

\* The analysis counts the rows.
LEMMA AnalyseKeeps ==
    ASSUME TimingInv, NEW c \in Clients, Analyse(c)
    PROVE  TimingInv'
<1>1. /\ step[c] = "analyse" /\ counted' = [counted EXCEPT ![c] = Len(logs)] /\ early' = (early \/ submittedAt = Never)
      /\ Proceed(c, "store") /\ UNCHANGED <<submittedAt, active, logs, stored, cached, seen, number>>
  BY DEF Analyse
<1>2. /\ purpose[c] \in Analyses /\ step'[c] = "store" /\ ByServer' = ByServer
      /\ \A d \in Clients \ {c} :
            /\ step'[d] = step[d]
            /\ step[d] # "none" => purpose[d] \in overlapped /\ purpose[c] \in overlapped
      /\ UNCHANGED <<purpose, overlapped, logs>>
      /\ stored' \in Nat \cup {NotMade} /\ cached' \in Nat \cup {NotMade} /\ early' \in BOOLEAN
         /\ counted' \in [Clients -> Nat] => TimingTypeOK'
      /\ Flow' /\ Together' /\ Clocks' /\ InTurn' /\ NobodyStarts' /\ Submission'
  BY <1>1, AnalysisGoesOn
<1>3. /\ counted'[c] = Len(logs) /\ counted' \in [Clients -> Nat]
      /\ \A d \in Clients \ {c} : counted'[d] = counted[d]
  BY <1>1, TimingTypes DEF TimingInv
<1>4. TimingTypeOK'
  <2>1. stored' \in Nat \cup {NotMade} /\ cached' \in Nat \cup {NotMade} /\ early' \in BOOLEAN
    BY <1>1 DEF TimingInv, TimingTypeOK
  <2> QED
    BY <1>2, <1>3, <2>1
<1>5. Analysis'
  <2>1. SUFFICES ASSUME ~early', overlapped \cap ({"submit"} \cup Analyses) = {} PROVE Analysis'
    BY <1>2 DEF Analysis
  <2>2. ~early /\ submittedAt # Never /\ Analysis
    BY <1>1, <2>1 DEF TimingInv
  <2>3. active = NoInterval
    BY <1>1, <2>1, <2>2 DEF Analysis
  <2>4. \A i \in ByServer : i <= Len(logs)
    BY TimingTypes DEF TimingInv
  <2>5. \A d \in Clients : step'[d] = "store" => d = c
    <3>1. \A d \in Clients \ {c} : step[d] = "none"
      BY <1>2, <2>1
    <3> QED
      BY <1>2, <3>1
  <2>6. stored # NotMade => \A i \in ByServer : i <= stored
    BY <2>1, <2>2 DEF Analysis
  <2>7. stored # NotMade => \A d \in Clients : step'[d] # "close"
    BY <1>2, <2>1, <2>2 DEF Analysis
  <2> QED
    BY <1>1, <1>2, <1>3, <2>2, <2>3, <2>4, <2>5, <2>6, <2>7 DEF Analysis
<1> QED
  BY <1>2, <1>4, <1>5 DEF TimingInv

\* The row takes what was counted.
LEMMA StoreAnalysisKeeps ==
    ASSUME TimingInv, NEW c \in Clients, StoreAnalysis(c)
    PROVE  TimingInv'
<1>1. /\ step[c] = "store" /\ stored' = counted[c] /\ Proceed(c, "cache")
      /\ UNCHANGED <<submittedAt, active, logs, cached, early, seen, number, counted>>
  BY DEF StoreAnalysis
<1>2. /\ purpose[c] \in Analyses /\ step'[c] = "cache" /\ ByServer' = ByServer
      /\ \A d \in Clients \ {c} :
            /\ step'[d] = step[d]
            /\ step[d] # "none" => purpose[d] \in overlapped /\ purpose[c] \in overlapped
      /\ UNCHANGED <<purpose, overlapped, logs>>
      /\ stored' \in Nat \cup {NotMade} /\ cached' \in Nat \cup {NotMade} /\ early' \in BOOLEAN
         /\ counted' \in [Clients -> Nat] => TimingTypeOK'
      /\ Flow' /\ Together' /\ Clocks' /\ InTurn' /\ NobodyStarts' /\ Submission'
  BY <1>1, AnalysisGoesOn
<1>3. TimingTypeOK'
  <2>1. counted \in [Clients -> Nat]
    BY TimingTypes DEF TimingInv
  <2>2. stored' \in Nat \cup {NotMade} /\ cached' \in Nat \cup {NotMade} /\ early' \in BOOLEAN
    BY <1>1, <2>1 DEF TimingInv, TimingTypeOK
  <2> QED
    BY <1>1, <1>2, <2>1, <2>2
<1>4. Analysis'
  <2>1. SUFFICES ASSUME ~early, overlapped \cap ({"submit"} \cup Analyses) = {} PROVE Analysis'
    BY <1>1, <1>2 DEF Analysis
  <2>2. active = NoInterval /\ submittedAt # Never /\ \A i \in ByServer : i <= counted[c]
    BY <1>1, <2>1 DEF Analysis, TimingInv
  <2>3. \A d \in Clients : step'[d] \notin {"analyse", "store", "close"}
    <3>1. \A d \in Clients \ {c} : step[d] = "none"
      BY <1>2, <2>1
    <3> QED
      BY <1>2, <3>1
  <2> QED
    BY <1>1, <1>2, <2>2, <2>3 DEF Analysis
<1> QED
  BY <1>2, <1>3, <1>4 DEF TimingInv

-----------------------------------------------------------------------------
(* The steps of the requests *)

\* What a request finds open is taken, dropped or not there.
LEMMA ReadActiveKeeps ==
    ASSUME TimingInv, NEW c \in Clients, ReadActive(c)
    PROVE  TimingInv'
<1> DEFINE same == purpose[c] = "start" /\ active # NoInterval /\ active.on = question[c]
           t == IF purpose[c] \in Analyses THEN time ELSE at[c]
<1>1. /\ step[c] = "read" /\ seen' = [seen EXCEPT ![c] = IF same THEN NoInterval ELSE active]
      /\ UNCHANGED <<submittedAt, active, logs, stored, cached, early, number, counted>>
  BY DEF ReadActive, analysisState
<1>2. /\ seen' \in [Clients -> Intervals \cup {NoInterval}] /\ number' \in [Clients -> Nat] /\ counted' \in [Clients -> Nat]
      /\ cached' \in Nat \cup {NotMade} /\ purpose[c] \in Purposes
      /\ \A d \in Clients \ {c} : seen'[d] = seen[d]
      /\ same \/ active = NoInterval => seen'[c] = NoInterval
  BY <1>1, TimingTypes DEF TimingInv, TimingTypeOK
<1>3. CASE same /\ Proceed(c, "none")
  <2>1. "none" \in TimingSteps /\ purpose[c] # "submit"
    BY <1>3 DEF TimingSteps
  <2> QED
    BY <1>1, <1>2, <1>3, <2>1, QuietKeeps
<1>4. CASE active = NoInterval /\ Proceed(c, AfterClose(c))
  <2>1. /\ AfterClose(c) \in TimingSteps /\ AfterClose(c) \in {"visit", "analyse", "none"}
        /\ AfterClose(c) = "visit" => purpose[c] = "start"
        /\ AfterClose(c) = "analyse" => purpose[c] \in Analyses
        /\ purpose[c] = "submit" => AfterClose(c) = "none"
    BY DEF AfterClose, TimingSteps, Analyses
  <2> QED
    BY <1>1, <1>2, <1>4, <2>1, QuietKeeps
<1>5. CASE /\ active # NoInterval /\ ~same
           /\ step' = [step EXCEPT ![c] = "close"] /\ at' = [at EXCEPT ![c] = t]
           /\ UNCHANGED <<time, purpose, question, begun, overlapped, deaths, died>>
  <2>1. t \in Times /\ t <= time /\ (purpose[c] \notin Analyses => t = at[c])
    BY TimingTypes DEF TimingInv, Clocks
  <2>2. seen' = [seen EXCEPT ![c] = active]
    BY <1>1, <1>5
  <2> HIDE DEF t, same
  <2> QED
    BY <1>1, <1>5, <2>1, <2>2, FindKeeps
<1> QED
  BY <1>3, <1>4, <1>5 DEF ReadActive

\* The other steps of the requests that began
LEMMA QuietSteps ==
    ASSUME TimingInv, NEW c \in Clients,
           ReadVisit(c) \/ SubmitCommit(c) \/ AskCache(c) \/ Lookup(c) \/ CacheAnalysis(c)
    PROVE  TimingInv'
<1>1. /\ number \in [Clients -> Nat] /\ counted \in [Clients -> Nat] /\ seen \in [Clients -> Intervals \cup {NoInterval}]
      /\ logs \in Seq(LogRows) /\ stored \in Nat \cup {NotMade} /\ cached \in Nat \cup {NotMade}
      /\ {"none", "set", "lookup", "cache", "read"} \subseteq TimingSteps
      /\ "start" \notin Analyses /\ "submit" \notin Analyses
      /\ step[c] = "visit" => purpose[c] = "start"
      /\ step[c] \in {"ask", "lookup", "cache"} => purpose[c] \in Analyses
  BY TimingTypes DEF TimingInv, TimingTypeOK, TimingSteps, Flow, Analyses
<1>2. CASE ReadVisit(c)
  <2> DEFINE v == LastVisit(question[c]) + 1
  <2>1. /\ step[c] = "visit" /\ number' = [number EXCEPT ![c] = v] /\ Proceed(c, "set")
        /\ UNCHANGED <<submittedAt, active, logs, stored, cached, early, seen, counted>>
    BY <1>2 DEF ReadVisit, analysisState
  <2>2. v \in Nat /\ v # 0 /\ VisitedBelow(question[c], v)
    <3>1. LastVisit(question[c]) \in Nat /\ VisitedBelow(question[c], LastVisit(question[c]) + 1)
      BY <1>1, LastVisitIs
    <3> QED
      BY <3>1
  <2> HIDE DEF v
  <2>3. number' \in [Clients -> Nat] /\ number'[c] = v /\ \A d \in Clients \ {c} : number'[d] = number[d]
    BY <1>1, <2>1, <2>2
  <2> QED
    BY <1>1, <2>1, <2>2, <2>3, QuietKeeps
<1>3. CASE SubmitCommit(c)
  <2>1. /\ step[c] = "commit" /\ UNCHANGED <<active, logs, stored, cached, early, seen, number, counted>>
    BY <1>3 DEF SubmitCommit, analysisState
  <2>2. CASE submittedAt = Never /\ submittedAt' = at[c] /\ Proceed(c, "read")
    BY <2>1, <2>2, SubmitKeeps
  <2>3. CASE submittedAt' = submittedAt /\ Proceed(c, "none")
    BY <1>1, <2>1, <2>3, QuietKeeps
  <2> QED
    BY <1>3, <2>2, <2>3 DEF SubmitCommit
<1>4. CASE AskCache(c)
  <2>1. PICK s \in {"none", "lookup"} : Proceed(c, s)
    BY <1>4 DEF AskCache
  <2>2. step[c] = "ask" /\ UNCHANGED <<submittedAt, active, logs, stored, cached, early, seen, number, counted>>
    BY <1>4 DEF AskCache, analysisState
  <2> QED
    BY <1>1, <2>1, <2>2, QuietKeeps
<1>5. CASE Lookup(c)
  <2>1. step[c] = "lookup" /\ UNCHANGED <<submittedAt, active, logs, stored, cached, early, seen, number>>
    BY <1>5 DEF Lookup, analysisState
  <2>2. CASE stored # NotMade /\ counted' = [counted EXCEPT ![c] = stored] /\ Proceed(c, "cache")
    <3>1. counted' \in [Clients -> Nat] /\ \A d \in Clients \ {c} : counted'[d] = counted[d]
      BY <1>1, <2>2
    <3> QED
      BY <1>1, <2>1, <2>2, <3>1, QuietKeeps
  <2>3. CASE counted' = counted /\ Proceed(c, "read")
    BY <1>1, <2>1, <2>3, QuietKeeps
  <2> QED
    BY <1>5, <2>2, <2>3 DEF Lookup
<1>6. CASE CacheAnalysis(c)
  <2>1. /\ step[c] = "cache" /\ cached' = counted[c] /\ counted' = [counted EXCEPT ![c] = 0] /\ Proceed(c, "none")
        /\ UNCHANGED <<submittedAt, active, logs, stored, early, seen, number>>
    BY <1>6 DEF CacheAnalysis
  <2>2. cached' \in Nat /\ counted' \in [Clients -> Nat] /\ \A d \in Clients \ {c} : counted'[d] = counted[d]
    BY <1>1, <2>1
  <2> QED
    BY <1>1, <2>1, <2>2, QuietKeeps
<1> QED
  BY <1>2, <1>3, <1>4, <1>5, <1>6

\* The requests begin at the time of the clock, or at the deadline.
LEMMA BeginSteps ==
    ASSUME TimingInv, NEW c \in Clients,
           \/ \E q \in Questions : StartCheck(c, q)
           \/ \E auto \in BOOLEAN : SubmitCheck(c, auto)
           \/ EndRead(c) \/ ReadAnalysis(c) \/ Recalculate(c)
    PROVE  TimingInv'
<1> DEFINE t == Sooner(time, Deadline)
<1>1. /\ time \in Times /\ t \in Times /\ 0 \in Times /\ t <= time /\ time <= time /\ 0 <= time /\ t <= Deadline
      /\ time <= Deadline \/ time > Deadline
  <2>1. time \in Times /\ Deadline \in Times /\ 0 \in Times /\ Times \subseteq Nat /\ time \in Nat /\ Nat \subseteq Int
    BY TimingTypes DEF TimingInv
  <2>2. t \in {time, Deadline} /\ t <= time /\ t <= Deadline
    BY <2>1, SoonerIs
  <2> QED
    BY <2>1, <2>2
<1>2. EndBy(time) /\ EndBy(t)
  BY DEF TimingInv, Clocks, Sooner
<1>3. /\ {"start", "expired", "end", "submit", "analysis", "recalculation"} \subseteq Purposes
      /\ {"read", "close", "commit", "ask", "lookup"} \subseteq TimingSteps \ {"none"}
      /\ Analyses = {"analysis", "recalculation"}
      /\ cached \in Nat \cup {NotMade} /\ NotMade \in Nat \cup {NotMade} /\ active \in Intervals \cup {NoInterval}
  BY DEF TimingInv, TimingTypeOK, Purposes, Analyses, TimingSteps
<1> HIDE DEF t
<1>4. ASSUME NEW q \in Questions, StartCheck(c, q) PROVE TimingInv'
  <2>1. submittedAt = Never /\ UNCHANGED <<submittedAt, active, logs, stored, cached, early>>
    BY <1>4 DEF StartCheck, analysisState
  <2>2. PICK p \in {"start", "expired"} : BeginTiming(c, p, q, t, NoInterval, "read")
    BY <1>4 DEF StartCheck, t
  <2> QED
    BY <1>1, <1>2, <1>3, <2>1, <2>2, BeginKeeps
<1>5. ASSUME NEW auto \in BOOLEAN, SubmitCheck(c, auto) PROVE TimingInv'
  <2>1. submittedAt = Never /\ UNCHANGED <<submittedAt, active, logs, stored, cached, early>>
    BY <1>5 DEF SubmitCheck, analysisState
  <2>2. PICK u \in {t, time} : BeginTiming(c, "submit", NoQuestion, u, NoInterval, "commit")
    BY <1>5 DEF SubmitCheck, t
  <2>3. u \in Times /\ u <= time /\ EndBy(u)
    BY <1>1, <1>2
  <2> QED
    BY <1>3, <2>1, <2>2, <2>3, BeginKeeps
<1>6. CASE EndRead(c)
  <2>1. active # NoInterval /\ UNCHANGED <<submittedAt, active, logs, stored, cached, early>>
        /\ BeginTiming(c, "end", active.on, time, active, "close")
    BY <1>6 DEF EndRead, analysisState
  <2>2. active.on \in Questions
    BY <1>3, <2>1 DEF Intervals
  <2> QED
    BY <1>1, <1>2, <1>3, <2>1, <2>2, BeginKeeps
<1>7. CASE ReadAnalysis(c)
  <2>1. UNCHANGED <<submittedAt, active, logs, stored, cached, early>>
        /\ BeginTiming(c, "analysis", NoQuestion, 0, NoInterval, "lookup")
    BY <1>7 DEF ReadAnalysis, analysisState
  <2> QED
    BY <1>1, <1>3, <2>1, BeginKeeps
<1>8. CASE Recalculate(c)
  <2>1. UNCHANGED <<submittedAt, active, logs, stored, early>> /\ cached' = NotMade
        /\ BeginTiming(c, "recalculation", NoQuestion, 0, NoInterval, "ask")
    BY <1>8 DEF Recalculate
  <2> QED
    BY <1>1, <1>3, <2>1, BeginKeeps
<1> QED
  BY <1>4, <1>5, <1>6, <1>7, <1>8

-----------------------------------------------------------------------------
(* The theorems *)

\* At the start nothing is measured and nobody is at a question.
LEMMA TimingStarts == TimingInit => TimingInv
<1> SUFFICES ASSUME TimingInit PROVE TimingInv
  OBVIOUS
<1>1. TimingTypeOK
  <2>1. 0 \in Times /\ 0 \in 0 .. MaxTimings /\ 0 \in 0 .. MaxDeaths
    BY TimingAssumption DEF Times
  <2>2. logs \in Seq([on : Questions, visit : Nat \ {0}, from : Times, till : Times, by : {"server", "client"}])
    BY DEF TimingInit
  <2> QED
    BY <2>1, <2>2 DEF TimingInit, TimingTypeOK, Purposes, TimingSteps, NotMade, Never
<1>2. ByServer = {} /\ Busy = {} /\ \A c \in Clients : step[c] = "none" /\ at[c] = 0 /\ seen[c] = NoInterval
  BY DEF TimingInit, ByServer, Busy
<1>3. Flow /\ Together
  BY <1>2 DEF Flow, Together
<1>4. Clocks
  BY <1>2, TimingAssumption DEF TimingInit, Clocks, EndBy
<1>5. InTurn /\ NobodyStarts
  BY <1>2 DEF TimingInit, InTurn, EndBy, NobodyStarts
<1>6. Submission /\ Analysis
  BY <1>2 DEF TimingInit, Submission, Analysis
<1> QED
  BY <1>1, <1>3, <1>4, <1>5, <1>6 DEF TimingInv

\* The invariant holds in every state.
LEMMA TimingInvariance == TimingSpec => []TimingInv
<1>1. TimingInv /\ [TimingNext]_timingVars => TimingInv'
  <2> SUFFICES ASSUME TimingInv, [TimingNext]_timingVars PROVE TimingInv'
    OBVIOUS
  <2>1. CASE Tick
    BY <2>1, TickKeeps
  <2>2. ASSUME NEW q \in Questions, SaveTimeLog(q) PROVE TimingInv'
    BY <2>2, SaveTimeLogKeeps
  <2>3. ASSUME NEW c \in Clients,
               \/ \E q \in Questions : StartCheck(c, q)
               \/ \E auto \in BOOLEAN : SubmitCheck(c, auto)
               \/ EndRead(c) \/ ReadAnalysis(c) \/ Recalculate(c)
        PROVE  TimingInv'
    BY <2>3, BeginSteps
  <2>4. ASSUME NEW c \in Clients, ReadVisit(c) \/ SubmitCommit(c) \/ AskCache(c) \/ Lookup(c) \/ CacheAnalysis(c)
        PROVE  TimingInv'
    BY <2>4, QuietSteps
  <2>5. ASSUME NEW c \in Clients, ReadActive(c) \/ CloseInterval(c) \/ Clear(c) \/ SetActive(c)
        PROVE  TimingInv'
    BY <2>5, ReadActiveKeeps, CloseIntervalKeeps, ClearKeeps, SetActiveKeeps
  <2>6. ASSUME NEW c \in Clients, Analyse(c) \/ StoreAnalysis(c) \/ TimingDies(c)
        PROVE  TimingInv'
    BY <2>6, AnalyseKeeps, StoreAnalysisKeeps, TimingDiesKeeps
  <2>7. CASE UNCHANGED timingVars
    BY <2>7 DEF timingVars, handlerState, analysisState, TimingInv, TimingTypeOK, Flow, Together, Busy, Clocks,
                EndBy, VisitedBelow, ByServer, InTurn, NobodyStarts, Submission, Analysis
  <2> QED
    BY <2>1, <2>2, <2>3, <2>4, <2>5, <2>6, <2>7 DEF TimingNext
<1> QED
  BY <1>1, TimingStarts, PTL DEF TimingSpec

\* Clock, rows, copies and requests keep values of their types.
THEOREM TimingTypeCorrect == TimingSpec => []TimingTypeOK
<1>1. TimingInv => TimingTypeOK
  BY DEF TimingInv
<1> QED
  BY <1>1, TimingInvariance, PTL

\* The time of an attempt is cut into intervals of the questions: none counts
\* past the deadline, none overlaps as long as the requests of the attempt do
\* not, and none ends after the submission, for any number of requests.
THEOREM TimeIsAccounted == TimingSpec => []TimeAccounted
<1>1. ASSUME TimingInv PROVE TimeAccounted
  <2> USE <1>1 DEF TimingInv
  <2>1. WithinAttempt
    BY DEF WithinAttempt, Clocks, EndBy, ByServer
  <2>2. CountedOnce
    <3>1. SUFFICES ASSUME overlapped = {}, died = {}, Busy = {} PROVE CountedOnce
      BY DEF CountedOnce
    <3>2. \A c \in Clients : step[c] = "none"
      BY <3>1 DEF Busy
    <3> QED
      BY <3>1, <3>2 DEF CountedOnce, InTurn, EndBy
  <2>3. VisitsNumbered
    <3>1. SUFFICES ASSUME overlapped = {}, died = {} PROVE VisitsNumbered
      BY DEF VisitsNumbered
    <3>2. Busy = {} => \A c \in Clients : step[c] = "none"
      BY DEF Busy
    <3> QED
      BY <3>1, <3>2 DEF VisitsNumbered, InTurn, VisitedBelow
  <2>4. NothingAfterSubmission
    <3>1. Busy = {} => \A c \in Clients : step[c] = "none"
      BY DEF Busy
    <3> QED
      BY <3>1 DEF NothingAfterSubmission, Submission, EndBy
  <2> QED
    BY <2>1, <2>2, <2>3, <2>4 DEF TimeAccounted
<1> QED
  BY <1>1, TimingInvariance, PTL

\* The analysis first asked for after the submission counts every interval the
\* server measured, whether or not the submission lived to close the last one.
THEOREM AnalysisIsComplete == TimingSpec => []AnalysisComplete
<1>1. TimingInv => AnalysisComplete
  BY DEF TimingInv, Analysis, AnalysisComplete
<1> QED
  BY <1>1, TimingInvariance, PTL

(***************************************************************************)
(* Monitoring                                                              *)
(***************************************************************************)

-----------------------------------------------------------------------------
(* The inductive invariant *)

\* What a window or a reviewer is busy with
Opens(x) == doing[x] \in {"invalidate", "create", "cache"}
Beats(x) == doing[x] \in {"beat", "touch", "keep"}
Evaluates(x) == doing[x] \in {"flag", "count", "score"}
Reviews(x) == doing[x] \in {"apply", "sessions", "log"}

\* Windows do not review and reviewers do nothing else; a heartbeat is that of a
\* session, a review to apply has a verdict, and a termination ends the attempt first.
Doers ==
    /\ \A w \in Windows : ~Reviews(w)
    /\ \A r \in Reviewers : doing[r] = "none" \/ Reviews(r)
    /\ \A w \in Windows : Beats(w) => holds[w] # 0
    /\ \A r \in Reviewers : doing[r] = "apply" => verdict[r] # "PENDING"
    /\ \A r \in Reviewers : doing[r] = "sessions" => over = "terminated"

\* Requests that run beside each other are on record.
Crossing ==
    \A x, y \in Actors : x # y =>
        /\ Opens(x) /\ Opens(y) => {"open"} \in crossed
        /\ Opens(x) /\ Beats(y) => {"open", "beat"} \in crossed
        /\ Evaluates(x) /\ Evaluates(y) => {"evaluate"} \in crossed
        /\ Evaluates(x) /\ Reviews(y) => {"evaluate", "review"} \in crossed
        /\ Reviews(x) /\ Reviews(y) => {"review"} \in crossed

\* An opening that is alone creates its session when there is no other one.
OneOpened ==
    {"open"} \notin crossed =>
        /\ \A s, t \in SessionIds : session[s] = "ACTIVE" /\ session[t] = "ACTIVE" => s = t
        /\ \A w \in Windows : doing[w] = "create" => \A s \in SessionIds : session[s] # "ACTIVE"

\* Redis names the active session, and nobody is about to write another one.
KeyKnown ==
    over = "no" /\ {"open"} \notin crossed /\ {"open", "beat"} \notin crossed /\ "open" \notin cut =>
        /\ (\A w \in Windows : ~Opens(w)) => key = 0 \/ session[key] = "ACTIVE"
        /\ \A w \in Windows : doing[w] = "cache" =>
              opened[w] \in SessionIds /\ session[opened[w]] = "ACTIVE"
        /\ \A w \in Windows : doing[w] \in {"beat", "keep"} => holds[w] = key
        /\ key = 0 => \A w \in Windows : holds[w] = 0

\* Of a disqualified attempt every evaluation has read the flag.
FlagKept ==
    {"evaluate", "review"} \notin crossed /\ disqualified =>
        flagged /\ \A w \in Windows : doing[w] \in {"count", "score"} => sawFlag[w]

\* An evaluation that is alone has counted all events.
RiskKept ==
    {"evaluate"} \notin crossed /\ "evaluate" \notin cut =>
        /\ (\A w \in Windows : ~Evaluates(w)) =>
              risk = events /\ (events >= FlagAt /\ ~cleared => flagged)
        /\ \A w \in Windows : doing[w] = "score" => tallied[w] = events

\* A review that is alone applies the last verdict.
VerdictKept ==
    {"review"} \notin crossed /\ "review" \notin cut =>
        /\ (\A r \in Reviewers : ~Reviews(r)) /\ reviewed # "PENDING" =>
              (disqualified <=> reviewed = "DISQUALIFIED")
        /\ \A r \in Reviewers : doing[r] = "apply" => verdict[r] = reviewed
        /\ \A r \in Reviewers : doing[r] \in {"sessions", "log"} => disqualified

WatchInv ==
    /\ MonitorTypeOK /\ Doers /\ Crossing
    /\ OneOpened /\ KeyKnown /\ FlagKept /\ RiskKept /\ VerdictKept

-----------------------------------------------------------------------------
(* Requests begin, go on and end *)

AllSteps == {"none", "invalidate", "create", "cache", "beat", "touch", "keep",
             "flag", "count", "score", "apply", "sessions", "log"}

\* The steps of the requests, and who runs them
LEMMA TheSteps ==
    /\ Kinds = {"open", "beat", "evaluate", "review"}
    /\ {"none"} \cup UNION {StepsOf[k] : k \in Kinds} = AllSteps
    /\ \A x \in Actors : /\ x \in InKind("open") <=> Opens(x)
                         /\ x \in InKind("beat") <=> Beats(x)
                         /\ x \in InKind("evaluate") <=> Evaluates(x)
                         /\ x \in InKind("review") <=> Reviews(x)
    /\ \A x \in Windows : x \in Actors /\ x \notin Reviewers
    /\ \A x \in Reviewers : x \in Actors /\ x \notin Windows
    /\ \A x \in Actors : x \in Windows \/ x \in Reviewers
    /\ \A k \in Kinds : InKind(k) \subseteq Actors
<1>1. Kinds = {"open", "beat", "evaluate", "review"}
  BY DEF Kinds, StepsOf
<1>2. /\ StepsOf["open"] = {"invalidate", "create", "cache"}
      /\ StepsOf["beat"] = {"beat", "touch", "keep"}
      /\ StepsOf["evaluate"] = {"flag", "count", "score"}
      /\ StepsOf["review"] = {"apply", "sessions", "log"}
  BY DEF StepsOf
<1>3. {StepsOf[k] : k \in Kinds} =
        {StepsOf["open"], StepsOf["beat"], StepsOf["evaluate"], StepsOf["review"]}
  BY <1>1
<1>4. UNION {StepsOf[k] : k \in Kinds} =
        StepsOf["open"] \cup StepsOf["beat"] \cup StepsOf["evaluate"] \cup StepsOf["review"]
  BY <1>3
<1>5. {"none"} \cup UNION {StepsOf[k] : k \in Kinds} = AllSteps
  BY <1>2, <1>4 DEF AllSteps
<1> QED
  BY <1>1, <1>2, <1>5, MonitorAssumption DEF InKind, Opens, Beats, Evaluates, Reviews, Actors

\* A request that begins meets those that are running.
LEMMA Beginning ==
    ASSUME MonitorTypeOK, NEW x \in Actors, NEW k \in Kinds, NEW d \in AllSteps, Undertake(x, k, d)
    PROVE  /\ doing[x] = "none" /\ doing'[x] = d /\ \A y \in Actors : y # x => doing'[y] = doing[y]
           /\ doing' \in [Actors -> AllSteps] /\ undertaken' \in 0 .. MaxUndertaken
           /\ crossed \subseteq crossed' /\ crossed' \subseteq SUBSET Kinds
           /\ cut' = cut /\ cuts' = cuts
           /\ \A y \in Actors : /\ Opens(y) => {k, "open"} \in crossed'
                                /\ Beats(y) => {k, "beat"} \in crossed'
                                /\ Evaluates(y) => {k, "evaluate"} \in crossed'
                                /\ Reviews(y) => {k, "review"} \in crossed'
<1>1. \A l \in Kinds : \A y \in InKind(l) : {k, l} \in crossed'
  BY DEF Undertake
<1>2. crossed \subseteq crossed' /\ crossed' \subseteq SUBSET Kinds
  BY DEF Undertake, MonitorTypeOK
<1>3. doing \in [Actors -> AllSteps]
  BY TheSteps DEF MonitorTypeOK
<1>4. undertaken' \in 0 .. MaxUndertaken
  BY MonitorAssumption DEF Undertake, MonitorTypeOK
<1> QED
  BY <1>1, <1>2, <1>3, <1>4, TheSteps DEF Undertake

\* A request that goes on or ends
LEMMA Going ==
    ASSUME MonitorTypeOK, NEW x \in Actors, NEW from, NEW to \in AllSteps, Continue(x, from, to)
    PROVE  /\ doing[x] = from /\ doing'[x] = to /\ \A y \in Actors : y # x => doing'[y] = doing[y]
           /\ doing' \in [Actors -> AllSteps]
           /\ UNCHANGED <<undertaken, crossed, cuts, cut>>
BY TheSteps DEF Continue, MonitorTypeOK, historyVars

\* Those that run beside each other stay on record when a request begins,
LEMMA CrossingBegins ==
    ASSUME MonitorTypeOK, Crossing, NEW x \in Actors, NEW k \in Kinds, NEW d \in AllSteps,
           Undertake(x, k, d), d \in StepsOf[k] \cup {"none"}
    PROVE  Crossing'
<1>1. /\ doing'[x] = d /\ \A y \in Actors : y # x => doing'[y] = doing[y]
      /\ crossed \subseteq crossed'
      /\ \A y \in Actors : /\ Opens(y) => {k, "open"} \in crossed'
                           /\ Beats(y) => {k, "beat"} \in crossed'
                           /\ Evaluates(y) => {k, "evaluate"} \in crossed'
                           /\ Reviews(y) => {k, "review"} \in crossed'
  BY Beginning
<1>2. /\ Opens(x)' => k = "open"
      /\ Beats(x)' => k = "beat"
      /\ Evaluates(x)' => k = "evaluate"
      /\ Reviews(x)' => k = "review"
  BY <1>1, TheSteps DEF StepsOf, Opens, Beats, Evaluates, Reviews
<1>3. \A y \in Actors : y # x =>
         /\ Opens(y)' <=> Opens(y)
         /\ Beats(y)' <=> Beats(y)
         /\ Evaluates(y)' <=> Evaluates(y)
         /\ Reviews(y)' <=> Reviews(y)
  BY <1>1 DEF Opens, Beats, Evaluates, Reviews
<1>4. /\ {"beat", "open"} = {"open", "beat"} /\ {"review", "evaluate"} = {"evaluate", "review"}
      /\ {"open", "open"} = {"open"} /\ {"evaluate", "evaluate"} = {"evaluate"}
      /\ {"review", "review"} = {"review"}
  OBVIOUS
<1>5. ASSUME NEW y \in Actors, NEW z \in Actors, y # z
      PROVE  /\ Opens(y)' /\ Opens(z)' => {"open"} \in crossed'
             /\ Opens(y)' /\ Beats(z)' => {"open", "beat"} \in crossed'
             /\ Evaluates(y)' /\ Evaluates(z)' => {"evaluate"} \in crossed'
             /\ Evaluates(y)' /\ Reviews(z)' => {"evaluate", "review"} \in crossed'
             /\ Reviews(y)' /\ Reviews(z)' => {"review"} \in crossed'
  <2>1. CASE y # x /\ z # x
    BY <1>1, <1>3, <1>5, <2>1 DEF Crossing
  <2>2. CASE y = x
    BY <1>1, <1>2, <1>3, <1>4, <1>5, <2>2
  <2>3. CASE z = x
    BY <1>1, <1>2, <1>3, <1>4, <1>5, <2>3
  <2> QED
    BY <2>1, <2>2, <2>3
<1> QED
  BY <1>5 DEF Crossing

\* and when one goes on or ends.
LEMMA CrossingStays ==
    ASSUME Crossing, crossed \subseteq crossed',
           \A y \in Actors : /\ Opens(y)' => Opens(y)
                             /\ Beats(y)' => Beats(y)
                             /\ Evaluates(y)' => Evaluates(y)
                             /\ Reviews(y)' => Reviews(y)
    PROVE  Crossing'
<1>1. ASSUME NEW y \in Actors, NEW z \in Actors, y # z
      PROVE  /\ Opens(y)' /\ Opens(z)' => {"open"} \in crossed'
             /\ Opens(y)' /\ Beats(z)' => {"open", "beat"} \in crossed'
             /\ Evaluates(y)' /\ Evaluates(z)' => {"evaluate"} \in crossed'
             /\ Evaluates(y)' /\ Reviews(z)' => {"evaluate", "review"} \in crossed'
             /\ Reviews(y)' /\ Reviews(z)' => {"review"} \in crossed'
  BY <1>1 DEF Crossing
<1> QED
  BY <1>1 DEF Crossing

\* An actor who begins, goes on with or ends what is of no interest here
Still(x, S) == doing'[x] = doing[x] \/ (doing[x] \notin S /\ doing'[x] \notin S)

\* Requests that leave the sessions and the key alone
LEMMA SessionsStay ==
    ASSUME OneOpened, KeyKnown, UNCHANGED <<session, holds, key, opened>>,
           over' = over \/ over' # "no", crossed \subseteq crossed', cut \subseteq cut',
           \A w \in Windows : Still(w, {"invalidate", "create", "cache", "beat", "keep"})
    PROVE  OneOpened' /\ KeyKnown'
BY DEF OneOpened, KeyKnown, Opens, Still

\* Requests that leave the flag alone
LEMMA FlagStays ==
    ASSUME FlagKept, UNCHANGED <<flagged, disqualified, sawFlag>>, crossed \subseteq crossed',
           \A w \in Windows : Still(w, {"count", "score"})
    PROVE  FlagKept'
BY DEF FlagKept, Still

\* Requests that leave the risk alone
LEMMA RiskStays ==
    ASSUME RiskKept, UNCHANGED <<events, risk, tallied>>, cleared => cleared',
           events >= FlagAt /\ ~cleared' /\ flagged => flagged',
           crossed \subseteq crossed', cut \subseteq cut',
           \A w \in Windows : Still(w, {"flag", "count", "score"})
    PROVE  RiskKept'
BY DEF RiskKept, Evaluates, Still

\* Requests that leave the reviews alone
LEMMA VerdictStays ==
    ASSUME VerdictKept, UNCHANGED <<reviewed, disqualified, verdict>>,
           crossed \subseteq crossed', cut \subseteq cut',
           \A r \in Reviewers : Still(r, {"apply", "sessions", "log"})
    PROVE  VerdictKept'
BY DEF VerdictKept, Reviews, Still
-----------------------------------------------------------------------------
(* The steps that change the windows keep the invariant *)

\* An opening starts: it meets those that run.
LEMMA OpenReadKeeps ==
    ASSUME WatchInv, NEW w \in Windows, NEW transfer \in BOOLEAN, OpenRead(w, transfer)
    PROVE  WatchInv'
<1> USE DEF WatchInv
<1>1. /\ doing[w] = "none" /\ doing'[w] = "invalidate"
      /\ \A y \in Actors : y # w => doing'[y] = doing[y]
      /\ doing' \in [Actors -> AllSteps] /\ undertaken' \in 0 .. MaxUndertaken
      /\ crossed \subseteq crossed' /\ crossed' \subseteq SUBSET Kinds
      /\ UNCHANGED <<cut, cuts>>
      /\ \A y \in Actors : /\ Opens(y) => {"open", "open"} \in crossed'
                           /\ Beats(y) => {"open", "beat"} \in crossed'
                           /\ Evaluates(y) => {"open", "evaluate"} \in crossed'
                           /\ Reviews(y) => {"open", "review"} \in crossed'
  BY Beginning, TheSteps DEF OpenRead, AllSteps
<1>2. MonitorTypeOK'
  BY <1>1, TheSteps DEF MonitorTypeOK, OpenRead, windowVars, riskVars, verdictVars, historyVars
<1>3. Doers'
  BY <1>1, TheSteps DEF Doers, Beats, Reviews, OpenRead, windowVars, riskVars, verdictVars, historyVars
<1>4. Crossing'
  BY CrossingBegins, TheSteps DEF OpenRead, AllSteps, StepsOf
<1>5. OneOpened' /\ KeyKnown'
  BY <1>1, TheSteps DEF OneOpened, KeyKnown, Opens, OpenRead, windowVars, riskVars, verdictVars, historyVars
<1>6. FlagKept'
  BY <1>1, FlagStays, TheSteps DEF Still, OpenRead, windowVars, riskVars, verdictVars, historyVars
<1>7. RiskKept'
  BY <1>1, RiskStays, TheSteps DEF Still, OpenRead, windowVars, riskVars, verdictVars, historyVars
<1>8. VerdictKept'
  BY <1>1, VerdictStays, TheSteps DEF Still, OpenRead, windowVars, riskVars, verdictVars, historyVars
<1> QED
  BY <1>2, <1>3, <1>4, <1>5, <1>6, <1>7, <1>8

\* It leaves no active session,
LEMMA OpenInvalidateKeeps ==
    ASSUME WatchInv, NEW w \in Windows, OpenInvalidate(w)
    PROVE  WatchInv'
<1> USE DEF WatchInv
<1>1. /\ doing[w] = "invalidate" /\ doing'[w] = "create"
      /\ \A y \in Actors : y # w => doing'[y] = doing[y]
      /\ doing' \in [Actors -> AllSteps] /\ UNCHANGED <<undertaken, crossed, cuts, cut>>
  BY Going, TheSteps DEF OpenInvalidate, AllSteps
<1>2. MonitorTypeOK'
  BY <1>1, TheSteps
     DEF MonitorTypeOK, SessionStatuses, OpenInvalidate, windowVars, riskVars, verdictVars, historyVars
<1>3. Doers'
  BY <1>1, TheSteps DEF Doers, Beats, Reviews, OpenInvalidate, windowVars, riskVars, verdictVars, historyVars
<1>4. Crossing'
  BY <1>1, CrossingStays, TheSteps DEF Opens, Beats, Evaluates, Reviews
<1>5. OneOpened' /\ KeyKnown'
  BY <1>1, <1>2, TheSteps
     DEF OneOpened, KeyKnown, Crossing, Opens, Beats, MonitorTypeOK, OpenInvalidate, windowVars, riskVars, verdictVars, historyVars
<1>6. FlagKept'
  BY <1>1, FlagStays, TheSteps DEF Still, OpenInvalidate, windowVars, riskVars, verdictVars, historyVars
<1>7. RiskKept'
  BY <1>1, RiskStays, TheSteps DEF Still, OpenInvalidate, windowVars, riskVars, verdictVars, historyVars
<1>8. VerdictKept'
  BY <1>1, VerdictStays, TheSteps DEF Still, OpenInvalidate, windowVars, riskVars, verdictVars, historyVars
<1> QED
  BY <1>2, <1>3, <1>4, <1>5, <1>6, <1>7, <1>8

\* creates its own,
LEMMA OpenCreateKeeps ==
    ASSUME WatchInv, NEW w \in Windows, OpenCreate(w)
    PROVE  WatchInv'
<1> USE DEF WatchInv
<1>1. /\ doing[w] = "create" /\ doing'[w] = "cache"
      /\ \A y \in Actors : y # w => doing'[y] = doing[y]
      /\ doing' \in [Actors -> AllSteps] /\ UNCHANGED <<undertaken, crossed, cuts, cut>>
  BY Going, TheSteps DEF OpenCreate, AllSteps
<1>2. MonitorTypeOK'
  BY <1>1, TheSteps
     DEF MonitorTypeOK, SessionStatuses, SessionIds, OpenCreate, windowVars, riskVars, verdictVars, historyVars
<1>3. Doers'
  BY <1>1, TheSteps DEF Doers, Beats, Reviews, OpenCreate, windowVars, riskVars, verdictVars, historyVars
<1>4. Crossing'
  BY <1>1, CrossingStays, TheSteps DEF Opens, Beats, Evaluates, Reviews
<1>5. OneOpened' /\ KeyKnown'
  BY <1>1, <1>2, TheSteps
     DEF OneOpened, KeyKnown, Crossing, Opens, Beats, MonitorTypeOK, OpenCreate, windowVars, riskVars, verdictVars, historyVars
<1>6. FlagKept'
  BY <1>1, FlagStays, TheSteps DEF Still, OpenCreate, windowVars, riskVars, verdictVars, historyVars
<1>7. RiskKept'
  BY <1>1, RiskStays, TheSteps DEF Still, OpenCreate, windowVars, riskVars, verdictVars, historyVars
<1>8. VerdictKept'
  BY <1>1, VerdictStays, TheSteps DEF Still, OpenCreate, windowVars, riskVars, verdictVars, historyVars
<1> QED
  BY <1>2, <1>3, <1>4, <1>5, <1>6, <1>7, <1>8

\* and writes the key.
LEMMA OpenCacheKeeps ==
    ASSUME WatchInv, NEW w \in Windows, OpenCache(w)
    PROVE  WatchInv'
<1> USE DEF WatchInv
<1>1. /\ doing[w] = "cache" /\ doing'[w] = "none"
      /\ \A y \in Actors : y # w => doing'[y] = doing[y]
      /\ doing' \in [Actors -> AllSteps] /\ UNCHANGED <<undertaken, crossed, cuts, cut>>
  BY Going, TheSteps DEF OpenCache, AllSteps
<1>2. MonitorTypeOK'
  BY <1>1, TheSteps, MonitorAssumption
     DEF MonitorTypeOK, OpenCache, windowVars, riskVars, verdictVars, historyVars
<1>3. Doers'
  BY <1>1, TheSteps DEF Doers, Beats, Reviews, OpenCache, windowVars, riskVars, verdictVars, historyVars
<1>4. Crossing'
  BY <1>1, CrossingStays, TheSteps DEF Opens, Beats, Evaluates, Reviews
<1>5. OneOpened' /\ KeyKnown'
  <2>1. /\ key' = opened[w] /\ holds'[w] = opened[w] /\ session' = session /\ over' = over
        /\ \A y \in Windows : y # w => holds'[y] = holds[y] /\ opened'[y] = opened[y]
    BY DEF MonitorTypeOK, OpenCache, windowVars, riskVars, verdictVars, historyVars
  <2>2. OneOpened'
    BY <1>1, <2>1, TheSteps DEF OneOpened
  <2>3. SUFFICES ASSUME over = "no", {"open"} \notin crossed, {"open", "beat"} \notin crossed,
                        "open" \notin cut
                 PROVE  KeyKnown'
    BY <1>1, <2>1, <2>2 DEF KeyKnown
  <2>4. opened[w] \in SessionIds /\ session[opened[w]] = "ACTIVE" /\ opened[w] # 0
    BY <1>1, <2>3 DEF KeyKnown, SessionIds
  <2>5. \A y \in Windows : ~Opens(y)' /\ ~Beats(y)'
    BY <1>1, <2>3, TheSteps DEF Crossing, Opens, Beats
  <2> QED
    BY <2>1, <2>2, <2>4, <2>5 DEF KeyKnown, Opens, Beats
<1>6. FlagKept'
  BY <1>1, FlagStays, TheSteps DEF Still, OpenCache, windowVars, riskVars, verdictVars, historyVars
<1>7. RiskKept'
  BY <1>1, RiskStays, TheSteps DEF Still, OpenCache, windowVars, riskVars, verdictVars, historyVars
<1>8. VerdictKept'
  BY <1>1, VerdictStays, TheSteps DEF Still, OpenCache, windowVars, riskVars, verdictVars, historyVars
<1> QED
  BY <1>2, <1>3, <1>4, <1>5, <1>6, <1>7, <1>8

\* A heartbeat compares the key with the session of its window.
LEMMA HeartbeatReadKeeps ==
    ASSUME WatchInv, NEW w \in Windows, HeartbeatRead(w)
    PROVE  WatchInv'
<1> USE DEF WatchInv
<1>1. /\ doing[w] = "none" /\ doing'[w] = IF key \in {0, holds[w]} THEN "beat" ELSE "touch"
      /\ \A y \in Actors : y # w => doing'[y] = doing[y]
      /\ doing' \in [Actors -> AllSteps] /\ undertaken' \in 0 .. MaxUndertaken
      /\ crossed \subseteq crossed' /\ crossed' \subseteq SUBSET Kinds
      /\ UNCHANGED <<cut, cuts>>
      /\ \A y \in Actors : /\ Opens(y) => {"beat", "open"} \in crossed'
                           /\ Beats(y) => {"beat", "beat"} \in crossed'
                           /\ Evaluates(y) => {"beat", "evaluate"} \in crossed'
                           /\ Reviews(y) => {"beat", "review"} \in crossed'
  BY Beginning, TheSteps DEF HeartbeatRead, AllSteps
<1>2. MonitorTypeOK'
  BY <1>1, TheSteps DEF MonitorTypeOK, HeartbeatRead, windowVars, riskVars, verdictVars, historyVars
<1>3. Doers'
  BY <1>1, TheSteps DEF Doers, Beats, Reviews, HeartbeatRead, windowVars, riskVars, verdictVars, historyVars
<1>4. Crossing'
  BY CrossingBegins, TheSteps DEF HeartbeatRead, AllSteps, StepsOf
<1>5. OneOpened' /\ KeyKnown'
  BY <1>1, TheSteps
     DEF OneOpened, KeyKnown, Opens, Beats, MonitorTypeOK, HeartbeatRead, windowVars, riskVars, verdictVars, historyVars
<1>6. FlagKept'
  BY <1>1, FlagStays, TheSteps DEF Still, HeartbeatRead, windowVars, riskVars, verdictVars, historyVars
<1>7. RiskKept'
  BY <1>1, RiskStays, TheSteps DEF Still, HeartbeatRead, windowVars, riskVars, verdictVars, historyVars
<1>8. VerdictKept'
  BY <1>1, VerdictStays, TheSteps DEF Still, HeartbeatRead, windowVars, riskVars, verdictVars, historyVars
<1> QED
  BY <1>2, <1>3, <1>4, <1>5, <1>6, <1>7, <1>8

\* It writes the key it has read.
LEMMA HeartbeatKeepKeeps ==
    ASSUME WatchInv, NEW w \in Windows, HeartbeatKeep(w)
    PROVE  WatchInv'
<1> USE DEF WatchInv
<1>1. /\ doing[w] = "keep" /\ doing'[w] = "none"
      /\ \A y \in Actors : y # w => doing'[y] = doing[y]
      /\ doing' \in [Actors -> AllSteps] /\ UNCHANGED <<undertaken, crossed, cuts, cut>>
  BY Going, TheSteps DEF HeartbeatKeep, AllSteps
<1>2. MonitorTypeOK'
  BY <1>1, TheSteps DEF MonitorTypeOK, HeartbeatKeep, windowVars, riskVars, verdictVars, historyVars
<1>3. Doers'
  BY <1>1, TheSteps DEF Doers, Beats, Reviews, HeartbeatKeep, windowVars, riskVars, verdictVars, historyVars
<1>4. Crossing'
  BY <1>1, CrossingStays, TheSteps DEF Opens, Beats, Evaluates, Reviews
<1>5. OneOpened' /\ KeyKnown'
  BY <1>1, TheSteps
     DEF OneOpened, KeyKnown, Opens, Beats, MonitorTypeOK, HeartbeatKeep, windowVars, riskVars, verdictVars, historyVars
<1>6. FlagKept'
  BY <1>1, FlagStays, TheSteps DEF Still, HeartbeatKeep, windowVars, riskVars, verdictVars, historyVars
<1>7. RiskKept'
  BY <1>1, RiskStays, TheSteps DEF Still, HeartbeatKeep, windowVars, riskVars, verdictVars, historyVars
<1>8. VerdictKept'
  BY <1>1, VerdictStays, TheSteps DEF Still, HeartbeatKeep, windowVars, riskVars, verdictVars, historyVars
<1> QED
  BY <1>2, <1>3, <1>4, <1>5, <1>6, <1>7, <1>8

-----------------------------------------------------------------------------
(* The evaluations keep the invariant *)

\* An event counts once it is evaluated.
LEMMA IngestKeeps ==
    ASSUME WatchInv, NEW w \in Windows, NEW new \in {0, 1}, Ingest(w, new)
    PROVE  WatchInv'
<1> USE DEF WatchInv
<1>1. /\ doing[w] = "none" /\ doing'[w] = "flag"
      /\ \A y \in Actors : y # w => doing'[y] = doing[y]
      /\ doing' \in [Actors -> AllSteps] /\ undertaken' \in 0 .. MaxUndertaken
      /\ crossed \subseteq crossed' /\ crossed' \subseteq SUBSET Kinds
      /\ UNCHANGED <<cut, cuts>>
      /\ \A y \in Actors : /\ Opens(y) => {"evaluate", "open"} \in crossed'
                           /\ Beats(y) => {"evaluate", "beat"} \in crossed'
                           /\ Evaluates(y) => {"evaluate", "evaluate"} \in crossed'
                           /\ Reviews(y) => {"evaluate", "review"} \in crossed'
  BY Beginning, TheSteps DEF Ingest, AllSteps
<1>2. MonitorTypeOK'
  BY <1>1, TheSteps, MonitorAssumption
     DEF MonitorTypeOK, Ingest, windowVars, riskVars, verdictVars, historyVars
<1>3. Doers'
  BY <1>1, TheSteps DEF Doers, Beats, Reviews, Ingest, windowVars, riskVars, verdictVars, historyVars
<1>4. Crossing'
  BY CrossingBegins, TheSteps DEF Ingest, AllSteps, StepsOf
<1>5. OneOpened' /\ KeyKnown'
  BY <1>1, SessionsStay, TheSteps DEF Still, Ingest, windowVars, riskVars, verdictVars, historyVars
<1>6. FlagKept'
  BY <1>1, FlagStays, TheSteps DEF Still, Ingest, windowVars, riskVars, verdictVars, historyVars
<1>7. RiskKept'
  <2>1. {"evaluate", "evaluate"} = {"evaluate"}
    OBVIOUS
  <2> QED
    BY <1>1, <2>1, TheSteps
       DEF RiskKept, Evaluates, MonitorTypeOK, Ingest, windowVars, riskVars, verdictVars, historyVars
<1>8. VerdictKept'
  BY <1>1, VerdictStays, TheSteps DEF Still, Ingest, windowVars, riskVars, verdictVars, historyVars
<1> QED
  BY <1>2, <1>3, <1>4, <1>5, <1>6, <1>7, <1>8

\* The flag is read,
LEMMA EvaluateAttemptKeeps ==
    ASSUME WatchInv, NEW w \in Windows, EvaluateAttempt(w)
    PROVE  WatchInv'
<1> USE DEF WatchInv
<1>1. /\ doing[w] = "flag" /\ doing'[w] = "count"
      /\ \A y \in Actors : y # w => doing'[y] = doing[y]
      /\ doing' \in [Actors -> AllSteps] /\ UNCHANGED <<undertaken, crossed, cuts, cut>>
  BY Going, TheSteps DEF EvaluateAttempt, AllSteps
<1>2. MonitorTypeOK'
  BY <1>1, TheSteps DEF MonitorTypeOK, EvaluateAttempt, windowVars, riskVars, verdictVars, historyVars
<1>3. Doers'
  BY <1>1, TheSteps DEF Doers, Beats, Reviews, EvaluateAttempt, windowVars, riskVars, verdictVars, historyVars
<1>4. Crossing'
  BY <1>1, CrossingStays, TheSteps DEF Opens, Beats, Evaluates, Reviews
<1>5. OneOpened' /\ KeyKnown'
  BY <1>1, SessionsStay, TheSteps DEF Still, EvaluateAttempt, windowVars, riskVars, verdictVars, historyVars
<1>6. FlagKept'
  BY <1>1, TheSteps
     DEF FlagKept, MonitorTypeOK, EvaluateAttempt, windowVars, riskVars, verdictVars, historyVars
<1>7. RiskKept'
  BY <1>1, TheSteps
     DEF RiskKept, Evaluates, MonitorTypeOK, EvaluateAttempt, windowVars, riskVars, verdictVars, historyVars
<1>8. VerdictKept'
  BY <1>1, VerdictStays, TheSteps DEF Still, EvaluateAttempt, windowVars, riskVars, verdictVars, historyVars
<1> QED
  BY <1>2, <1>3, <1>4, <1>5, <1>6, <1>7, <1>8

\* the events are,
LEMMA EvaluateEventsKeeps ==
    ASSUME WatchInv, NEW w \in Windows, EvaluateEvents(w)
    PROVE  WatchInv'
<1> USE DEF WatchInv
<1>1. /\ doing[w] = "count" /\ doing'[w] = "score"
      /\ \A y \in Actors : y # w => doing'[y] = doing[y]
      /\ doing' \in [Actors -> AllSteps] /\ UNCHANGED <<undertaken, crossed, cuts, cut>>
  BY Going, TheSteps DEF EvaluateEvents, AllSteps
<1>2. MonitorTypeOK'
  BY <1>1, TheSteps DEF MonitorTypeOK, EvaluateEvents, windowVars, riskVars, verdictVars, historyVars
<1>3. Doers'
  BY <1>1, TheSteps DEF Doers, Beats, Reviews, EvaluateEvents, windowVars, riskVars, verdictVars, historyVars
<1>4. Crossing'
  BY <1>1, CrossingStays, TheSteps DEF Opens, Beats, Evaluates, Reviews
<1>5. OneOpened' /\ KeyKnown'
  BY <1>1, SessionsStay, TheSteps DEF Still, EvaluateEvents, windowVars, riskVars, verdictVars, historyVars
<1>6. FlagKept'
  BY <1>1, TheSteps
     DEF FlagKept, MonitorTypeOK, EvaluateEvents, windowVars, riskVars, verdictVars, historyVars
<1>7. RiskKept'
  BY <1>1, TheSteps
     DEF RiskKept, Crossing, Evaluates, MonitorTypeOK, EvaluateEvents, windowVars, riskVars, verdictVars, historyVars
<1>8. VerdictKept'
  BY <1>1, VerdictStays, TheSteps DEF Still, EvaluateEvents, windowVars, riskVars, verdictVars, historyVars
<1> QED
  BY <1>2, <1>3, <1>4, <1>5, <1>6, <1>7, <1>8

\* and what they give is written.
LEMMA EvaluateScoreKeeps ==
    ASSUME WatchInv, NEW w \in Windows, EvaluateScore(w)
    PROVE  WatchInv'
<1> USE DEF WatchInv
<1>1. /\ doing[w] = "score" /\ doing'[w] = "none"
      /\ \A y \in Actors : y # w => doing'[y] = doing[y]
      /\ doing' \in [Actors -> AllSteps] /\ UNCHANGED <<undertaken, crossed, cuts, cut>>
  BY Going, TheSteps DEF EvaluateScore, AllSteps
<1>2. MonitorTypeOK'
  BY <1>1, TheSteps, MonitorAssumption
     DEF MonitorTypeOK, EvaluateScore, windowVars, riskVars, verdictVars, historyVars
<1>3. Doers'
  BY <1>1, TheSteps DEF Doers, Beats, Reviews, EvaluateScore, windowVars, riskVars, verdictVars, historyVars
<1>4. Crossing'
  BY <1>1, CrossingStays, TheSteps DEF Opens, Beats, Evaluates, Reviews
<1>5. OneOpened' /\ KeyKnown'
  BY <1>1, SessionsStay, TheSteps DEF Still, EvaluateScore, windowVars, riskVars, verdictVars, historyVars
<1>6. FlagKept'
  BY <1>1, TheSteps DEF FlagKept, MonitorTypeOK, EvaluateScore, windowVars, riskVars, verdictVars, historyVars
<1>7. RiskKept'
  BY <1>1, TheSteps
     DEF RiskKept, Crossing, Evaluates, MonitorTypeOK, EvaluateScore, windowVars, riskVars, verdictVars, historyVars
<1>8. VerdictKept'
  BY <1>1, VerdictStays, TheSteps DEF Still, EvaluateScore, windowVars, riskVars, verdictVars, historyVars
<1> QED
  BY <1>2, <1>3, <1>4, <1>5, <1>6, <1>7, <1>8

-----------------------------------------------------------------------------
(* The reviews keep the invariant *)

\* A review is recorded,
LEMMA ReviewKeeps ==
    ASSUME WatchInv, NEW r \in Reviewers, NEW v \in Verdicts, Review(r, v)
    PROVE  WatchInv'
<1> USE DEF WatchInv
<1>1. /\ doing[r] = "none" /\ doing'[r] = IF v = "PENDING" THEN "none" ELSE "apply"
      /\ \A y \in Actors : y # r => doing'[y] = doing[y]
      /\ doing' \in [Actors -> AllSteps] /\ undertaken' \in 0 .. MaxUndertaken
      /\ crossed \subseteq crossed' /\ crossed' \subseteq SUBSET Kinds
      /\ UNCHANGED <<cut, cuts>>
      /\ \A y \in Actors : /\ Opens(y) => {"review", "open"} \in crossed'
                           /\ Beats(y) => {"review", "beat"} \in crossed'
                           /\ Evaluates(y) => {"review", "evaluate"} \in crossed'
                           /\ Reviews(y) => {"review", "review"} \in crossed'
  BY Beginning, TheSteps DEF Review, AllSteps
<1>2. MonitorTypeOK'
  BY <1>1, TheSteps DEF MonitorTypeOK, Review, windowVars, riskVars, verdictVars, historyVars
<1>3. Doers'
  BY <1>1, TheSteps
     DEF Doers, Beats, Reviews, MonitorTypeOK, Verdicts, Review, windowVars, riskVars, verdictVars, historyVars
<1>4. Crossing'
  BY CrossingBegins, TheSteps DEF Review, AllSteps, StepsOf
<1>5. OneOpened' /\ KeyKnown'
  BY <1>1, SessionsStay, TheSteps DEF Still, Review, windowVars, riskVars, verdictVars, historyVars
<1>6. FlagKept'
  BY <1>1, FlagStays, TheSteps DEF Still, Review, windowVars, riskVars, verdictVars, historyVars
<1>7. RiskKept'
  BY <1>1, RiskStays, TheSteps DEF Still, Review, windowVars, riskVars, verdictVars, historyVars
<1>8. VerdictKept'
  <2>1. {"review", "review"} = {"review"}
    OBVIOUS
  <2>2. \A y \in Reviewers : Reviews(y) => {"review"} \in crossed'
    BY <1>1, <2>1, TheSteps
  <2>3. /\ reviewed' = v /\ verdict'[r] = v /\ disqualified' = disqualified
        /\ \A y \in Reviewers : y # r => doing'[y] = doing[y]
        /\ IF v = "PENDING" THEN doing'[r] = "none" ELSE doing'[r] = "apply"
    BY <1>1, TheSteps DEF MonitorTypeOK, Review
  <2>4. CASE {"review"} \in crossed'
    BY <2>4 DEF VerdictKept
  <2>5. CASE {"review"} \notin crossed'
    BY <2>2, <2>3, <2>5 DEF VerdictKept, Reviews
  <2> QED
    BY <2>4, <2>5
<1> QED
  BY <1>2, <1>3, <1>4, <1>5, <1>6, <1>7, <1>8

\* and applied to the attempt.
LEMMA ApplyReviewKeeps ==
    ASSUME WatchInv, NEW r \in Reviewers, ApplyReview(r)
    PROVE  WatchInv'
<1> USE DEF WatchInv
<1>1. /\ doing[r] = "apply" /\ doing'[r] = "none"
      /\ \A y \in Actors : y # r => doing'[y] = doing[y]
      /\ doing' \in [Actors -> AllSteps] /\ UNCHANGED <<undertaken, crossed, cuts, cut>>
  BY Going, TheSteps DEF ApplyReview, AllSteps
<1>2. MonitorTypeOK'
  BY <1>1, TheSteps DEF MonitorTypeOK, ApplyReview, windowVars, riskVars, verdictVars, historyVars
<1>3. Doers'
  BY <1>1, TheSteps DEF Doers, Beats, Reviews, ApplyReview, windowVars, riskVars, verdictVars, historyVars
<1>4. Crossing'
  BY <1>1, CrossingStays, TheSteps DEF Opens, Beats, Evaluates, Reviews
<1>5. OneOpened' /\ KeyKnown'
  BY <1>1, SessionsStay, TheSteps DEF Still, ApplyReview, windowVars, riskVars, verdictVars, historyVars
<1>6. FlagKept'
  BY <1>1, TheSteps
     DEF FlagKept, Crossing, Evaluates, Reviews, MonitorTypeOK, ApplyReview, windowVars, riskVars, verdictVars, historyVars
<1>7. RiskKept'
  <2>1. verdict[r] = "DISQUALIFIED" \/ verdict[r] = "CLEARED"
    BY <1>1 DEF Doers, MonitorTypeOK, Verdicts
  <2> QED
    BY <1>1, <2>1, RiskStays, TheSteps
       DEF Still, MonitorTypeOK, ApplyReview, windowVars, riskVars, verdictVars, historyVars
<1>8. VerdictKept'
  BY <1>1, TheSteps
     DEF VerdictKept, Crossing, Reviews, MonitorTypeOK, ApplyReview, windowVars, riskVars, verdictVars, historyVars
<1> QED
  BY <1>2, <1>3, <1>4, <1>5, <1>6, <1>7, <1>8

\* A termination ends the attempt,
LEMMA TerminateKeeps ==
    ASSUME WatchInv, NEW r \in Reviewers, Terminate(r)
    PROVE  WatchInv'
<1> USE DEF WatchInv
<1>1. /\ doing[r] = "none" /\ doing'[r] = "sessions"
      /\ \A y \in Actors : y # r => doing'[y] = doing[y]
      /\ doing' \in [Actors -> AllSteps] /\ undertaken' \in 0 .. MaxUndertaken
      /\ crossed \subseteq crossed' /\ crossed' \subseteq SUBSET Kinds
      /\ UNCHANGED <<cut, cuts>>
      /\ \A y \in Actors : /\ Opens(y) => {"review", "open"} \in crossed'
                           /\ Beats(y) => {"review", "beat"} \in crossed'
                           /\ Evaluates(y) => {"review", "evaluate"} \in crossed'
                           /\ Reviews(y) => {"review", "review"} \in crossed'
  BY Beginning, TheSteps DEF Terminate, AllSteps
<1>2. MonitorTypeOK'
  BY <1>1, TheSteps DEF MonitorTypeOK, Verdicts, Terminate, windowVars, riskVars, verdictVars, historyVars
<1>3. Doers'
  BY <1>1, TheSteps DEF Doers, Beats, Reviews, Terminate, windowVars, riskVars, verdictVars, historyVars
<1>4. Crossing'
  BY CrossingBegins, TheSteps DEF Terminate, AllSteps, StepsOf
<1>5. OneOpened' /\ KeyKnown'
  BY <1>1, SessionsStay, TheSteps DEF Still, Terminate, windowVars, riskVars, verdictVars, historyVars
<1>6. FlagKept'
  BY <1>1, TheSteps
     DEF FlagKept, Evaluates, MonitorTypeOK, Terminate, windowVars, riskVars, verdictVars, historyVars
<1>7. RiskKept'
  BY <1>1, RiskStays, TheSteps DEF Still, Terminate, windowVars, riskVars, verdictVars, historyVars
<1>8. VerdictKept'
  BY <1>1, TheSteps
     DEF VerdictKept, Reviews, MonitorTypeOK, Terminate, windowVars, riskVars, verdictVars, historyVars
<1> QED
  BY <1>2, <1>3, <1>4, <1>5, <1>6, <1>7, <1>8

\* its sessions,
LEMMA TerminateSessionsKeeps ==
    ASSUME WatchInv, NEW r \in Reviewers, TerminateSessions(r)
    PROVE  WatchInv'
<1> USE DEF WatchInv
<1>1. /\ doing[r] = "sessions" /\ doing'[r] = "log"
      /\ \A y \in Actors : y # r => doing'[y] = doing[y]
      /\ doing' \in [Actors -> AllSteps] /\ UNCHANGED <<undertaken, crossed, cuts, cut>>
  BY Going, TheSteps DEF TerminateSessions, AllSteps
<1>2. MonitorTypeOK'
  BY <1>1, TheSteps
     DEF MonitorTypeOK, SessionStatuses, TerminateSessions, windowVars, riskVars, verdictVars, historyVars
<1>3. Doers'
  BY <1>1, TheSteps
     DEF Doers, Beats, Reviews, TerminateSessions, windowVars, riskVars, verdictVars, historyVars
<1>4. Crossing'
  BY <1>1, CrossingStays, TheSteps DEF Opens, Beats, Evaluates, Reviews
<1>5. OneOpened' /\ KeyKnown'
  BY <1>1, <1>2, TheSteps
     DEF OneOpened, KeyKnown, Doers, MonitorTypeOK, TerminateSessions, windowVars, riskVars, verdictVars, historyVars
<1>6. FlagKept'
  BY <1>1, FlagStays, TheSteps DEF Still, TerminateSessions, windowVars, riskVars, verdictVars, historyVars
<1>7. RiskKept'
  BY <1>1, RiskStays, TheSteps DEF Still, TerminateSessions, windowVars, riskVars, verdictVars, historyVars
<1>8. VerdictKept'
  BY <1>1, TheSteps
     DEF VerdictKept, Reviews, MonitorTypeOK, TerminateSessions, windowVars, riskVars, verdictVars, historyVars
<1> QED
  BY <1>2, <1>3, <1>4, <1>5, <1>6, <1>7, <1>8

\* and is recorded.
LEMMA TerminateLogKeeps ==
    ASSUME WatchInv, NEW r \in Reviewers, TerminateLog(r)
    PROVE  WatchInv'
<1> USE DEF WatchInv
<1>1. /\ doing[r] = "log" /\ doing'[r] = "none"
      /\ \A y \in Actors : y # r => doing'[y] = doing[y]
      /\ doing' \in [Actors -> AllSteps] /\ UNCHANGED <<undertaken, crossed, cuts, cut>>
  BY Going, TheSteps DEF TerminateLog, AllSteps
<1>2. MonitorTypeOK'
  BY <1>1, TheSteps DEF MonitorTypeOK, Verdicts, TerminateLog, windowVars, riskVars, verdictVars, historyVars
<1>3. Doers'
  BY <1>1, TheSteps DEF Doers, Beats, Reviews, TerminateLog, windowVars, riskVars, verdictVars, historyVars
<1>4. Crossing'
  BY <1>1, CrossingStays, TheSteps DEF Opens, Beats, Evaluates, Reviews
<1>5. OneOpened' /\ KeyKnown'
  BY <1>1, SessionsStay, TheSteps DEF Still, TerminateLog, windowVars, riskVars, verdictVars, historyVars
<1>6. FlagKept'
  BY <1>1, FlagStays, TheSteps DEF Still, TerminateLog, windowVars, riskVars, verdictVars, historyVars
<1>7. RiskKept'
  BY <1>1, RiskStays, TheSteps DEF Still, TerminateLog, windowVars, riskVars, verdictVars, historyVars
<1>8. VerdictKept'
  BY <1>1, TheSteps
     DEF VerdictKept, Crossing, Reviews, MonitorTypeOK, TerminateLog, windowVars, riskVars, verdictVars, historyVars
<1> QED
  BY <1>2, <1>3, <1>4, <1>5, <1>6, <1>7, <1>8

\* A heartbeat that was read refreshes the age of the last one.
LEMMA HeartbeatWriteKeeps ==
    ASSUME WatchInv, NEW w \in Windows, HeartbeatWrite(w)
    PROVE  WatchInv'
<1> USE DEF WatchInv
<1>1. /\ \/ doing[w] = "beat" /\ doing'[w] = "keep"
         \/ doing[w] = "touch" /\ doing'[w] = "none"
      /\ \A y \in Actors : y # w => doing'[y] = doing[y]
      /\ doing' \in [Actors -> AllSteps] /\ UNCHANGED <<undertaken, crossed, cuts, cut>>
  <2>1. w \in Actors /\ "keep" \in AllSteps /\ "none" \in AllSteps
    BY TheSteps DEF AllSteps
  <2>2. ASSUME Continue(w, "beat", "keep")
        PROVE  /\ doing[w] = "beat" /\ doing'[w] = "keep"
               /\ \A y \in Actors : y # w => doing'[y] = doing[y]
               /\ doing' \in [Actors -> AllSteps] /\ UNCHANGED <<undertaken, crossed, cuts, cut>>
    BY <2>1, <2>2, Going
  <2>3. ASSUME Continue(w, "touch", "none")
        PROVE  /\ doing[w] = "touch" /\ doing'[w] = "none"
               /\ \A y \in Actors : y # w => doing'[y] = doing[y]
               /\ doing' \in [Actors -> AllSteps] /\ UNCHANGED <<undertaken, crossed, cuts, cut>>
    BY <2>1, <2>3, Going
  <2> QED
    BY <2>2, <2>3 DEF HeartbeatWrite
<1>2. MonitorTypeOK'
  BY <1>1, TheSteps DEF MonitorTypeOK, HeartbeatWrite, riskVars, verdictVars
<1>3. Doers'
  BY <1>1, TheSteps DEF Doers, Beats, Reviews, HeartbeatWrite, verdictVars
<1>4. Crossing'
  BY <1>1, CrossingStays, TheSteps DEF Opens, Beats, Evaluates, Reviews
<1>5. OneOpened' /\ KeyKnown'
  BY <1>1, TheSteps DEF OneOpened, KeyKnown, Opens, HeartbeatWrite
<1>6. FlagKept'
  BY <1>1, FlagStays, TheSteps DEF Still, HeartbeatWrite, riskVars, verdictVars
<1>7. RiskKept'
  BY <1>1, RiskStays, TheSteps DEF Still, HeartbeatWrite, riskVars, verdictVars
<1>8. VerdictKept'
  BY <1>1, VerdictStays, TheSteps DEF Still, HeartbeatWrite, verdictVars
<1> QED
  BY <1>2, <1>3, <1>4, <1>5, <1>6, <1>7, <1>8

-----------------------------------------------------------------------------
(* What no request does *)

\* A request that dies leaves its kind on record, and nothing else of it.
LEMMA CutKeeps ==
    ASSUME WatchInv, NEW x \in Actors, Cut(x)
    PROVE  WatchInv'
<1> USE DEF WatchInv
<1>1. /\ doing[x] # "none" /\ doing'[x] = "none"
      /\ \A y \in Actors : y # x => doing'[y] = doing[y]
      /\ doing' \in [Actors -> AllSteps] /\ cuts' \in 0 .. MaxCuts
  BY TheSteps, MonitorAssumption DEF Cut, MonitorTypeOK, AllSteps
<1>2. /\ cut \subseteq cut' /\ cut' \subseteq Kinds
      /\ Opens(x) => "open" \in cut'
      /\ Evaluates(x) => "evaluate" \in cut'
      /\ Reviews(x) => "review" \in cut'
  BY TheSteps DEF Cut, MonitorTypeOK, StepsOf, Opens, Evaluates, Reviews
<1>3. /\ \A y \in Windows : y # x =>
            opened'[y] = opened[y] /\ sawFlag'[y] = sawFlag[y] /\ tallied'[y] = tallied[y]
      /\ UNCHANGED <<session, holds, key, fresh, events, risk, flagged, disqualified, reviewed,
                     verdict, cleared, over, undertaken, crossed>>
  BY DEF Cut, MonitorTypeOK, verdictVars
<1>4. MonitorTypeOK'
  <2>1. /\ opened' \in [Windows -> 0 .. MaxSessions]
        /\ sawFlag' \in [Windows -> BOOLEAN]
        /\ tallied' \in [Windows -> 0 .. MaxEvents]
    BY MonitorAssumption DEF Cut, MonitorTypeOK
  <2> QED
    BY <1>1, <1>2, <1>3, <2>1, TheSteps DEF MonitorTypeOK
<1>5. Doers'
  BY <1>1, <1>3, TheSteps DEF Doers, Beats, Reviews
<1>6. Crossing'
  BY <1>1, <1>3, CrossingStays, TheSteps DEF Opens, Beats, Evaluates, Reviews
<1>7. OneOpened'
  BY <1>1, <1>3, TheSteps DEF OneOpened
<1>8. KeyKnown'
  BY <1>1, <1>2, <1>3, TheSteps DEF KeyKnown, Opens
<1>9. FlagKept'
  BY <1>1, <1>3, TheSteps DEF FlagKept
<1>10. RiskKept'
  BY <1>1, <1>2, <1>3, TheSteps DEF RiskKept, Evaluates
<1>11. VerdictKept'
  BY <1>1, <1>2, <1>3, TheSteps DEF VerdictKept, Reviews
<1> QED
  BY <1>4, <1>5, <1>6, <1>7, <1>8, <1>9, <1>10, <1>11

\* A session that goes on, a heartbeat that grows old, and the end of the attempt
LEMMA OthersKeep ==
    ASSUME WatchInv, (\E w \in Windows : ResumeSession(w)) \/ Silence \/ SubmitClears
    PROVE  WatchInv'
<1> USE DEF WatchInv
<1>1. /\ UNCHANGED <<session, holds, opened, events, risk, sawFlag, tallied, flagged, disqualified,
                     reviewed, verdict, cleared, doing, undertaken, crossed, cuts, cut>>
      /\ fresh' \in BOOLEAN /\ key' \in 0 .. MaxSessions
      /\ (UNCHANGED <<key, over>>) \/ (over = "no" /\ over' = "submitted")
  <2>1. CASE \E w \in Windows : ResumeSession(w)
    BY <2>1 DEF ResumeSession, MonitorTypeOK, riskVars, verdictVars, historyVars
  <2>2. CASE Silence
    BY <2>2 DEF Silence, MonitorTypeOK, riskVars, verdictVars, historyVars
  <2>3. CASE SubmitClears
    <3>1. 0 \in 0 .. MaxSessions
      BY MonitorAssumption
    <3>2. over = "no" /\ over' = "submitted" /\ key' = 0 /\ fresh' = FALSE
      BY <2>3 DEF SubmitClears
    <3> QED
      BY <2>3, <3>1, <3>2 DEF SubmitClears, riskVars, verdictVars, historyVars
  <2> QED
    BY <2>1, <2>2, <2>3
<1>2. MonitorTypeOK'
  BY <1>1 DEF MonitorTypeOK
<1>3. Doers'
  BY <1>1 DEF Doers, Beats, Reviews
<1>4. Crossing'
  BY <1>1, CrossingStays DEF Opens, Beats, Evaluates, Reviews
<1>5. OneOpened'
  BY <1>1 DEF OneOpened
<1>6. KeyKnown'
  BY <1>1 DEF KeyKnown, Opens
<1>7. FlagKept' /\ RiskKept' /\ VerdictKept'
  BY <1>1 DEF FlagKept, RiskKept, VerdictKept, Evaluates, Reviews
<1> QED
  BY <1>2, <1>3, <1>4, <1>5, <1>6, <1>7

-----------------------------------------------------------------------------
(* The theorems *)

\* At the start no session is open and nothing is flagged.
LEMMA WatchBegins == MonitorInit => WatchInv
<1> SUFFICES ASSUME MonitorInit PROVE WatchInv
  OBVIOUS
<1> USE DEF MonitorInit
<1>1. MonitorTypeOK
  <2>1. /\ session \in [SessionIds -> SessionStatuses]
        /\ verdict \in [Reviewers -> Verdicts] /\ reviewed \in Verdicts
    BY DEF SessionStatuses, Verdicts
  <2>2. /\ holds \in [Windows -> 0 .. MaxSessions] /\ opened \in [Windows -> 0 .. MaxSessions]
        /\ tallied \in [Windows -> 0 .. MaxEvents] /\ sawFlag \in [Windows -> BOOLEAN]
    BY MonitorAssumption
  <2>3. /\ key \in 0 .. MaxSessions /\ events \in 0 .. MaxEvents /\ risk \in 0 .. MaxEvents
        /\ undertaken \in 0 .. MaxUndertaken /\ cuts \in 0 .. MaxCuts
    BY MonitorAssumption
  <2>4. doing \in [Actors -> {"none"} \cup UNION {StepsOf[k] : k \in Kinds}]
    OBVIOUS
  <2> QED
    BY <2>1, <2>2, <2>3, <2>4 DEF MonitorTypeOK
<1>2. \A x \in Actors : doing[x] = "none"
  OBVIOUS
<1>3. Doers
  BY <1>2, TheSteps DEF Doers, Beats, Reviews
<1>4. Crossing
  BY <1>2 DEF Crossing, Opens, Beats, Evaluates, Reviews
<1>5. OneOpened /\ KeyKnown
  BY <1>2, TheSteps DEF OneOpened, KeyKnown
<1>6. FlagKept /\ VerdictKept
  BY <1>2, TheSteps DEF FlagKept, VerdictKept
<1>7. RiskKept
  BY <1>2, TheSteps, MonitorAssumption DEF RiskKept
<1> QED
  BY <1>1, <1>3, <1>4, <1>5, <1>6, <1>7 DEF WatchInv

\* Every step keeps the invariant.
LEMMA WatchStep ==
    ASSUME WatchInv, [MonitorNext]_monitorVars
    PROVE  WatchInv'
<1>1. ASSUME NEW w \in Windows, WindowNext(w)
      PROVE  WatchInv'
  <2>1. CASE OpenInvalidate(w) \/ OpenCreate(w) \/ OpenCache(w)
             \/ \E transfer \in BOOLEAN : OpenRead(w, transfer)
    BY <2>1, OpenReadKeeps, OpenInvalidateKeeps, OpenCreateKeeps, OpenCacheKeeps
  <2>2. CASE HeartbeatRead(w) \/ HeartbeatWrite(w) \/ HeartbeatKeep(w)
    BY <2>2, HeartbeatReadKeeps, HeartbeatWriteKeeps, HeartbeatKeepKeeps
  <2>3. CASE EvaluateAttempt(w) \/ EvaluateEvents(w) \/ EvaluateScore(w)
             \/ \E new \in {0, 1} : Ingest(w, new)
    BY <2>3, IngestKeeps, EvaluateAttemptKeeps, EvaluateEventsKeeps, EvaluateScoreKeeps
  <2>4. CASE ResumeSession(w)
    BY <2>4, OthersKeep
  <2> QED
    BY <1>1, <2>1, <2>2, <2>3, <2>4 DEF WindowNext
<1>2. ASSUME NEW r \in Reviewers, ReviewerNext(r)
      PROVE  WatchInv'
  BY <1>2, ReviewKeeps, ApplyReviewKeeps, TerminateKeeps, TerminateSessionsKeeps, TerminateLogKeeps
     DEF ReviewerNext
<1>3. CASE UNCHANGED monitorVars
  BY <1>3 DEF WatchInv, MonitorTypeOK, Doers, Crossing, OneOpened, KeyKnown, FlagKept, RiskKept,
     VerdictKept, Opens, Beats, Evaluates, Reviews, monitorVars, windowVars, riskVars, verdictVars,
     historyVars
<1> QED
  BY <1>1, <1>2, <1>3, CutKeeps, OthersKeep DEF MonitorNext

\* The invariant holds in every state.
LEMMA WatchInvariant == MonitorSpec => []WatchInv
<1>1. WatchInv /\ [MonitorNext]_monitorVars => WatchInv'
  BY WatchStep
<1> QED
  BY WatchBegins, <1>1, PTL DEF MonitorSpec

\* The invariant says what is promised of the attempt.
LEMMA WatchInvImplies == WatchInv => AttemptWatched
<1> SUFFICES ASSUME WatchInv PROVE AttemptWatched
  OBVIOUS
<1>1. /\ InKind("open") = {} => \A w \in Windows : ~Opens(w)
      /\ InKind("evaluate") = {} => \A w \in Windows : ~Evaluates(w)
      /\ InKind("review") = {} => \A r \in Reviewers : ~Reviews(r)
  BY TheSteps
<1>2. OneActiveWindow
  BY DEF WatchInv, OneOpened, OneActiveWindow
<1>3. KeyNamesActive
  BY <1>1 DEF WatchInv, KeyKnown, KeyNamesActive
<1>4. DisqualifiedFlagged
  BY DEF WatchInv, FlagKept, DisqualifiedFlagged
<1>5. RiskCounted
  BY <1>1 DEF WatchInv, RiskKept, RiskCounted
<1>6. VerdictApplied
  BY <1>1 DEF WatchInv, VerdictKept, VerdictApplied
<1> QED
  BY <1>2, <1>3, <1>4, <1>5, <1>6 DEF AttemptWatched, OneWindow, AttemptJudged

\* Rows, keys and requests have values of their types, however many windows and
\* reviewers there are.
THEOREM MonitoringTypeCorrect == MonitorSpec => []MonitorTypeOK
BY WatchInvariant, PTL DEF WatchInv

\* Whatever overlaps or dies, an attempt is open in one window at most and Redis
\* names it, and its risk, flag and disqualification follow from its events and
\* its reviews, except where the requests that the property names have met.
THEOREM AttemptIsWatched == MonitorSpec => []AttemptWatched
BY WatchInvariant, WatchInvImplies, PTL

(***************************************************************************)
(* Sums                                                                    *)
(*                                                                         *)
(* A sum over a finite set is the value at that set of a function on its   *)
(* subsets, which takes one element after the other in an order that the   *)
(* definition leaves open.  What is proved about it by induction is stated *)
(* with sets of numbers and of subsets, and not with predicates.           *)
(***************************************************************************)

-----------------------------------------------------------------------------
(* Induction over numbers and over finite sets, stated for sets *)

\* Some numbers have a least one.
LEMMA LeastOf ==
    ASSUME NEW S \in SUBSET Nat, S # {}
    PROVE  \E i \in S : \A k \in S : i <= k
<1>1. PICK i \in S : \A k \in S : ~(<<k, i>> \in OpToRel(<, Nat))
  BY NatLessThanWellFounded, WFMin
<1>2. ASSUME NEW k \in S PROVE i <= k
  <2>1. k \in Nat /\ i \in Nat
    OBVIOUS
  <2>2. <<k, i>> \in OpToRel(<, Nat) <=> k < i
    BY <2>1 DEF OpToRel
  <2>3. ~(k < i)
    BY <1>1, <2>2
  <2> QED
    BY <2>1, <2>3
<1> QED
  BY <1>2

\* Numbers with 0 and with the successor of each are all numbers.
LEMMA NumberInduction ==
    ASSUME NEW G, 0 \in G, \A n \in Nat : n \in G => n + 1 \in G
    PROVE  \A n \in Nat : n \in G
<1> DEFINE Bad == Nat \ G
<1>1. SUFFICES ASSUME Bad # {} PROVE FALSE
  OBVIOUS
<1>2. PICK i \in Bad : \A k \in Bad : i <= k
  <2>1. Bad \in SUBSET Nat
    OBVIOUS
  <2> HIDE DEF Bad
  <2> QED
    BY <1>1, <2>1, LeastOf
<1>3. i \in Nat /\ i # 0 /\ i - 1 \in Nat
  OBVIOUS
<1>4. i - 1 \in G
  BY <1>2, <1>3
<1> QED
  BY <1>3, <1>4

\* A finite set without one of its elements is smaller by one.
LEMMA Smaller ==
    ASSUME NEW S, IsFiniteSet(S), NEW x \in S, NEW n \in Nat, Cardinality(S) = n + 1
    PROVE  IsFiniteSet(S \ {x}) /\ Cardinality(S \ {x}) = n
<1>1. Cardinality(S \ {x}) = Cardinality(S) - 1 /\ IsFiniteSet(S \ {x})
  BY FS_RemoveElement
<1> QED
  BY <1>1

\* Subsets of a finite set, with the empty one and with the sets that are one
\* element larger than each, are all of them.
LEMMA SubsetInduction ==
    ASSUME NEW S, IsFiniteSet(S), NEW G, {} \in G,
           \A T \in SUBSET S : \A x \in S \ T : T \in G => T \cup {x} \in G
    PROVE  S \in G
<1> DEFINE N == {n \in Nat : \A T \in SUBSET S : Cardinality(T) = n => T \in G}
<1>1. \A T \in SUBSET S : IsFiniteSet(T) /\ Cardinality(T) \in Nat
  BY FS_Subset, FS_CardinalityType
<1>2. 0 \in N
  BY <1>1, FS_EmptySet
<1>3. ASSUME NEW n \in Nat, n \in N PROVE n + 1 \in N
  <2>1. SUFFICES ASSUME NEW T \in SUBSET S, Cardinality(T) = n + 1 PROVE T \in G
    OBVIOUS
  <2>2. PICK x \in T : TRUE
    BY <1>1, <2>1, FS_EmptySet
  <2>3. Cardinality(T \ {x}) = n
    BY <1>1, <2>1, <2>2, Smaller
  <2>4. T \ {x} \in G /\ x \in S \ (T \ {x}) /\ T \ {x} \in SUBSET S
    BY <1>3, <2>3
  <2>5. T = (T \ {x}) \cup {x}
    OBVIOUS
  <2> QED
    BY <2>4, <2>5
<1> HIDE DEF N
<1>4. \A n \in Nat : n \in N
  BY <1>2, <1>3, NumberInduction
<1> QED
  BY <1>1, <1>4 DEF N

-----------------------------------------------------------------------------
(* Sums over a finite set *)

\* The function behind a sum is defined by its own values at smaller sets.
Choice(T) == CHOOSE x \in T : TRUE
SumStep(w, D, it) == [T \in D |-> IF T = {} THEN 0 ELSE w[Choice(T)] + it[T \ {Choice(T)}]]
SumIteration(w, S) == CHOOSE it : it = SumStep(w, SUBSET S, it)
IsWeight(w, S) == IsFiniteSet(S) /\ \A x \in S : w[x] \in Int

LEMMA SumIsIteration ==
    ASSUME NEW w, NEW S
    PROVE  SumFunctionOnSet(w, S) = SumIteration(w, S)[S]
BY DEF SumFunctionOnSet, FoldFunctionOnSet, MapThenFoldSet, SumIteration, SumStep, Choice

\* There is such a function on the sets of up to any size,
LEMMA PartialSums ==
    ASSUME NEW S, NEW w, IsWeight(w, S), NEW m \in Nat
    PROVE  \E it \in [{T \in SUBSET S : Cardinality(T) <= m} -> Int] :
               it = SumStep(w, {T \in SUBSET S : Cardinality(T) <= m}, it)
<1> DEFINE D(n) == {T \in SUBSET S : Cardinality(T) <= n}
           N == {n \in Nat : \E it \in [D(n) -> Int] : it = SumStep(w, D(n), it)}
<1>1. \A T \in SUBSET S : IsFiniteSet(T) /\ Cardinality(T) \in Nat
  BY FS_Subset, FS_CardinalityType DEF IsWeight
<1>2. \A T \in SUBSET S : T # {} => Choice(T) \in T /\ Cardinality(T \ {Choice(T)}) = Cardinality(T) - 1
  BY <1>1, FS_RemoveElement DEF Choice
<1>3. 0 \in N
  <2>1. D(0) = {{}}
    BY <1>1, FS_EmptySet
  <2> DEFINE it == [T \in D(0) |-> 0]
  <2>2. it = SumStep(w, D(0), it) /\ it \in [D(0) -> Int]
    BY <2>1 DEF SumStep
  <2> QED
    BY <2>2
<1>4. ASSUME NEW n \in Nat, n \in N PROVE n + 1 \in N
  <2>1. PICK it \in [D(n) -> Int] : it = SumStep(w, D(n), it)
    BY <1>4
  <2> DEFINE jt == [T \in D(n + 1) |-> IF T = {} THEN 0 ELSE w[Choice(T)] + it[T \ {Choice(T)}]]
  <2>2. ASSUME NEW T \in D(n + 1), T # {} PROVE Choice(T) \in S /\ T \ {Choice(T)} \in D(n)
    BY <1>1, <1>2, <2>2
  <2>3. \A T \in D(n) : jt[T] = it[T]
    <3>1. \A T \in D(n) : T \in D(n + 1)
      BY <1>1
    <3>2. \A T \in D(n) : it[T] = IF T = {} THEN 0 ELSE w[Choice(T)] + it[T \ {Choice(T)}]
      <4> HIDE DEF D
      <4> QED
        BY <2>1 DEF SumStep
    <3> HIDE DEF D
    <3> QED
      BY <3>1, <3>2
  <2> HIDE DEF D
  <2>4. jt \in [D(n + 1) -> Int]
    <3>1. ASSUME NEW T \in D(n + 1), T # {} PROVE w[Choice(T)] \in Int /\ it[T \ {Choice(T)}] \in Int
      BY <2>1, <2>2, <3>1 DEF IsWeight
    <3> QED
      BY <3>1
  <2>5. jt = SumStep(w, D(n + 1), jt)
    <3>1. \A T \in D(n + 1) : T # {} => jt[T \ {Choice(T)}] = it[T \ {Choice(T)}]
      BY <2>2, <2>3
    <3> QED
      BY <3>1 DEF SumStep
  <2> HIDE DEF jt
  <2> QED
    BY <2>4, <2>5
<1> HIDE DEF N
<1>5. m \in N
  BY <1>3, <1>4, NumberInduction
<1> QED
  BY <1>5 DEF N

\* hence on all subsets,
LEMMA SumExists ==
    ASSUME NEW S, NEW w, IsWeight(w, S)
    PROVE  \E it \in [SUBSET S -> Int] : it = SumStep(w, SUBSET S, it)
<1>1. Cardinality(S) \in Nat
  BY FS_CardinalityType DEF IsWeight
<1>2. {T \in SUBSET S : Cardinality(T) <= Cardinality(S)} = SUBSET S
  BY FS_Subset DEF IsWeight
<1> QED
  BY <1>1, <1>2, PartialSums

LEMMA IterationStep ==
    ASSUME NEW S, NEW w, IsWeight(w, S)
    PROVE  SumIteration(w, S) = SumStep(w, SUBSET S, SumIteration(w, S))
BY SumExists DEF SumIteration

\* and the values do not depend on the set that is summed up in the end.
LEMMA IterationsAgree ==
    ASSUME NEW S, NEW w, IsWeight(w, S), NEW R \in SUBSET S
    PROVE  SumIteration(w, S)[R] = SumIteration(w, R)[R]
<1> DEFINE it == SumIteration(w, S)
           jt == SumIteration(w, R)
           N == {n \in Nat : \A T \in SUBSET R : Cardinality(T) = n => it[T] = jt[T]}
<1>1. \A T \in SUBSET S : IsFiniteSet(T) /\ Cardinality(T) \in Nat
  BY FS_Subset, FS_CardinalityType DEF IsWeight
<1>2. it = SumStep(w, SUBSET S, it) /\ jt = SumStep(w, SUBSET R, jt)
  <2>1. IsWeight(w, R)
    BY <1>1 DEF IsWeight
  <2> QED
    BY <2>1, IterationStep
<1> HIDE DEF it, jt
<1>3. \A T \in SUBSET R : /\ it[T] = IF T = {} THEN 0 ELSE w[Choice(T)] + it[T \ {Choice(T)}]
                          /\ jt[T] = IF T = {} THEN 0 ELSE w[Choice(T)] + jt[T \ {Choice(T)}]
  <2>1. \A T \in SUBSET S : it[T] = IF T = {} THEN 0 ELSE w[Choice(T)] + it[T \ {Choice(T)}]
    BY <1>2 DEF SumStep
  <2>2. \A T \in SUBSET R : jt[T] = IF T = {} THEN 0 ELSE w[Choice(T)] + jt[T \ {Choice(T)}]
    BY <1>2 DEF SumStep
  <2> QED
    BY <2>1, <2>2
<1>4. 0 \in N
  BY <1>1, <1>3, FS_EmptySet
<1>5. ASSUME NEW n \in Nat, n \in N PROVE n + 1 \in N
  <2>1. SUFFICES ASSUME NEW T \in SUBSET R, Cardinality(T) = n + 1 PROVE it[T] = jt[T]
    OBVIOUS
  <2>2. T # {} /\ Choice(T) \in T
    BY <1>1, <2>1, FS_EmptySet DEF Choice
  <2>3. Cardinality(T \ {Choice(T)}) = n
    BY <1>1, <2>1, <2>2, Smaller
  <2>4. it[T \ {Choice(T)}] = jt[T \ {Choice(T)}]
    BY <1>5, <2>3
  <2> QED
    BY <1>3, <2>2, <2>4
<1> HIDE DEF N
<1>6. Cardinality(R) \in N
  BY <1>1, <1>4, <1>5, NumberInduction
<1>7. it[R] = jt[R]
  BY <1>6 DEF N
<1> QED
  BY <1>7 DEF it, jt

LEMMA SumIsInt ==
    ASSUME NEW S, NEW w, IsWeight(w, S)
    PROVE  SumFunctionOnSet(w, S) \in Int
<1>1. PICK it \in [SUBSET S -> Int] : it = SumStep(w, SUBSET S, it)
  BY SumExists
<1> DEFINE N == {n \in Nat : \A T \in SUBSET S : Cardinality(T) = n => SumIteration(w, S)[T] \in Int}
<1>2. \A T \in SUBSET S : IsFiniteSet(T) /\ Cardinality(T) \in Nat
  BY FS_Subset, FS_CardinalityType DEF IsWeight
<1>3. \A T \in SUBSET S : SumIteration(w, S)[T]
                            = IF T = {} THEN 0 ELSE w[Choice(T)] + SumIteration(w, S)[T \ {Choice(T)}]
  <2>1. SumIteration(w, S) = SumStep(w, SUBSET S, SumIteration(w, S))
    BY IterationStep
  <2> QED
    BY <2>1 DEF SumStep
<1>4. 0 \in N
  <2>1. \A T \in SUBSET S : Cardinality(T) = 0 => SumIteration(w, S)[T] = 0
    BY <1>2, <1>3, FS_EmptySet
  <2> QED
    BY <2>1
<1>5. ASSUME NEW n \in Nat, n \in N PROVE n + 1 \in N
  <2>1. SUFFICES ASSUME NEW T \in SUBSET S, Cardinality(T) = n + 1 PROVE SumIteration(w, S)[T] \in Int
    OBVIOUS
  <2>2. T # {} /\ Choice(T) \in T
    BY <1>2, <2>1, FS_EmptySet DEF Choice
  <2>3. Cardinality(T \ {Choice(T)}) = n
    BY <1>2, <2>1, <2>2, Smaller
  <2>4. SumIteration(w, S)[T \ {Choice(T)}] \in Int /\ w[Choice(T)] \in Int
    BY <1>5, <2>2, <2>3 DEF IsWeight
  <2> QED
    BY <1>3, <2>2, <2>4
<1> HIDE DEF N
<1>6. Cardinality(S) \in N
  BY <1>2, <1>4, <1>5, NumberInduction
<1>7. SumIteration(w, S)[S] \in Int
  BY <1>6 DEF N
<1> QED
  BY <1>7, SumIsIteration

\* The sum over no element is 0.
LEMMA SumOfNone == ASSUME NEW w PROVE SumFunctionOnSet(w, {}) = 0
<1>1. IsWeight(w, {})
  BY FS_EmptySet DEF IsWeight
<1>2. SumIteration(w, {}) = SumStep(w, SUBSET {}, SumIteration(w, {}))
  BY <1>1, IterationStep
<1>3. SumIteration(w, {})[{}] = 0
  BY <1>2 DEF SumStep
<1> QED
  BY <1>3, SumIsIteration

\* The element that the definition takes can be split off,
LEMMA SumSplitsChoice ==
    ASSUME NEW S, NEW w, IsWeight(w, S), S # {}
    PROVE  SumFunctionOnSet(w, S) = w[Choice(S)] + SumFunctionOnSet(w, S \ {Choice(S)})
<1>1. SumIteration(w, S) = SumStep(w, SUBSET S, SumIteration(w, S))
  BY IterationStep
<1>2. SumIteration(w, S)[S] = w[Choice(S)] + SumIteration(w, S)[S \ {Choice(S)}]
  BY <1>1 DEF SumStep
<1>3. SumIteration(w, S)[S \ {Choice(S)}] = SumIteration(w, S \ {Choice(S)})[S \ {Choice(S)}]
  BY IterationsAgree
<1> QED
  BY <1>2, <1>3, SumIsIteration

\* and so can every other.
LEMMA SumSplits ==
    ASSUME NEW S, NEW w, IsWeight(w, S), NEW x \in S
    PROVE  SumFunctionOnSet(w, S) = w[x] + SumFunctionOnSet(w, S \ {x})
<1> DEFINE Sum(T) == SumFunctionOnSet(w, T)
           N == {n \in Nat : \A T \in SUBSET S : Cardinality(T) = n =>
                                \A y \in T : Sum(T) = w[y] + Sum(T \ {y})}
<1>1. \A T \in SUBSET S : IsFiniteSet(T) /\ Cardinality(T) \in Nat /\ IsWeight(w, T)
  BY FS_Subset, FS_CardinalityType DEF IsWeight
<1>2. \A T \in SUBSET S : Sum(T) \in Int
  BY <1>1, SumIsInt
<1>3. \A T \in SUBSET S : T # {} => Choice(T) \in T /\ Sum(T) = w[Choice(T)] + Sum(T \ {Choice(T)})
  BY <1>1, SumSplitsChoice DEF Choice
<1> HIDE DEF Sum
<1>4. 0 \in N
  BY <1>1, FS_EmptySet
<1>5. ASSUME NEW n \in Nat, n \in N PROVE n + 1 \in N
  <2>1. SUFFICES ASSUME NEW T \in SUBSET S, Cardinality(T) = n + 1, NEW y \in T
                 PROVE  Sum(T) = w[y] + Sum(T \ {y})
    OBVIOUS
  <2> DEFINE c == Choice(T)
  <2>2. c \in T /\ Sum(T) = w[c] + Sum(T \ {c})
    BY <1>3, <2>1
  <2> HIDE DEF c
  <2>3. CASE y = c
    BY <2>2, <2>3
  <2>4. CASE y # c
    <3>1. Cardinality(T \ {c}) = n /\ Cardinality(T \ {y}) = n
      BY <1>1, <2>1, <2>2, Smaller
    <3>2. Sum(T \ {c}) = w[y] + Sum((T \ {c}) \ {y})
      BY <1>5, <2>1, <2>4, <3>1
    <3>3. Sum(T \ {y}) = w[c] + Sum((T \ {y}) \ {c})
      BY <1>5, <2>2, <2>4, <3>1
    <3>4. (T \ {c}) \ {y} = (T \ {y}) \ {c}
      OBVIOUS
    <3>5. w[c] \in Int /\ w[y] \in Int /\ Sum((T \ {y}) \ {c}) \in Int
      BY <1>2, <2>2 DEF IsWeight
    <3> DEFINE rest == Sum((T \ {y}) \ {c})
    <3>6. Sum(T) = w[c] + (w[y] + rest) /\ Sum(T \ {y}) = w[c] + rest
      BY <2>2, <3>2, <3>3, <3>4
    <3> HIDE DEF rest
    <3>7. rest \in Int
      BY <3>5 DEF rest
    <3> QED
      BY <3>5, <3>6, <3>7
  <2> QED
    BY <2>3, <2>4
<1> HIDE DEF N
<1>6. Cardinality(S) \in N
  BY <1>1, <1>4, <1>5, NumberInduction
<1>7. Sum(S) = w[x] + Sum(S \ {x})
  BY <1>6 DEF N
<1> QED
  BY <1>7 DEF Sum

\* An element that is added adds its weight.
LEMMA SumExtends ==
    ASSUME NEW S, NEW w, IsWeight(w, S), NEW T \in SUBSET S, NEW x \in S \ T
    PROVE  /\ SumFunctionOnSet(w, T \cup {x}) = w[x] + SumFunctionOnSet(w, T)
           /\ w[x] \in Int /\ SumFunctionOnSet(w, T) \in Int
<1>1. T \cup {x} \subseteq S /\ (T \cup {x}) \ {x} = T
  OBVIOUS
<1>2. IsWeight(w, T \cup {x}) /\ IsWeight(w, T)
  BY <1>1, FS_Subset DEF IsWeight
<1>3. SumFunctionOnSet(w, T \cup {x}) = w[x] + SumFunctionOnSet(w, T)
  BY <1>1, <1>2, SumSplits
<1> QED
  BY <1>2, <1>3, SumIsInt DEF IsWeight

\* A sum is the sum over a part and the sum over the rest.
LEMMA SumOfParts ==
    ASSUME NEW S, NEW w, IsWeight(w, S), NEW A \in SUBSET S
    PROVE  SumFunctionOnSet(w, S) = SumFunctionOnSet(w, A) + SumFunctionOnSet(w, S \ A)
<1> DEFINE Sum(T) == SumFunctionOnSet(w, T)
           G == {T \in SUBSET (S \ A) : Sum(A \cup T) = Sum(A) + Sum(T)}
<1>1. IsFiniteSet(S) /\ IsFiniteSet(S \ A)
  BY FS_Subset DEF IsWeight
<1>2. {} \in G
  <2>1. Sum({}) = 0 /\ A \cup {} = A
    BY SumOfNone
  <2>2. Sum(A) \in Int
    BY FS_Subset, SumIsInt DEF IsWeight
  <2> QED
    BY <2>1, <2>2
<1>3. ASSUME NEW T \in SUBSET (S \ A), NEW x \in (S \ A) \ T, T \in G PROVE T \cup {x} \in G
  <2>1. Sum(T \cup {x}) = w[x] + Sum(T) /\ w[x] \in Int /\ Sum(T) \in Int
    BY SumExtends
  <2> DEFINE B == A \cup T
  <2>2. B \in SUBSET S /\ x \in S \ B /\ B \cup {x} = A \cup (T \cup {x})
    OBVIOUS
  <2>3. Sum(A) \in Int /\ Sum(B) = Sum(A) + Sum(T)
    BY <1>3, FS_Subset, SumIsInt DEF IsWeight
  <2> HIDE DEF B
  <2>4. Sum(B \cup {x}) = w[x] + Sum(B)
    BY <2>2, SumExtends
  <2> HIDE DEF Sum
  <2>5. Sum(A \cup (T \cup {x})) = Sum(A) + Sum(T \cup {x})
    <3>1. Sum(A \cup (T \cup {x})) = Sum(B \cup {x})
      BY <2>2
    <3>2. w[x] + (Sum(A) + Sum(T)) = Sum(A) + (w[x] + Sum(T))
      BY <2>1, <2>3
    <3> QED
      BY <2>1, <2>3, <2>4, <3>1, <3>2
  <2> QED
    BY <2>5
<1> HIDE DEF G
<1>4. S \ A \in G
  BY <1>1, <1>2, <1>3, SubsetInduction
<1>5. A \cup (S \ A) = S
  OBVIOUS
<1> QED
  BY <1>4, <1>5 DEF G

\* Larger weights have a larger sum,
LEMMA SumGrows ==
    ASSUME NEW S, NEW v, IsWeight(v, S), NEW w, IsWeight(w, S), \A x \in S : v[x] <= w[x]
    PROVE  SumFunctionOnSet(v, S) <= SumFunctionOnSet(w, S)
<1> DEFINE G == {T \in SUBSET S : SumFunctionOnSet(v, T) <= SumFunctionOnSet(w, T)}
<1>1. {} \in G
  BY SumOfNone
<1>2. ASSUME NEW T \in SUBSET S, NEW x \in S \ T, T \in G PROVE T \cup {x} \in G
  <2>1. /\ SumFunctionOnSet(v, T \cup {x}) = v[x] + SumFunctionOnSet(v, T)
        /\ v[x] \in Int /\ SumFunctionOnSet(v, T) \in Int
    BY SumExtends
  <2>2. /\ SumFunctionOnSet(w, T \cup {x}) = w[x] + SumFunctionOnSet(w, T)
        /\ w[x] \in Int /\ SumFunctionOnSet(w, T) \in Int
    BY SumExtends
  <2>3. SumFunctionOnSet(v, T) <= SumFunctionOnSet(w, T) /\ v[x] <= w[x]
    BY <1>2
  <2> QED
    BY <2>1, <2>2, <2>3
<1> HIDE DEF G
<1>3. S \in G
  BY <1>1, <1>2, SubsetInduction DEF IsWeight
<1> QED
  BY <1>3 DEF G

\* and the same weights the same.
LEMMA SumSame ==
    ASSUME NEW S, NEW v, IsWeight(v, S), NEW w, \A x \in S : v[x] = w[x]
    PROVE  SumFunctionOnSet(v, S) = SumFunctionOnSet(w, S) /\ IsWeight(w, S)
<1>1. IsWeight(w, S) /\ \A x \in S : v[x] <= w[x] /\ w[x] <= v[x]
  BY DEF IsWeight
<1>2. SumFunctionOnSet(v, S) <= SumFunctionOnSet(w, S) /\ SumFunctionOnSet(w, S) <= SumFunctionOnSet(v, S)
  BY <1>1, SumGrows
<1> QED
  BY <1>1, <1>2, SumIsInt

\* A constant is added as often as there are elements.
LEMMA SumOfConstant ==
    ASSUME NEW S, NEW c \in Int, NEW w, IsFiniteSet(S), \A x \in S : w[x] = c
    PROVE  SumFunctionOnSet(w, S) = Cardinality(S) * c
<1> DEFINE G == {T \in SUBSET S : SumFunctionOnSet(w, T) = Cardinality(T) * c}
<1>1. IsWeight(w, S)
  BY DEF IsWeight
<1>2. {} \in G
  BY SumOfNone, FS_EmptySet
<1>3. ASSUME NEW T \in SUBSET S, NEW x \in S \ T, T \in G PROVE T \cup {x} \in G
  <2>1. SumFunctionOnSet(w, T \cup {x}) = c + SumFunctionOnSet(w, T)
    BY <1>1, SumExtends
  <2>2. Cardinality(T \cup {x}) = Cardinality(T) + 1 /\ Cardinality(T) \in Nat
    BY FS_Subset, FS_AddElement, FS_CardinalityType
  <2>3. SumFunctionOnSet(w, T) = Cardinality(T) * c
    BY <1>3
  <2>4. \A n \in Nat : (n + 1) * c = c + n * c
    OBVIOUS
  <2> QED
    BY <2>1, <2>2, <2>3, <2>4
<1> HIDE DEF G
<1>4. S \in G
  BY <1>2, <1>3, SubsetInduction
<1> QED
  BY <1>4 DEF G

\* A sum of weights that are not negative grows with the set.
LEMMA SumOfMore ==
    ASSUME NEW S, NEW w, IsWeight(w, S), \A x \in S : w[x] >= 0, NEW A \in SUBSET S
    PROVE  SumFunctionOnSet(w, A) <= SumFunctionOnSet(w, S) /\ SumFunctionOnSet(w, A) \in Nat
<1> DEFINE zero == [x \in S |-> 0]
<1>1. \A T \in SUBSET S : SumFunctionOnSet(w, T) \in Nat
  <2>1. ASSUME NEW T \in SUBSET S PROVE SumFunctionOnSet(w, T) \in Nat
    <3>1. IsWeight(w, T) /\ IsWeight(zero, T) /\ \A x \in T : zero[x] <= w[x] /\ zero[x] = 0
      BY FS_Subset DEF IsWeight
    <3>2. Cardinality(T) \in Nat
      BY <3>1, FS_CardinalityType DEF IsWeight
    <3> HIDE DEF zero
    <3>3. SumFunctionOnSet(zero, T) = Cardinality(T) * 0
      BY <3>1, SumOfConstant DEF IsWeight
    <3>4. SumFunctionOnSet(zero, T) = 0
      BY <3>2, <3>3
    <3>5. SumFunctionOnSet(zero, T) <= SumFunctionOnSet(w, T) /\ SumFunctionOnSet(w, T) \in Int
      BY <3>1, SumGrows, SumIsInt
    <3> QED
      BY <3>4, <3>5
  <2> QED
    BY <2>1
<1>2. SumFunctionOnSet(w, S) = SumFunctionOnSet(w, A) + SumFunctionOnSet(w, S \ A)
  BY SumOfParts
<1>3. SumFunctionOnSet(w, A) \in Nat /\ SumFunctionOnSet(w, S \ A) \in Nat
  BY <1>1
<1> QED
  BY <1>2, <1>3

\* The sum of differences is the difference of the sums.
LEMMA SumOfDifferences ==
    ASSUME NEW S, NEW v, IsWeight(v, S), NEW w, IsWeight(w, S), NEW d, \A x \in S : d[x] = v[x] - w[x]
    PROVE  SumFunctionOnSet(d, S) = SumFunctionOnSet(v, S) - SumFunctionOnSet(w, S) /\ IsWeight(d, S)
<1> DEFINE G == {T \in SUBSET S : SumFunctionOnSet(d, T) = SumFunctionOnSet(v, T) - SumFunctionOnSet(w, T)}
<1>1. IsWeight(d, S)
  BY DEF IsWeight
<1>2. {} \in G
  BY SumOfNone
<1>3. ASSUME NEW T \in SUBSET S, NEW x \in S \ T, T \in G PROVE T \cup {x} \in G
  <2>1. /\ SumFunctionOnSet(v, T \cup {x}) = v[x] + SumFunctionOnSet(v, T)
        /\ v[x] \in Int /\ SumFunctionOnSet(v, T) \in Int
    BY SumExtends
  <2>2. /\ SumFunctionOnSet(w, T \cup {x}) = w[x] + SumFunctionOnSet(w, T)
        /\ w[x] \in Int /\ SumFunctionOnSet(w, T) \in Int
    BY SumExtends
  <2>3. SumFunctionOnSet(d, T \cup {x}) = d[x] + SumFunctionOnSet(d, T)
    BY <1>1, SumExtends
  <2>4. SumFunctionOnSet(d, T) = SumFunctionOnSet(v, T) - SumFunctionOnSet(w, T) /\ d[x] = v[x] - w[x]
    BY <1>3
  <2>5. SumFunctionOnSet(d, T \cup {x}) = SumFunctionOnSet(v, T \cup {x}) - SumFunctionOnSet(w, T \cup {x})
    BY <2>1, <2>2, <2>3, <2>4
  <2> QED
    BY <2>5
<1> HIDE DEF G
<1>4. S \in G
  BY <1>2, <1>3, SubsetInduction DEF IsWeight
<1> QED
  BY <1>1, <1>4 DEF G

\* What is summed up in groups adds up to the sum over all.
Group(S, by, k) == {x \in S : by[x] = k}
LEMMA SumOfGroups ==
    ASSUME NEW S, NEW w, IsWeight(w, S), NEW by, NEW K, IsFiniteSet(K), \A x \in S : by[x] \in K,
           NEW g, \A k \in K : g[k] = SumFunctionOnSet(w, Group(S, by, k))
    PROVE  SumFunctionOnSet(g, K) = SumFunctionOnSet(w, S) /\ IsWeight(g, K)
<1> DEFINE Of(L) == {x \in S : by[x] \in L}
           G == {L \in SUBSET K : SumFunctionOnSet(g, L) = SumFunctionOnSet(w, Of(L))}
<1>1. IsWeight(g, K)
  <2>1. ASSUME NEW k \in K PROVE SumFunctionOnSet(w, Group(S, by, k)) \in Int
    <3>1. Group(S, by, k) \in SUBSET S
      BY DEF Group
    <3>2. IsWeight(w, Group(S, by, k))
      BY <3>1, FS_Subset DEF IsWeight
    <3> QED
      BY <3>2, SumIsInt
  <2> QED
    BY <2>1 DEF IsWeight
<1>2. {} \in G
  <2>1. Of({}) = {}
    OBVIOUS
  <2> QED
    BY <2>1, SumOfNone
<1>3. ASSUME NEW L \in SUBSET K, NEW k \in K \ L, L \in G PROVE L \cup {k} \in G
  <2> DEFINE One == Group(S, by, k)
  <2>1. SumFunctionOnSet(g, L \cup {k}) = g[k] + SumFunctionOnSet(g, L)
    BY <1>1, SumExtends
  <2>2. One \in SUBSET Of(L \cup {k}) /\ Of(L \cup {k}) \ One = Of(L) /\ Of(L \cup {k}) \in SUBSET S
    BY DEF Group
  <2> HIDE DEF Of
  <2>3. IsWeight(w, Of(L \cup {k}))
    BY <2>2, FS_Subset DEF IsWeight
  <2>4. SumFunctionOnSet(w, Of(L \cup {k})) = SumFunctionOnSet(w, One) + SumFunctionOnSet(w, Of(L))
    <3> HIDE DEF One
    <3>1. SumFunctionOnSet(w, Of(L \cup {k}))
            = SumFunctionOnSet(w, One) + SumFunctionOnSet(w, Of(L \cup {k}) \ One)
      BY <2>2, <2>3, SumOfParts
    <3> QED
      BY <2>2, <3>1
  <2>5. SumFunctionOnSet(g, L) = SumFunctionOnSet(w, Of(L)) /\ g[k] = SumFunctionOnSet(w, One)
    BY <1>3
  <2>6. SumFunctionOnSet(g, L \cup {k}) = SumFunctionOnSet(w, Of(L \cup {k}))
    BY <2>1, <2>4, <2>5
  <2> QED
    BY <2>6
<1> HIDE DEF G
<1>4. K \in G
  BY <1>2, <1>3, SubsetInduction
<1>5. Of(K) = S
  OBVIOUS
<1> QED
  BY <1>1, <1>4, <1>5 DEF G

(***************************************************************************)
(* Marking                                                                 *)
(***************************************************************************)

\* The questions with an answer, and of those the right and the wrong ones; the
\* strategy analysis misses the answers that were cleared.
Tried == {q \in PaperQuestions : ResultAttempted(q)}
Right == {q \in Tried : EvaluateAnswer(q, answers[q])}
Seen == {q \in PaperQuestions : StrategyAttempted(q)}
SeenWrong == {q \in Seen : ~EvaluateAnswer(q, answers[q])}
Part(s) == {q \in PaperQuestions : questions[q].subject = s}

\* Until an answer comes late, every row that is there says what the answers say; a
\* report that stands apart promises nothing.
RowsKept ==
    /\ result # NoRow => submitted
    /\ late \/ analysis # NoRow => result # NoRow
    /\ ~late =>
          /\ result # NoRow => /\ result = Marked(PaperQuestions)
                               /\ subjects = [s \in PaperSubjects |-> Marked(Part(s))]
          /\ analysis # NoRow /\ "analysis" \notin apart => analysis = PerformanceRow
          /\ strategy # NoRow /\ "strategy" \notin apart => result # NoRow /\ strategy = StrategyRow
          /\ timing # NoRow /\ "timing" \notin apart => submitted /\ timing = TimingRow
MarkingInv == MarkingTypeOK /\ RowsKept

-----------------------------------------------------------------------------
(* What the rows hold *)

\* The first of some numbers is one of them.
LEMMA MinIn == ASSUME NEW S \in SUBSET Nat, S # {} PROVE Min(S) \in S
<1>1. \E i \in S : \A k \in S : i <= k
  BY LeastOf
<1> QED
  BY <1>1 DEF Min

\* An answer that was cleared is wrong for everyone else.
LEMMA ClearedIsWrong ==
    ASSUME MarkingTypeOK, NEW q \in Cleared
    PROVE  q \in Tried \ Right
<1>1. q \in PaperQuestions /\ HasAnswer(answers[q]) /\ ~StrategyAttempted(q)
  BY DEF Cleared, AnalysisAttempted
<1>2. answers[q].option = NoOption /\ answers[q].number = NoNumber /\ answers[q].list \in {NoList, {}}
  BY <1>1 DEF HasAnswer, StrategyAttempted
<1>3. questions[q].correct # {} => Min(questions[q].correct) # NoOption
  <2>1. questions[q].correct \in SUBSET Nat
    BY <1>1, MarkingAssumption DEF MarkingTypeOK
  <2> QED
    BY <2>1, MinIn, MarkingAssumption
<1>4. ~EvaluateAnswer(q, answers[q])
  <2>1. CASE questions[q].code \in {"SCQ", "TF", "AR"}
    BY <1>2, <1>3, <2>1 DEF EvaluateAnswer
  <2>2. CASE questions[q].code = "MCQ"
    BY <1>2, <2>2 DEF EvaluateAnswer
  <2>3. CASE questions[q].code = "NUM"
    BY <1>2, <2>3 DEF EvaluateAnswer
  <2>4. CASE questions[q].code \notin {"SCQ", "TF", "AR", "MCQ", "NUM"}
    BY <2>4 DEF EvaluateAnswer
  <2> QED
    BY <2>1, <2>2, <2>3, <2>4
<1> QED
  BY <1>1, <1>4 DEF Tried, Right, ResultAttempted

\* What the strategy analysis counts is less by the answers that were cleared.
LEMMA SeenCounts ==
    ASSUME MarkingTypeOK
    PROVE  /\ Cardinality(Seen) = Cardinality(Right) + Cardinality(Tried \ Right) - Cardinality(Cleared)
           /\ Cardinality(SeenWrong) = Cardinality(Tried \ Right) - Cardinality(Cleared)
<1>1. /\ Cleared \subseteq Tried \ Right
      /\ Right \subseteq Tried /\ Tried \subseteq PaperQuestions
  BY ClearedIsWrong DEF Tried, Right
<1>2. Seen = Tried \ Cleared
  BY DEF Seen, Tried, Cleared, StrategyAttempted, ResultAttempted, AnalysisAttempted, HasAnswer
<1>3. SeenWrong = (Tried \ Right) \ Cleared
  BY <1>2 DEF SeenWrong, Right
<1>4. IsFiniteSet(PaperQuestions) /\ IsFiniteSet(Tried) /\ IsFiniteSet(Tried \ Right)
  BY <1>1, MarkingAssumption, FS_Subset
<1>5. /\ Cardinality(Tried \ Right) = Cardinality(Tried) - Cardinality(Tried \cap Right)
      /\ Cardinality(Tried \ Cleared) = Cardinality(Tried) - Cardinality(Tried \cap Cleared)
      /\ Cardinality((Tried \ Right) \ Cleared) = Cardinality(Tried \ Right) - Cardinality((Tried \ Right) \cap Cleared)
  BY <1>4, FS_Difference
<1>6. Tried \cap Right = Right /\ Tried \cap Cleared = Cleared /\ (Tried \ Right) \cap Cleared = Cleared
  BY <1>1
<1>7. Cardinality(Tried) \in Nat /\ Cardinality(Right) \in Nat /\ Cardinality(Cleared) \in Nat
  BY <1>1, <1>4, FS_Subset, FS_CardinalityType
<1>8. /\ Cardinality(Tried \ Right) = Cardinality(Tried) - Cardinality(Right)
      /\ Cardinality(Seen) = Cardinality(Tried) - Cardinality(Cleared)
      /\ Cardinality(SeenWrong) = Cardinality(Tried \ Right) - Cardinality(Cleared)
  BY <1>2, <1>3, <1>5, <1>6
<1> QED
  BY <1>7, <1>8

\* The weights that are summed up are integers, the times are not negative.
LEMMA WeightsOfQuestions ==
    ASSUME MarkingTypeOK
    PROVE  /\ IsWeight(MarksOf, PaperQuestions) /\ IsWeight(PenaltyOf, PaperQuestions)
           /\ IsWeight(StrategyPenalty, PaperQuestions)
           /\ IsWeight(TimeOn, PaperQuestions) /\ IsWeight(Beyond, PaperQuestions)
           /\ \A q \in PaperQuestions : /\ StrategyPenalty[q] >= 0
                                        /\ TimeOn[q] >= 0 /\ Beyond[q] >= 0
<1>1. \A q \in PaperQuestions :
         /\ questions[q].marks \in Int \cup {Default} /\ questions[q].penalty \in Int \cup {Default}
         /\ questions[q].spent \in Nat
  <2>1. \A q \in PaperQuestions : questions[q] \in QuestionRows
    BY DEF MarkingTypeOK
  <2> QED
    BY <2>1, MarkingAssumption
<1>2. \A q \in PaperQuestions : MarksOf[q] \in Int /\ PenaltyOf[q] \in Int
  BY <1>1, MarkingAssumption DEF MarksOf, PenaltyOf
<1>3. \A q \in PaperQuestions : StrategyPenalty[q] \in Int /\ StrategyPenalty[q] >= 0
  BY <1>2 DEF StrategyPenalty, AtLeastZero
<1>4. \A q \in PaperQuestions : TimeOn[q] \in Int /\ TimeOn[q] >= 0
  BY <1>1, MarkingAssumption DEF TimeOn
<1>5. \A q \in PaperQuestions : Beyond[q] \in Int /\ Beyond[q] >= 0
  BY <1>1, MarkingAssumption DEF Beyond, AtLeastZero
<1> QED
  BY <1>2, <1>3, <1>4, <1>5, MarkingAssumption DEF IsWeight

LEMMA TotalOfPart ==
    ASSUME NEW S, NEW w, IsWeight(w, S), NEW A \in SUBSET S
    PROVE  Total(A, w) \in Int /\ IsWeight(w, A)
BY FS_Subset, SumIsInt DEF IsWeight, Total

LEMMA TotalOfTimes ==
    ASSUME NEW S, NEW w, IsWeight(w, S), NEW A \in SUBSET S, \A x \in S : w[x] >= 0
    PROVE  Total(A, w) \in Nat
BY SumOfMore DEF Total

LEMMA CountOfPart ==
    ASSUME NEW A \in SUBSET PaperQuestions
    PROVE  IsFiniteSet(A) /\ Cardinality(A) \in Nat
BY MarkingAssumption, FS_Subset, FS_CardinalityType

\* What is marked in some questions.
LEMMA MarkedIs ==
    ASSUME MarkingTypeOK, NEW Qs \in SUBSET PaperQuestions
    PROVE  /\ Marked(Qs) = [correct |-> Cardinality(Right \cap Qs),
                            wrong |-> Cardinality((Tried \ Right) \cap Qs),
                            unattempted |-> Cardinality(Qs \ Tried),
                            score |-> AtLeastZero(Total(Right \cap Qs, MarksOf)
                                                  - Total((Tried \ Right) \cap Qs, PenaltyOf)),
                            max |-> Total(Qs, MarksOf)]
           /\ Marked(Qs) \in MarkedRows
<1> DEFINE tried == {q \in Qs : ResultAttempted(q)}
           right == {q \in tried : EvaluateAnswer(q, answers[q])}
<1>1. right = Right \cap Qs /\ tried \ right = (Tried \ Right) \cap Qs /\ Qs \ tried = Qs \ Tried
  BY DEF Tried, Right
<1>2. Marked(Qs) = [correct |-> Cardinality(right), wrong |-> Cardinality(tried \ right),
                    unattempted |-> Cardinality(Qs \ tried),
                    score |-> AtLeastZero(Total(right, MarksOf) - Total(tried \ right, PenaltyOf)),
                    max |-> Total(Qs, MarksOf)]
  BY DEF Marked
<1> HIDE DEF tried, right
<1>3. /\ Right \cap Qs \subseteq PaperQuestions /\ (Tried \ Right) \cap Qs \subseteq PaperQuestions
      /\ Qs \ Tried \subseteq PaperQuestions
  OBVIOUS
<1>4. /\ Cardinality(Right \cap Qs) \in Nat /\ Cardinality((Tried \ Right) \cap Qs) \in Nat
      /\ Cardinality(Qs \ Tried) \in Nat
  BY <1>3, CountOfPart
<1>5. /\ Total(Right \cap Qs, MarksOf) \in Int /\ Total((Tried \ Right) \cap Qs, PenaltyOf) \in Int
      /\ Total(Qs, MarksOf) \in Int
  BY <1>3, WeightsOfQuestions, TotalOfPart
<1>6. AtLeastZero(Total(Right \cap Qs, MarksOf) - Total((Tried \ Right) \cap Qs, PenaltyOf)) \in Nat
  BY <1>5 DEF AtLeastZero
<1> QED
  BY <1>1, <1>2, <1>4, <1>5, <1>6 DEF MarkedRows

\* The result.
LEMMA ResultIs ==
    ASSUME MarkingTypeOK
    PROVE  Marked(PaperQuestions) =
             [correct |-> Cardinality(Right), wrong |-> Cardinality(Tried \ Right),
              unattempted |-> Cardinality(PaperQuestions \ Tried),
              score |-> AtLeastZero(Total(Right, MarksOf) - Total(Tried \ Right, PenaltyOf)),
              max |-> Total(PaperQuestions, MarksOf)]
<1>1. Right \cap PaperQuestions = Right /\ (Tried \ Right) \cap PaperQuestions = Tried \ Right
  BY DEF Tried, Right
<1> QED
  BY <1>1, MarkedIs

\* The analyses.
LEMMA PerformanceIs ==
    PerformanceRow =
        [correct |-> Cardinality(Right), wrong |-> Cardinality(Tried \ Right),
         unattempted |-> Cardinality(PaperQuestions \ Tried),
         lost |-> Total(Tried \ Right, PenaltyOf),
         potential |-> result.score + Total(Tried \ Right, PenaltyOf),
         wasted |-> Total(PaperQuestions \ Right, TimeOn)]
BY DEF PerformanceRow, Tried, Right, AnalysisAttempted, ResultAttempted, AnalysisCorrect

LEMMA StrategyIs ==
    StrategyRow =
        [attempted |-> Cardinality(Seen), wrong |-> Cardinality(SeenWrong),
         lost |-> Total(SeenWrong, StrategyPenalty),
         obtained |-> IF result = NoRow THEN 0 ELSE result.score,
         projected |-> Min({IF result = NoRow THEN Total(PaperQuestions, MarksOf) ELSE result.max,
                            (IF result = NoRow THEN 0 ELSE result.score)
                                + Total(SeenWrong \cap Risky, StrategyPenalty)})]
BY DEF StrategyRow, Seen, SeenWrong, StrategyCorrect

LEMMA TimingIs ==
    TimingRow =
        [correct |-> Cardinality(Right), wrong |-> Cardinality(Tried \ Right),
         unattempted |-> Cardinality(PaperQuestions \ Tried), wasted |-> Total(Tried \ Right, Beyond)]
<1>1. TimingRow =
        [correct |-> Cardinality(Tried \ {q \in Tried : ~EvaluateAnswer(q, answers[q])}),
         wrong |-> Cardinality({q \in Tried : ~EvaluateAnswer(q, answers[q])}),
         unattempted |-> Cardinality(PaperQuestions \ Tried),
         wasted |-> Total({q \in Tried : ~EvaluateAnswer(q, answers[q])}, Beyond)]
  BY DEF TimingRow, Tried, TimingAttempted, ResultAttempted, TimingCorrect
<1>2. /\ {q \in Tried : ~EvaluateAnswer(q, answers[q])} = Tried \ Right
      /\ Tried \ (Tried \ Right) = Right
  BY DEF Right
<1> QED
  BY <1>1, <1>2

\* The smaller of two numbers.
LEMMA MinOfTwo ==
    ASSUME NEW a \in Int, NEW b \in Int
    PROVE  /\ Min({a, b}) \in Int /\ Min({a, b}) \in {a, b}
           /\ Min({a, b}) <= a /\ Min({a, b}) <= b
<1>1. \E i \in {a, b} : \A k \in {a, b} : i <= k
  OBVIOUS
<1>2. Min({a, b}) \in {a, b} /\ \A k \in {a, b} : Min({a, b}) <= k
  BY <1>1 DEF Min
<1> QED
  BY <1>2

-----------------------------------------------------------------------------
(* The subjects add up *)

LEMMA SubjectsAreFinite == IsFiniteSet(PaperSubjects)
<1> DEFINE of == [q \in PaperQuestions |-> questions[q].subject]
<1>1. of \in Surjection(PaperQuestions, PaperSubjects)
  BY DEF PaperSubjects, Surjection
<1> QED
  BY <1>1, MarkingAssumption, FS_Surjection

\* A count over the groups of some questions is the count over the questions.
LEMMA CountOfGroups ==
    ASSUME NEW S, IsFiniteSet(S), NEW K, IsFiniteSet(K), NEW of, \A x \in S : of[x] \in K,
           NEW g, \A k \in K : g[k] = Cardinality(Group(S, of, k))
    PROVE  SumFunctionOnSet(g, K) = Cardinality(S)
<1> DEFINE one == [x \in S |-> 1]
<1>1. ASSUME NEW A \in SUBSET S PROVE SumFunctionOnSet(one, A) = Cardinality(A)
  <2>1. IsFiniteSet(A) /\ Cardinality(A) \in Nat /\ \A x \in A : one[x] = 1
    BY FS_Subset, FS_CardinalityType
  <2>2. SumFunctionOnSet(one, A) = Cardinality(A) * 1
    <3> HIDE DEF one
    <3> QED
      BY <2>1, SumOfConstant
  <2> QED
    BY <2>1, <2>2
<1>2. IsWeight(one, S)
  BY DEF IsWeight
<1> HIDE DEF one
<1>3. \A k \in K : g[k] = SumFunctionOnSet(one, Group(S, of, k))
  <2>1. \A k \in K : Group(S, of, k) \in SUBSET S
    BY DEF Group
  <2> QED
    BY <1>1, <2>1
<1>4. \A x \in S : of[x] \in K
  OBVIOUS
<1>5. SumFunctionOnSet(g, K) = SumFunctionOnSet(one, S)
  BY <1>2, <1>3, <1>4, SumOfGroups
<1> QED
  BY <1>1, <1>5

LEMMA RowsAddUp ==
    ASSUME MarkingInv, ~late
    PROVE  SubjectsAddUp
<1> SUFFICES ASSUME result # NoRow PROVE SubjectsAddUp
  BY DEF SubjectsAddUp
<1> DEFINE of == [q \in PaperQuestions |-> questions[q].subject]
           Wrong == Tried \ Right
           Untried == PaperQuestions \ Tried
<1>1. /\ \A q \in PaperQuestions : of[q] \in PaperSubjects
      /\ IsFiniteSet(PaperSubjects)
  BY SubjectsAreFinite DEF PaperSubjects
<1>2. /\ Right \subseteq PaperQuestions /\ Wrong \subseteq PaperQuestions
      /\ Untried \subseteq PaperQuestions
      /\ IsFiniteSet(Right) /\ IsFiniteSet(Wrong) /\ IsFiniteSet(Untried)
  <2>1. Right \subseteq PaperQuestions /\ Wrong \subseteq PaperQuestions
    BY DEF Right, Tried
  <2> QED
    BY <2>1, CountOfPart DEF Untried
<1>3. ASSUME NEW s \in PaperSubjects
      PROVE  subjects[s] = [correct |-> Cardinality(Group(Right, of, s)),
                            wrong |-> Cardinality(Group(Wrong, of, s)),
                            unattempted |-> Cardinality(Group(Untried, of, s)),
                            score |-> AtLeastZero(Total(Group(Right, of, s), MarksOf)
                                                  - Total(Group(Wrong, of, s), PenaltyOf)),
                            max |-> Total(Group(PaperQuestions, of, s), MarksOf)]
  <2>1. subjects[s] = Marked(Part(s))
    BY <1>3 DEF MarkingInv, RowsKept
  <2>2. /\ Right \cap Part(s) = Group(Right, of, s)
        /\ Wrong \cap Part(s) = Group(Wrong, of, s)
        /\ Part(s) \ Tried = Group(Untried, of, s)
        /\ Part(s) = Group(PaperQuestions, of, s) /\ Part(s) \in SUBSET PaperQuestions
    BY <1>2 DEF Part, Group
  <2> HIDE DEF of, Wrong, Untried
  <2>3. Marked(Part(s)) = [correct |-> Cardinality(Right \cap Part(s)),
                           wrong |-> Cardinality(Wrong \cap Part(s)),
                           unattempted |-> Cardinality(Part(s) \ Tried),
                           score |-> AtLeastZero(Total(Right \cap Part(s), MarksOf)
                                                 - Total(Wrong \cap Part(s), PenaltyOf)),
                           max |-> Total(Part(s), MarksOf)]
    BY <2>2, MarkedIs DEF MarkingInv, Wrong, Untried
  <2> QED
    BY <2>1, <2>2, <2>3
<1>4. result = [correct |-> Cardinality(Right), wrong |-> Cardinality(Wrong),
                unattempted |-> Cardinality(Untried),
                score |-> AtLeastZero(Total(Right, MarksOf) - Total(Wrong, PenaltyOf)),
                max |-> Total(PaperQuestions, MarksOf)]
  BY ResultIs DEF MarkingInv, RowsKept
<1>5. /\ IsWeight(MarksOf, PaperQuestions) /\ IsWeight(MarksOf, Right) /\ IsWeight(PenaltyOf, Wrong)
  BY <1>2, WeightsOfQuestions, TotalOfPart DEF MarkingInv
<1> HIDE DEF of, Wrong, Untried
<1>6. /\ \A q \in Right : of[q] \in PaperSubjects
      /\ \A q \in Wrong : of[q] \in PaperSubjects
      /\ \A q \in Untried : of[q] \in PaperSubjects
  BY <1>1, <1>2
<1> DEFINE correct == [s \in PaperSubjects |-> subjects[s]["correct"]]
           wrong == [s \in PaperSubjects |-> subjects[s]["wrong"]]
           unattempted == [s \in PaperSubjects |-> subjects[s]["unattempted"]]
           max == [s \in PaperSubjects |-> subjects[s]["max"]]
           score == [s \in PaperSubjects |-> subjects[s]["score"]]
<1>7. /\ \A s \in PaperSubjects : correct[s] = Cardinality(Group(Right, of, s))
      /\ \A s \in PaperSubjects : wrong[s] = Cardinality(Group(Wrong, of, s))
      /\ \A s \in PaperSubjects : unattempted[s] = Cardinality(Group(Untried, of, s))
      /\ \A s \in PaperSubjects : max[s] = SumFunctionOnSet(MarksOf, Group(PaperQuestions, of, s))
      /\ \A s \in PaperSubjects :
             /\ score[s] = subjects[s].score
             /\ subjects[s].score = AtLeastZero(Total(Group(Right, of, s), MarksOf)
                                                - Total(Group(Wrong, of, s), PenaltyOf))
  <2>1. ASSUME NEW s \in PaperSubjects
        PROVE  /\ subjects[s]["correct"] = Cardinality(Group(Right, of, s))
               /\ subjects[s]["wrong"] = Cardinality(Group(Wrong, of, s))
               /\ subjects[s]["unattempted"] = Cardinality(Group(Untried, of, s))
               /\ subjects[s]["max"] = SumFunctionOnSet(MarksOf, Group(PaperQuestions, of, s))
               /\ subjects[s]["score"] = AtLeastZero(Total(Group(Right, of, s), MarksOf)
                                                     - Total(Group(Wrong, of, s), PenaltyOf))
    <3>1. subjects[s] = [correct |-> Cardinality(Group(Right, of, s)),
                         wrong |-> Cardinality(Group(Wrong, of, s)),
                         unattempted |-> Cardinality(Group(Untried, of, s)),
                         score |-> AtLeastZero(Total(Group(Right, of, s), MarksOf)
                                               - Total(Group(Wrong, of, s), PenaltyOf)),
                         max |-> Total(Group(PaperQuestions, of, s), MarksOf)]
      BY <1>3
    <3> QED
      BY <3>1 DEF Total
  <2> QED
    BY <2>1
<1> HIDE DEF correct, wrong, unattempted, max, score
<1>8. /\ SumFunctionOnSet(correct, PaperSubjects) = result.correct
      /\ SumFunctionOnSet(wrong, PaperSubjects) = result.wrong
      /\ SumFunctionOnSet(unattempted, PaperSubjects) = result.unattempted
  <2>1. SumFunctionOnSet(correct, PaperSubjects) = Cardinality(Right)
    BY <1>1, <1>2, <1>6, <1>7, CountOfGroups
  <2>2. SumFunctionOnSet(wrong, PaperSubjects) = Cardinality(Wrong)
    BY <1>1, <1>2, <1>6, <1>7, CountOfGroups
  <2>3. SumFunctionOnSet(unattempted, PaperSubjects) = Cardinality(Untried)
    BY <1>1, <1>2, <1>6, <1>7, CountOfGroups
  <2> QED
    BY <1>4, <2>1, <2>2, <2>3 DEF Wrong, Untried
<1>9. SumFunctionOnSet(max, PaperSubjects) = result.max
  <2>1. SumFunctionOnSet(max, PaperSubjects) = SumFunctionOnSet(MarksOf, PaperQuestions)
    BY <1>1, <1>5, <1>7, SumOfGroups
  <2> QED
    BY <1>4, <2>1 DEF Total
<1>10. /\ SumFunctionOnSet(score, PaperSubjects) >= result.score
       /\ (\A s \in PaperSubjects : subjects[s].score > 0) =>
            SumFunctionOnSet(score, PaperSubjects) = result.score
  <2> DEFINE gained == [s \in PaperSubjects |-> Total(Group(Right, of, s), MarksOf)]
             missed == [s \in PaperSubjects |-> Total(Group(Wrong, of, s), PenaltyOf)]
             net == [s \in PaperSubjects |-> gained[s] - missed[s]]
             n == Total(Right, MarksOf) - Total(Wrong, PenaltyOf)
  <2>1. /\ \A s \in PaperSubjects : gained[s] = SumFunctionOnSet(MarksOf, Group(Right, of, s))
        /\ \A s \in PaperSubjects : missed[s] = SumFunctionOnSet(PenaltyOf, Group(Wrong, of, s))
        /\ \A s \in PaperSubjects : net[s] = gained[s] - missed[s]
    BY DEF Total
  <2>2. \A s \in PaperSubjects : score[s] = AtLeastZero(net[s]) /\ subjects[s].score = AtLeastZero(net[s])
    BY <1>7
  <2> HIDE DEF gained, missed, net
  <2>3. /\ SumFunctionOnSet(gained, PaperSubjects) = SumFunctionOnSet(MarksOf, Right) /\ IsWeight(gained, PaperSubjects)
        /\ SumFunctionOnSet(missed, PaperSubjects) = SumFunctionOnSet(PenaltyOf, Wrong) /\ IsWeight(missed, PaperSubjects)
    <3>1. SumFunctionOnSet(gained, PaperSubjects) = SumFunctionOnSet(MarksOf, Right) /\ IsWeight(gained, PaperSubjects)
      BY <1>1, <1>5, <1>6, <2>1, SumOfGroups
    <3>2. SumFunctionOnSet(missed, PaperSubjects) = SumFunctionOnSet(PenaltyOf, Wrong) /\ IsWeight(missed, PaperSubjects)
      BY <1>1, <1>5, <1>6, <2>1, SumOfGroups
    <3> QED
      BY <3>1, <3>2
  <2>4. SumFunctionOnSet(net, PaperSubjects) = n /\ IsWeight(net, PaperSubjects)
    <3>1. /\ SumFunctionOnSet(net, PaperSubjects) = SumFunctionOnSet(gained, PaperSubjects) - SumFunctionOnSet(missed, PaperSubjects)
          /\ IsWeight(net, PaperSubjects)
      BY <2>1, <2>3, SumOfDifferences
    <3> QED
      BY <2>3, <3>1 DEF Total
  <2> HIDE DEF n
  <2>5. /\ \A s \in PaperSubjects : /\ score[s] \in Int /\ score[s] >= 0
                                    /\ net[s] <= score[s]
                                    /\ subjects[s].score > 0 => net[s] = score[s]
        /\ IsWeight(score, PaperSubjects)
    BY <1>1, <2>2, <2>4 DEF IsWeight, AtLeastZero
  <2>6. /\ SumFunctionOnSet(score, PaperSubjects) \in Nat
        /\ n <= SumFunctionOnSet(score, PaperSubjects) /\ n \in Int
    BY <2>4, <2>5, SumGrows, SumOfMore, SumIsInt
  <2>7. (\A s \in PaperSubjects : subjects[s].score > 0) => SumFunctionOnSet(score, PaperSubjects) = n
    BY <2>4, <2>5, SumSame
  <2>8. result.score = AtLeastZero(n)
    BY <1>4 DEF n, Wrong
  <2> QED
    BY <2>6, <2>7, <2>8 DEF AtLeastZero
<1> QED
  <2>1. /\ Total(PaperSubjects, correct) = result["correct"]
        /\ Total(PaperSubjects, wrong) = result["wrong"]
        /\ Total(PaperSubjects, unattempted) = result["unattempted"]
        /\ Total(PaperSubjects, max) = result["max"]
        /\ Total(PaperSubjects, score) >= result.score
        /\ (\A s \in PaperSubjects : subjects[s].score > 0) => Total(PaperSubjects, score) = result.score
    <3>1. /\ Total(PaperSubjects, correct) = result["correct"]
          /\ Total(PaperSubjects, wrong) = result["wrong"]
          /\ Total(PaperSubjects, unattempted) = result["unattempted"]
          /\ Total(PaperSubjects, max) = result["max"]
      BY <1>8, <1>9 DEF Total
    <3>2. /\ Total(PaperSubjects, score) >= result.score
          /\ (\A s \in PaperSubjects : subjects[s].score > 0) => Total(PaperSubjects, score) = result.score
      BY <1>10 DEF Total
    <3> QED
      BY <3>1, <3>2
  <2>2. \A f \in {"correct", "wrong", "unattempted", "max"} :
            Total(PaperSubjects, [s \in PaperSubjects |-> subjects[s][f]]) = result[f]
    BY <2>1 DEF correct, wrong, unattempted, max
  <2> QED
    BY <2>1, <2>2 DEF SubjectsAddUp, score

-----------------------------------------------------------------------------
(* The losses are accounted for *)

LEMMA RowsAccount ==
    ASSUME MarkingInv, ~late
    PROVE  LossesAccounted
<1> SUFFICES ASSUME analysis # NoRow, "analysis" \notin apart PROVE LossesAccounted
  BY DEF LossesAccounted
<1> DEFINE Wrong == Tried \ Right
           gained == Total(Right, MarksOf)
           missed == Total(Wrong, PenaltyOf)
           attainable == Total(PaperQuestions, MarksOf)
<1>1. /\ Right \subseteq PaperQuestions /\ Wrong \subseteq PaperQuestions \ Right
      /\ Right = {q \in PaperQuestions : ResultAttempted(q) /\ EvaluateAnswer(q, answers[q])}
  BY DEF Right, Tried
<1>2. /\ gained \in Int /\ missed \in Int /\ attainable \in Int
      /\ IsWeight(PenaltyOf, Wrong) /\ Cardinality(Wrong) \in Nat /\ IsFiniteSet(Wrong)
  BY <1>1, WeightsOfQuestions, TotalOfPart, CountOfPart DEF MarkingInv
<1>3. /\ result # NoRow /\ submitted
      /\ result.score = AtLeastZero(gained - missed) /\ result.max = attainable
      /\ result.wrong = Cardinality(Wrong)
  BY ResultIs DEF MarkingInv, RowsKept
<1>4. /\ analysis.lost = missed /\ analysis.potential = result.score + missed
      /\ analysis.wasted = Total(PaperQuestions \ Right, TimeOn)
  BY PerformanceIs DEF MarkingInv, RowsKept
<1> HIDE DEF Wrong, gained, missed, attainable
<1>5. /\ result.score \in Nat /\ analysis.potential \in Int
      /\ analysis.potential >= gained /\ (result.score > 0 => analysis.potential = gained)
  BY <1>2, <1>3, <1>4 DEF AtLeastZero
<1>6. (\A q \in PaperQuestions : questions[q].penalty = Default) => RankedLoss = analysis.lost
  <2> SUFFICES ASSUME \A q \in PaperQuestions : questions[q].penalty = Default
               PROVE  RankedLoss = analysis.lost
    OBVIOUS
  <2>1. \A q \in Wrong : PenaltyOf[q] = DefaultPenalty
    BY <1>1 DEF PenaltyOf
  <2>2. SumFunctionOnSet(PenaltyOf, Wrong) = Cardinality(Wrong) * DefaultPenalty
    BY <1>2, <2>1, SumOfConstant, MarkingAssumption
  <2> QED
    BY <1>3, <1>4, <2>2 DEF RankedLoss, Total, missed
<1>7. ASSUME strategy # NoRow, "strategy" \notin apart
      PROVE  /\ strategy.obtained = result.score
             /\ NoneNegative =>
                   /\ strategy.lost <= analysis.lost
                   /\ strategy.projected \in result.score .. Min({result.max, analysis.potential})
  <2> DEFINE avoidable == Total(SeenWrong \cap Risky, StrategyPenalty)
  <2>1. /\ strategy.obtained = result.score /\ strategy.lost = Total(SeenWrong, StrategyPenalty)
        /\ strategy.projected = Min({attainable, result.score + avoidable})
    <3>1. strategy = StrategyRow
      BY <1>7 DEF MarkingInv, RowsKept
    <3> QED
      BY <1>3, <3>1, StrategyIs
  <2> SUFFICES ASSUME NoneNegative
               PROVE  /\ strategy.lost <= analysis.lost
                      /\ strategy.projected \in result.score .. Min({result.max, analysis.potential})
    BY <2>1
  <2>2. SeenWrong \subseteq Wrong /\ SeenWrong \cap Risky \subseteq Wrong
    BY DEF SeenWrong, Seen, Wrong, Tried, Right, StrategyAttempted, ResultAttempted, HasAnswer
  <2>3. \A q \in Wrong : PenaltyOf[q] = StrategyPenalty[q] /\ PenaltyOf[q] >= 0
    BY <1>1, <1>2 DEF NoneNegative, StrategyPenalty, AtLeastZero, IsWeight
  <2>4. /\ SumFunctionOnSet(PenaltyOf, Wrong) = SumFunctionOnSet(StrategyPenalty, Wrong)
        /\ IsWeight(StrategyPenalty, Wrong) /\ \A q \in Wrong : StrategyPenalty[q] >= 0
    BY <1>2, <2>3, SumSame
  <2>5. /\ SumFunctionOnSet(StrategyPenalty, SeenWrong) <= missed
        /\ SumFunctionOnSet(StrategyPenalty, SeenWrong \cap Risky) <= missed
        /\ SumFunctionOnSet(StrategyPenalty, SeenWrong \cap Risky) \in Nat
        /\ SumFunctionOnSet(StrategyPenalty, {}) <= missed
    <3>1. missed = SumFunctionOnSet(StrategyPenalty, Wrong)
      BY <2>4 DEF Total, missed
    <3> QED
      BY <2>2, <2>4, <3>1, SumOfMore
  <2>6. 0 <= missed /\ avoidable <= missed /\ avoidable \in Nat
    BY <2>5, SumOfNone DEF Total
  <2>7. gained <= attainable /\ 0 <= attainable
    <3>1. IsWeight(MarksOf, PaperQuestions) /\ \A q \in PaperQuestions : MarksOf[q] >= 0
      BY WeightsOfQuestions DEF MarkingInv, NoneNegative
    <3>2. /\ SumFunctionOnSet(MarksOf, Right) <= SumFunctionOnSet(MarksOf, PaperQuestions)
          /\ SumFunctionOnSet(MarksOf, PaperQuestions) \in Nat
      BY <1>1, <3>1, SumOfMore
    <3> QED
      BY <3>2 DEF Total, gained, attainable
  <2> HIDE DEF avoidable
  <2>8. /\ Min({attainable, result.score + avoidable}) \in Int
        /\ Min({attainable, result.score + avoidable}) \in {attainable, result.score + avoidable}
        /\ Min({attainable, result.score + avoidable}) <= attainable
        /\ Min({attainable, result.score + avoidable}) <= result.score + avoidable
    <3>1. result.score + avoidable \in Int
      BY <1>5, <2>6
    <3> QED
      BY <1>2, <3>1, MinOfTwo
  <2>9. Min({attainable, analysis.potential}) \in {attainable, analysis.potential}
    BY <1>2, <1>5, MinOfTwo
  <2>10. result.score <= attainable
    BY <1>2, <1>3, <2>6, <2>7 DEF AtLeastZero
  <2>11. strategy.projected \in result.score .. Min({attainable, analysis.potential})
    BY <1>2, <1>4, <1>5, <2>1, <2>6, <2>8, <2>9, <2>10
  <2>12. strategy.lost <= analysis.lost
    BY <1>4, <2>1, <2>5 DEF Total
  <2> QED
    BY <1>3, <2>11, <2>12
<1>8. ASSUME timing # NoRow, "timing" \notin apart PROVE timing.wasted <= analysis.wasted
  <2>1. timing.wasted = Total(Wrong, Beyond)
    <3>1. timing = TimingRow
      BY <1>8 DEF MarkingInv, RowsKept
    <3> QED
      BY <3>1, TimingIs DEF Wrong
  <2>2. /\ IsWeight(Beyond, Wrong) /\ IsWeight(TimeOn, Wrong) /\ IsWeight(TimeOn, PaperQuestions \ Right)
        /\ \A q \in PaperQuestions \ Right : TimeOn[q] >= 0
    <3>1. Wrong \subseteq PaperQuestions
      BY <1>1
    <3> QED
      BY <3>1, WeightsOfQuestions, TotalOfPart DEF MarkingInv
  <2>3. \A q \in Wrong : Beyond[q] <= TimeOn[q]
    <3>1. ASSUME NEW q \in Wrong PROVE Beyond[q] <= TimeOn[q]
      <4>1. q \in PaperQuestions /\ questions[q] \in QuestionRows
        BY <1>1 DEF MarkingInv, MarkingTypeOK
      <4>2. questions[q].spent \in Nat /\ Benchmark \in Nat /\ AverageTime \in Nat
        BY <4>1, MarkingAssumption
      <4> QED
        BY <4>1, <4>2 DEF Beyond, TimeOn, AtLeastZero
    <3> QED
      BY <3>1
  <2>4. SumFunctionOnSet(Beyond, Wrong) <= SumFunctionOnSet(TimeOn, Wrong)
    BY <2>2, <2>3, SumGrows
  <2>5. SumFunctionOnSet(TimeOn, Wrong) <= SumFunctionOnSet(TimeOn, PaperQuestions \ Right)
    BY <1>1, <2>2, SumOfMore
  <2>6. /\ SumFunctionOnSet(Beyond, Wrong) \in Int /\ SumFunctionOnSet(TimeOn, Wrong) \in Int
        /\ SumFunctionOnSet(TimeOn, PaperQuestions \ Right) \in Int
    BY <2>2, SumIsInt
  <2> QED
    BY <1>4, <2>1, <2>4, <2>5, <2>6 DEF Total
<1>9. {q \in PaperQuestions : ResultAttempted(q) /\ EvaluateAnswer(q, answers[q])} = Right
  BY <1>1
<1>10. Total(Right, MarksOf) = gained
  BY DEF gained
<1> QED
  BY <1>5, <1>6, <1>7, <1>8, <1>9, <1>10 DEF LossesAccounted

-----------------------------------------------------------------------------
(* The outcomes agree *)

LEMMA RowsAgree ==
    ASSUME MarkingInv, ~late
    PROVE  SameOutcomes
<1> SUFFICES ASSUME result # NoRow
             PROVE  /\ analysis # NoRow /\ "analysis" \notin apart => Outcomes(analysis) = Outcomes(result)
                    /\ timing # NoRow /\ "timing" \notin apart => Outcomes(timing) = Outcomes(result)
                    /\ strategy # NoRow /\ "strategy" \notin apart =>
                          LET missed == result.wrong - strategy.wrong IN
                          /\ missed >= 0
                          /\ strategy.attempted = result.correct + result.wrong - missed
                          /\ ~late => missed = Cardinality(Cleared)
  BY DEF SameOutcomes
<1>1. Outcomes(result) = <<Cardinality(Right), Cardinality(Tried \ Right), Cardinality(PaperQuestions \ Tried)>>
  BY ResultIs DEF MarkingInv, RowsKept, Outcomes
<1>2. analysis # NoRow /\ "analysis" \notin apart => Outcomes(analysis) = Outcomes(result)
  BY <1>1, PerformanceIs DEF MarkingInv, RowsKept, Outcomes
<1>3. timing # NoRow /\ "timing" \notin apart => Outcomes(timing) = Outcomes(result)
  BY <1>1, TimingIs DEF MarkingInv, RowsKept, Outcomes
<1>4. strategy # NoRow /\ "strategy" \notin apart =>
          strategy.attempted = Cardinality(Seen) /\ strategy.wrong = Cardinality(SeenWrong)
  BY StrategyIs DEF MarkingInv, RowsKept
<1>5. result.correct = Cardinality(Right) /\ result.wrong = Cardinality(Tried \ Right)
  BY ResultIs DEF MarkingInv, RowsKept
<1>6. Cardinality(Cleared) \in Nat /\ Cardinality(Right) \in Nat /\ Cardinality(Tried \ Right) \in Nat
  <2>1. Cleared \in SUBSET PaperQuestions /\ Right \in SUBSET PaperQuestions
        /\ Tried \ Right \in SUBSET PaperQuestions
    BY DEF Cleared, Right, Tried
  <2> QED
    BY <2>1, CountOfPart
<1> QED
  BY <1>2, <1>3, <1>4, <1>5, <1>6, SeenCounts DEF MarkingInv

-----------------------------------------------------------------------------
(* The steps *)

\* Steps that change no answer keep what the rows are made from,
Answered == UNCHANGED <<questions, answers>>
LEMMA SameSets ==
    ASSUME Answered
    PROVE  /\ Tried' = Tried /\ Right' = Right /\ Seen' = Seen /\ SeenWrong' = SeenWrong
           /\ MarksOf' = MarksOf /\ PenaltyOf' = PenaltyOf /\ StrategyPenalty' = StrategyPenalty
           /\ Risky' = Risky /\ TimeOn' = TimeOn /\ Beyond' = Beyond
           /\ PaperSubjects' = PaperSubjects
<1>1. questions' = questions /\ answers' = answers
  BY DEF Answered
<1>2. \A q \in PaperQuestions : EvaluateAnswer(q, answers[q])' <=> EvaluateAnswer(q, answers[q])
  BY <1>1 DEF EvaluateAnswer
<1>3. Tried' = Tried /\ Seen' = Seen
  BY <1>1 DEF Tried, ResultAttempted, HasAnswer, Seen, StrategyAttempted
<1>4. MarksOf' = MarksOf /\ PenaltyOf' = PenaltyOf
  BY <1>1 DEF MarksOf, PenaltyOf
<1>5. StrategyPenalty' = StrategyPenalty
  BY <1>4 DEF StrategyPenalty
<1>6. Risky' = Risky
  BY <1>1, <1>5 DEF Risky
<1>7. TimeOn' = TimeOn /\ Beyond' = Beyond /\ PaperSubjects' = PaperSubjects
  BY <1>1 DEF TimeOn, Beyond, PaperSubjects
<1> QED
  BY <1>2, <1>3, <1>4, <1>5, <1>6, <1>7 DEF Right, SeenWrong, Tried, Seen

\* and so the rows.
LEMMA SameMarked ==
    ASSUME Answered, NEW Qs
    PROVE  Marked(Qs)' = Marked(Qs)
<1>1. questions' = questions /\ answers' = answers
  BY DEF Answered
<1>2. \A q : EvaluateAnswer(q, answers[q])' <=> EvaluateAnswer(q, answers[q])
  BY <1>1 DEF EvaluateAnswer
<1>3. \A q : ResultAttempted(q)' <=> ResultAttempted(q)
  BY <1>1 DEF ResultAttempted, HasAnswer
<1>4. MarksOf' = MarksOf /\ PenaltyOf' = PenaltyOf
  BY SameSets
<1> QED
  BY <1>2, <1>3, <1>4 DEF Marked, Total, AtLeastZero

LEMMA SamePart ==
    ASSUME Answered, NEW s
    PROVE  Part(s)' = Part(s) /\ Marked(Part(s))' = Marked(Part(s))
<1>1. Part(s)' = Part(s)
  BY DEF Part, Answered
<1>2. Marked(Part(s))' = Marked(Part(s))
  BY <1>1, SameMarked
<1> QED
  BY <1>1, <1>2

LEMMA SameRows ==
    ASSUME Answered
    PROVE  /\ TimingRow' = TimingRow
           /\ result' = result => PerformanceRow' = PerformanceRow /\ StrategyRow' = StrategyRow
<1>1. questions' = questions /\ answers' = answers
  BY DEF Answered
<1>2. \A q \in PaperQuestions : EvaluateAnswer(q, answers[q])' <=> EvaluateAnswer(q, answers[q])
  BY <1>1 DEF EvaluateAnswer
<1>3. \A q \in PaperQuestions : HasAnswer(answers[q])' <=> HasAnswer(answers[q])
  BY <1>1 DEF HasAnswer
<1>4. \A q \in PaperQuestions : StrategyAttempted(q)' <=> StrategyAttempted(q)
  BY <1>1 DEF StrategyAttempted
<1>5. TimingRow' = TimingRow
  BY <1>2, <1>3, SameSets DEF TimingRow, TimingAttempted, TimingCorrect, Total
<1>6. ASSUME result' = result PROVE PerformanceRow' = PerformanceRow
  BY <1>2, <1>3, <1>6, SameSets DEF PerformanceRow, AnalysisAttempted, AnalysisCorrect, Total
<1>7. ASSUME result' = result PROVE StrategyRow' = StrategyRow
  BY <1>2, <1>4, <1>7, SameSets DEF StrategyRow, StrategyCorrect, Total
<1> QED
  BY <1>5, <1>6, <1>7

\* Every row has the values of its type.
LEMMA RowsTyped ==
    ASSUME MarkingTypeOK
    PROVE  /\ Marked(PaperQuestions) \in MarkedRows
           /\ \A s \in PaperSubjects : Marked(Part(s)) \in MarkedRows
           /\ TimingRow \in TimingRows /\ StrategyRow \in StrategyRows
           /\ result # NoRow => PerformanceRow \in PerformanceRows
<1>1. /\ Right \in SUBSET PaperQuestions /\ Tried \ Right \in SUBSET PaperQuestions
      /\ PaperQuestions \ Tried \in SUBSET PaperQuestions
      /\ PaperQuestions \ Right \in SUBSET PaperQuestions
      /\ Seen \in SUBSET PaperQuestions /\ SeenWrong \in SUBSET PaperQuestions
      /\ SeenWrong \cap Risky \in SUBSET PaperQuestions
  BY DEF Right, Tried, Seen, SeenWrong
<1>2. /\ Cardinality(Right) \in Nat /\ Cardinality(Tried \ Right) \in Nat
      /\ Cardinality(PaperQuestions \ Tried) \in Nat
      /\ Cardinality(Seen) \in Nat /\ Cardinality(SeenWrong) \in Nat
  BY <1>1, CountOfPart
<1>3. /\ Total(Tried \ Right, PenaltyOf) \in Int /\ Total(PaperQuestions, MarksOf) \in Int
      /\ Total(PaperQuestions \ Right, TimeOn) \in Nat /\ Total(Tried \ Right, Beyond) \in Nat
      /\ Total(SeenWrong, StrategyPenalty) \in Nat /\ Total(SeenWrong \cap Risky, StrategyPenalty) \in Nat
  <2>1. Total(Tried \ Right, PenaltyOf) \in Int /\ Total(PaperQuestions, MarksOf) \in Int
    BY <1>1, WeightsOfQuestions, TotalOfPart
  <2>2. Total(PaperQuestions \ Right, TimeOn) \in Nat /\ Total(Tried \ Right, Beyond) \in Nat
    BY <1>1, WeightsOfQuestions, TotalOfTimes
  <2>3. Total(SeenWrong, StrategyPenalty) \in Nat /\ Total(SeenWrong \cap Risky, StrategyPenalty) \in Nat
    BY <1>1, WeightsOfQuestions, TotalOfTimes
  <2> QED
    BY <2>1, <2>2, <2>3
<1>4. Marked(PaperQuestions) \in MarkedRows /\ \A s \in PaperSubjects : Marked(Part(s)) \in MarkedRows
  <2>1. \A s \in PaperSubjects : Part(s) \in SUBSET PaperQuestions
    BY DEF Part
  <2> QED
    BY <2>1, MarkedIs
<1>5. result # NoRow => result.score \in Nat /\ result.max \in Int
  BY DEF MarkingTypeOK, MarkedRows
<1>6. TimingRow \in TimingRows
  BY <1>2, <1>3, TimingIs DEF TimingRows
<1>7. result # NoRow => PerformanceRow \in PerformanceRows
  BY <1>2, <1>3, <1>5, PerformanceIs DEF PerformanceRows
<1>8. StrategyRow \in StrategyRows
  <2> DEFINE obtained == IF result = NoRow THEN 0 ELSE result.score
             attainable == IF result = NoRow THEN Total(PaperQuestions, MarksOf) ELSE result.max
             hoped == obtained + Total(SeenWrong \cap Risky, StrategyPenalty)
  <2>1. obtained \in Nat /\ attainable \in Int /\ hoped \in Int
    BY <1>3, <1>5
  <2>2. StrategyRow = [attempted |-> Cardinality(Seen), wrong |-> Cardinality(SeenWrong),
                       lost |-> Total(SeenWrong, StrategyPenalty), obtained |-> obtained,
                       projected |-> Min({attainable, hoped})]
    BY StrategyIs
  <2> HIDE DEF obtained, attainable, hoped
  <2>3. Min({attainable, hoped}) \in Int
    BY <2>1, MinOfTwo
  <2> QED
    BY <1>2, <1>3, <2>1, <2>2, <2>3 DEF StrategyRows
<1> QED
  BY <1>4, <1>6, <1>7, <1>8

LEMMA MarkingStarts == MarkingInit => MarkingInv
<1> SUFFICES ASSUME MarkingInit PROVE MarkingInv
  OBVIOUS
<1>1. 0 \in 0 .. MaxAnswers
  BY MarkingAssumption
<1>2. MarkingTypeOK
  BY <1>1 DEF MarkingInit, MarkingStart, MarkingTypeOK
<1>3. RowsKept
  BY DEF MarkingInit, MarkingStart, RowsKept
<1> QED
  BY <1>2, <1>3 DEF MarkingInv

\* Whatever a step that changes no answer makes, is made from rows that stay.
LEMMA MarkingSteps == MarkingInv /\ [MarkingNext]_markingVars => MarkingInv'
<1> SUFFICES ASSUME MarkingInv, [MarkingNext]_markingVars PROVE MarkingInv'
  OBVIOUS
<1> USE DEF MarkingInv
<1>0. sent \in 0 .. MaxAnswers /\ MaxAnswers \in Nat
  BY MarkingAssumption DEF MarkingTypeOK
<1>1. ASSUME NEW q \in PaperQuestions, NEW a \in AnswerRows, SaveAnswerRead(q, a) PROVE MarkingInv'
  <2>1. Answered /\ UNCHANGED <<questions, answers, submitted, result, subjects, analysis, strategy, timing,
                                late, apart>>
    BY <1>1 DEF SaveAnswerRead, Answered, reportVars
  <2>2. sent' \in 0 .. MaxAnswers /\ saving' \subseteq PaperQuestions \X AnswerRows
    BY <1>0, <1>1 DEF SaveAnswerRead, MarkingTypeOK
  <2>3. MarkingTypeOK'
    BY <2>1, <2>2, SameSets DEF MarkingTypeOK
  <2>4. \A s : Marked(Part(s))' = Marked(Part(s))
    BY <2>1, SamePart
  <2>5. RowsKept'
    BY <2>1, <2>4, SameSets, SameMarked, SameRows DEF RowsKept
  <2> QED
    BY <2>3, <2>5
<1>2. ASSUME NEW q \in PaperQuestions, NEW a \in AnswerRows, SaveAnswerWrite(q, a) PROVE MarkingInv'
  <2>1. /\ UNCHANGED <<questions, sent, submitted, result, subjects, analysis, strategy, timing>>
        /\ late' = (late \/ result # NoRow)
        /\ apart' = IF result = NoRow /\ timing # NoRow THEN apart \cup {"timing"} ELSE apart
    BY <1>2 DEF SaveAnswerWrite, reportVars
  <2>2. /\ answers' \in [PaperQuestions -> AnswerRows \cup {NoAnswer}]
        /\ saving' \subseteq PaperQuestions \X AnswerRows
    BY <1>2 DEF SaveAnswerWrite, MarkingTypeOK
  <2>3. late' \in BOOLEAN /\ apart' \subseteq {"analysis", "strategy", "timing"}
    BY <2>1 DEF MarkingTypeOK
  <2>4. PaperSubjects' = PaperSubjects
    BY <2>1 DEF PaperSubjects
  <2>5. MarkingTypeOK'
    BY <1>0, <2>1, <2>2, <2>3, <2>4 DEF MarkingTypeOK
  <2>6. ASSUME ~late'
        PROVE  /\ result' = NoRow /\ analysis' = NoRow
               /\ strategy' = NoRow \/ "strategy" \in apart'
               /\ timing' = NoRow \/ "timing" \in apart'
    BY <2>1, <2>6 DEF RowsKept
  <2>7. /\ result' # NoRow => submitted'
        /\ late' \/ analysis' # NoRow => result' # NoRow
    BY <2>1 DEF RowsKept
  <2>8. RowsKept'
    BY <2>6, <2>7 DEF RowsKept
  <2> QED
    BY <2>5, <2>8
<1>3. CASE SubmitPaper
  <2>1. /\ Answered /\ UNCHANGED <<questions, answers, saving, sent, result, subjects, analysis, strategy,
                                   timing, late, apart>>
        /\ submitted' = TRUE
    BY <1>3 DEF SubmitPaper, Answered, answerVars, reportVars
  <2>2. \A s : Marked(Part(s))' = Marked(Part(s))
    BY <2>1, SamePart
  <2>3. MarkingTypeOK'
    BY <2>1, SameSets DEF MarkingTypeOK
  <2>4. RowsKept'
    BY <2>1, <2>2, SameSets, SameMarked, SameRows DEF RowsKept
  <2> QED
    BY <2>3, <2>4
<1>4. CASE CalculateResult
  <2>1. /\ Answered /\ UNCHANGED <<questions, answers, saving, sent, analysis, timing, strategy, late, apart>>
        /\ submitted /\ submitted' /\ submitted' \in BOOLEAN /\ result = NoRow
        /\ result' = Marked(PaperQuestions) /\ subjects' = [s \in PaperSubjects |-> Marked(Part(s))]
    BY <1>4 DEF CalculateResult, Answered, answerVars, reportVars, Part, MarkingTypeOK
  <2>2. \A s : Marked(Part(s))' = Marked(Part(s))
    BY <2>1, SamePart
  <2>3. MarkingTypeOK'
    BY <2>1, SameSets, RowsTyped DEF MarkingTypeOK
  <2>4. ~late /\ analysis = NoRow /\ (strategy = NoRow \/ "strategy" \in apart)
    BY <2>1 DEF RowsKept
  <2>5. RowsKept'
    BY <2>1, <2>2, <2>4, SameSets, SameMarked, SameRows DEF RowsKept
  <2> QED
    BY <2>3, <2>5
<1>5. CASE AnalysePerformance
  <2>1. /\ Answered /\ UNCHANGED <<questions, answers, saving, sent, submitted, result, subjects, strategy,
                                   timing, late>>
        /\ result # NoRow /\ analysis' = PerformanceRow
        /\ apart' \in {apart, apart \cup {"analysis"}}
    BY <1>5 DEF AnalysePerformance, Answered, answerVars, MadeApart
  <2>2. \A s : Marked(Part(s))' = Marked(Part(s))
    BY <2>1, SamePart
  <2>3. MarkingTypeOK'
    BY <2>1, SameSets, RowsTyped DEF MarkingTypeOK
  <2>4. RowsKept'
    BY <2>1, <2>2, SameSets, SameMarked, SameRows DEF RowsKept
  <2> QED
    BY <2>3, <2>4
<1>6. CASE AnalyseStrategy
  <2>1. /\ Answered /\ UNCHANGED <<questions, answers, saving, sent, submitted, result, subjects, analysis,
                                   timing, late>>
        /\ strategy' = StrategyRow
        /\ apart' \in {apart, apart \cup {"strategy"}}
        /\ "strategy" \notin apart' => result # NoRow
    BY <1>6 DEF AnalyseStrategy, Answered, answerVars, MadeApart
  <2>2. \A s : Marked(Part(s))' = Marked(Part(s))
    BY <2>1, SamePart
  <2>3. MarkingTypeOK'
    BY <2>1, SameSets, RowsTyped DEF MarkingTypeOK
  <2>4. RowsKept'
    BY <2>1, <2>2, SameSets, SameMarked, SameRows DEF RowsKept
  <2> QED
    BY <2>3, <2>4
<1>7. CASE AnalyseTime
  <2>1. /\ Answered /\ UNCHANGED <<questions, answers, saving, sent, submitted, result, subjects, analysis,
                                   strategy, late>>
        /\ timing' = TimingRow
        /\ apart' \in {apart, apart \cup {"timing"}}
        /\ "timing" \notin apart' => submitted
    BY <1>7 DEF AnalyseTime, Answered, answerVars, MadeApart
  <2>2. \A s : Marked(Part(s))' = Marked(Part(s))
    BY <2>1, SamePart
  <2>3. MarkingTypeOK'
    BY <2>1, SameSets, RowsTyped DEF MarkingTypeOK
  <2>4. RowsKept'
    BY <2>1, <2>2, SameSets, SameMarked, SameRows DEF RowsKept
  <2> QED
    BY <2>3, <2>4
<1>8. CASE UNCHANGED markingVars
  <2>1. /\ Answered
        /\ UNCHANGED <<questions, answers, saving, sent, submitted, result, subjects, analysis, strategy,
                       timing, late, apart>>
    BY <1>8 DEF markingVars, answerVars, reportVars, Answered
  <2>2. \A s : Marked(Part(s))' = Marked(Part(s))
    BY <2>1, SamePart
  <2>3. MarkingTypeOK'
    BY <2>1, SameSets DEF MarkingTypeOK
  <2>4. RowsKept'
    BY <2>1, <2>2, SameSets, SameMarked, SameRows DEF RowsKept
  <2> QED
    BY <2>3, <2>4
<1> QED
  BY <1>1, <1>2, <1>3, <1>4, <1>5, <1>6, <1>7, <1>8 DEF MarkingNext

\* Once the result is there, a step that leaves an answer behind it changes neither the
\* result nor a report that does not stand apart.
Standing(report, row) == row # NoRow /\ report \notin apart
LEMMA LateSteps ==
    ASSUME MarkingInv, [MarkingNext]_markingVars, late'
    PROVE  /\ result # NoRow /\ UNCHANGED <<questions, result, subjects>>
           /\ Standing("analysis", analysis)' => Standing("analysis", analysis) /\ analysis' = analysis
           /\ Standing("strategy", strategy)' => Standing("strategy", strategy) /\ strategy' = strategy
           /\ Standing("timing", timing)' => Standing("timing", timing) /\ timing' = timing
<1> USE DEF Standing
<1>1. ASSUME NEW q \in PaperQuestions, NEW a \in AnswerRows, SaveAnswerWrite(q, a)
      PROVE  /\ result # NoRow /\ apart' = apart
             /\ UNCHANGED <<questions, result, subjects, analysis, strategy, timing>>
  BY <1>1 DEF SaveAnswerWrite, MarkingInv, RowsKept, reportVars
<1>2. CASE late
  <2>1. result # NoRow
    BY <1>2 DEF MarkingInv, RowsKept
  <2>2. ASSUME NEW q \in PaperQuestions, NEW a \in AnswerRows, SaveAnswerRead(q, a)
        PROVE  UNCHANGED <<questions, result, subjects, analysis, strategy, timing, apart>>
    BY <2>2 DEF SaveAnswerRead, reportVars
  <2>3. CASE SubmitPaper
    BY <2>1, <2>3 DEF SubmitPaper, reportVars
  <2>4. CASE CalculateResult
    BY <2>1, <2>4 DEF CalculateResult
  <2>5. CASE AnalysePerformance
    BY <1>2, <2>1, <2>5 DEF AnalysePerformance, MadeApart
  <2>6. CASE AnalyseStrategy
    BY <1>2, <2>1, <2>6 DEF AnalyseStrategy, MadeApart
  <2>7. CASE AnalyseTime
    BY <1>2, <2>1, <2>7 DEF AnalyseTime, MadeApart
  <2>8. CASE UNCHANGED markingVars
    BY <2>1, <2>8 DEF markingVars, reportVars
  <2> QED
    BY <1>1, <2>1, <2>2, <2>3, <2>4, <2>5, <2>6, <2>7, <2>8 DEF MarkingNext
<1>3. CASE ~late
  <2>1. \E q \in PaperQuestions, a \in AnswerRows : SaveAnswerWrite(q, a)
    BY <1>3 DEF MarkingNext, SaveAnswerRead, SubmitPaper, CalculateResult, AnalysePerformance,
                AnalyseStrategy, AnalyseTime, markingVars, answerVars
  <2> QED
    BY <1>1, <2>1
<1> QED
  BY <1>2, <1>3 DEF MarkingInv, MarkingTypeOK

\* So what agreed goes on to agree.
LEMMA LateAgree ==
    ASSUME MarkingInv, MarksAgree, [MarkingNext]_markingVars, late'
    PROVE  MarksAgree'
<1>1. /\ result # NoRow /\ questions' = questions /\ result' = result /\ subjects' = subjects
      /\ Standing("analysis", analysis)' => Standing("analysis", analysis) /\ analysis' = analysis
      /\ Standing("strategy", strategy)' => Standing("strategy", strategy) /\ strategy' = strategy
      /\ Standing("timing", timing)' => Standing("timing", timing) /\ timing' = timing
  BY LateSteps
<1>2. PaperSubjects' = PaperSubjects /\ NoneNegative' = NoneNegative
  BY <1>1 DEF PaperSubjects, NoneNegative, MarksOf, PenaltyOf
<1>3. SameOutcomes'
  BY <1>1 DEF MarksAgree, SameOutcomes, Outcomes, Standing
<1>4. SubjectsAddUp'
  BY <1>1, <1>2 DEF MarksAgree, SubjectsAddUp, Total
<1>5. LossesAccounted'
  BY <1>1, <1>2 DEF MarksAgree, LossesAccounted, RankedLoss, Standing
<1> QED
  BY <1>3, <1>4, <1>5 DEF MarksAgree

\* The four services tell one student one story, whatever the questions, the answers,
\* the marks and the penalties are, however many subjects the paper has and in
\* whichever order the services run: they find the same outcome of every question,
\* the subjects of a result add up to it, and what one calls lost, potential,
\* projected or wasted is bounded by what the others show.  An answer whose request
\* passed the check before the submission and that is written after the result
\* separates from it only the reports made after that.
THEOREM MarksDoAgree == MarkingSpec => []MarksAgree
<1>1. MarkingInv /\ ~late => MarksAgree
  BY RowsAgree, RowsAddUp, RowsAccount DEF MarksAgree
<1>2. MarkingInv /\ MarksAgree /\ [MarkingNext]_markingVars /\ late' => MarksAgree'
  BY LateAgree
<1>3. MarkingInit => ~late
  BY DEF MarkingInit, MarkingStart
<1> QED
  BY <1>1, <1>2, <1>3, MarkingStarts, MarkingSteps, PTL DEF MarkingSpec

(***************************************************************************)
(* Beside each other                                                       *)
(***************************************************************************)

\* The list that nobody is on is sorted.
LEMMA EmptyIsSorted == <<>> \in SortedSeqs({})
<1>1. IsFiniteSet({}) /\ Cardinality({}) = 0
  BY FS_EmptySet
<1>2. <<>> \in [1 .. 0 -> {}] /\ DOMAIN <<>> = {}
  OBVIOUS
<1> QED
  BY <1>1, <1>2 DEF SortedSeqs, Arrangements

\* A behaviour that is one of any of the parts is one of each of them: the others
\* stay where they begin.
LEMMA CandidatePartsStart ==
    CandidateInit => Init /\ PaperInit /\ TimingInit /\ MonitorInit /\ MarkingInit
<1> SUFFICES ASSUME CandidateInit
             PROVE  Init /\ PaperInit /\ TimingInit /\ MonitorInit /\ MarkingInit
  OBVIOUS
<1>1. CASE part = "rank"
  <2>1. Init
    BY <1>1 DEF CandidateInit
  <2>2. MarkingInit
    BY <1>1, CandidateAssumption DEF CandidateInit, MarkingInit
  <2> QED
    BY <2>1, <2>2 DEF CandidateInit
<1>2. CASE part # "rank"
  <2>1. Init
    <3>1. /\ paper = [a \in Attempts |-> CHOOSE p \in Papers : TRUE]
          /\ mode = "ORDINAL" /\ sorted = <<>> /\ ranks = <<>> /\ currentRank = 1 /\ denseRank = 1
      BY <1>2 DEF CandidateInit
    <3>2. {} \in SUBSET Attempts
      OBVIOUS
    <3> QED
      BY <3>1, <3>2, EmptyIsSorted, CandidateAssumption DEF Init, Modes
  <2>2. MarkingInit
    BY CandidateAssumption DEF CandidateInit, MarkingInit
  <2> QED
    BY <2>1, <2>2 DEF CandidateInit
<1> QED
  BY <1>1, <1>2

LEMMA CandidateParts ==
    CandidateSpec => Spec /\ PaperSpec /\ TimingSpec /\ MonitorSpec /\ MarkingSpec
<1>1. [CandidateNext]_<<part, vars, allPaperVars, timingVars, monitorVars, markingVars>>
        => /\ [Next]_vars /\ [PaperNext]_allPaperVars /\ [TimingNext]_timingVars
           /\ [MonitorNext]_monitorVars /\ [MarkingNext]_markingVars
  BY DEF CandidateNext
<1> QED
  BY <1>1, CandidatePartsStart, PTL
     DEF CandidateSpec, Spec, PaperSpec, TimingSpec, MonitorSpec, MarkingSpec

\* Every value that the modules about a candidate keep has its type in a behaviour
\* that is one of any of them, as the run explores them together (MCCandidate).
THEOREM CandidateTypeCorrect == CandidateSpec => []CandidateTypeOK
<1>1. MarkingInv => MarkingTypeOK
  BY DEF MarkingInv
<1>2. MarkingSpec => []MarkingTypeOK
  BY <1>1, MarkingStarts, MarkingSteps, PTL DEF MarkingSpec
<1> QED
  BY <1>2, CandidateParts, TypeCorrect, PaperTypeCorrect, TimingTypeCorrect, MonitoringTypeCorrect, PTL
     DEF CandidateTypeOK

\* What is proved of every part alone holds of them beside each other: places, papers,
\* times, the watch over an attempt and marks are right, and so are the ranks that are
\* stored as long as no more than a million attempts are ranked.
THEOREM CandidateIsSafe ==
    CandidateSpec =>
        /\ [](/\ CompetitionRanks /\ OtherRanks /\ PaperRead /\ ImportsAccounted
              /\ TimeAccounted /\ AnalysisComplete /\ AttemptWatched /\ MarksAgree)
        /\ Cardinality(Attempts) <= Hundred => []StoredWithRank
<1>1. ASSUME Cardinality(Attempts) <= Hundred PROVE Spec => []StoredWithRank
  BY <1>1, StoredCorrect
<1>2. ASSUME Cardinality(Attempts) <= Hundred PROVE CandidateSpec => []StoredWithRank
  <2>1. Spec => []StoredWithRank
    BY <1>1, <1>2
  <2> QED
    BY <2>1, CandidateParts
<1>3. CandidateSpec =>
        [](/\ CompetitionRanks /\ OtherRanks /\ PaperRead /\ ImportsAccounted
           /\ TimeAccounted /\ AnalysisComplete /\ AttemptWatched /\ MarksAgree)
  BY CandidateParts, CompetitionCorrect, OthersCorrect, PaperIsRead, ImportsAreAccounted,
     TimeIsAccounted, AnalysisIsComplete, AttemptIsWatched, MarksDoAgree, PTL
<1> QED
  BY <1>2, <1>3
=============================================================================
