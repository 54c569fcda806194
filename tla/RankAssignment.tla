--------------------------- MODULE RankAssignment ---------------------------
(***************************************************************************)
(* The ranking of one population by TieBreakService: all candidates of an  *)
(* exam, or those of one state, district, school or category.  The         *)
(* candidates are sorted by six metrics, then a loop over the sorted list  *)
(* gives each its rank from its predecessor's.                             *)
(*                                                                         *)
(* A metric is an integer: marks in their smallest unit, percentages in    *)
(* hundredths.  Percentiles are in units of 1/10000 per cent.              *)
(***************************************************************************)
EXTENDS Integers, Sequences, FiniteSets

CONSTANTS
    Attempts,    \* attempts of the exam with a result
    Papers,      \* the metrics an attempt's result can have
    StudentOf    \* the student of an attempt, by the order of student ids

\* The six that are compared, and the marks that could be had: none in the
\* placeholder row of a submission that is not evaluated yet.
Metrics == {"score", "accuracy", "lost", "time", "correct", "wrong", "max"}

ASSUME RankAssumption ==
    /\ IsFiniteSet(Attempts)
    /\ Papers \subseteq [Metrics -> Int]
    /\ StudentOf \in [Attempts -> Nat]

VARIABLES
    paper,        \* the metrics of every attempt
    mode,         \* COMPETITION, DENSE or ORDINAL
    sorted,       \* the population, sorted
    ranks,        \* the ranks given so far, in the order of sorted
    currentRank,  \* local variables of assignRanks()
    denseRank

vars == <<paper, mode, sorted, ranks, currentRank, denseRank>>

-----------------------------------------------------------------------------
\* The metrics in their order of precedence, the smaller the better.
Keys(a) == LET p == paper[a] IN
    <<-p["score"], -p["accuracy"], p["lost"], p["time"], -p["correct"], p["wrong"]>>

Tied(a, b) == \A k \in 1 .. 6 : Keys(a)[k] = Keys(b)[k]
Better(a, b) == \E k \in 1 .. 6 :
    /\ \A i \in 1 .. k - 1 : Keys(a)[i] = Keys(b)[i]
    /\ Keys(a)[k] < Keys(b)[k]

\* The comparison of sortCandidates(): the student decides between candidates
\* that are tied, and nothing between two attempts of one student.
Before(a, b) == Better(a, b) \/ (Tied(a, b) /\ StudentOf[a] < StudentOf[b])

\* What sorting a population can return, whatever order it came in.
Arrangements(population) ==
    {s \in [1 .. Cardinality(population) -> population] :
        /\ \A a \in population : \E i \in DOMAIN s : s[i] = a
        /\ \A i, j \in DOMAIN s : s[i] = s[j] => i = j}
SortedSeqs(population) ==
    {s \in Arrangements(population) :
        \A i, j \in DOMAIN s : i < j => ~Before(s[j], s[i])}

Modes == {"COMPETITION", "DENSE", "ORDINAL"}

Init ==
    /\ paper \in [Attempts -> Papers]
    /\ mode \in Modes
    /\ \E population \in SUBSET Attempts : sorted \in SortedSeqs(population)
    /\ ranks = <<>>
    /\ currentRank = 1 /\ denseRank = 1

NextIndex == Len(ranks) + 1
Give(rank) ==
    /\ ranks' = Append(ranks, rank)
    /\ UNCHANGED <<paper, mode, sorted>>

GiveFirst ==
    /\ ranks = <<>> /\ sorted # <<>>
    /\ Give(1)
    /\ UNCHANGED <<currentRank, denseRank>>

\* The candidate is tied with the one before.
GiveTied_Beyond ==
    /\ ranks # <<>>
    /\ Len(ranks) = Len(sorted) \/ Tied(sorted[NextIndex], sorted[Len(ranks)])
    /\ Give(ranks[Len(ranks)])
    /\ UNCHANGED <<currentRank, denseRank>>
GiveTied ==
    /\ ranks # <<>> /\ Len(ranks) < Len(sorted)
    /\ Tied(sorted[NextIndex], sorted[Len(ranks)])
    /\ \/ /\ mode = "COMPETITION"
          /\ Give(ranks[Len(ranks)])
          /\ UNCHANGED currentRank
       \/ /\ mode = "DENSE"
          /\ Give(denseRank)
          /\ UNCHANGED currentRank
       \/ /\ mode = "ORDINAL"
          /\ currentRank' = currentRank + 1
          /\ Give(currentRank')
    /\ UNCHANGED denseRank

\* The candidate is not.
GiveNext_Successor ==
    /\ ranks # <<>> /\ Len(ranks) < Len(sorted)
    /\ ~Tied(sorted[NextIndex], sorted[Len(ranks)])
    /\ \/ /\ mode \in {"COMPETITION", "ORDINAL"}
          /\ currentRank' = currentRank + 1
          /\ Give(currentRank')
          /\ UNCHANGED denseRank
       \/ /\ mode = "DENSE"
          /\ denseRank' = denseRank + 1
          /\ Give(denseRank')
          /\ UNCHANGED currentRank
GiveNext_DenseKept ==
    /\ ranks # <<>> /\ Len(ranks) < Len(sorted)
    /\ ~Tied(sorted[NextIndex], sorted[Len(ranks)])
    /\ currentRank' = NextIndex
    /\ Give(IF mode = "DENSE" THEN denseRank + 1 ELSE currentRank')
    /\ UNCHANGED denseRank
GiveNext ==
    /\ ranks # <<>> /\ Len(ranks) < Len(sorted)
    /\ ~Tied(sorted[NextIndex], sorted[Len(ranks)])
    /\ \/ /\ mode \in {"COMPETITION", "ORDINAL"}
          /\ currentRank' = NextIndex
          /\ Give(currentRank')
          /\ UNCHANGED denseRank
       \/ /\ mode = "DENSE"
          /\ denseRank' = denseRank + 1
          /\ Give(denseRank')
          /\ UNCHANGED currentRank

Next == GiveFirst \/ GiveTied \/ GiveNext
Spec == Init /\ [][Next]_vars

Done == Len(ranks) = Len(sorted)

-----------------------------------------------------------------------------
(* What is stored with a rank: the percentile, rounded, and the range that *)
(* predictRankRange() makes of it.                                         *)

RoundedQuotient(a, b) == (2 * a + b) \div (2 * b)
Least(a, b) == IF a < b THEN a ELSE b
Greatest(a, b) == IF a < b THEN b ELSE a

Hundred == 1000000
Percentile_Fractional(rank, total) ==
    IF total = 1 THEN Hundred
    ELSE Greatest(0, Least(Hundred, RoundedQuotient((total - rank) * Hundred, total)))
Percentile(rank, total) ==
    IF total = 1 THEN Hundred
    ELSE Greatest(0, Least(Hundred, RoundedQuotient((total - (rank - 1)) * Hundred, total)))

\* 0.15, 0.1 or 0.05 of the rank, by the size of the population
Variance(total) == IF total > 500 THEN 5 ELSE IF total > 50 THEN 10 ELSE 15
Spread(rank, total) == Greatest(2, RoundedQuotient(rank * Variance(total), 100))
Prediction(rank, total, maxScore) == LET spread == Spread(rank, total) IN
    IF total <= 0 \/ maxScore <= 0 THEN [min |-> 1, max |-> 1]
    ELSE [min |-> Greatest(1, rank - spread \div 2),
          max |-> Least(total, rank + (spread + 1) \div 2)]

-----------------------------------------------------------------------------
(* Properties                                                              *)

\* The loop stays within the list, and the ranks within the positions.
TypeOK ==
    /\ paper \in [Attempts -> Papers] /\ mode \in Modes
    /\ sorted \in Seq(Attempts)
    /\ ranks \in Seq(Nat) /\ Len(ranks) <= Len(sorted)
    /\ currentRank \in Nat /\ denseRank \in Nat

Population == {sorted[i] : i \in 1 .. Len(sorted)}

\* COMPETITION (1, 1, 3): a candidate's rank is one more than the number of
\* candidates that are better by the metrics, whatever the sorting did with
\* those that are not.
CompetitionRanks == mode = "COMPETITION" =>
    \A i \in 1 .. Len(ranks) :
        ranks[i] = 1 + Cardinality({a \in Population : Better(a, sorted[i])})

\* DENSE (1, 1, 2) counts the different results that are better, ORDINAL
\* (1, 2, 3) the candidates sorted before.
OtherRanks == \A i \in 1 .. Len(ranks) :
    /\ mode = "DENSE" =>
           ranks[i] = 1 + Cardinality({Keys(a) : a \in {b \in Population : Better(b, sorted[i])}})
    /\ mode = "ORDINAL" => ranks[i] = i

\* The best have percentile 100, and a better rank has a better percentile:
\* rounding lets no two of them meet.
PercentilesFollowRanks == LET total == Len(sorted) IN
    Done => \A i, j \in 1 .. total :
        /\ Percentile(ranks[i], total) \in 1 .. Hundred
        /\ ranks[i] = 1 => Percentile(ranks[i], total) = Hundred
        /\ ranks[i] < ranks[j] => Percentile(ranks[i], total) > Percentile(ranks[j], total)

\* The predicted range is one of ranks of this population, and it holds the
\* rank it was made from.  Only a result with no marks to be had, such as a
\* placeholder that is ranked, may have a rank behind its range: it is
\* predicted the first place whatever its rank is.
PredictionHoldsRank == LET total == Len(sorted) IN
    Done => \A i \in 1 .. total :
        LET maxScore == paper[sorted[i]]["max"]
            range == Prediction(ranks[i], total, maxScore)
        IN  /\ range.min \in 1 .. ranks[i]
            /\ range.max \in range.min .. total
            /\ range.max >= ranks[i] \/ maxScore <= 0

\* What is stored with a rank agrees with it.
StoredWithRank == PercentilesFollowRanks /\ PredictionHoldsRank
=============================================================================
