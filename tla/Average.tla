--------------------------------- MODULE Average --------------------------------
(***************************************************************************)
(* The aggregate of a barber's ratings, as RecalculateAvgRating computes   *)
(* it: the average and the number, over a function from reservations to    *)
(* their scores. The sum is taken score by score, since there are five.    *)
(***************************************************************************)
EXTENDS Integers, FiniteSets

NoRatings == [r \in {} |-> 0]

Given(ratings, score) == Cardinality({r \in DOMAIN ratings : ratings[r] = score})

SumOf(ratings) ==
    Given(ratings, 1) + 2 * Given(ratings, 2) + 3 * Given(ratings, 3)
        + 4 * Given(ratings, 4) + 5 * Given(ratings, 5)

\* A mutated form of Aggregate: SUM(score) for AVG(score).
SumOfScores(ratings) ==
    [count |-> Cardinality(DOMAIN ratings), avg |-> 100 * SumOf(ratings)]

\* AVG(score) in NUMERIC(3,2), rounded half up, and COUNT(*); 0 for no rating.
Aggregate(ratings) ==
    LET count == Cardinality(DOMAIN ratings)
    IN  [count |-> count,
         avg   |-> IF count = 0 THEN 0 ELSE (200 * SumOf(ratings) + count) \div (2 * count)]
=============================================================================
