--------------------------- MODULE MCContestScore ---------------------------
(* Instances of ContestScore for TLC. *)
EXTENDS ContestScore, TLC

CONSTANTS q1        \* the problem all submissions are for

OneProblem == [s \in Sub |-> q1]

ScoreSymmetry == Permutations(Sub)
=============================================================================
