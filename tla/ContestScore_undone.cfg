CONSTANTS
    Sub = {s1}
    q1 = q1
    Problem = {q1}
    ProblemOf <- OneProblem
    Full = 1
    Grader = {p1}
    Rescorer = {r1}
    Moderator = {m1}
    NoProc = NoProc
SPECIFICATION Spec
INVARIANT BannedScoresNothing
