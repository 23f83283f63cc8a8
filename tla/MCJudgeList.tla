---------------------------- MODULE MCJudgeList ----------------------------
(* Instances of JudgeList and of its refinement of Dispatch for TLC. *)
EXTENDS JudgeList, TLC

CONSTANTS k1, k2    \* two pairs of a problem and a language

\* Every submission needs the same problem and every judge has it.
SameKind == [s \in Sub |-> k1]
SameLists == {{k1}}

\* Judges differ: every one has the first problem, only some the second.
MixedLists == {{k1}, {k1, k2}}

\* One submission needs another problem than the others.
Odd == CHOOSE s \in Sub : TRUE
MixedKind == [s \in Sub |-> IF s = Odd THEN k2 ELSE k1]

ConnSymmetry == Permutations(Conn) \cup Permutations(Name)
SameSymmetry == ConnSymmetry \cup Permutations(Sub)
MixedSymmetry == ConnSymmetry \cup Permutations(Sub \ {Odd})
=============================================================================
