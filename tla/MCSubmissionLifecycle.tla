----------------------- MODULE MCSubmissionLifecycle -----------------------
(* Instances of SubmissionLifecycle for TLC. *)
EXTENDS SubmissionLifecycle, TLC

CONSTANT k1         \* every submission needs it and every judge has it

OneKind == [s \in Sub |-> k1]
OneList == {{k1}}

ProcessSymmetry == Permutations(Conn) \cup Permutations(Worker)
RowSymmetry == ProcessSymmetry \cup Permutations(Sub)
=============================================================================
