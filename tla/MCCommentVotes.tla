--------------------------- MODULE MCCommentVotes ---------------------------
(* Instances of CommentVotes for TLC. *)
EXTENDS CommentVotes

CONSTANT v1

\* All requests come from one voter.
Posters == [r \in Request |-> v1]
=============================================================================
