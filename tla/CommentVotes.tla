---------------------------- MODULE CommentVotes ----------------------------
(***************************************************************************)
(* The votes on one comment.  A voter has at most one vote (unique_together *)
(* of CommentVote); voting again the other way takes it back.  The score of *)
(* the comment is kept beside the votes and changed after them, outside any *)
(* transaction.  Requests of one voter race each other, the author's edit   *)
(* of the comment, its hiding and its deletion.  A request is handled once: *)
(* a voter who posts again is another member of Request.                    *)
(***************************************************************************)
EXTENDS Integers, FiniteSets

CONSTANTS
    Request,    \* the requests to vote_comment, each handled once
    Voter,
    VoterOf,    \* the profile a request comes from
    Editor,     \* requests to CommentEditAjax, one after the other
    NoReq       \* holds the table when nobody does

ASSUME VoterOfType == VoterOf \in [Request -> Voter]
ASSUME NoReqType == NoReq \notin Request

VARIABLES
    vote,       \* the votes: 1, -1, or 0 when there is no row
    score,      \* Comment.score
    hidden,     \* Comment.hidden
    deleted,    \* there is no row of the comment (score 0, not hidden, no votes)
    req,        \* the requests
    holder,     \* the request inside LOCK TABLES
    edit,       \* the copies of the comment the editors hold
    drifted     \* history: a request died before it changed the score, an
                \* editor wrote an older score back, or the comment was deleted

vars == <<vote, score, hidden, deleted, req, holder, edit, drifted>>

-----------------------------------------------------------------------------
Delta == {-1, 1}

ReqType == [pc : {"new", "save", "lock", "get", "delete", "score", "done"},
            delta : -1..1, due : -1..1]

EditType == [pc : {"idle", "loaded"}, score : Int, hidden : BOOLEAN]

\* delta is what is asked for, due what the request still owes the score once
\* it has changed the votes, or will owe it for the vote it has read.
Request0 == [pc |-> "new", delta |-> 0, due |-> 0]

\* A request that is over, answered or killed.
Over == [Request0 EXCEPT !.pc = "done"]

NoEdit == [pc |-> "idle", score |-> 0, hidden |-> FALSE]

\* The row of r's voter.
VoteOf(r) == vote[VoterOf[r]]

SetVote(r, n) == vote' = [vote EXCEPT ![VoterOf[r]] = n]

Init ==
    /\ vote = [v \in Voter |-> 0]
    /\ score = 0
    /\ hidden = FALSE
    /\ deleted = FALSE
    /\ req = [r \in Request |-> Request0]
    /\ holder = NoReq
    /\ edit = [e \in Editor |-> NoEdit]
    /\ drifted = FALSE

-----------------------------------------------------------------------------
(* vote_comment *)

\* Up to the loop; a comment that is hidden or deleted is not found.
Post(r, d) ==
    /\ req[r].pc = "new"
    /\ req' = [req EXCEPT ![r] = IF hidden \/ deleted THEN Over
                                 ELSE [pc |-> "save", delta |-> d, due |-> 0]]
    /\ UNCHANGED <<vote, score, hidden, deleted, holder, edit, drifted>>

\* vote.save(), which waits while another request has locked the table.  The
\* request takes every IntegrityError for the vote it has already: that of the
\* unique key, and that of the foreign key when the comment has been deleted.
Save(r) ==
    /\ req[r].pc = "save"
    /\ holder \in {NoReq, r}
    /\ IF VoteOf(r) = 0 /\ ~deleted
          THEN /\ SetVote(r, req[r].delta)
               /\ req' = [req EXCEPT ![r].pc = "score", ![r].due = req[r].delta]
          ELSE /\ req' = [req EXCEPT ![r].pc = "lock"]
               /\ UNCHANGED vote
    /\ UNCHANGED <<score, hidden, deleted, holder, edit, drifted>>

\* Mutant: the vote is looked up and deleted without a lock.
GetUnlocked(r) ==
    /\ req[r].pc = "lock"
    /\ req' = [req EXCEPT ![r].pc = "get"]
    /\ UNCHANGED <<vote, score, hidden, deleted, holder, edit, drifted>>

\* LOCK TABLES.
Lock(r) ==
    /\ req[r].pc = "lock"
    /\ holder = NoReq
    /\ holder' = r
    /\ req' = [req EXCEPT ![r].pc = "get"]
    /\ UNCHANGED <<vote, score, hidden, deleted, edit, drifted>>

\* Mutant: the request goes on with the table locked.
RetryLocked(r) ==
    /\ req[r].pc = "get"
    /\ VoteOf(r) = 0
    /\ req' = [req EXCEPT ![r].pc = "save"]
    /\ UNCHANGED <<vote, score, hidden, deleted, holder, edit, drifted>>

\* There is no vote, for it has gone since or the comment has: the request
\* unlocks and tries again to save its own.
Retry(r) ==
    /\ req[r].pc = "get"
    /\ VoteOf(r) = 0
    /\ holder' = NoReq
    /\ req' = [req EXCEPT ![r].pc = "save"]
    /\ UNCHANGED <<vote, score, hidden, deleted, edit, drifted>>

\* The voter has voted this way.
Refuse(r) ==
    /\ req[r].pc = "get"
    /\ VoteOf(r) = req[r].delta
    /\ holder' = NoReq
    /\ req' = [req EXCEPT ![r] = Over]
    /\ UNCHANGED <<vote, score, hidden, deleted, edit, drifted>>

\* Mutant: the score is changed as if the new vote had been given, too.
TakeAndVote(r) ==
    /\ req[r].pc = "get"
    /\ VoteOf(r) = -req[r].delta
    /\ req' = [req EXCEPT ![r].pc = "delete", ![r].due = req[r].delta - VoteOf(r)]
    /\ UNCHANGED <<vote, score, hidden, deleted, holder, edit, drifted>>

\* The vote read is the other way.
Take(r) ==
    /\ req[r].pc = "get"
    /\ VoteOf(r) = -req[r].delta
    /\ req' = [req EXCEPT ![r].pc = "delete", ![r].due = -VoteOf(r)]
    /\ UNCHANGED <<vote, score, hidden, deleted, holder, edit, drifted>>

\* vote.delete() and UNLOCK TABLES.
Delete(r) ==
    /\ req[r].pc = "delete"
    /\ SetVote(r, 0)
    /\ holder' = NoReq
    /\ req' = [req EXCEPT ![r].pc = "score"]
    /\ UNCHANGED <<score, hidden, deleted, edit, drifted>>

\* update(score=F('score') +- ...), in the database, of no row once the comment
\* has been deleted.
Count(r) ==
    /\ req[r].pc = "score"
    /\ score' = IF deleted THEN score ELSE score + req[r].due
    /\ req' = [req EXCEPT ![r] = Over]
    /\ UNCHANGED <<vote, hidden, deleted, holder, edit, drifted>>

\* The process is killed; MySQL unlocks the tables of its connection.
Die(r) ==
    /\ req[r].pc \notin {"new", "done"}
    /\ req' = [req EXCEPT ![r] = Over]
    /\ holder' = IF holder = r THEN NoReq ELSE holder
    /\ drifted' = (drifted \/ req[r].pc = "score")
    /\ UNCHANGED <<vote, score, hidden, deleted, edit>>

-----------------------------------------------------------------------------
(* The other writers of the comment's row. *)

\* comment_hide.
Hide ==
    /\ ~deleted
    /\ hidden' = TRUE
    /\ UNCHANGED <<vote, score, deleted, req, holder, edit, drifted>>

\* CommentEditAjax loads the comment for a POST ...
Load(e) ==
    /\ ~deleted
    /\ edit[e].pc = "idle"
    /\ edit' = [edit EXCEPT ![e] = [pc |-> "loaded", score |-> score, hidden |-> hidden]]
    /\ UNCHANGED <<vote, score, hidden, deleted, req, holder, drifted>>

\* ... and form_valid saves the whole row: save() inserts it when there is none
\* to update.
Write(e) ==
    /\ edit[e].pc = "loaded"
    /\ score' = edit[e].score
    /\ hidden' = edit[e].hidden
    /\ deleted' = FALSE
    /\ drifted' = (drifted \/ edit[e].score # score)
    /\ edit' = [edit EXCEPT ![e] = NoEdit]
    /\ UNCHANGED <<vote, req, holder>>

\* The comment is deleted in the admin site and its votes with it, which waits
\* for the lock of their table.
Remove ==
    /\ ~deleted
    /\ holder = NoReq
    /\ deleted' = TRUE
    /\ drifted' = TRUE
    /\ vote' = [v \in Voter |-> 0]
    /\ score' = 0
    /\ hidden' = FALSE
    /\ UNCHANGED <<req, holder, edit>>

-----------------------------------------------------------------------------
Proceed(r) ==
    \/ Save(r) \/ Lock(r) \/ Retry(r) \/ Refuse(r)
    \/ Take(r) \/ Delete(r) \/ Count(r)

Next ==
    \/ \E r \in Request, d \in Delta : Post(r, d)
    \/ \E r \in Request : Proceed(r) \/ Die(r)
    \/ \E e \in Editor : Load(e) \/ Write(e)
    \/ Hide \/ Remove

Spec == Init /\ [][Next]_vars

\* A request that can proceed does: the Web's workers run, and MySQL grants
\* the lock of a table once nobody holds it.
FairSpec == Spec /\ \A r \in Request : WF_vars(Proceed(r))

-----------------------------------------------------------------------------
(* Properties *)

\* Every variable keeps its type.
TypeOK ==
    /\ vote \in [Voter -> -1..1]
    /\ score \in Int
    /\ hidden \in BOOLEAN
    /\ deleted \in BOOLEAN
    /\ req \in [Request -> ReqType]
    /\ holder \in Request \cup {NoReq}
    /\ edit \in [Editor -> EditType]
    /\ drifted \in BOOLEAN

\* A vote is deleted by one request only, and it is the vote the request has
\* read (LockModel around get and delete).
DeletesWhatItRead ==
    \A r \in Request : req[r].pc = "delete" =>
        /\ holder = r
        /\ VoteOf(r) # 0
        /\ VoteOf(r) = -req[r].due

\* The voters whose vote is n.
Votes(n) == {v \in Voter : vote[v] = n}

\* The requests that have changed a vote and still owe the score n for it.
Owing(n) == {r \in Request : req[r].pc = "score" /\ req[r].due = n}

Owed == Cardinality(Owing(1)) - Cardinality(Owing(-1))
Voted == Cardinality(Votes(1)) - Cardinality(Votes(-1))

\* However requests race, the score is the sum of the votes up to what the
\* requests that have changed a vote still owe it, as long as none of them
\* dies, no editor writes an older score back and the comment is there.
ScoreCountsVotes == drifted \/ score + Owed = Voted

\* Two requests of one voter do not keep each other in the loop of
\* vote_comment, nor behind the lock: every request that has reached it is
\* answered, unless the comment is deleted under it.  It then tries to save its
\* vote until it is killed.
Answered ==
    \A r \in Request : req[r].pc = "save" ~> req[r].pc = "done" \/ deleted
=============================================================================
