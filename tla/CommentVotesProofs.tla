------------------------- MODULE CommentVotesProofs -------------------------
(***************************************************************************)
(* The lock of vote_comment: a vote is deleted by the request that read    *)
(* it, for any number of requests, voters and editors, and the score stays *)
(* the sum of the votes.                                                   *)
(***************************************************************************)
EXTENDS CommentVotes, FiniteSetTheorems, TLAPS

\* Whoever is between LOCK TABLES and UNLOCK TABLES holds the lock.
Locked == \A r \in Request : req[r].pc \in {"get", "delete"} <=> holder = r

\* A request on its way asks for a vote up or down.
Asked == \A r \in Request : req[r].pc \notin {"new", "done"} => req[r].delta \in Delta

\* A comment that is not there has drifted.
Drifts == deleted => drifted

IInv == TypeOK /\ Locked /\ Asked /\ Drifts /\ DeletesWhatItRead

USE VoterOfType, NoReqType DEF Delta

\* The records a request takes are of its type.
LEMMA Records ==
    /\ Over \in ReqType /\ Over.pc = "done" /\ Over.due = 0
    /\ \A d \in Delta : LET asked == [pc |-> "save", delta |-> d, due |-> 0]
                       IN  asked \in ReqType /\ asked.pc = "save" /\ asked.delta = d
  <1>1. Over = [pc |-> "done", delta |-> 0, due |-> 0]
    BY DEF Over, Request0
  <1>2. Over \in ReqType /\ Over.pc = "done" /\ Over.due = 0
    BY <1>1 DEF ReqType
  <1>3. ASSUME NEW d \in Delta
        PROVE  LET asked == [pc |-> "save", delta |-> d, due |-> 0]
               IN  asked \in ReqType /\ asked.pc = "save" /\ asked.delta = d
    <2>2. d \in -1..1
      OBVIOUS
    <2> QED BY <2>2 DEF ReqType
  <1> QED BY <1>2, <1>3

LEMMA InitInv == Init => IInv
  <1> SUFFICES ASSUME Init PROVE IInv
    OBVIOUS
  <1>1. Request0 \in ReqType /\ Request0.pc = "new"
    BY DEF Request0, ReqType
  <1>2. NoEdit \in EditType
    BY DEF NoEdit, EditType
  <1>3. req \in [Request -> ReqType] /\ edit \in [Editor -> EditType]
    BY <1>1, <1>2 DEF Init
  <1>4. hidden \in BOOLEAN /\ deleted \in BOOLEAN /\ drifted \in BOOLEAN
    BY Zenon DEF Init
  <1>5. vote \in [Voter -> -1..1] /\ score \in Int /\ holder = NoReq
    BY DEF Init
  <1>6. \A r \in Request : req[r].pc = "new"
    BY <1>1 DEF Init
  <1>7. TypeOK
    BY <1>3, <1>4, <1>5 DEF TypeOK
  <1>8. Locked /\ Asked /\ Drifts /\ DeletesWhatItRead
    BY <1>5, <1>6 DEF Init, Locked, Asked, Drifts, DeletesWhatItRead
  <1> QED BY <1>7, <1>8 DEF IInv

\* A step of one request that leaves the votes alone.
LEMMA RequestStep ==
    ASSUME IInv, NEW r \in Request, NEW new \in ReqType,
           req' = [req EXCEPT ![r] = new], vote' = vote,
           score' \in Int, drifted' \in BOOLEAN, drifted => drifted',
           UNCHANGED <<hidden, deleted, edit>>,
           new.pc \notin {"new", "done"} => new.delta \in Delta,
           holder' \in Request \cup {NoReq},
           \A q \in Request : q # r => (holder' = q <=> holder = q),
           new.pc \in {"get", "delete"} <=> holder' = r,
           new.pc = "delete" => VoteOf(r) # 0 /\ VoteOf(r) = -new.due
    PROVE  IInv'
  <1>1. req'[r] = new /\ \A q \in Request : q # r => req'[q] = req[q]
    BY DEF IInv, TypeOK
  <1>2. TypeOK'
    BY <1>1, Zenon DEF IInv, TypeOK
  <1>3. Locked' /\ Asked' /\ Drifts'
    BY <1>1 DEF IInv, Locked, Asked, Drifts
  <1>4. DeletesWhatItRead'
    BY <1>1, <1>3 DEF IInv, DeletesWhatItRead, Locked, VoteOf
  <1> QED BY <1>2, <1>3, <1>4 DEF IInv

\* A step of one request that changes its voter's vote, and leaves the lock
\* to nobody.
LEMMA VoteStep ==
    ASSUME IInv, NEW r \in Request, NEW new \in ReqType, NEW n \in -1..1,
           req' = [req EXCEPT ![r] = new], SetVote(r, n),
           holder' = NoReq, holder \in {NoReq, r}, UNCHANGED <<score, hidden, deleted, edit, drifted>>,
           new.pc = "score", new.delta \in Delta
    PROVE  IInv'
  <1>1. req'[r] = new /\ \A q \in Request : q # r => req'[q] = req[q]
    BY DEF IInv, TypeOK
  <1>2. vote' \in [Voter -> -1..1] /\ req' \in [Request -> ReqType]
    BY DEF IInv, TypeOK, SetVote
  <1>3. TypeOK'
    BY <1>2, Zenon DEF IInv, TypeOK
  <1>4. Locked' /\ Asked' /\ Drifts'
    BY <1>1 DEF IInv, Locked, Asked, Drifts
  <1>5. DeletesWhatItRead'
    BY <1>1, <1>4 DEF DeletesWhatItRead, Locked
  <1> QED BY <1>3, <1>4, <1>5 DEF IInv

LEMMA StepInv == IInv /\ [Next]_vars => IInv'
  <1> SUFFICES ASSUME IInv, [Next]_vars PROVE IInv'
    OBVIOUS
  <1>1. /\ vote \in [Voter -> -1..1] /\ score \in Int /\ hidden \in BOOLEAN /\ deleted \in BOOLEAN
        /\ req \in [Request -> ReqType] /\ holder \in Request \cup {NoReq}
        /\ edit \in [Editor -> EditType] /\ drifted \in BOOLEAN
    BY DEF IInv, TypeOK
  <1>2. \A r \in Request : /\ VoteOf(r) \in -1..1
                           /\ req[r].delta \in -1..1 /\ req[r].due \in -1..1
    BY <1>1 DEF VoteOf, ReqType
  <1>3. \A r \in Request : req[r].pc \notin {"new", "done"} => req[r].delta \in Delta
    BY DEF IInv, Asked
  <1>4. \A r \in Request : req[r].pc \in {"get", "delete"} <=> holder = r
    BY DEF IInv, Locked
  <1>5. ASSUME NEW r \in Request, NEW d \in Delta, Post(r, d) PROVE IInv'
    <2> DEFINE new == IF hidden \/ deleted THEN Over ELSE [pc |-> "save", delta |-> d, due |-> 0]
    <2>1. req' = [req EXCEPT ![r] = new]
      BY <1>5 DEF Post
    <2>2. new \in ReqType /\ new.pc \in {"done", "save"} /\ (new.pc = "save" => new.delta = d)
      BY Records
    <2>3. holder # r
      BY <1>4, <1>5 DEF Post
    <2>4. vote' = vote /\ score' \in Int /\ drifted' \in BOOLEAN /\ (drifted => drifted') /\ holder' = holder /\ UNCHANGED <<hidden, deleted, edit>>
      BY <1>1, <1>5 DEF Post
    <2> HIDE DEF new
    <2> QED BY <1>1, <2>1, <2>2, <2>3, <2>4, RequestStep
  <1>6. ASSUME NEW r \in Request, Save(r) PROVE IInv'
    <2>1. holder = NoReq
      BY <1>4, <1>6 DEF Save
    <2>2. req[r].pc = "save" /\ req[r] \in ReqType /\ req[r].delta \in Delta
      BY <1>1, <1>3, <1>6 DEF Save
    <2>3. CASE VoteOf(r) = 0 /\ ~deleted
      <3> DEFINE new == [req[r] EXCEPT !.pc = "score", !.due = req[r].delta]
      <3>1. req' = [req EXCEPT ![r] = new] /\ SetVote(r, req[r].delta)
        BY <1>1, <1>6, <2>3 DEF Save
      <3>2. new \in ReqType /\ new.pc = "score" /\ new.delta = req[r].delta
        BY <2>2 DEF ReqType
      <3>3. holder' = NoReq /\ UNCHANGED <<score, hidden, deleted, edit, drifted>>
        BY <1>6, <2>1 DEF Save
      <3> HIDE DEF new
      <3> QED BY <1>2, <2>1, <2>2, <3>1, <3>2, <3>3, VoteStep
    <2>4. CASE ~(VoteOf(r) = 0 /\ ~deleted)
      <3> DEFINE new == [req[r] EXCEPT !.pc = "lock"]
      <3>1. req' = [req EXCEPT ![r] = new] /\ vote' = vote
        BY <1>1, <1>6, <2>4 DEF Save
      <3>2. new \in ReqType /\ new.pc = "lock" /\ new.delta = req[r].delta
        BY <2>2 DEF ReqType
      <3>3. holder' = holder /\ score' \in Int /\ drifted' \in BOOLEAN /\ (drifted => drifted') /\ UNCHANGED <<hidden, deleted, edit>>
        BY <1>1, <1>6 DEF Save
      <3> HIDE DEF new
      <3> QED BY <1>1, <2>1, <2>2, <3>1, <3>2, <3>3, RequestStep
    <2> QED BY <2>3, <2>4
  <1>7. ASSUME NEW r \in Request, Lock(r) PROVE IInv'
    <2> DEFINE new == [req[r] EXCEPT !.pc = "get"]
    <2>1. req' = [req EXCEPT ![r] = new] /\ vote' = vote /\ holder = NoReq /\ holder' = r
      BY <1>7 DEF Lock
    <2>2. new \in ReqType /\ new.pc = "get" /\ new.delta \in Delta
      BY <1>1, <1>3, <1>7 DEF Lock, ReqType
    <2>3. score' \in Int /\ drifted' \in BOOLEAN /\ (drifted => drifted') /\ UNCHANGED <<hidden, deleted, edit>>
      BY <1>1, <1>7 DEF Lock
    <2> HIDE DEF new
    <2> QED BY <1>1, <2>1, <2>2, <2>3, RequestStep
  <1>8. ASSUME NEW r \in Request, Retry(r) \/ Refuse(r) PROVE IInv'
    <2> DEFINE back == [req[r] EXCEPT !.pc = "save"]
    <2>1. /\ back \in ReqType /\ back.pc = "save" /\ back.delta \in Delta
          /\ Over \in ReqType /\ Over.pc = "done"
      BY <1>1, <1>3, <1>8 DEF Retry, Refuse, ReqType, Over, Request0
    <2>2. PICK new \in {back, Over} : req' = [req EXCEPT ![r] = new]
      BY <1>1, <1>8 DEF Retry, Refuse
    <2>3. new \in ReqType /\ new.pc \in {"save", "done"} /\ (new.pc = "save" => new.delta \in Delta)
      BY <2>1, <2>2
    <2>4. vote' = vote /\ holder' = NoReq /\ req[r].pc = "get"
      BY <1>8 DEF Retry, Refuse
    <2>5. holder = r
      BY <1>4, <2>4
    <2>6. score' \in Int /\ drifted' \in BOOLEAN /\ (drifted => drifted') /\ UNCHANGED <<hidden, deleted, edit>>
      BY <1>1, <1>8 DEF Retry, Refuse
    <2> QED BY <2>2, <2>3, <2>4, <2>5, <2>6, RequestStep
  <1>9. ASSUME NEW r \in Request, Take(r) PROVE IInv'
    <2> DEFINE new == [req[r] EXCEPT !.pc = "delete", !.due = -VoteOf(r)]
    <2>1. req' = [req EXCEPT ![r] = new] /\ vote' = vote /\ holder' = holder
      BY <1>9 DEF Take
    <2>2. req[r].pc = "get" /\ VoteOf(r) = -req[r].delta /\ req[r].delta \in Delta
      BY <1>3, <1>9 DEF Take
    <2>3. -VoteOf(r) \in -1..1 /\ VoteOf(r) # 0 /\ VoteOf(r) = -(-VoteOf(r))
      BY <1>2, <2>2
    <2>4. new \in ReqType /\ new.pc = "delete" /\ new.delta \in Delta /\ new.due = -VoteOf(r)
      BY <1>1, <2>2, <2>3 DEF ReqType
    <2>5. holder = r
      BY <1>4, <2>2
    <2>6. score' \in Int /\ drifted' \in BOOLEAN /\ (drifted => drifted') /\ UNCHANGED <<hidden, deleted, edit>>
      BY <1>1, <1>9 DEF Take
    <2> HIDE DEF new
    <2> QED BY <1>1, <2>1, <2>3, <2>4, <2>5, <2>6, RequestStep
  <1>10. ASSUME NEW r \in Request, Delete(r) PROVE IInv'
    <2> DEFINE new == [req[r] EXCEPT !.pc = "score"]
    <2>1. req' = [req EXCEPT ![r] = new] /\ SetVote(r, 0) /\ holder' = NoReq
      BY <1>10 DEF Delete
    <2>2. new \in ReqType /\ new.pc = "score" /\ new.delta \in Delta
      BY <1>1, <1>3, <1>10 DEF Delete, ReqType
    <2>3. holder = r
      BY <1>4, <1>10 DEF Delete
    <2>4. UNCHANGED <<score, hidden, deleted, edit, drifted>>
      BY <1>10 DEF Delete
    <2> HIDE DEF new
    <2>5. 0 \in -1..1
      OBVIOUS
    <2> QED BY <2>1, <2>2, <2>3, <2>4, <2>5, VoteStep
  <1>11. ASSUME NEW r \in Request, Count(r) \/ Die(r) PROVE IInv'
    <2> DEFINE new == Over
    <2>1. req' = [req EXCEPT ![r] = new] /\ vote' = vote
      BY <1>11 DEF Count, Die
    <2>2. new \in ReqType /\ new.pc = "done"
      BY DEF ReqType, Over, Request0
    <2>3. holder' = IF holder = r THEN NoReq ELSE holder
      BY <1>4, <1>11 DEF Count, Die
    <2>4. score' \in Int
      BY <1>1, <1>2, <1>11 DEF Count, Die
    <2>5. drifted' \in BOOLEAN /\ (drifted => drifted') /\ UNCHANGED <<hidden, deleted, edit>>
      BY <1>1, <1>11 DEF Count, Die
    <2> HIDE DEF new
    <2> QED BY <1>1, <2>1, <2>2, <2>3, <2>4, <2>5, RequestStep
  <1>12. ASSUME UNCHANGED <<vote, req, holder>>, score' \in Int, hidden' \in BOOLEAN,
                deleted' \in BOOLEAN, edit' \in [Editor -> EditType], drifted' \in BOOLEAN,
                deleted' => drifted'
         PROVE  IInv'
    <2>1. TypeOK'
      BY <1>1, <1>12, Zenon DEF TypeOK
    <2> QED BY <2>1, <1>12 DEF IInv, Locked, Asked, Drifts, DeletesWhatItRead, VoteOf
  <1>13. CASE Hide
    <2>1. hidden' \in BOOLEAN
      BY <1>13, Zenon DEF Hide
    <2>2. UNCHANGED <<vote, score, deleted, req, holder, edit, drifted>>
      BY <1>13 DEF Hide
    <2>3. score' \in Int /\ deleted' \in BOOLEAN /\ edit' \in [Editor -> EditType] /\ drifted' \in BOOLEAN
      BY <1>1, <2>2, Zenon
    <2>4. deleted' => drifted'
      BY <2>2 DEF IInv, Drifts
    <2> QED BY <1>12, <2>1, <2>2, <2>3, <2>4, Zenon
  <1>14. ASSUME NEW e \in Editor, Load(e) PROVE IInv'
    <2>1. [pc |-> "loaded", score |-> score, hidden |-> hidden] \in EditType
      BY <1>1 DEF EditType
    <2>2. edit' \in [Editor -> EditType]
      BY <1>1, <1>14, <2>1 DEF Load
    <2>3. deleted' \in BOOLEAN /\ drifted' \in BOOLEAN /\ hidden' \in BOOLEAN
      BY <1>1, <1>14, Zenon DEF Load
    <2> QED BY <1>1, <1>12, <1>14, <2>2, <2>3 DEF Load, IInv, Drifts
  <1>15. ASSUME NEW e \in Editor, Write(e) PROVE IInv'
    <2>1. NoEdit \in EditType
      BY DEF NoEdit, EditType
    <2>2. edit' \in [Editor -> EditType]
      BY <1>1, <1>15, <2>1 DEF Write
    <2>3. score' \in Int /\ hidden' \in BOOLEAN
      BY <1>1, <1>15 DEF Write, EditType
    <2>4. deleted' \in BOOLEAN /\ drifted' \in BOOLEAN
      BY <1>1, <1>15, Zenon DEF Write
    <2> QED BY <1>12, <1>15, <2>2, <2>3, <2>4 DEF Write
  <1>17. CASE Remove
    <2>1. deleted' \in BOOLEAN /\ drifted' \in BOOLEAN /\ hidden' \in BOOLEAN
      BY <1>17, Zenon DEF Remove
    <2>2. vote' \in [Voter -> -1..1] /\ score' \in Int /\ UNCHANGED <<req, holder, edit>>
      BY <1>17 DEF Remove
    <2>3. TypeOK'
      BY <1>1, <2>1, <2>2, Zenon DEF TypeOK
    <2>4. \A r \in Request : req[r].pc # "delete"
      BY <1>4, <1>17 DEF Remove
    <2> QED BY <1>17, <2>2, <2>3, <2>4 DEF IInv, Locked, Asked, Drifts, DeletesWhatItRead, Remove
  <1>16. CASE UNCHANGED vars
    <2>1. deleted' \in BOOLEAN /\ drifted' \in BOOLEAN /\ hidden' \in BOOLEAN
      BY <1>1, <1>16, Zenon DEF vars
    <2> QED BY <1>1, <1>12, <1>16, <2>1 DEF vars, IInv, Drifts
  <1> QED BY <1>5, <1>6, <1>7, <1>8, <1>9, <1>10, <1>11, <1>13, <1>14, <1>15, <1>16, <1>17 DEF Next, Proceed

THEOREM Invariance == Spec => []IInv
  BY InitInv, StepInv, PTL DEF Spec

-----------------------------------------------------------------------------
\* Every variable keeps its type.
THEOREM TypeCorrect == Spec => []TypeOK
  BY Invariance, PTL DEF IInv

\* A vote is deleted by one request only, and it is the one it has read.
THEOREM LockWorks == Spec => []DeletesWhatItRead
  BY Invariance, PTL DEF IInv

-----------------------------------------------------------------------------
(***************************************************************************)
(* The score, by how a step moves one voter and one request.               *)
(***************************************************************************)
Finite == IsFiniteSet(Request) /\ IsFiniteSet(Voter)

One(b) == IF b THEN 1 ELSE 0

\* What a request owes the score.
Owes(q) == IF q.pc = "score" THEN q.due ELSE 0

\* x leaves the set, and is in it afterwards when now holds.
LEMMA Moved ==
    ASSUME NEW S, IsFiniteSet(S), NEW x, NEW now \in BOOLEAN,
           NEW T, T = (S \ {x}) \cup (IF now THEN {x} ELSE {})
    PROVE  /\ Cardinality(S) \in Nat /\ Cardinality(T) \in Nat
           /\ Cardinality(T) = Cardinality(S) + One(now) - One(x \in S)
  <1> DEFINE R == S \ {x}
  <1>1. /\ IsFiniteSet(R) /\ x \notin R
        /\ Cardinality(R) = IF x \in S THEN Cardinality(S) - 1 ELSE Cardinality(S)
    BY FS_RemoveElement
  <1> HIDE DEF R
  <1>2. IsFiniteSet(R \cup {x}) /\ Cardinality(R \cup {x}) = Cardinality(R) + 1
    BY <1>1, FS_AddElement
  <1>3. Cardinality(S) \in Nat /\ Cardinality(R) \in Nat
    BY <1>1, FS_CardinalityType
  <1>4. T = IF now THEN R \cup {x} ELSE R
    BY DEF R
  <1>5. One(x \in S) = Cardinality(S) - Cardinality(R)
    BY <1>1, <1>3 DEF One
  <1>6. CASE now
    <2>1. Cardinality(T) = Cardinality(R) + 1 /\ One(now) = 1
      BY <1>2, <1>4, <1>6 DEF One
    <2> QED BY <1>3, <1>5, <2>1
  <1>7. CASE ~now
    <2>1. Cardinality(T) = Cardinality(R) /\ One(now) = 0
      BY <1>4, <1>7 DEF One
    <2> QED BY <1>3, <1>5, <2>1
  <1> QED BY <1>6, <1>7

\* The sum of the votes moves with one voter's vote,
LEMMA VotedMoves ==
    ASSUME TypeOK, Finite, NEW r \in Request, NEW n \in -1..1, SetVote(r, n)
    PROVE  Voted \in Int /\ Voted' = Voted + n - VoteOf(r)
  <1> DEFINE v == VoterOf[r]
  <1>1. /\ v \in Voter /\ VoteOf(r) = vote[v] /\ vote[v] \in -1..1
        /\ vote' = [vote EXCEPT ![v] = n] /\ vote \in [Voter -> -1..1]
    BY DEF TypeOK, VoteOf, SetVote
  <1> HIDE DEF v
  <1>2. ASSUME NEW m \in Delta
        PROVE  /\ Cardinality(Votes(m)) \in Nat
               /\ Cardinality(Votes(m))' = Cardinality(Votes(m)) + One(n = m) - One(vote[v] = m)
    <2> DEFINE S == Votes(m)
               T == {w \in Voter : vote'[w] = m}
    <2>1. IsFiniteSet(S)
      BY FS_Subset DEF Finite, Votes
    <2>2. T = (S \ {v}) \cup (IF n = m THEN {v} ELSE {})
      BY <1>1 DEF Votes
    <2>3. (v \in S) = (vote[v] = m) /\ Votes(m)' = T
      BY <1>1 DEF Votes
    <2> HIDE DEF S, T
    <2>4. Cardinality(S) \in Nat /\ Cardinality(T) = Cardinality(S) + One(n = m) - One(v \in S)
      BY <2>1, <2>2, Moved
    <2> QED BY <2>3, <2>4 DEF S
  <1>3. 1 \in Delta /\ -1 \in Delta
    OBVIOUS
  <1>4. /\ Voted = Cardinality(Votes(1)) - Cardinality(Votes(-1))
        /\ Voted' = Cardinality(Votes(1))' - Cardinality(Votes(-1))'
    BY DEF Voted
  <1> QED BY <1>1, <1>2, <1>3, <1>4 DEF One

\* and what is owed with one request.
LEMMA OwedMoves ==
    ASSUME TypeOK, Finite, NEW r \in Request, NEW new \in ReqType,
           req' = [req EXCEPT ![r] = new]
    PROVE  Owed \in Int /\ Owed' = Owed + Owes(new) - Owes(req[r])
  <1>1. req \in [Request -> ReqType] /\ req[r] \in ReqType
    BY DEF TypeOK
  <1>2. ASSUME NEW m \in Delta
        PROVE  /\ Cardinality(Owing(m)) \in Nat
               /\ Cardinality(Owing(m))'
                    = Cardinality(Owing(m)) + One(new.pc = "score" /\ new.due = m)
                                            - One(req[r].pc = "score" /\ req[r].due = m)
    <2> DEFINE S == Owing(m)
               T == {q \in Request : req'[q].pc = "score" /\ req'[q].due = m}
               now == new.pc = "score" /\ new.due = m
    <2>1. IsFiniteSet(S)
      BY FS_Subset DEF Finite, Owing
    <2>2. T = (S \ {r}) \cup (IF now THEN {r} ELSE {})
      BY <1>1 DEF Owing
    <2>3. (r \in S) = (req[r].pc = "score" /\ req[r].due = m) /\ Owing(m)' = T
      BY <1>1 DEF Owing
    <2>4. now \in BOOLEAN
      BY Zenon
    <2> HIDE DEF S, T, now
    <2>5. Cardinality(S) \in Nat /\ Cardinality(T) = Cardinality(S) + One(now) - One(r \in S)
      BY <2>1, <2>2, <2>4, Moved
    <2> QED BY <2>3, <2>5 DEF S, now
  <1>3. 1 \in Delta /\ -1 \in Delta
    OBVIOUS
  <1>4. /\ Owed = Cardinality(Owing(1)) - Cardinality(Owing(-1))
        /\ Owed' = Cardinality(Owing(1))' - Cardinality(Owing(-1))'
    BY DEF Owed
  <1>5. new.due \in -1..1 /\ req[r].due \in -1..1
    BY <1>1 DEF ReqType
  <1> QED BY <1>2, <1>3, <1>4, <1>5 DEF One, Owes

\* A step of a request that changes neither the votes nor what is owed.
LEMMA QuietStep ==
    ASSUME TypeOK, Finite, ScoreCountsVotes, NEW r \in Request, NEW new \in ReqType,
           req' = [req EXCEPT ![r] = new], Owes(new) = 0, Owes(req[r]) = 0,
           UNCHANGED <<vote, score>>, drifted => drifted'
    PROVE  ScoreCountsVotes'
  <1>1. Owed \in Int /\ Owed' = Owed + Owes(new) - Owes(req[r])
    BY OwedMoves
  <1>2. Owed' = Owed /\ Voted' = Voted
    BY <1>1 DEF Voted, Votes
  <1> QED BY <1>2 DEF ScoreCountsVotes

LEMMA StepCounts ==
    ASSUME IInv, Finite, ScoreCountsVotes, [Next]_vars
    PROVE  ScoreCountsVotes'
  <1>1. /\ TypeOK /\ vote \in [Voter -> -1..1] /\ score \in Int
        /\ req \in [Request -> ReqType]
        /\ \A r \in Request : req[r] \in ReqType /\ VoterOf[r] \in Voter
    BY DEF IInv, TypeOK
  <1>2. \A r \in Request : req[r].pc \notin {"new", "done"} => req[r].delta \in Delta
    BY DEF IInv, Asked
  <1>3. ASSUME NEW r \in Request, NEW d \in Delta, Post(r, d) PROVE ScoreCountsVotes'
    <2> DEFINE new == IF hidden \/ deleted THEN Over ELSE [pc |-> "save", delta |-> d, due |-> 0]
    <2>1. req' = [req EXCEPT ![r] = new] /\ req[r].pc = "new"
      BY <1>3 DEF Post
    <2>3. new \in ReqType /\ new.pc \in {"done", "save"}
      BY Records
    <2>4. UNCHANGED <<vote, score, drifted>>
      BY <1>3 DEF Post
    <2> HIDE DEF new
    <2> QED BY <1>1, <2>1, <2>3, <2>4, QuietStep DEF Owes
  <1>4. ASSUME NEW r \in Request, Save(r) PROVE ScoreCountsVotes'
    <2>1. req[r].pc = "save" /\ req[r].delta \in Delta /\ UNCHANGED <<score, drifted>>
      BY <1>2, <1>4 DEF Save
    <2>2. CASE VoteOf(r) = 0 /\ ~deleted
      <3> DEFINE new == [req[r] EXCEPT !.pc = "score", !.due = req[r].delta]
      <3>1. req' = [req EXCEPT ![r] = new] /\ SetVote(r, req[r].delta)
        BY <1>1, <1>4, <2>2 DEF Save
      <3>2. new \in ReqType /\ Owes(new) = req[r].delta /\ Owes(req[r]) = 0
        BY <1>1, <2>1 DEF ReqType, Owes
      <3> HIDE DEF new
      <3>3. Owed \in Int /\ Owed' = Owed + req[r].delta - 0
        BY <1>1, <3>1, <3>2, OwedMoves
      <3>4. Voted \in Int /\ Voted' = Voted + req[r].delta - 0
        BY <1>1, <2>1, <2>2, <3>1, VotedMoves
      <3> QED BY <1>1, <2>1, <3>3, <3>4 DEF ScoreCountsVotes
    <2>3. CASE ~(VoteOf(r) = 0 /\ ~deleted)
      <3> DEFINE new == [req[r] EXCEPT !.pc = "lock"]
      <3>1. req' = [req EXCEPT ![r] = new] /\ UNCHANGED vote
        BY <1>1, <1>4, <2>3 DEF Save
      <3>2. new \in ReqType /\ new.pc = "lock"
        BY <1>1 DEF ReqType
      <3> HIDE DEF new
      <3> QED BY <1>1, <2>1, <3>1, <3>2, QuietStep DEF Owes
    <2> QED BY <2>2, <2>3
  <1>5. ASSUME NEW r \in Request, NEW new \in ReqType, new.pc # "score",
               req[r].pc # "score", req' = [req EXCEPT ![r] = new],
               UNCHANGED <<vote, score>>, drifted => drifted'
        PROVE  ScoreCountsVotes'
    BY <1>1, <1>5, QuietStep DEF Owes
  <1>14. Over \in ReqType /\ Over.pc = "done"
    BY DEF Over, Request0, ReqType
  <1>6. ASSUME NEW r \in Request, Lock(r) \/ Retry(r) \/ Refuse(r) PROVE ScoreCountsVotes'
    <2> DEFINE moved(pc) == [req[r] EXCEPT !.pc = pc]
    <2>1. \A pc \in {"get", "save"} : moved(pc) \in ReqType /\ moved(pc).pc = pc
      BY <1>1 DEF ReqType
    <2>2. \E new \in {moved("get"), moved("save"), Over} : req' = [req EXCEPT ![r] = new]
      BY <1>1, <1>6 DEF Lock, Retry, Refuse
    <2>3. req[r].pc # "score" /\ UNCHANGED <<vote, score, drifted>>
      BY <1>6 DEF Lock, Retry, Refuse
    <2> HIDE DEF moved
    <2> QED BY <1>5, <1>14, <2>1, <2>2, <2>3
  <1>7. ASSUME NEW r \in Request, Take(r) PROVE ScoreCountsVotes'
    <2> DEFINE new == [req[r] EXCEPT !.pc = "delete", !.due = -VoteOf(r)]
    <2>1. req' = [req EXCEPT ![r] = new] /\ req[r].pc = "get" /\ UNCHANGED <<vote, score, drifted>>
      BY <1>1, <1>7 DEF Take
    <2>2. -VoteOf(r) \in -1..1
      BY <1>1 DEF VoteOf
    <2>3. new \in ReqType /\ new.pc = "delete"
      BY <1>1, <2>2 DEF ReqType
    <2> HIDE DEF new
    <2> QED BY <1>1, <2>1, <2>3, QuietStep DEF Owes
  <1>8. ASSUME NEW r \in Request, Delete(r) PROVE ScoreCountsVotes'
    <2> DEFINE new == [req[r] EXCEPT !.pc = "score"]
    <2>1. req' = [req EXCEPT ![r] = new] /\ SetVote(r, 0) /\ UNCHANGED <<score, drifted>>
      BY <1>1, <1>8 DEF Delete
    <2>2. req[r].pc = "delete" /\ VoteOf(r) = -req[r].due
      BY <1>8 DEF Delete, IInv, DeletesWhatItRead
    <2>3. new \in ReqType /\ Owes(new) = req[r].due /\ Owes(req[r]) = 0
      BY <1>1, <2>2 DEF ReqType, Owes
    <2> HIDE DEF new
    <2>4. req[r].due \in -1..1 /\ 0 \in -1..1
      BY <1>1 DEF ReqType
    <2>5. Owed \in Int /\ Owed' = Owed + req[r].due - 0
      BY <1>1, <2>1, <2>3, OwedMoves
    <2>6. Voted \in Int /\ Voted' = Voted + 0 - VoteOf(r)
      BY <1>1, <2>1, <2>4, VotedMoves
    <2> QED BY <1>1, <2>1, <2>2, <2>4, <2>5, <2>6 DEF ScoreCountsVotes
  <1>9. ASSUME NEW r \in Request, Count(r) PROVE ScoreCountsVotes'
    <2>1. /\ req' = [req EXCEPT ![r] = Over] /\ req[r].pc = "score" /\ UNCHANGED <<vote, drifted>>
          /\ score' = IF deleted THEN score ELSE score + req[r].due
      BY <1>9 DEF Count
    <2>2. Owes(Over) = 0 /\ Owes(req[r]) = req[r].due
      BY <1>14, <2>1 DEF Owes
    <2>3. req[r].due \in -1..1
      BY <1>1 DEF ReqType
    <2>4. Owed \in Int /\ Owed' = Owed + 0 - req[r].due
      BY <1>1, <1>14, <2>1, <2>2, OwedMoves
    <2>5. Voted' = Voted
      BY <2>1 DEF Voted, Votes
    <2>6. CASE deleted
      BY <2>1, <2>6 DEF IInv, Drifts, ScoreCountsVotes
    <2>7. CASE ~deleted
      BY <1>1, <2>1, <2>3, <2>4, <2>5, <2>7 DEF ScoreCountsVotes
    <2> QED BY <2>6, <2>7
  <1>10. ASSUME NEW r \in Request, Die(r) PROVE ScoreCountsVotes'
    <2>1. CASE req[r].pc = "score"
      BY <1>10, <2>1 DEF Die, ScoreCountsVotes
    <2>2. CASE req[r].pc # "score"
      BY <1>5, <1>10, <1>14, <2>2 DEF Die
    <2> QED BY <2>1, <2>2
  <1>11. ASSUME UNCHANGED <<vote, req>>, drifted' \/ (~drifted' /\ ~drifted /\ score' = score)
         PROVE  ScoreCountsVotes'
    BY <1>11 DEF ScoreCountsVotes, Owed, Owing, Voted, Votes
  <1>12. ASSUME NEW e \in Editor, Load(e) \/ Write(e) PROVE ScoreCountsVotes'
    BY <1>11, <1>12 DEF Load, Write
  <1>13. CASE Hide \/ UNCHANGED vars
    BY <1>11, <1>13 DEF Hide, vars
  <1>15. CASE Remove
    BY <1>15 DEF Remove, ScoreCountsVotes
  <1> QED BY <1>3, <1>4, <1>6, <1>7, <1>8, <1>9, <1>10, <1>12, <1>13, <1>15 DEF Next, Proceed

(***************************************************************************)
(* The score is the sum of the votes, up to what requests on their way     *)
(* still owe it: for any finite numbers of requests and voters and any     *)
(* number of editors, until a request dies owing or an editor writes an    *)
(* older score back.                                                       *)
(***************************************************************************)
THEOREM ScoreIsCounted == ASSUME Finite PROVE Spec => []ScoreCountsVotes
  <1>1. Init => ScoreCountsVotes
    <2> SUFFICES ASSUME Init PROVE ScoreCountsVotes
      OBVIOUS
    <2>1. Votes(1) = {} /\ Votes(-1) = {}
      BY DEF Init, Votes
    <2>2. Owing(1) = {} /\ Owing(-1) = {}
      BY DEF Init, Owing, Request0
    <2> QED BY <2>1, <2>2, FS_EmptySet DEF Init, ScoreCountsVotes, Owed, Voted
  <1>2. IInv /\ ScoreCountsVotes /\ [Next]_vars => ScoreCountsVotes'
    BY StepCounts
  <1> QED BY <1>1, <1>2, Invariance, PTL DEF Spec
=============================================================================
