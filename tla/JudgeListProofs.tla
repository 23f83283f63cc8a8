-------------------------- MODULE JudgeListProofs --------------------------
(* Theorems about JudgeList for every value of its constants. *)
EXTENDS JudgeList, SequenceTheorems, TLAPS

(***************************************************************************)
(* RemoveAt: what a removed node leaves behind.  The nodes before it stay  *)
(* in place, the ones after it move up by one.                             *)
(***************************************************************************)
LEMMA RemoveAtProperties ==
    ASSUME NEW S, NEW q \in Seq(S), NEW i \in 1 .. Len(q)
    PROVE  /\ RemoveAt(q, i) \in Seq(S)
           /\ Len(RemoveAt(q, i)) = Len(q) - 1
           /\ \A k \in 1 .. Len(q) - 1 :
                RemoveAt(q, i)[k] = IF k < i THEN q[k] ELSE q[k + 1]
  <1> DEFINE front == SubSeq(q, 1, i - 1)
             back  == SubSeq(q, i + 1, Len(q))
  <1>1. /\ Len(q) \in Nat
        /\ \A k \in 1 .. Len(q) : q[k] \in S
    BY LenProperties, ElementOfSeq
  <1>2. /\ front \in Seq(S) /\ Len(front) = i - 1
        /\ \A k \in 1 .. i - 1 : front[k] = q[k]
    <2>1. \A k \in 1 .. i - 1 : q[k] \in S
      BY <1>1
    <2>2. /\ front \in Seq(S)
          /\ Len(front) = IF 1 <= i - 1 THEN (i - 1) - 1 + 1 ELSE 0
          /\ \A k \in 1 .. (i - 1) - 1 + 1 : front[k] = q[1 + k - 1]
      BY <2>1, SubSeqProperties
    <2> QED BY <2>2, <1>1
  <1>3. /\ back \in Seq(S) /\ Len(back) = Len(q) - i
        /\ \A k \in 1 .. Len(q) - i : back[k] = q[i + k]
    <2>1. \A k \in i + 1 .. Len(q) : q[k] \in S
      BY <1>1
    <2>2. /\ back \in Seq(S)
          /\ Len(back) = IF i + 1 <= Len(q) THEN Len(q) - (i + 1) + 1 ELSE 0
          /\ \A k \in 1 .. Len(q) - (i + 1) + 1 : back[k] = q[(i + 1) + k - 1]
      BY <2>1, <1>1, SubSeqProperties
    <2> QED BY <2>2, <1>1
  <1>4. /\ front \o back \in Seq(S)
        /\ Len(front \o back) = Len(front) + Len(back)
        /\ \A k \in 1 .. Len(front) + Len(back) :
             (front \o back)[k] = IF k <= Len(front) THEN front[k] ELSE back[k - Len(front)]
    BY <1>2, <1>3, ConcatProperties
  <1>5. RemoveAt(q, i) = front \o back
    BY DEF RemoveAt
  <1> HIDE DEF front, back
  <1>6. Len(front) + Len(back) = Len(q) - 1
    BY <1>1, <1>2, <1>3
  <1>7. ASSUME NEW k \in 1 .. Len(q) - 1
        PROVE  (front \o back)[k] = IF k < i THEN q[k] ELSE q[k + 1]
    <2>1. CASE k < i
      BY <2>1, <1>1, <1>2, <1>4, <1>6
    <2>2. CASE ~(k < i)
      <3>1. (front \o back)[k] = back[k - (i - 1)]
        BY <2>2, <1>1, <1>2, <1>4, <1>6
      <3>2. k - (i - 1) \in 1 .. Len(q) - i /\ i + (k - (i - 1)) = k + 1
        BY <2>2, <1>1
      <3> QED BY <2>2, <3>1, <3>2, <1>3
    <2> QED BY <2>1, <2>2
  <1> QED BY <1>4, <1>5, <1>6, <1>7

-----------------------------------------------------------------------------
(***************************************************************************)
(* Type correctness.                                                       *)
(***************************************************************************)

\* An empty list has the right type.
LEMMA InitTypeOK == Init => TypeOK
  <1> SUFFICES ASSUME Init PROVE TypeOK
    OBVIOUS
  <1>1. queue \in [Priority -> Seq(Entry)]
    BY EmptySeq DEF Init
  <1>2. handler \in [Conn -> Handler]
    BY DEF Init, NewHandler, Handler
  <1> QED BY <1>1, <1>2 DEF Init, TypeOK, Step

\* An entry of the queue is an entry.
LEMMA PositionProperties ==
    ASSUME TypeOK, NEW pos \in Positions
    PROVE  /\ pos[1] \in Priority
           /\ pos[2] \in 1 .. Len(queue[pos[1]])
           /\ pos = <<pos[1], pos[2]>>
           /\ EntryAt(pos) \in Entry
           /\ EntryAt(pos).id \in Sub
  <1>1. PICK p \in Priority : pos \in {p} \X DOMAIN queue[p]
    BY DEF Positions
  <1>2. queue[p] \in Seq(Entry)
    BY DEF TypeOK
  <1>3. DOMAIN queue[p] = 1 .. Len(queue[p])
    BY <1>2, LenProperties
  <1>4. pos[1] = p /\ pos[2] \in 1 .. Len(queue[p]) /\ pos = <<pos[1], pos[2]>>
    BY <1>1, <1>3
  <1>5. queue[p][pos[2]] \in Entry
    BY <1>2, <1>4, ElementOfSeq
  <1> QED BY <1>4, <1>5 DEF EntryAt, Entry

\* What the dispatcher may change is well typed.
ListTypeOK ==
    /\ judges \subseteq Conn
    /\ handler \in [Conn -> Handler]
    /\ queue \in [Priority -> Seq(Entry)]
    /\ node_map \subseteq Sub
    /\ submission_map \in [Sub -> Conn \cup {NoConn}]

\* JudgeHandler.submit, successful or not, keeps the types.
LEMMA SubmitTypeOK ==
    ASSUME NEW c \in Conn, NEW s \in Sub, NEW J \in SUBSET Conn,
           NEW H \in [Conn -> Handler], NEW M \in [Sub -> Conn \cup {NoConn}],
           Submitted(c, s, J, H, M) \/ SubmitFailed(c, s, J, H, M)
    PROVE  /\ judges' \subseteq Conn
           /\ handler' \in [Conn -> Handler]
           /\ submission_map' \in [Sub -> Conn \cup {NoConn}]
  <1>1. H[c] \in Handler
    OBVIOUS
  <1>2. handler' \in [Conn -> Handler]
    <2>1. CASE handler' = [H EXCEPT ![c].working = s, ![c].job = @ \cup {s}]
      <3>1. [H[c] EXCEPT !.working = s, !.job = @ \cup {s}] \in Handler
        BY <1>1 DEF Handler
      <3> QED BY <2>1, <3>1
    <2>2. CASE handler' = [H EXCEPT ![c].working = s]
      <3>1. [H[c] EXCEPT !.working = s] \in Handler
        BY <1>1 DEF Handler
      <3> QED BY <2>2, <3>1
    <2> QED BY <2>1, <2>2 DEF Submitted, SubmitFailed
  <1> QED BY <1>2 DEF Submitted, SubmitFailed

\* A walk of the queue keeps the types, whatever values it starts from.
LEMMA HandleFreeJudgeTypeOK ==
    ASSUME TypeOK, NEW c \in Conn, NEW J \in SUBSET Conn,
           NEW H \in [Conn -> Handler], NEW M \in [Sub -> Conn \cup {NoConn}],
           HandleFreeJudge(c, J, H, M)
    PROVE  ListTypeOK'
  <1>1. CASE Eligible(c, J, H) = {} /\ judges' = J /\ handler' = H /\ submission_map' = M
             /\ UNCHANGED <<queue, node_map>>
    BY <1>1 DEF TypeOK, ListTypeOK
  <1>2. ASSUME NEW pos \in Eligible(c, J, H),
               \/ /\ Submitted(c, EntryAt(pos).id, J, H, M)
                  /\ queue' = [queue EXCEPT ![pos[1]] = RemoveAt(@, pos[2])]
                  /\ node_map' = node_map \ {EntryAt(pos).id}
               \/ /\ SubmitFailed(c, EntryAt(pos).id, J, H, M)
                  /\ UNCHANGED <<queue, node_map>>
        PROVE  ListTypeOK'
    <2>1. pos \in Positions
      BY <1>2 DEF Eligible
    <2>2. /\ judges' \subseteq Conn
          /\ handler' \in [Conn -> Handler]
          /\ submission_map' \in [Sub -> Conn \cup {NoConn}]
      BY <1>2, <2>1, PositionProperties, SubmitTypeOK
    <2>3. RemoveAt(queue[pos[1]], pos[2]) \in Seq(Entry)
      BY <2>1, PositionProperties, RemoveAtProperties DEF TypeOK
    <2> QED BY <1>2, <2>1, <2>2, <2>3, PositionProperties DEF TypeOK, ListTypeOK
  <1> QED BY <1>1, <1>2 DEF HandleFreeJudge

\* Type correctness of judge,
LEMMA JudgeTypeOK ==
    ASSUME TypeOK, NEW s \in Sub, NEW p \in Priority, NEW j \in Name \cup {NoName},
           Judge(s, p, j)
    PROVE  TypeOK'
  <1> DEFINE e == [id |-> s, judge_id |-> j]
  <1>1. ASSUME NEW c \in Available(e, p),
               \/ Submitted(c, s, judges, handler, submission_map)
               \/ SubmitFailed(c, s, judges, handler, submission_map),
               UNCHANGED <<queue, node_map, step, closed>>
        PROVE  TypeOK'
    <2>1. c \in Conn
      BY DEF Available, Candidates, TypeOK
    <2> QED BY <1>1, <2>1, SubmitTypeOK DEF TypeOK
  <1>2. ASSUME queue' = [queue EXCEPT ![p] = Inserted(@, e)],
               node_map' = node_map \cup {s},
               UNCHANGED <<judges, handler, submission_map, step, closed>>
        PROVE  TypeOK'
    <2>1. Append(queue[p], e) \in Seq(Entry)
      BY AppendProperties DEF TypeOK, Entry
    <2> QED BY <1>2, <2>1 DEF TypeOK, Inserted
  <1> QED BY <1>1, <1>2 DEF Judge

\* abort,
LEMMA AbortTypeOK ==
    ASSUME TypeOK, NEW s \in Sub, Abort(s)
    PROVE  TypeOK'
  <1>1. PICK pos \in Positions :
          queue' = [queue EXCEPT ![pos[1]] = RemoveAt(@, pos[2])]
    BY DEF Abort
  <1>2. RemoveAt(queue[pos[1]], pos[2]) \in Seq(Entry)
    BY PositionProperties, RemoveAtProperties DEF TypeOK
  <1> QED BY <1>1, <1>2, PositionProperties DEF TypeOK, Abort

\* register,
LEMMA RegisterTypeOK ==
    ASSUME TypeOK, NEW c \in Conn, NEW n \in Name, NEW P \in Lists, Register(c, n, P)
    PROVE  TypeOK'
  <1> DEFINE H == [handler EXCEPT ![c] = NewHandler(n, P)]
  <1>1. NewHandler(n, P) \in Handler
    BY JudgeListAssumption DEF NewHandler, Handler
  <1>2. H \in [Conn -> Handler] /\ judges \cup {c} \in SUBSET Conn
    BY <1>1 DEF TypeOK
  <1>3. HandleFreeJudge(c, judges \cup {c}, H, submission_map)
    BY DEF Register
  <1> HIDE DEF H
  <1>4. ListTypeOK'
    BY <1>2, <1>3, HandleFreeJudgeTypeOK DEF TypeOK
  <1>5. step' \in [Conn -> Step] /\ closed' \subseteq Conn
    BY DEF Register, TypeOK, Step, SameName
  <1> QED BY <1>4, <1>5 DEF TypeOK, ListTypeOK

\* on_judge_free,
LEMMA OnJudgeFreeTypeOK ==
    ASSUME TypeOK, NEW c \in Conn, NEW s \in Sub, OnJudgeFree(c, s)
    PROVE  TypeOK'
  <1> DEFINE told == [handler EXCEPT ![c].job = @ \ {s}]
             H == [told EXCEPT ![c].working = NoSub]
             M == Unmapped(submission_map, s)
  <1>1. [handler[c] EXCEPT !.job = @ \ {s}] \in Handler
    BY DEF TypeOK, Handler
  <1>2. told \in [Conn -> Handler]
    BY <1>1 DEF TypeOK
  <1>3. [told[c] EXCEPT !.working = NoSub] \in Handler
    BY <1>2 DEF Handler
  <1>4. H \in [Conn -> Handler]
    BY <1>2, <1>3
  <1>5. M \in [Sub -> Conn \cup {NoConn}]
    BY DEF TypeOK, Unmapped
  <1>6. \/ handler' = told /\ UNCHANGED <<judges, queue, node_map, submission_map>>
        \/ HandleFreeJudge(c, judges, H, M)
    BY DEF OnJudgeFree
  <1> HIDE DEF told, H, M
  <1>7. ListTypeOK'
    <2>1. CASE handler' = told /\ UNCHANGED <<judges, queue, node_map, submission_map>>
      BY <2>1, <1>2 DEF TypeOK, ListTypeOK
    <2>2. CASE HandleFreeJudge(c, judges, H, M)
      BY <2>2, <1>4, <1>5, HandleFreeJudgeTypeOK DEF TypeOK
    <2> QED BY <2>1, <2>2, <1>6
  <1> QED BY <1>7 DEF TypeOK, ListTypeOK, OnJudgeFree

\* remove
LEMMA RemoveJudgeTypeOK ==
    ASSUME TypeOK, NEW c \in Conn, RemoveJudge(c)
    PROVE  TypeOK'
  <1> DEFINE J == judges \ {c}
             H == [handler EXCEPT ![c].job = {}]
             M == Unmapped(submission_map, handler[c].working)
  <1>1. [handler[c] EXCEPT !.job = {}] \in Handler
    BY DEF TypeOK, Handler
  <1>2. H \in [Conn -> Handler] /\ J \in SUBSET Conn
    BY <1>1 DEF TypeOK
  <1>3. M \in [Sub -> Conn \cup {NoConn}]
    BY DEF TypeOK, Unmapped
  <1>4. \/ judges' = J /\ handler' = H /\ submission_map' = M /\ UNCHANGED <<queue, node_map>>
        \/ \E d \in SoleFree(J, H) : HandleFreeJudge(d, J, H, M)
    BY DEF RemoveJudge
  <1>5. SoleFree(J, H) \subseteq Conn
    BY <1>2 DEF SoleFree
  <1> HIDE DEF J, H, M
  <1>6. ListTypeOK'
    <2>1. CASE judges' = J /\ handler' = H /\ submission_map' = M /\ UNCHANGED <<queue, node_map>>
      BY <2>1, <1>2, <1>3 DEF TypeOK, ListTypeOK
    <2>2. ASSUME NEW d \in SoleFree(J, H), HandleFreeJudge(d, J, H, M)
          PROVE  ListTypeOK'
      BY <2>2, <1>2, <1>3, <1>5, HandleFreeJudgeTypeOK
    <2> QED BY <2>1, <2>2, <1>4
  <1>7. step' \in [Conn -> Step] /\ closed' \subseteq Conn
    BY DEF RemoveJudge, TypeOK, Step
  <1> QED BY <1>6, <1>7 DEF TypeOK, ListTypeOK

\* and update_problems.
LEMMA UpdateProblemsTypeOK ==
    ASSUME TypeOK, NEW c \in Conn, UpdateProblems(c)
    PROVE  TypeOK'
  <1>1. HandleFreeJudge(c, judges, handler, submission_map)
    BY DEF UpdateProblems
  <1>2. ListTypeOK'
    BY <1>1, HandleFreeJudgeTypeOK DEF TypeOK
  <1> QED BY <1>2 DEF TypeOK, ListTypeOK, UpdateProblems, Step

\* Every step keeps the types.
LEMMA NextTypeOK == TypeOK /\ [Next]_vars => TypeOK'
  <1> SUFFICES ASSUME TypeOK, [Next]_vars PROVE TypeOK'
    OBVIOUS
  <1>1. ASSUME NEW s \in Sub, NEW p \in Priority, NEW j \in Name \cup {NoName}, Judge(s, p, j)
        PROVE  TypeOK'
    BY <1>1, JudgeTypeOK
  <1>2. ASSUME NEW s \in Sub, Abort(s) PROVE TypeOK'
    BY <1>2, AbortTypeOK
  <1>3. ASSUME NEW c \in Conn, NEW n \in Name, NEW P \in Lists, Register(c, n, P)
        PROVE  TypeOK'
    BY <1>3, RegisterTypeOK
  <1>4. ASSUME NEW c \in Conn, NEW b \in BOOLEAN, LoadDisabled(c, b) PROVE TypeOK'
    <2>1. [handler[c] EXCEPT !.disabled = b] \in Handler
      BY DEF TypeOK, Handler
    <2> QED BY <1>4, <2>1 DEF LoadDisabled, TypeOK, Step
  <1>5. ASSUME NEW n \in Name, NEW b \in BOOLEAN, UpdateDisableJudge(n, b) PROVE TypeOK'
    <2>1. \A d \in Conn : [handler[d] EXCEPT !.disabled = b] \in Handler
      BY DEF TypeOK, Handler
    <2> QED BY <1>5, <2>1 DEF UpdateDisableJudge, TypeOK
  <1>6. ASSUME NEW n \in Name, Disconnect(n) PROVE TypeOK'
    BY <1>6 DEF Disconnect, TypeOK
  <1>7. ASSUME NEW c \in Conn, NEW s \in Sub, OnJudgeFree(c, s) PROVE TypeOK'
    BY <1>7, OnJudgeFreeTypeOK
  <1>8. ASSUME NEW c \in Conn, RemoveJudge(c) PROVE TypeOK'
    BY <1>8, RemoveJudgeTypeOK
  <1>9. ASSUME NEW c \in Conn, NEW P \in Lists, SupportedProblems(c, P) PROVE TypeOK'
    <2>1. P \in SUBSET Kind
      BY JudgeListAssumption
    <2>2. [handler[c] EXCEPT !.problems = P] \in Handler
      BY <2>1 DEF TypeOK, Handler
    <2> QED BY <1>9, <2>2 DEF SupportedProblems, TypeOK, Step
  <1>10. ASSUME NEW c \in Conn, ReadWorking(c) PROVE TypeOK'
    BY <1>10 DEF ReadWorking, TypeOK, Step
  <1>11. ASSUME NEW c \in Conn, UpdateProblems(c) PROVE TypeOK'
    BY <1>11, UpdateProblemsTypeOK
  <1>12. CASE UNCHANGED vars
    BY <1>12 DEF vars, TypeOK
  <1>13. 0 .. REJUDGE_PRIORITY - 1 \subseteq Priority
    BY DEF Priority, REJUDGE_PRIORITY
  <1> QED
    BY <1>1, <1>2, <1>3, <1>4, <1>5, <1>6, <1>7, <1>8, <1>9, <1>10, <1>11, <1>12, <1>13 DEF Next

(***************************************************************************)
(* The dispatcher's state keeps its type, whatever faults occur.           *)
(***************************************************************************)
THEOREM TypeCorrect == Spec => []TypeOK
  <1>1. Init => TypeOK
    BY InitTypeOK
  <1>2. TypeOK /\ [Next]_vars => TypeOK'
    BY NextTypeOK
  <1> QED BY <1>1, <1>2, PTL DEF Spec

-----------------------------------------------------------------------------
(***************************************************************************)
(* The queue and node_map agree, whatever faults occur.                    *)
(***************************************************************************)

\* QueueWellFormed for a queue q and a set N of ids, by class and place.
QueueForm(q, N) ==
    /\ \A s \in N : \E p \in Priority : \E k \in 1 .. Len(q[p]) : q[p][k].id = s
    /\ \A p \in Priority : \A k \in 1 .. Len(q[p]) : q[p][k].id \in N
    /\ \A p, r \in Priority : \A k \in 1 .. Len(q[p]), l \in 1 .. Len(q[r]) :
         q[p][k].id = q[r][l].id => p = r /\ k = l

\* QueueForm speaks of classes and indices where QueueWellFormed has positions:
LEMMA QueueFormEquivalent ==
    ASSUME NEW q \in [Priority -> Seq(Entry)], NEW N \in SUBSET Sub
    PROVE  LET positions == UNION {{p} \X DOMAIN q[p] : p \in Priority}
           IN  QueueForm(q, N) <=>
                 /\ \A s \in Sub : s \in N <=> \E pos \in positions : q[pos[1]][pos[2]].id = s
                 /\ \A a, b \in positions :
                      q[a[1]][a[2]].id = q[b[1]][b[2]].id => a = b
  <1> DEFINE positions == UNION {{p} \X DOMAIN q[p] : p \in Priority}
  <1>1. \A p \in Priority : DOMAIN q[p] = 1 .. Len(q[p])
    BY LenProperties
  <1>2. \A p \in Priority : \A k \in 1 .. Len(q[p]) :
          /\ <<p, k>> \in positions
          /\ q[p][k].id \in Sub
    <2> SUFFICES ASSUME NEW p \in Priority, NEW k \in 1 .. Len(q[p])
                 PROVE  <<p, k>> \in positions /\ q[p][k].id \in Sub
      OBVIOUS
    <2>1. <<p, k>> \in {p} \X DOMAIN q[p]
      BY <1>1
    <2>2. q[p][k] \in Entry
      BY ElementOfSeq
    <2> QED BY <2>1, <2>2 DEF Entry
  <1>3. \A a \in positions : /\ a[1] \in Priority
                             /\ a[2] \in 1 .. Len(q[a[1]])
                             /\ a = <<a[1], a[2]>>
    BY <1>1
  <1> HIDE DEF positions
  <1>4. ASSUME QueueForm(q, N)
        PROVE  /\ \A s \in Sub : s \in N <=> \E pos \in positions : q[pos[1]][pos[2]].id = s
               /\ \A a, b \in positions :
                    q[a[1]][a[2]].id = q[b[1]][b[2]].id => a = b
    <2>1. ASSUME NEW s \in N PROVE \E pos \in positions : q[pos[1]][pos[2]].id = s
      <3>1. PICK p \in Priority : \E k \in 1 .. Len(q[p]) : q[p][k].id = s
        BY <1>4 DEF QueueForm
      <3>2. PICK k \in 1 .. Len(q[p]) : q[p][k].id = s
        BY <3>1
      <3>3. <<p, k>> \in positions /\ q[<<p, k>>[1]][<<p, k>>[2]].id = s
        BY <3>2, <1>2
      <3> QED BY <3>3
    <2>2. ASSUME NEW pos \in positions PROVE q[pos[1]][pos[2]].id \in N
      BY <1>3, <1>4 DEF QueueForm
    <2>3. ASSUME NEW a \in positions, NEW b \in positions,
                 q[a[1]][a[2]].id = q[b[1]][b[2]].id
          PROVE  a = b
      <3>1. a[1] = b[1] /\ a[2] = b[2]
        BY <1>3, <1>4, <2>3 DEF QueueForm
      <3> QED BY <3>1, <1>3
    <2> QED BY <2>1, <2>2, <2>3
  <1>5. ASSUME /\ \A s \in Sub : s \in N <=> \E pos \in positions : q[pos[1]][pos[2]].id = s
               /\ \A a, b \in positions :
                    q[a[1]][a[2]].id = q[b[1]][b[2]].id => a = b
        PROVE  QueueForm(q, N)
    <2>1. ASSUME NEW s \in N
          PROVE  \E p \in Priority : \E k \in 1 .. Len(q[p]) : q[p][k].id = s
      <3>1. PICK pos \in positions : q[pos[1]][pos[2]].id = s
        BY <1>5
      <3> QED BY <3>1, <1>3
    <2>2. ASSUME NEW p \in Priority, NEW k \in 1 .. Len(q[p]) PROVE q[p][k].id \in N
      <3>1. q[<<p, k>>[1]][<<p, k>>[2]].id = q[p][k].id
        OBVIOUS
      <3> QED BY <1>2, <1>5, <3>1
    <2>3. ASSUME NEW p \in Priority, NEW r \in Priority,
                 NEW k \in 1 .. Len(q[p]), NEW l \in 1 .. Len(q[r]),
                 q[p][k].id = q[r][l].id
          PROVE  p = r /\ k = l
      <3>1. <<p, k>> = <<r, l>>
        BY <1>2, <1>5, <2>3
      <3> QED BY <3>1
    <2> QED BY <2>1, <2>2, <2>3 DEF QueueForm
  <1> QED BY <1>4, <1>5 DEF positions

\* they say the same of the queue and node_map.
LEMMA QueueWellFormedIsForm ==
    /\ TypeOK => (QueueWellFormed <=> QueueForm(queue, node_map))
    /\ TypeOK' => (QueueWellFormed' <=> QueueForm(queue', node_map'))
  <1>1. ASSUME TypeOK PROVE QueueWellFormed <=> QueueForm(queue, node_map)
    BY <1>1, QueueFormEquivalent DEF QueueWellFormed, Positions, EntryAt, TypeOK
  <1>2. ASSUME TypeOK' PROVE QueueWellFormed' <=> QueueForm(queue', node_map')
    BY <1>2, QueueFormEquivalent DEF QueueWellFormed, Positions, EntryAt, TypeOK
  <1> QED BY <1>1, <1>2

\* Removing a node and its id keeps the agreement,
LEMMA RemovalKeepsForm ==
    ASSUME NEW q \in [Priority -> Seq(Entry)], NEW N \in SUBSET Sub, QueueForm(q, N),
           NEW p \in Priority, NEW i \in 1 .. Len(q[p])
    PROVE  QueueForm([q EXCEPT ![p] = RemoveAt(@, i)], N \ {q[p][i].id})
  <1> DEFINE r == [q EXCEPT ![p] = RemoveAt(@, i)]
             old(x, k) == IF x = p /\ k >= i THEN k + 1 ELSE k
  <1>1. /\ r[p] = RemoveAt(q[p], i)
        /\ \A x \in Priority : x # p => r[x] = q[x]
    OBVIOUS
  <1>2. /\ Len(r[p]) = Len(q[p]) - 1
        /\ \A k \in 1 .. Len(q[p]) - 1 : r[p][k] = IF k < i THEN q[p][k] ELSE q[p][k + 1]
    <2>1. q[p] \in Seq(Entry)
      OBVIOUS
    <2> HIDE DEF r
    <2> QED BY <1>1, <2>1, RemoveAtProperties
  <1>3. \A x \in Priority : Len(q[x]) \in Nat
    BY LenProperties
  <1> HIDE DEF r
  <1>4. ASSUME NEW x \in Priority, NEW k \in 1 .. Len(r[x])
        PROVE  /\ old(x, k) \in 1 .. Len(q[x])
               /\ r[x][k] = q[x][old(x, k)]
               /\ ~(x = p /\ old(x, k) = i)
    <2>1. CASE x = p
      BY <2>1, <1>2, <1>3
    <2>2. CASE x # p
      BY <2>2, <1>1, <1>3
    <2> QED BY <2>1, <2>2
  <1>5. ASSUME NEW x \in Priority, NEW l \in 1 .. Len(q[x]), ~(x = p /\ l = i)
        PROVE  \E k \in 1 .. Len(r[x]) : r[x][k] = q[x][l]
    <2>1. CASE x = p
      <3>1. CASE l < i
        BY <2>1, <3>1, <1>2, <1>3
      <3>2. CASE l > i
        <4>1. l - 1 \in 1 .. Len(r[p]) /\ ~(l - 1 < i) /\ (l - 1) + 1 = l
          BY <2>1, <3>2, <1>2, <1>3
        <4>2. l - 1 \in 1 .. Len(q[p]) - 1
          BY <4>1, <1>2
        <4>3. r[p][l - 1] = q[p][l]
          BY <1>2, <4>1, <4>2
        <4> QED BY <2>1, <4>1, <4>3
      <3> QED BY <2>1, <3>1, <3>2, <1>5, <1>3
    <2>2. CASE x # p
      BY <2>2, <1>1, <1>3
    <2> QED BY <2>1, <2>2
  <1>6. ASSUME NEW s \in N \ {q[p][i].id}
        PROVE  \E x \in Priority : \E k \in 1 .. Len(r[x]) : r[x][k].id = s
    <2>1. PICK x \in Priority : \E l \in 1 .. Len(q[x]) : q[x][l].id = s
      BY DEF QueueForm
    <2>2. PICK l \in 1 .. Len(q[x]) : q[x][l].id = s
      BY <2>1
    <2> QED BY <2>2, <1>5
  <1>7. ASSUME NEW x \in Priority, NEW k \in 1 .. Len(r[x])
        PROVE  r[x][k].id \in N \ {q[p][i].id}
    <2> DEFINE o == old(x, k)
    <2>1. o \in 1 .. Len(q[x]) /\ r[x][k] = q[x][o] /\ ~(x = p /\ o = i)
      BY <1>4
    <2> HIDE DEF o
    <2> QED BY <2>1 DEF QueueForm
  <1>8. ASSUME NEW x \in Priority, NEW y \in Priority,
               NEW k \in 1 .. Len(r[x]), NEW l \in 1 .. Len(r[y]),
               r[x][k].id = r[y][l].id
        PROVE  x = y /\ k = l
    <2> DEFINE o == old(x, k)
               w == old(y, l)
    <2>1. /\ o \in 1 .. Len(q[x]) /\ r[x][k] = q[x][o]
          /\ w \in 1 .. Len(q[y]) /\ r[y][l] = q[y][w]
      BY <1>4
    <2> HIDE DEF o, w
    <2>2. x = y /\ o = w
      BY <1>8, <2>1 DEF QueueForm
    <2>3. k \in Int /\ l \in Int /\ i \in Int
      OBVIOUS
    <2> QED BY <2>2, <2>3 DEF o, w
  <1> QED BY <1>6, <1>7, <1>8 DEF QueueForm, r

\* and so does adding a node for an id that had none.
LEMMA InsertionKeepsForm ==
    ASSUME NEW q \in [Priority -> Seq(Entry)], NEW N \in SUBSET Sub, QueueForm(q, N),
           NEW p \in Priority, NEW e \in Entry, e.id \notin N
    PROVE  QueueForm([q EXCEPT ![p] = Append(@, e)], N \cup {e.id})
  <1> DEFINE r == [q EXCEPT ![p] = Append(@, e)]
             n == Len(q[p])
  <1>1. /\ r[p] = Append(q[p], e)
        /\ \A x \in Priority : x # p => r[x] = q[x]
    OBVIOUS
  <1>2. /\ n \in Nat
        /\ Len(r[p]) = n + 1
        /\ \A k \in 1 .. n : r[p][k] = q[p][k]
        /\ r[p][n + 1] = e
    <2>1. q[p] \in Seq(Entry)
      OBVIOUS
    <2> HIDE DEF r
    <2> QED BY <1>1, <2>1, AppendProperties, LenProperties
  <1>3. \A x \in Priority : Len(q[x]) \in Nat
    BY LenProperties
  <1> HIDE DEF r, n
  <1>4. ASSUME NEW x \in Priority, NEW k \in 1 .. Len(r[x])
        PROVE  \/ x = p /\ k = n + 1 /\ r[x][k] = e
               \/ k \in 1 .. Len(q[x]) /\ r[x][k] = q[x][k]
    <2>1. CASE x = p
      <3>1. k \in 1 .. n \/ k = n + 1
        BY <2>1, <1>2
      <3> QED BY <2>1, <3>1, <1>2 DEF n
    <2>2. CASE x # p
      BY <2>2, <1>1
    <2> QED BY <2>1, <2>2
  <1>5. ASSUME NEW x \in Priority, NEW k \in 1 .. Len(q[x])
        PROVE  k \in 1 .. Len(r[x]) /\ r[x][k] = q[x][k]
    <2>1. CASE x = p
      BY <2>1, <1>2 DEF n
    <2>2. CASE x # p
      BY <2>2, <1>1
    <2> QED BY <2>1, <2>2
  <1>6. ASSUME NEW s \in N \cup {e.id}
        PROVE  \E x \in Priority : \E k \in 1 .. Len(r[x]) : r[x][k].id = s
    <2>1. CASE s = e.id
      <3>1. n + 1 \in 1 .. Len(r[p]) /\ r[p][n + 1].id = s
        BY <2>1, <1>2
      <3> QED BY <3>1
    <2>2. CASE s \in N
      <3>1. PICK x \in Priority : \E k \in 1 .. Len(q[x]) : q[x][k].id = s
        BY <2>2 DEF QueueForm
      <3>2. PICK k \in 1 .. Len(q[x]) : q[x][k].id = s
        BY <3>1
      <3> QED BY <3>2, <1>5
    <2> QED BY <2>1, <2>2
  <1>7. ASSUME NEW x \in Priority, NEW k \in 1 .. Len(r[x])
        PROVE  r[x][k].id \in N \cup {e.id}
    BY <1>4 DEF QueueForm
  <1>8. ASSUME NEW x \in Priority, NEW y \in Priority,
               NEW k \in 1 .. Len(r[x]), NEW l \in 1 .. Len(r[y]),
               r[x][k].id = r[y][l].id
        PROVE  x = y /\ k = l
    <2>1. CASE k \in 1 .. Len(q[x]) /\ r[x][k] = q[x][k]
               /\ l \in 1 .. Len(q[y]) /\ r[y][l] = q[y][l]
      BY <2>1, <1>8 DEF QueueForm
    <2>2. CASE x = p /\ k = n + 1 /\ r[x][k] = e
      <3>1. ~(l \in 1 .. Len(q[y]) /\ r[y][l] = q[y][l])
        BY <2>2, <1>8 DEF QueueForm
      <3> QED BY <2>2, <3>1, <1>4
    <2>3. CASE y = p /\ l = n + 1 /\ r[y][l] = e
      <3>1. ~(k \in 1 .. Len(q[x]) /\ r[x][k] = q[x][k])
        BY <2>3, <1>8 DEF QueueForm
      <3> QED BY <2>3, <3>1, <1>4
    <2> QED BY <2>1, <2>2, <2>3, <1>4
  <1> QED BY <1>6, <1>7, <1>8 DEF QueueForm, r

\* The step of the queue in a walk, in an abort and in a request.
LEMMA RemovalStep ==
    ASSUME TypeOK, QueueForm(queue, node_map), NEW pos \in Positions,
           queue' = [queue EXCEPT ![pos[1]] = RemoveAt(@, pos[2])],
           node_map' = node_map \ {EntryAt(pos).id}
    PROVE  QueueForm(queue', node_map')
  <1>1. pos[1] \in Priority /\ pos[2] \in 1 .. Len(queue[pos[1]])
    BY PositionProperties
  <1>2. queue \in [Priority -> Seq(Entry)] /\ node_map \in SUBSET Sub
    BY DEF TypeOK
  <1>3. QueueForm([queue EXCEPT ![pos[1]] = RemoveAt(@, pos[2])],
                  node_map \ {queue[pos[1]][pos[2]].id})
    BY <1>1, <1>2, RemovalKeepsForm
  <1> QED BY <1>3 DEF EntryAt

\* A walk keeps the agreement of the queue and node_map,
LEMMA HandleFreeJudgeForm ==
    ASSUME TypeOK, QueueForm(queue, node_map), NEW c, NEW J, NEW H, NEW M,
           HandleFreeJudge(c, J, H, M)
    PROVE  QueueForm(queue', node_map')
  <1>1. CASE UNCHANGED <<queue, node_map>>
    BY <1>1
  <1>2. ASSUME NEW pos \in Eligible(c, J, H),
               queue' = [queue EXCEPT ![pos[1]] = RemoveAt(@, pos[2])],
               node_map' = node_map \ {EntryAt(pos).id}
        PROVE  QueueForm(queue', node_map')
    BY <1>2, RemovalStep DEF Eligible
  <1> QED BY <1>1, <1>2 DEF HandleFreeJudge

\* and so does every step.
LEMMA NextQueueForm ==
    ASSUME TypeOK, QueueForm(queue, node_map), [Next]_vars
    PROVE  QueueForm(queue', node_map')
  <1>1. ASSUME NEW s \in Sub, NEW p \in Priority, NEW j \in Name \cup {NoName}, Judge(s, p, j)
        PROVE  QueueForm(queue', node_map')
    <2> DEFINE e == [id |-> s, judge_id |-> j]
    <2>1. CASE UNCHANGED <<queue, node_map>>
      BY <2>1
    <2>2. CASE queue' = [queue EXCEPT ![p] = Inserted(@, e)] /\ node_map' = node_map \cup {s}
      <3>1. e \in Entry /\ e.id = s /\ e.id \notin node_map
        BY <1>1 DEF Entry, Judge, Known
      <3>2. queue \in [Priority -> Seq(Entry)] /\ node_map \in SUBSET Sub
        BY DEF TypeOK
      <3> HIDE DEF e
      <3>3. QueueForm([queue EXCEPT ![p] = Append(@, e)], node_map \cup {e.id})
        BY <3>1, <3>2, InsertionKeepsForm
      <3> QED BY <2>2, <3>1, <3>3 DEF Inserted
    <2> QED BY <1>1, <2>1, <2>2 DEF Judge
  <1>2. ASSUME NEW s \in Sub, Abort(s) PROVE QueueForm(queue', node_map')
    <2>1. PICK pos \in Positions :
            /\ EntryAt(pos).id = s
            /\ queue' = [queue EXCEPT ![pos[1]] = RemoveAt(@, pos[2])]
      BY <1>2 DEF Abort
    <2> QED BY <1>2, <2>1, RemovalStep DEF Abort
  <1>3. ASSUME NEW c \in Conn, NEW n \in Name, NEW P \in Lists, Register(c, n, P)
        PROVE  QueueForm(queue', node_map')
    BY <1>3, HandleFreeJudgeForm DEF Register
  <1>4. ASSUME NEW c \in Conn, NEW s \in Sub, OnJudgeFree(c, s)
        PROVE  QueueForm(queue', node_map')
    BY <1>4, HandleFreeJudgeForm DEF OnJudgeFree
  <1>5. ASSUME NEW c \in Conn, RemoveJudge(c) PROVE QueueForm(queue', node_map')
    BY <1>5, HandleFreeJudgeForm DEF RemoveJudge
  <1>6. ASSUME NEW c \in Conn, UpdateProblems(c) PROVE QueueForm(queue', node_map')
    BY <1>6, HandleFreeJudgeForm DEF UpdateProblems
  <1>7. ASSUME NEW n \in Name, NEW b \in BOOLEAN, UpdateDisableJudge(n, b) \/ Disconnect(n)
        PROVE  QueueForm(queue', node_map')
    BY <1>7 DEF UpdateDisableJudge, Disconnect
  <1>8. CASE UNCHANGED vars
    BY <1>8 DEF vars
  <1>9. 0 .. REJUDGE_PRIORITY - 1 \subseteq Priority
    BY DEF Priority, REJUDGE_PRIORITY
  <1>10. ASSUME NEW c \in Conn, NEW b \in BOOLEAN, LoadDisabled(c, b)
         PROVE  QueueForm(queue', node_map')
    BY <1>10 DEF LoadDisabled
  <1>11. ASSUME NEW c \in Conn, NEW P \in Lists, SupportedProblems(c, P)
         PROVE  QueueForm(queue', node_map')
    BY <1>11 DEF SupportedProblems
  <1>12. ASSUME NEW c \in Conn, ReadWorking(c) PROVE QueueForm(queue', node_map')
    BY <1>12 DEF ReadWorking
  <1> QED
    BY <1>1, <1>2, <1>3, <1>4, <1>5, <1>6, <1>7, <1>8, <1>9, <1>10, <1>11, <1>12 DEF Next

(***************************************************************************)
(* The queue and node_map agree and no submission is queued twice, with    *)
(* any number of judges, submissions, faults and problem updates.          *)
(***************************************************************************)
THEOREM QueueAgrees == Spec => []QueueWellFormed
  <1>1. Init => QueueWellFormed
    BY DEF Init, QueueWellFormed, Positions, EntryAt
  <1>2. TypeOK /\ TypeOK' /\ QueueWellFormed /\ [Next]_vars => QueueWellFormed'
    BY QueueWellFormedIsForm, NextQueueForm
  <1> QED BY <1>1, <1>2, TypeCorrect, PTL DEF Spec

-----------------------------------------------------------------------------
(***************************************************************************)
(* What a step may forget, whatever dispatches fail.  A submission leaves  *)
(* the list only when it is reported or aborted or its judge leaves, and a *)
(* judge process never holds more than its handler works on.               *)
(***************************************************************************)
OneJob ==
    /\ \A c \in Conn : step[c] \in {"gone", "loading", "ready"}
    /\ \A c \in judges : step[c] # "gone"
    /\ \A c \in Conn : handler[c].job \subseteq {handler[c].working}
    /\ \A c \in Conn : step[c] = "gone" => handler[c].job = {}

\* Submissions that the list does not forget, and those that the handlers of
\* connected judges go on working on.
WorksOn(c, s) == step[c] # "gone" /\ handler[c].working = s
Remembers(S) == \A s \in S : Known(s) => Known(s)'
Keeps(S) == \A c \in Conn, s \in S : WorksOn(c, s) => WorksOn(c, s)'

\* An idle handler has sent no work that is not reported.
LEMMA IdleHasNoJob ==
    ASSUME TypeOK, OneJob, NEW c \in Conn, handler[c].working = NoSub
    PROVE  handler[c].job = {}
  <1>1. handler[c].job \subseteq Sub /\ handler[c].job \subseteq {NoSub}
    BY DEF TypeOK, OneJob, Handler
  <1> QED BY <1>1, JudgeListAssumption

\* What submit does to the handler it is called on, and to no other.
LEMMA SubmitHandler ==
    ASSUME NEW c \in Conn, NEW s \in Sub, NEW J \in SUBSET Conn,
           NEW H \in [Conn -> Handler], H[c].job = {},
           NEW M \in [Sub -> Conn \cup {NoConn}],
           Submitted(c, s, J, H, M) \/ SubmitFailed(c, s, J, H, M)
    PROVE  /\ \A d \in Conn : d # c => handler'[d] = H[d]
           /\ handler'[c].job \subseteq {handler'[c].working}
           /\ judges' \subseteq J
           /\ submission_map' = [M EXCEPT ![s] = c]
  <1>1. H[c] \in Handler
    OBVIOUS
  <1>2. CASE handler' = H
    BY <1>2 DEF Submitted, SubmitFailed
  <1>3. CASE handler' = [H EXCEPT ![c].working = s]
    <2>1. [H[c] EXCEPT !.working = s].job = {}
      BY <1>1 DEF Handler
    <2> QED BY <1>3, <2>1 DEF Submitted, SubmitFailed
  <1>4. CASE handler' = [H EXCEPT ![c].working = s, ![c].job = @ \cup {s}]
    <2>1. handler'[c] = [H[c] EXCEPT !.working = s, !.job = @ \cup {s}]
      BY <1>4
    <2>2. handler'[c].working = s /\ handler'[c].job = {s}
      BY <1>1, <2>1 DEF Handler
    <2> QED BY <1>4, <2>2 DEF Submitted, SubmitFailed
  <1> QED BY <1>2, <1>3, <1>4 DEF Submitted, SubmitFailed

\* A walk for a handler without work forgets nothing and takes no work away.
LEMMA WalkRemembers ==
    ASSUME TypeOK, NEW c \in Conn, NEW J \in SUBSET Conn,
           NEW H \in [Conn -> Handler], H[c].job = {},
           NEW M \in [Sub -> Conn \cup {NoConn}], HandleFreeJudge(c, J, H, M)
    PROVE  /\ judges' \subseteq J
           /\ \A s \in Sub : M[s] # NoConn \/ s \in node_map => Known(s)'
           /\ \A d \in Conn : d # c => handler'[d] = H[d]
           /\ handler'[c].job \subseteq {handler'[c].working}
  <1>1. CASE judges' = J /\ handler' = H /\ submission_map' = M /\ UNCHANGED <<queue, node_map>>
    BY <1>1 DEF Known
  <1>2. ASSUME NEW pos \in Eligible(c, J, H),
               \/ Submitted(c, EntryAt(pos).id, J, H, M)
               \/ SubmitFailed(c, EntryAt(pos).id, J, H, M),
               node_map' = node_map \ {EntryAt(pos).id} \/ node_map' = node_map
        PROVE  /\ judges' \subseteq J
               /\ \A s \in Sub : M[s] # NoConn \/ s \in node_map => Known(s)'
               /\ \A d \in Conn : d # c => handler'[d] = H[d]
               /\ handler'[c].job \subseteq {handler'[c].working}
    <2> DEFINE s == EntryAt(pos).id
    <2>1. s \in Sub
      BY PositionProperties DEF Eligible
    <2> HIDE DEF s
    <2>2. Submitted(c, s, J, H, M) \/ SubmitFailed(c, s, J, H, M)
      BY <1>2 DEF s
    <2>3. /\ \A d \in Conn : d # c => handler'[d] = H[d]
          /\ handler'[c].job \subseteq {handler'[c].working}
          /\ judges' \subseteq J
          /\ submission_map' = [M EXCEPT ![s] = c]
      BY <2>1, <2>2, SubmitHandler
    <2>4. submission_map'[s] # NoConn /\ \A t \in Sub : t # s => submission_map'[t] = M[t]
      BY <2>1, <2>3, JudgeListAssumption
    <2>5. \A t \in node_map : t # s => t \in node_map'
      BY <1>2 DEF s
    <2> QED BY <2>3, <2>4, <2>5 DEF Known
  <1> QED BY <1>1, <1>2 DEF HandleFreeJudge

\* judge knows what it was asked for, forgets nothing and gives work to one
\* idle member at most.
LEMMA JudgeRemembers ==
    ASSUME TypeOK, OneJob, NEW s \in Sub, NEW p \in Priority,
           NEW j \in Name \cup {NoName}, Judge(s, p, j)
    PROVE  OneJob' /\ Known(s)' /\ Remembers(Sub) /\ Keeps(Sub)
  <1> DEFINE e == [id |-> s, judge_id |-> j]
  <1>1. UNCHANGED <<step, closed>>
    BY DEF Judge
  <1>2. ASSUME NEW c \in Available(e, p),
               \/ Submitted(c, s, judges, handler, submission_map)
               \/ SubmitFailed(c, s, judges, handler, submission_map),
               UNCHANGED <<queue, node_map>>
        PROVE  OneJob' /\ Known(s)' /\ Remembers(Sub) /\ Keeps(Sub)
    <2>1. c \in judges /\ c \in Conn /\ handler[c].working = NoSub
      BY DEF Available, Candidates, Idle, TypeOK
    <2>2. handler[c].job = {}
      BY <2>1, IdleHasNoJob
    <2>3. judges \in SUBSET Conn /\ handler \in [Conn -> Handler]
            /\ submission_map \in [Sub -> Conn \cup {NoConn}]
      BY DEF TypeOK
    <2>4. /\ \A d \in Conn : d # c => handler'[d] = handler[d]
          /\ handler'[c].job \subseteq {handler'[c].working}
          /\ judges' \subseteq judges
          /\ submission_map' = [submission_map EXCEPT ![s] = c]
      <3>1. handler'[c].job \subseteq {handler'[c].working} /\ judges' \subseteq judges
        BY <1>2, <2>1, <2>2, <2>3, SubmitHandler
      <3>2. \A d \in Conn : d # c => handler'[d] = handler[d]
        BY <1>2, <2>3 DEF Submitted, SubmitFailed
      <3> QED BY <1>2, <3>1, <3>2 DEF Submitted, SubmitFailed
    <2>5. OneJob'
      BY <1>1, <2>1, <2>4 DEF OneJob
    <2>6. Keeps(Sub)
      BY <1>1, <2>1, <2>4, JudgeListAssumption DEF Keeps, WorksOn
    <2>7. Known(s)' /\ Remembers(Sub)
      BY <1>2, <2>1, <2>3, <2>4, JudgeListAssumption DEF Known, Remembers
    <2> QED BY <2>5, <2>6, <2>7
  <1>3. ASSUME node_map' = node_map \cup {s}, UNCHANGED <<judges, handler, submission_map>>
        PROVE  OneJob' /\ Known(s)' /\ Remembers(Sub) /\ Keeps(Sub)
    BY <1>1, <1>3 DEF OneJob, Known, Remembers, Keeps, WorksOn
  <1> QED BY <1>2, <1>3 DEF Judge

\* abort forgets what it takes out of the queue,
LEMMA AbortRemembers ==
    ASSUME OneJob, NEW s \in Sub, Abort(s)
    PROVE  OneJob' /\ Remembers(Sub \ {s}) /\ Keeps(Sub)
  BY DEF Abort, OneJob, Remembers, Known, Keeps, WorksOn

\* register nothing,
LEMMA RegisterRemembers ==
    ASSUME TypeOK, OneJob, NEW c \in Conn, NEW n \in Name, NEW P \in Lists, Register(c, n, P)
    PROVE  OneJob' /\ Remembers(Sub) /\ Keeps(Sub)
  <1> DEFINE H == [handler EXCEPT ![c] = NewHandler(n, P)]
             J == judges \cup {c}
  <1>1. /\ step[c] = "gone"
        /\ step' = [step EXCEPT ![c] = "loading"]
        /\ HandleFreeJudge(c, J, H, submission_map)
    BY DEF Register
  <1>2. NewHandler(n, P) \in Handler
    BY JudgeListAssumption DEF NewHandler, Handler
  <1>3. /\ H \in [Conn -> Handler] /\ J \in SUBSET Conn
        /\ submission_map \in [Sub -> Conn \cup {NoConn}]
    BY <1>2 DEF TypeOK
  <1>4. H[c].job = {} /\ \A d \in Conn : d # c => H[d] = handler[d]
    BY DEF NewHandler, TypeOK
  <1> HIDE DEF H
  <1>5. /\ judges' \subseteq J
        /\ \A s \in Sub : submission_map[s] # NoConn \/ s \in node_map => Known(s)'
        /\ \A d \in Conn : d # c => handler'[d] = handler[d]
        /\ handler'[c].job \subseteq {handler'[c].working}
    <2>1. /\ judges' \subseteq J
          /\ \A s \in Sub : submission_map[s] # NoConn \/ s \in node_map => Known(s)'
          /\ \A d \in Conn : d # c => handler'[d] = H[d]
          /\ handler'[c].job \subseteq {handler'[c].working}
      <3> HIDE DEF J
      <3> QED BY <1>1, <1>3, <1>4, WalkRemembers
    <2> QED BY <2>1, <1>4
  <1>6. OneJob'
    BY <1>1, <1>5 DEF OneJob, TypeOK
  <1>7. Keeps(Sub)
    BY <1>1, <1>5 DEF Keeps, WorksOn, TypeOK
  <1> QED BY <1>5, <1>6, <1>7 DEF Remembers, Known

\* on_judge_free the submission that was reported, unless it has no entry,
LEMMA OnJudgeFreeRemembers ==
    ASSUME TypeOK, OneJob, NEW c \in Conn, NEW s \in Sub, OnJudgeFree(c, s)
    PROVE  /\ OneJob' /\ Remembers(Sub \ {s}) /\ Keeps(Sub \ {s})
           /\ submission_map[s] = NoConn => Remembers(Sub) /\ Keeps(Sub)
  <1> DEFINE told == [handler EXCEPT ![c].job = @ \ {s}]
             H == [told EXCEPT ![c].working = NoSub]
             M == Unmapped(submission_map, s)
  <1>1. /\ step[c] = "ready" /\ s \in handler[c].job /\ UNCHANGED step
        /\ \/ handler' = told /\ UNCHANGED <<judges, queue, node_map, submission_map>>
           \/ submission_map[s] # NoConn /\ HandleFreeJudge(c, judges, H, M)
    BY DEF OnJudgeFree
  <1>2. handler \in [Conn -> Handler] /\ handler[c] \in Handler
    BY DEF TypeOK
  <1>3. handler[c].job = {s} /\ handler[c].working = s
    BY <1>1 DEF OneJob
  <1>4. /\ told \in [Conn -> Handler] /\ told[c].job = {}
        /\ told[c].working = handler[c].working
        /\ \A d \in Conn : d # c => told[d] = handler[d]
    <2>1. /\ [handler[c] EXCEPT !.job = @ \ {s}] \in Handler
          /\ [handler[c] EXCEPT !.job = @ \ {s}].job = {}
          /\ [handler[c] EXCEPT !.job = @ \ {s}].working = handler[c].working
      BY <1>2, <1>3 DEF Handler
    <2> QED BY <1>2, <2>1
  <1> HIDE DEF told
  <1>5. /\ H \in [Conn -> Handler] /\ H[c].job = {}
        /\ \A d \in Conn : d # c => H[d] = handler[d]
    <2>1. /\ [told[c] EXCEPT !.working = NoSub] \in Handler
          /\ [told[c] EXCEPT !.working = NoSub].job = {}
      BY <1>4 DEF Handler
    <2> QED BY <1>4, <2>1
  <1>6. /\ M \in [Sub -> Conn \cup {NoConn}]
        /\ \A t \in Sub : t # s => M[t] = submission_map[t]
        /\ judges \in SUBSET Conn
    BY DEF TypeOK, Unmapped
  <1> HIDE DEF H, M
  <1>7. /\ judges' \subseteq judges
        /\ \A t \in Sub : t # s /\ Known(t) => Known(t)'
        /\ \A d \in Conn : d # c => handler'[d] = handler[d]
        /\ handler'[c].job \subseteq {handler'[c].working}
    <2>1. CASE handler' = told /\ UNCHANGED <<judges, queue, node_map, submission_map>>
      BY <2>1, <1>4 DEF Known
    <2>2. CASE HandleFreeJudge(c, judges, H, M)
      <3>1. /\ judges' \subseteq judges
            /\ \A t \in Sub : M[t] # NoConn \/ t \in node_map => Known(t)'
            /\ \A d \in Conn : d # c => handler'[d] = H[d]
            /\ handler'[c].job \subseteq {handler'[c].working}
        BY <2>2, <1>5, <1>6, WalkRemembers
      <3> QED BY <3>1, <1>5, <1>6 DEF Known
    <2> QED BY <1>1, <2>1, <2>2
  <1>8. OneJob'
    BY <1>1, <1>7 DEF OneJob
  <1>9. Keeps(Sub \ {s})
    BY <1>1, <1>3, <1>7 DEF Keeps, WorksOn
  <1>10. submission_map[s] = NoConn => Remembers(Sub) /\ Keeps(Sub)
    BY <1>1, <1>4 DEF Remembers, Known, Keeps, WorksOn
  <1> QED BY <1>7, <1>8, <1>9, <1>10 DEF Remembers

\* and remove what the handler was working on.
LEMMA RemoveJudgeRemembers ==
    ASSUME TypeOK, OneJob, NEW c \in Conn, RemoveJudge(c)
    PROVE  /\ OneJob'
           /\ Remembers(Sub \ {handler[c].working})
           /\ Keeps(Sub \ {handler[c].working})
  <1> DEFINE J == judges \ {c}
             H == [handler EXCEPT ![c].job = {}]
             M == Unmapped(submission_map, handler[c].working)
  <1>1. /\ step' = [step EXCEPT ![c] = "gone"]
        /\ \/ judges' = J /\ handler' = H /\ submission_map' = M
              /\ UNCHANGED <<queue, node_map>>
           \/ \E d \in SoleFree(J, H) : HandleFreeJudge(d, J, H, M)
    BY DEF RemoveJudge
  <1>2. handler \in [Conn -> Handler] /\ handler[c] \in Handler
    BY DEF TypeOK
  <1>3. /\ H \in [Conn -> Handler] /\ H[c].job = {}
        /\ \A d \in Conn : d # c => H[d] = handler[d]
    <2>1. /\ [handler[c] EXCEPT !.job = {}] \in Handler
          /\ [handler[c] EXCEPT !.job = {}].job = {}
      BY <1>2 DEF Handler
    <2> QED BY <1>2, <2>1
  <1>4. /\ M \in [Sub -> Conn \cup {NoConn}]
        /\ \A t \in Sub : t # handler[c].working => M[t] = submission_map[t]
        /\ J \in SUBSET Conn /\ c \notin J
    BY DEF TypeOK, Unmapped
  <1>5. handler[c].job \subseteq {handler[c].working}
    BY DEF OneJob
  <1> HIDE DEF H, M
  <1>6. /\ judges' \subseteq J
        /\ \A t \in Sub : t # handler[c].working /\ Known(t) => Known(t)'
        /\ handler'[c].job = {}
        /\ \A d \in Conn : handler'[d].job \subseteq {handler'[d].working}
        /\ \A d \in Conn : d # c /\ handler[d].working # NoSub
                              => handler'[d].working = handler[d].working
        /\ \A d \in Conn : step[d] = "gone" => handler'[d].job = handler[d].job
    <2>1. CASE judges' = J /\ handler' = H /\ submission_map' = M
               /\ UNCHANGED <<queue, node_map>>
      BY <2>1, <1>3, <1>4 DEF Known, OneJob
    <2>2. ASSUME NEW d \in SoleFree(J, H), HandleFreeJudge(d, J, H, M)
          PROVE  /\ judges' \subseteq J
                 /\ \A t \in Sub : t # handler[c].working /\ Known(t) => Known(t)'
                 /\ handler'[c].job = {}
                 /\ \A x \in Conn : handler'[x].job \subseteq {handler'[x].working}
                 /\ \A x \in Conn : x # c /\ handler[x].working # NoSub
                                       => handler'[x].working = handler[x].working
                 /\ \A x \in Conn : step[x] = "gone" => handler'[x].job = handler[x].job
      <3>1. d \in Conn /\ d # c /\ d \in judges /\ H[d].working = NoSub
        BY <1>4 DEF SoleFree
      <3>2. handler[d].job = {} /\ H[d].job = {}
        BY <3>1, <1>3, IdleHasNoJob
      <3>3. /\ judges' \subseteq J
            /\ \A t \in Sub : M[t] # NoConn \/ t \in node_map => Known(t)'
            /\ \A x \in Conn : x # d => handler'[x] = H[x]
            /\ handler'[d].job \subseteq {handler'[d].working}
        BY <2>2, <3>1, <3>2, <1>3, <1>4, WalkRemembers
      <3>4. step[d] # "gone"
        BY <3>1 DEF OneJob
      <3> QED BY <3>1, <3>2, <3>3, <3>4, <1>3, <1>4 DEF Known, OneJob
    <2> QED BY <1>1, <2>1, <2>2
  <1>7. OneJob'
    BY <1>1, <1>6 DEF OneJob, TypeOK
  <1>8. Keeps(Sub \ {handler[c].working})
    BY <1>1, <1>6, JudgeListAssumption DEF Keeps, WorksOn, TypeOK
  <1> QED BY <1>6, <1>7, <1>8 DEF Remembers

\* The flag is_disabled takes no part in it.
LEMMA FlagRemembers ==
    ASSUME TypeOK, OneJob, NEW c \in Conn, NEW n \in Name, NEW b \in BOOLEAN,
           LoadDisabled(c, b) \/ UpdateDisableJudge(n, b)
    PROVE  OneJob' /\ Remembers(Sub) /\ Keeps(Sub)
  <1>1. /\ \A d \in Conn : /\ handler'[d].job = handler[d].job
                           /\ handler'[d].working = handler[d].working
        /\ UNCHANGED <<judges, node_map, submission_map>>
    <2>1. \A d \in Conn : /\ [handler[d] EXCEPT !.disabled = b].job = handler[d].job
                          /\ [handler[d] EXCEPT !.disabled = b].working = handler[d].working
      BY DEF TypeOK, Handler
    <2> QED BY <2>1 DEF LoadDisabled, UpdateDisableJudge, TypeOK
  <1>2. \A d \in Conn : /\ step'[d] = "gone" <=> step[d] = "gone"
                        /\ step'[d] \in {"gone", "loading", "ready"}
    BY DEF LoadDisabled, UpdateDisableJudge, TypeOK, OneJob
  <1> QED BY <1>1, <1>2 DEF OneJob, Remembers, Keeps, WorksOn, Known, TypeOK
=============================================================================
