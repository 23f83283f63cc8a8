--------------------------- MODULE DispatchProofs ---------------------------
(***************************************************************************)
(* The dispatcher.  Without faults (no dispatch fails, no connection is    *)
(* cut, no problem list changes) submission_map is the inverse of the      *)
(* handlers' _working, nothing is graded twice, JudgeList implements       *)
(* Dispatch, and the queue is served in order.  Judges that can all do the *)
(* same work keep a reserve, whatever faults occur.                        *)
(***************************************************************************)
EXTENDS JudgeListProofs, FiniteSetTheorems

FaultFree == Faults = {} /\ ~LiveUpdates

(***************************************************************************)
(* The agreement of the list, the handlers, the map and the queue, for     *)
(* values J of judges, H of handler, M of submission_map, N of node_map:   *)
(* the walk starts from values in the middle of a method.                  *)
(***************************************************************************)
Agree(J, H, M, N) ==
    /\ \A s \in Sub, c \in Conn : M[s] = c <=> c \in J /\ H[c].working = s
    /\ \A s \in Sub : M[s] # NoConn => s \notin N
    /\ \A c \in Conn : H[c].job = IF c \in J /\ H[c].working # NoSub THEN {H[c].working} ELSE {}

FaultFreeInv ==
    /\ closed = {}
    /\ \A c \in Conn : step[c] \in {"gone", "loading", "ready"}
    /\ judges = {c \in Conn : step[c] # "gone"}
    /\ Agree(judges, handler, submission_map, node_map)

\* A walk for an idle member that starts from agreeing values ends in agreement.
LEMMA HandleFreeJudgeAgrees ==
    ASSUME TypeOK, FaultFree, closed = {},
           NEW c \in Conn, NEW J \in SUBSET Conn, c \in J,
           NEW H \in [Conn -> Handler], H[c].working = NoSub,
           NEW M \in [Sub -> Conn \cup {NoConn}], Agree(J, H, M, node_map),
           QueueForm(queue, node_map),
           HandleFreeJudge(c, J, H, M)
    PROVE  judges' = J /\ Agree(J, handler', submission_map', node_map')
  <1>1. CASE judges' = J /\ handler' = H /\ submission_map' = M /\ UNCHANGED <<queue, node_map>>
    BY <1>1
  <1>2. ASSUME NEW pos \in Eligible(c, J, H),
               Submitted(c, EntryAt(pos).id, J, H, M),
               node_map' = node_map \ {EntryAt(pos).id}
        PROVE  judges' = J /\ Agree(J, handler', submission_map', node_map')
    <2> DEFINE s == EntryAt(pos).id
    <2>1. pos \in Positions /\ s \in Sub
      BY PositionProperties DEF Eligible
    <2>2. s \in node_map
      BY <2>1, PositionProperties DEF QueueForm, EntryAt
    <2>3. M[s] = NoConn
      BY <2>2, <2>1 DEF Agree
    <2>4. \A d \in J : H[d].working # s
      BY <2>3, <2>1, JudgeListAssumption DEF Agree
    <2>5. /\ judges' = J
          /\ handler' = [H EXCEPT ![c].working = s, ![c].job = @ \cup {s}]
          /\ submission_map' = [M EXCEPT ![s] = c]
          /\ node_map' = node_map \ {s}
      BY <1>2 DEF Submitted
    <2> HIDE DEF s
    <2>6. H[c].job = {}
      BY DEF Agree
    <2>7. /\ handler'[c].working = s
          /\ handler'[c].job = {s}
          /\ \A d \in Conn : d # c => handler'[d] = H[d]
      <3>1. H[c] \in Handler
        OBVIOUS
      <3>2. handler'[c] = [H[c] EXCEPT !.working = s, !.job = @ \cup {s}]
        BY <2>5
      <3>3. /\ handler'[c].working = s
            /\ handler'[c].job = H[c].job \cup {s}
        BY <3>1, <3>2 DEF Handler
      <3> QED BY <3>3, <2>5, <2>6
    <2>8. s # NoSub
      BY <2>1, JudgeListAssumption
    <2>9. \A t \in Sub, d \in Conn :
            submission_map'[t] = d <=> d \in J /\ handler'[d].working = t
      BY <2>1, <2>3, <2>4, <2>5, <2>7, <2>8, JudgeListAssumption DEF Agree
    <2>10. \A t \in Sub : submission_map'[t] # NoConn => t \notin node_map'
      BY <2>1, <2>5 DEF Agree
    <2>11. \A d \in Conn : handler'[d].job =
             IF d \in J /\ handler'[d].working # NoSub THEN {handler'[d].working} ELSE {}
      <3>1. c \in J /\ handler'[c].working # NoSub /\ handler'[c].job = {handler'[c].working}
        BY <2>7, <2>8
      <3>2. ASSUME NEW d \in Conn, d # c
            PROVE  handler'[d].job =
                     IF d \in J /\ handler'[d].working # NoSub THEN {handler'[d].working} ELSE {}
        <4>1. handler'[d] = H[d]
          BY <3>2, <2>7
        <4> QED BY <4>1 DEF Agree
      <3> QED BY <3>1, <3>2
    <2> QED BY <2>5, <2>9, <2>10, <2>11 DEF Agree
  <1>3. ASSUME NEW s, SubmitFailed(c, s, J, H, M) PROVE FALSE
    BY <1>3 DEF SubmitFailed, FaultFree
  <1> QED BY <1>1, <1>2, <1>3 DEF HandleFreeJudge

\* The invariant is kept by each kind of step.
LEMMA JudgeAgrees ==
    ASSUME TypeOK, FaultFree, FaultFreeInv, QueueForm(queue, node_map),
           NEW s \in Sub, NEW p \in Priority, NEW j \in Name \cup {NoName}, Judge(s, p, j)
    PROVE  FaultFreeInv'
  <1> DEFINE e == [id |-> s, judge_id |-> j]
  <1>1. s \notin node_map /\ submission_map[s] = NoConn /\ UNCHANGED <<step, closed>>
    BY DEF Judge, Known
  <1>2. \A d \in judges : handler[d].working # s
    BY <1>1, JudgeListAssumption DEF FaultFreeInv, Agree, TypeOK
  <1>3. ASSUME NEW c \in Available(e, p), Submitted(c, s, judges, handler, submission_map),
               UNCHANGED <<queue, node_map>>
        PROVE  FaultFreeInv'
    <2>1. c \in judges /\ c \in Conn /\ handler[c].working = NoSub
      BY DEF Available, Candidates, Idle, TypeOK
    <2>2. handler[c] \in Handler
      BY <2>1 DEF TypeOK
    <2>3. /\ judges' = judges
          /\ handler' = [handler EXCEPT ![c].working = s, ![c].job = @ \cup {s}]
          /\ submission_map' = [submission_map EXCEPT ![s] = c]
      BY <1>3 DEF Submitted
    <2>4. handler[c].job = {}
      BY <2>1 DEF FaultFreeInv, Agree
    <2>5. handler'[c].working = s /\ handler'[c].job = {s}
      <3>1. handler'[c] = [handler[c] EXCEPT !.working = s, !.job = @ \cup {s}]
        BY <2>1, <2>3 DEF TypeOK
      <3>2. handler'[c].working = s /\ handler'[c].job = handler[c].job \cup {s}
        BY <2>2, <3>1 DEF Handler
      <3> QED BY <3>2, <2>4
    <2>6. \A d \in Conn : d # c => handler'[d] = handler[d]
      BY <2>3 DEF TypeOK
    <2>7. s # NoSub
      BY JudgeListAssumption
    <2>8. \A t \in Sub, d \in Conn :
            submission_map'[t] = d <=> d \in judges /\ handler'[d].working = t
      BY <1>1, <1>2, <2>1, <2>3, <2>5, <2>6, <2>7, JudgeListAssumption
         DEF FaultFreeInv, Agree, TypeOK
    <2>9. \A t \in Sub : submission_map'[t] # NoConn => t \notin node_map'
      BY <1>1, <1>3, <2>3 DEF FaultFreeInv, Agree, TypeOK
    <2>10. \A d \in Conn : handler'[d].job =
             IF d \in judges /\ handler'[d].working # NoSub THEN {handler'[d].working} ELSE {}
      <3>1. c \in judges /\ handler'[c].working # NoSub
              /\ handler'[c].job = {handler'[c].working}
        BY <2>1, <2>5, <2>7
      <3>2. ASSUME NEW d \in Conn, d # c
            PROVE  handler'[d].job =
              IF d \in judges /\ handler'[d].working # NoSub THEN {handler'[d].working} ELSE {}
        <4>1. handler'[d] = handler[d]
          BY <3>2, <2>6
        <4>2. handler[d].job =
                IF d \in judges /\ handler[d].working # NoSub THEN {handler[d].working} ELSE {}
          BY DEF FaultFreeInv, Agree
        <4> QED BY <4>1, <4>2
      <3> QED BY <3>1, <3>2
    <2>11. Agree(judges, handler', submission_map', node_map')
      BY <2>8, <2>9, <2>10 DEF Agree
    <2> QED BY <1>1, <2>3, <2>11 DEF FaultFreeInv
  <1>4. ASSUME node_map' = node_map \cup {s}, UNCHANGED <<judges, handler, submission_map>>
        PROVE  FaultFreeInv'
    BY <1>1, <1>4 DEF FaultFreeInv, Agree
  <1>5. ASSUME NEW c, SubmitFailed(c, s, judges, handler, submission_map) PROVE FALSE
    BY <1>5 DEF SubmitFailed, FaultFree, FaultFreeInv
  <1> QED BY <1>3, <1>4, <1>5 DEF Judge

\* An abort takes away a waiting submission, which no judge has.
LEMMA AbortAgrees ==
    ASSUME FaultFreeInv, NEW s \in Sub, Abort(s)
    PROVE  FaultFreeInv'
  <1>1. UNCHANGED <<judges, handler, step, closed, submission_map>> /\ node_map' = node_map \ {s}
    BY DEF Abort
  <1> QED BY <1>1 DEF FaultFreeInv, Agree

\* A connection that registers had no work and no entry.
LEMMA RegisterAgrees ==
    ASSUME TypeOK, FaultFree, FaultFreeInv, QueueForm(queue, node_map),
           NEW c \in Conn, NEW n \in Name, NEW P \in Lists, Register(c, n, P)
    PROVE  FaultFreeInv' /\ judges' = judges \cup {c}
  <1> DEFINE H == [handler EXCEPT ![c] = NewHandler(n, P)]
             J == judges \cup {c}
  <1>1. /\ step[c] = "gone" /\ \A s \in Sub : submission_map[s] # c
        /\ step' = [step EXCEPT ![c] = "loading"]
        /\ closed' = (closed \ {c}) \cup SameName(c)
        /\ HandleFreeJudge(c, J, H, submission_map)
    BY DEF Register
  <1>2. NewHandler(n, P) \in Handler
    BY JudgeListAssumption DEF NewHandler, Handler
  <1>3. H \in [Conn -> Handler] /\ J \in SUBSET Conn /\ c \in J
    BY <1>2 DEF TypeOK
  <1>4. H[c].working = NoSub /\ H[c].job = {} /\ \A d \in Conn : d # c => H[d] = handler[d]
    BY DEF NewHandler, TypeOK
  <1>5. Agree(J, H, submission_map, node_map)
    <2>1. \A s \in Sub, d \in Conn : submission_map[s] = d <=> d \in J /\ H[d].working = s
      BY <1>1, <1>4, JudgeListAssumption DEF FaultFreeInv, Agree
    <2>2. \A d \in Conn : H[d].job =
            IF d \in J /\ H[d].working # NoSub THEN {H[d].working} ELSE {}
      <3>1. ASSUME NEW d \in Conn, d # c
            PROVE  H[d].job = IF d \in J /\ H[d].working # NoSub THEN {H[d].working} ELSE {}
        <4>1. H[d] = handler[d] /\ (d \in J <=> d \in judges)
          BY <3>1, <1>4
        <4> HIDE DEF H, J
        <4> QED BY <4>1 DEF FaultFreeInv, Agree
      <3> HIDE DEF H
      <3> QED BY <3>1, <1>4
    <2> HIDE DEF H, J
    <2> QED BY <2>1, <2>2 DEF FaultFreeInv, Agree
  <1>6. SameName(c) = {}
    <2>1. \A d \in judges : handler[d].name \in Name \cup {NoName}
      BY DEF TypeOK, Handler
    <2> QED BY <2>1, JudgeListAssumption DEF SameName
  <1>7. submission_map \in [Sub -> Conn \cup {NoConn}] /\ closed = {}
    BY DEF TypeOK, FaultFreeInv
  <1> HIDE DEF H, J
  <1>8. judges' = J /\ Agree(J, handler', submission_map', node_map')
    BY <1>1, <1>3, <1>4, <1>5, <1>7, HandleFreeJudgeAgrees
  <1>9. /\ closed' = {}
        /\ \A d \in Conn : step'[d] \in {"gone", "loading", "ready"}
        /\ judges' = {d \in Conn : step'[d] # "gone"}
    BY <1>1, <1>6, <1>8 DEF FaultFreeInv, TypeOK, J
  <1> QED BY <1>8, <1>9 DEF FaultFreeInv, J

\* A report frees exactly the handler that the map names.
LEMMA OnJudgeFreeAgrees ==
    ASSUME TypeOK, FaultFree, FaultFreeInv, QueueForm(queue, node_map),
           NEW c \in Conn, NEW s \in Sub, OnJudgeFree(c, s)
    PROVE  FaultFreeInv' /\ judges' = judges /\ c \in judges /\ handler[c].job = {s}
  <1> DEFINE told == [handler EXCEPT ![c].job = @ \ {s}]
             H == [told EXCEPT ![c].working = NoSub]
             M == Unmapped(submission_map, s)
  <1>1. c \in judges /\ handler[c].working = s /\ handler[c].job = {s}
    <2>1. s \in handler[c].job
      BY DEF OnJudgeFree
    <2>2. handler[c].job =
            IF c \in judges /\ handler[c].working # NoSub THEN {handler[c].working} ELSE {}
      BY DEF FaultFreeInv, Agree
    <2> QED BY <2>1, <2>2
  <1>2. submission_map[s] = c
    BY <1>1 DEF FaultFreeInv, Agree
  <1>3. submission_map[s] # NoConn
    BY <1>2, JudgeListAssumption
  <1>4. HandleFreeJudge(c, judges, H, M) /\ UNCHANGED <<step, closed>>
    BY <1>3 DEF OnJudgeFree
  <1>5. handler \in [Conn -> Handler] /\ handler[c] \in Handler
    BY DEF TypeOK
  <1>6. /\ told \in [Conn -> Handler]
        /\ told[c].job = {}
        /\ \A d \in Conn : d # c => told[d] = handler[d]
    <2>1. [handler[c] EXCEPT !.job = @ \ {s}] \in Handler
      BY <1>5 DEF Handler
    <2>2. [handler[c] EXCEPT !.job = @ \ {s}].job = {}
      BY <1>1, <1>5 DEF Handler
    <2> QED BY <2>1, <2>2, <1>5
  <1> HIDE DEF told
  <1>7. /\ H \in [Conn -> Handler]
        /\ H[c].working = NoSub /\ H[c].job = {}
        /\ \A d \in Conn : d # c => H[d] = handler[d]
    <2>1. [told[c] EXCEPT !.working = NoSub] \in Handler
      BY <1>6 DEF Handler
    <2>2. /\ [told[c] EXCEPT !.working = NoSub].working = NoSub
          /\ [told[c] EXCEPT !.working = NoSub].job = {}
      BY <1>6 DEF Handler
    <2> QED BY <2>1, <2>2, <1>6
  <1>8. /\ M \in [Sub -> Conn \cup {NoConn}]
        /\ M[s] = NoConn
        /\ \A t \in Sub : t # s => M[t] = submission_map[t]
    BY DEF TypeOK, Unmapped
  <1> HIDE DEF H, M
  <1>9. Agree(judges, H, M, node_map)
    <2>1. ASSUME NEW t \in Sub, NEW d \in Conn
          PROVE  M[t] = d <=> d \in judges /\ H[d].working = t
      <3>1. submission_map[t] = d <=> d \in judges /\ handler[d].working = t
        BY DEF FaultFreeInv, Agree
      <3>2. CASE d = c
        BY <3>1, <3>2, <1>1, <1>7, <1>8, JudgeListAssumption
      <3>3. CASE d # c /\ t = s
        BY <3>1, <3>3, <1>2, <1>7, <1>8, JudgeListAssumption
      <3>4. CASE d # c /\ t # s
        BY <3>1, <3>4, <1>7, <1>8
      <3> QED BY <3>2, <3>3, <3>4
    <2>2. \A t \in Sub : M[t] # NoConn => t \notin node_map
      BY <1>8 DEF FaultFreeInv, Agree
    <2>3. ASSUME NEW d \in Conn
          PROVE  H[d].job = IF d \in judges /\ H[d].working # NoSub THEN {H[d].working} ELSE {}
      <3>1. handler[d].job =
              IF d \in judges /\ handler[d].working # NoSub THEN {handler[d].working} ELSE {}
        BY DEF FaultFreeInv, Agree
      <3> QED BY <3>1, <1>7
    <2> QED BY <2>1, <2>2, <2>3 DEF Agree
  <1>10. judges \in SUBSET Conn /\ closed = {}
    BY DEF TypeOK, FaultFreeInv
  <1>11. judges' = judges /\ Agree(judges, handler', submission_map', node_map')
    BY <1>1, <1>4, <1>7, <1>8, <1>9, <1>10, HandleFreeJudgeAgrees
  <1> QED BY <1>1, <1>4, <1>11 DEF FaultFreeInv

\* A handler that leaves takes its own entry with it, and no other.
LEMMA RemoveJudgeAgrees ==
    ASSUME TypeOK, FaultFree, FaultFreeInv, QueueForm(queue, node_map),
           NEW c \in Conn, RemoveJudge(c)
    PROVE  FaultFreeInv' /\ judges' = judges \ {c} /\ c \in judges
  <1> DEFINE J == judges \ {c}
             H == [handler EXCEPT ![c].job = {}]
             M == Unmapped(submission_map, handler[c].working)
  <1>1. /\ step[c] = "ready" /\ step' = [step EXCEPT ![c] = "gone"] /\ closed' = closed
        /\ \/ judges' = J /\ handler' = H /\ submission_map' = M
              /\ UNCHANGED <<queue, node_map>>
           \/ \E d \in SoleFree(J, H) : HandleFreeJudge(d, J, H, M)
    BY DEF RemoveJudge
  <1>2. c \in judges
    BY <1>1 DEF FaultFreeInv
  <1>3. handler \in [Conn -> Handler] /\ handler[c] \in Handler
    BY DEF TypeOK
  <1>4. /\ H \in [Conn -> Handler]
        /\ H[c].job = {} /\ H[c].working = handler[c].working
        /\ \A d \in Conn : d # c => H[d] = handler[d]
    <2>1. [handler[c] EXCEPT !.job = {}] \in Handler
      BY <1>3 DEF Handler
    <2>2. /\ [handler[c] EXCEPT !.job = {}].job = {}
          /\ [handler[c] EXCEPT !.job = {}].working = handler[c].working
      BY <1>3 DEF Handler
    <2> QED BY <2>1, <2>2, <1>3
  <1>5. /\ M \in [Sub -> Conn \cup {NoConn}]
        /\ \A t \in Sub : M[t] = IF t = handler[c].working THEN NoConn ELSE submission_map[t]
    BY DEF TypeOK, Unmapped
  <1>6. J \in SUBSET Conn /\ closed = {} /\ c \notin J /\ \A d \in Conn : d # c => (d \in J <=> d \in judges)
    BY DEF TypeOK, FaultFreeInv
  <1> HIDE DEF H, M, J
  <1>7. Agree(J, H, M, node_map)
    <2>1. ASSUME NEW t \in Sub, NEW d \in Conn
          PROVE  M[t] = d <=> d \in J /\ H[d].working = t
      <3>1. submission_map[t] = d <=> d \in judges /\ handler[d].working = t
        BY DEF FaultFreeInv, Agree
      <3>2. submission_map[t] = c <=> handler[c].working = t
        BY <1>2 DEF FaultFreeInv, Agree
      <3>3. CASE d = c
        BY <3>2, <3>3, <1>5, <1>6, JudgeListAssumption
      <3>4. CASE d # c /\ t = handler[c].working
        BY <3>1, <3>2, <3>4, <1>4, <1>5, <1>6, JudgeListAssumption
      <3>5. CASE d # c /\ t # handler[c].working
        BY <3>1, <3>5, <1>4, <1>5, <1>6
      <3> QED BY <3>3, <3>4, <3>5
    <2>2. \A t \in Sub : M[t] # NoConn => t \notin node_map
      BY <1>5 DEF FaultFreeInv, Agree
    <2>3. ASSUME NEW d \in Conn
          PROVE  H[d].job = IF d \in J /\ H[d].working # NoSub THEN {H[d].working} ELSE {}
      <3>1. handler[d].job =
              IF d \in judges /\ handler[d].working # NoSub THEN {handler[d].working} ELSE {}
        BY DEF FaultFreeInv, Agree
      <3> QED BY <3>1, <1>4, <1>6
    <2> QED BY <2>1, <2>2, <2>3 DEF Agree
  <1>8. judges' = J /\ Agree(J, handler', submission_map', node_map')
    <2>1. CASE judges' = J /\ handler' = H /\ submission_map' = M /\ UNCHANGED <<queue, node_map>>
      BY <2>1, <1>7
    <2>2. ASSUME NEW d \in SoleFree(J, H), HandleFreeJudge(d, J, H, M)
          PROVE  judges' = J /\ Agree(J, handler', submission_map', node_map')
      <3>1. d \in J /\ d \in Conn /\ H[d].working = NoSub
        BY <1>6 DEF SoleFree
      <3> QED BY <2>2, <3>1, <1>4, <1>5, <1>6, <1>7, HandleFreeJudgeAgrees
    <2> QED BY <1>1, <2>1, <2>2
  <1>9. /\ \A d \in Conn : step'[d] \in {"gone", "loading", "ready"}
        /\ judges' = {d \in Conn : step'[d] # "gone"}
    BY <1>1, <1>8 DEF FaultFreeInv, TypeOK, J
  <1> QED BY <1>1, <1>2, <1>6, <1>8, <1>9 DEF FaultFreeInv, J

\* The flag is_disabled takes no part in the agreement.
LEMMA FlagsAgree ==
    ASSUME TypeOK, FaultFreeInv, UNCHANGED <<judges, submission_map, node_map, closed>>,
           \A d \in Conn : handler'[d].job = handler[d].job
                            /\ handler'[d].working = handler[d].working
    PROVE  Agree(judges', handler', submission_map', node_map')
  <1>1. \A t \in Sub, d \in Conn :
          submission_map'[t] = d <=> d \in judges' /\ handler'[d].working = t
    BY DEF FaultFreeInv, Agree
  <1>2. \A t \in Sub : submission_map'[t] # NoConn => t \notin node_map'
    BY DEF FaultFreeInv, Agree
  <1>3. ASSUME NEW d \in Conn
        PROVE  handler'[d].job =
          IF d \in judges' /\ handler'[d].working # NoSub THEN {handler'[d].working} ELSE {}
    <2>1. handler[d].job =
            IF d \in judges /\ handler[d].working # NoSub THEN {handler[d].working} ELSE {}
      BY DEF FaultFreeInv, Agree
    <2> QED BY <2>1
  <1> QED BY <1>1, <1>2, <1>3 DEF Agree

\* Every step keeps the invariant.
LEMMA NextFaultFree ==
    ASSUME TypeOK, FaultFree, FaultFreeInv, QueueForm(queue, node_map), [Next]_vars
    PROVE  FaultFreeInv'
  <1>1. ASSUME NEW s \in Sub, NEW p \in Priority, NEW j \in Name \cup {NoName}, Judge(s, p, j)
        PROVE  FaultFreeInv'
    BY <1>1, JudgeAgrees
  <1>2. ASSUME NEW s \in Sub, Abort(s) PROVE FaultFreeInv'
    BY <1>2, AbortAgrees
  <1>3. ASSUME NEW c \in Conn, NEW n \in Name, NEW P \in Lists, Register(c, n, P)
        PROVE  FaultFreeInv'
    BY <1>3, RegisterAgrees
  <1>4. ASSUME NEW c \in Conn, NEW b \in BOOLEAN, LoadDisabled(c, b) PROVE FaultFreeInv'
    <2>1. /\ handler' = [handler EXCEPT ![c].disabled = b]
          /\ step[c] = "loading" /\ step' = [step EXCEPT ![c] = "ready"]
          /\ UNCHANGED <<judges, submission_map, node_map, closed>>
      BY <1>4 DEF LoadDisabled
    <2>2. handler \in [Conn -> Handler] /\ handler[c] \in Handler
      BY DEF TypeOK
    <2>3. \A d \in Conn : handler'[d].job = handler[d].job
                           /\ handler'[d].working = handler[d].working
      <3>1. /\ [handler[c] EXCEPT !.disabled = b].job = handler[c].job
            /\ [handler[c] EXCEPT !.disabled = b].working = handler[c].working
        BY <2>2 DEF Handler
      <3> QED BY <2>1, <2>2, <3>1
    <2>4. Agree(judges', handler', submission_map', node_map')
      BY <2>1, <2>3, FlagsAgree
    <2>5. /\ \A d \in Conn : step'[d] \in {"gone", "loading", "ready"}
          /\ judges' = {d \in Conn : step'[d] # "gone"}
      BY <2>1 DEF FaultFreeInv, TypeOK
    <2> QED BY <2>1, <2>4, <2>5 DEF FaultFreeInv
  <1>5. ASSUME NEW n \in Name, NEW b \in BOOLEAN, UpdateDisableJudge(n, b) PROVE FaultFreeInv'
    <2>1. UNCHANGED <<judges, submission_map, node_map, closed, step>>
      BY <1>5 DEF UpdateDisableJudge
    <2>2. \A d \in Conn : handler'[d].job = handler[d].job
                           /\ handler'[d].working = handler[d].working
      <3>1. \A d \in Conn : /\ [handler[d] EXCEPT !.disabled = b].job = handler[d].job
                            /\ [handler[d] EXCEPT !.disabled = b].working = handler[d].working
        BY DEF TypeOK, Handler
      <3> QED BY <1>5, <3>1 DEF UpdateDisableJudge
    <2>3. Agree(judges', handler', submission_map', node_map')
      BY <2>1, <2>2, FlagsAgree
    <2> QED BY <2>1, <2>3 DEF FaultFreeInv
  <1>6. ASSUME NEW n \in Name, Disconnect(n) PROVE FALSE
    BY <1>6 DEF Disconnect, FaultFree
  <1>7. ASSUME NEW c \in Conn, NEW s \in Sub, OnJudgeFree(c, s) PROVE FaultFreeInv'
    BY <1>7, OnJudgeFreeAgrees
  <1>8. ASSUME NEW c \in Conn, RemoveJudge(c) PROVE FaultFreeInv'
    BY <1>8, RemoveJudgeAgrees
  <1>9. ASSUME NEW c \in Conn, NEW P \in Lists, SupportedProblems(c, P) PROVE FALSE
    BY <1>9 DEF SupportedProblems, FaultFree
  <1>10. ASSUME NEW c \in Conn, ReadWorking(c) \/ UpdateProblems(c) PROVE FALSE
    BY <1>10 DEF ReadWorking, UpdateProblems, FaultFreeInv
  <1>11. CASE UNCHANGED vars
    BY <1>11 DEF vars, FaultFreeInv, Agree
  <1>12. 0 .. REJUDGE_PRIORITY - 1 \subseteq Priority
    BY DEF Priority, REJUDGE_PRIORITY
  <1> QED
    BY <1>1, <1>2, <1>3, <1>4, <1>5, <1>6, <1>7, <1>8, <1>9, <1>10, <1>11, <1>12 DEF Next

\* The agreement holds in every reachable state without faults.
THEOREM AgreementKept == ASSUME FaultFree PROVE Spec => []FaultFreeInv
  <1>1. Init => FaultFreeInv
    <2>1. ASSUME Init PROVE Agree(judges, handler, submission_map, node_map)
      BY <2>1, JudgeListAssumption DEF Init, NewHandler, Agree
    <2> QED BY <2>1 DEF Init, FaultFreeInv
  <1>2. TypeOK /\ QueueWellFormed /\ FaultFreeInv /\ [Next]_vars => FaultFreeInv'
    BY QueueWellFormedIsForm, NextFaultFree
  <1> QED BY <1>1, <1>2, TypeCorrect, QueueAgrees, PTL DEF Spec

(***************************************************************************)
(* submission_map is the inverse of the handlers' _working, for any number *)
(* of judges, names, submissions and problem lists.                        *)
(***************************************************************************)
THEOREM MapTracksWorkHolds == ASSUME FaultFree PROVE Spec => []MapTracksWork
  <1>1. FaultFreeInv => MapTracksWork
    BY DEF FaultFreeInv, Agree, MapTracksWork
  <1> QED BY <1>1, AgreementKept, PTL

(***************************************************************************)
(* No submission is graded by two judges at once and no judge is given two *)
(* submissions at once.                                                    *)
(***************************************************************************)
THEOREM SingleGradingHolds == ASSUME FaultFree PROVE Spec => []SingleGrading
  <1>1. TypeOK /\ FaultFreeInv => SingleGrading
    <2> SUFFICES ASSUME TypeOK, FaultFreeInv, NEW c \in Conn, NEW d \in Conn,
                        NEW s \in handler[c].job, NEW t \in handler[d].job
                 PROVE  (s = t) <=> (c = d)
      BY DEF SingleGrading
    <2>1. \A x \in Conn, u \in Sub : submission_map[u] = x <=> x \in judges /\ handler[x].working = u
      BY DEF FaultFreeInv, Agree
    <2>2. \A x \in Conn : handler[x].job =
            IF x \in judges /\ handler[x].working # NoSub THEN {handler[x].working} ELSE {}
      BY DEF FaultFreeInv, Agree
    <2>3. c \in judges /\ d \in judges /\ handler[c].working = s /\ handler[d].working = t
      BY <2>2
    <2>4. s \in Sub /\ t \in Sub
      BY DEF TypeOK, Handler
    <2> QED BY <2>1, <2>3, <2>4
  <1> QED BY <1>1, TypeCorrect, AgreementKept, PTL

-----------------------------------------------------------------------------
(***************************************************************************)
(* JudgeList implements Dispatch.                                          *)
(***************************************************************************)
Jobs(H) == [x \in Conn |-> H[x].job]

\* A walk for c gives c a waiting submission or changes nothing.
LEMMA WalkSettles ==
    ASSUME TypeOK, FaultFree, closed = {},
           NEW c \in Conn, NEW J \in SUBSET Conn, c \in J,
           NEW H \in [Conn -> Handler], H[c].job = {},
           NEW M, NEW D, c \in D, QueueForm(queue, node_map),
           HandleFreeJudge(c, J, H, M)
    PROVE  Promise!Settle(Jobs(H), D)
  <1>1. CASE handler' = H /\ UNCHANGED node_map
    BY <1>1 DEF Promise!Settle, Jobs
  <1>2. ASSUME NEW pos \in Eligible(c, J, H),
               Submitted(c, EntryAt(pos).id, J, H, M),
               node_map' = node_map \ {EntryAt(pos).id}
        PROVE  Promise!Settle(Jobs(H), D)
    <2> DEFINE s == EntryAt(pos).id
    <2>1. s \in node_map
      BY PositionProperties DEF Eligible, QueueForm, EntryAt
    <2>2. handler' = [H EXCEPT ![c].working = s, ![c].job = @ \cup {s}]
      BY <1>2 DEF Submitted
    <2> HIDE DEF s
    <2>3. [H[c] EXCEPT !.working = s, !.job = @ \cup {s}].job = {s}
      BY DEF Handler
    <2>4. handler'[c].job = {s} /\ \A x \in Conn : x # c => handler'[x] = H[x]
      BY <2>2, <2>3
    <2>5. Jobs(handler') = [Jobs(H) EXCEPT ![c] = {s}]
      BY <2>4 DEF Jobs
    <2>6. Jobs(H)[c] = {}
      BY DEF Jobs
    <2>7. node_map' = node_map \ {s}
      BY <1>2 DEF s
    <2> QED BY <2>1, <2>5, <2>6, <2>7 DEF Promise!Settle, Jobs
  <1>3. ASSUME NEW s, SubmitFailed(c, s, J, H, M) PROVE FALSE
    BY <1>3 DEF SubmitFailed, FaultFree
  <1> QED BY <1>1, <1>2, <1>3 DEF HandleFreeJudge

\* Each operation of the list is an operation of Dispatch: judge a request,
LEMMA JudgeIsRequest ==
    ASSUME TypeOK, FaultFree, FaultFreeInv,
           NEW s \in Sub, NEW p \in Priority, NEW j \in Name \cup {NoName}, Judge(s, p, j)
    PROVE  Promise!Request(s)
  <1> DEFINE e == [id |-> s, judge_id |-> j]
  <1>1. s \notin node_map /\ submission_map[s] = NoConn
    BY DEF Judge, Known
  <1>2. \A x \in Conn : handler[x].job =
          IF x \in judges /\ handler[x].working # NoSub THEN {handler[x].working} ELSE {}
    BY DEF FaultFreeInv, Agree
  <1>3. \A x \in Conn : s \notin handler[x].job
    <2>1. \A x \in Conn : ~(x \in judges /\ handler[x].working = s)
      BY <1>1, JudgeListAssumption DEF FaultFreeInv, Agree
    <2> QED BY <2>1, <1>2
  <1>4. ASSUME NEW c \in Available(e, p), Submitted(c, s, judges, handler, submission_map),
               UNCHANGED <<queue, node_map>>
        PROVE  Promise!Request(s)
    <2>1. c \in judges /\ c \in Conn /\ handler[c].job = {}
      BY <1>2 DEF Available, Candidates, Idle, TypeOK
    <2>2. /\ handler' = [handler EXCEPT ![c].working = s, ![c].job = @ \cup {s}]
          /\ judges' = judges
      BY <1>4 DEF Submitted
    <2>3. [handler[c] EXCEPT !.working = s, !.job = @ \cup {s}].job = {s}
      BY <2>1 DEF TypeOK, Handler
    <2>4. handler'[c].job = {s} /\ \A x \in Conn : x # c => handler'[x] = handler[x]
      BY <2>1, <2>2, <2>3 DEF TypeOK
    <2>5. Jobs(handler') = [Jobs(handler) EXCEPT ![c] = {s}]
      BY <2>4 DEF Jobs
    <2>6. Jobs(handler)[c] = {} /\ \A x \in Conn : s \notin Jobs(handler)[x]
      BY <1>3, <2>1 DEF Jobs
    <2> QED BY <1>1, <1>4, <2>1, <2>2, <2>5, <2>6 DEF Promise!Request, Jobs
  <1>5. ASSUME node_map' = node_map \cup {s}, UNCHANGED <<judges, handler, submission_map>>
        PROVE  Promise!Request(s)
    BY <1>1, <1>3, <1>5 DEF Promise!Request
  <1>6. ASSUME NEW c, SubmitFailed(c, s, judges, handler, submission_map) PROVE FALSE
    BY <1>6 DEF SubmitFailed, FaultFree, FaultFreeInv
  <1> QED BY <1>4, <1>5, <1>6 DEF Judge

\* register a join,
LEMMA RegisterIsJoin ==
    ASSUME TypeOK, FaultFree, FaultFreeInv, QueueForm(queue, node_map),
           NEW c \in Conn, NEW n \in Name, NEW P \in Lists, Register(c, n, P)
    PROVE  Promise!Join(c)
  <1> DEFINE H == [handler EXCEPT ![c] = NewHandler(n, P)]
  <1>1. /\ step[c] = "gone"
        /\ HandleFreeJudge(c, judges \cup {c}, H, submission_map)
    BY DEF Register
  <1>2. NewHandler(n, P) \in Handler /\ NewHandler(n, P).job = {}
    BY JudgeListAssumption DEF NewHandler, Handler
  <1>3. H \in [Conn -> Handler] /\ H[c].job = {} /\ \A x \in Conn : x # c => H[x] = handler[x]
    BY <1>2 DEF TypeOK
  <1>4. c \notin judges /\ handler[c].job = {}
    BY <1>1 DEF FaultFreeInv, Agree
  <1> HIDE DEF H
  <1>5. Jobs(H) = Jobs(handler)
    BY <1>3, <1>4 DEF Jobs
  <1>6. judges \cup {c} \in SUBSET Conn /\ closed = {}
    BY DEF TypeOK, FaultFreeInv
  <1>7. Promise!Settle(Jobs(handler), {c})
    BY <1>1, <1>3, <1>5, <1>6, WalkSettles
  <1>8. judges' = judges \cup {c}
    BY RegisterAgrees
  <1> QED BY <1>4, <1>7, <1>8 DEF Promise!Join, Jobs

\* on_judge_free a report,
LEMMA OnJudgeFreeIsReport ==
    ASSUME TypeOK, FaultFree, FaultFreeInv, QueueForm(queue, node_map),
           NEW c \in Conn, NEW s \in Sub, OnJudgeFree(c, s)
    PROVE  Promise!Report(c)
  <1> DEFINE told == [handler EXCEPT ![c].job = @ \ {s}]
             H == [told EXCEPT ![c].working = NoSub]
             M == Unmapped(submission_map, s)
  <1>1. c \in judges /\ handler[c].job = {s} /\ judges' = judges
    BY OnJudgeFreeAgrees
  <1>2. submission_map[s] = c
    <2>1. handler[c].job = IF c \in judges /\ handler[c].working # NoSub
                           THEN {handler[c].working} ELSE {}
      BY DEF FaultFreeInv, Agree
    <2>2. handler[c].working = s
      BY <1>1, <2>1
    <2> QED BY <1>1, <2>2 DEF FaultFreeInv, Agree
  <1>3. HandleFreeJudge(c, judges, H, M)
    BY <1>2, JudgeListAssumption DEF OnJudgeFree
  <1>4. handler \in [Conn -> Handler] /\ handler[c] \in Handler
    BY DEF TypeOK
  <1>5. [[handler[c] EXCEPT !.job = @ \ {s}] EXCEPT !.working = NoSub] \in Handler
    BY <1>4 DEF Handler
  <1>6. [[handler[c] EXCEPT !.job = @ \ {s}] EXCEPT !.working = NoSub].job = {}
    BY <1>1, <1>4 DEF Handler
  <1>7. H = [handler EXCEPT ![c] = [[handler[c] EXCEPT !.job = @ \ {s}] EXCEPT !.working = NoSub]]
    BY <1>4
  <1>8. H \in [Conn -> Handler] /\ H[c].job = {} /\ \A x \in Conn : x # c => H[x] = handler[x]
    BY <1>4, <1>5, <1>6, <1>7
  <1> HIDE DEF H
  <1>9. Jobs(H) = [Jobs(handler) EXCEPT ![c] = {}]
    BY <1>8 DEF Jobs
  <1>10. judges \in SUBSET Conn /\ closed = {}
    BY DEF TypeOK, FaultFreeInv
  <1>11. Promise!Settle([Jobs(handler) EXCEPT ![c] = {}], {c})
    BY <1>1, <1>3, <1>8, <1>9, <1>10, WalkSettles
  <1> QED BY <1>1, <1>11 DEF Promise!Report, Jobs

\* (a walk for one of the judges that are left)
LEMMA MemberWalkSettles ==
    ASSUME TypeOK, FaultFree, closed = {}, QueueForm(queue, node_map),
           NEW J \in SUBSET Conn, NEW d \in J,
           NEW H \in [Conn -> Handler], H[d].job = {},
           NEW M, HandleFreeJudge(d, J, H, M)
    PROVE  Promise!Settle(Jobs(H), J)
  BY WalkSettles

\* remove a leave;
LEMMA RemoveJudgeIsLeave ==
    ASSUME TypeOK, FaultFree, FaultFreeInv, QueueForm(queue, node_map),
           NEW c \in Conn, RemoveJudge(c)
    PROVE  Promise!Leave(c)
  <1> DEFINE J == judges \ {c}
             H == [handler EXCEPT ![c].job = {}]
             M == Unmapped(submission_map, handler[c].working)
  <1>1. c \in judges /\ judges' = J
    BY RemoveJudgeAgrees
  <1>2. \/ handler' = H /\ UNCHANGED node_map
        \/ \E d \in SoleFree(J, H) : HandleFreeJudge(d, J, H, M)
    BY DEF RemoveJudge
  <1>3. handler \in [Conn -> Handler] /\ handler[c] \in Handler
    BY DEF TypeOK
  <1>4. [handler[c] EXCEPT !.job = {}] \in Handler /\ [handler[c] EXCEPT !.job = {}].job = {}
    BY <1>3 DEF Handler
  <1>5. H \in [Conn -> Handler] /\ H[c].job = {} /\ \A x \in Conn : x # c => H[x] = handler[x]
    BY <1>3, <1>4
  <1> HIDE DEF H
  <1>6. Jobs(H) = [Jobs(handler) EXCEPT ![c] = {}]
    BY <1>5 DEF Jobs
  <1>7. J \in SUBSET Conn /\ closed = {}
    BY DEF TypeOK, FaultFreeInv
  <1>8. Promise!Settle(Jobs(H), J)
    <2>1. CASE handler' = H /\ UNCHANGED node_map
      BY <2>1 DEF Promise!Settle, Jobs
    <2>2. ASSUME NEW d \in SoleFree(J, H), HandleFreeJudge(d, J, H, M)
          PROVE  Promise!Settle(Jobs(H), J)
      <3>1. d \in J /\ d \in Conn /\ d # c /\ H[d].working = NoSub
        BY <1>7 DEF SoleFree
      <3>2. H[d].job = {}
        <4>1. handler[d].job = IF d \in judges /\ handler[d].working # NoSub
                               THEN {handler[d].working} ELSE {}
          BY <3>1 DEF FaultFreeInv, Agree
        <4>2. H[d] = handler[d]
          BY <3>1, <1>5
        <4> QED BY <3>1, <4>1, <4>2
      <3>3. J \in SUBSET Conn /\ d \in J /\ d \in Conn /\ closed = {}
        BY <1>7, <3>1
      <3>4. HandleFreeJudge(d, J, H, M)
        BY <2>2
      <3>5. H \in [Conn -> Handler]
        BY <1>5
      <3> HIDE DEF J, M
      <3> QED BY <3>2, <3>3, <3>4, <3>5, MemberWalkSettles DEF Promise!Settle
    <2> QED BY <1>2, <2>1, <2>2
  <1> QED BY <1>1, <1>6, <1>8 DEF Promise!Leave, Promise!Settle, Jobs

\* every step maps to a step of Dispatch or to a stutter.
LEMMA StepKeepsPromise ==
    ASSUME TypeOK, FaultFree, FaultFreeInv, QueueForm(queue, node_map), [Next]_vars
    PROVE  [Promise!Next]_(Promise!dispatchVars)
  <1>1. ASSUME NEW s \in Sub, NEW p \in Priority, NEW j \in Name \cup {NoName}, Judge(s, p, j)
        PROVE  Promise!Next
    BY <1>1, JudgeIsRequest DEF Promise!Next
  <1>2. ASSUME NEW s \in Sub, Abort(s) PROVE Promise!Next
    <2>1. Promise!Cancel(s)
      BY <1>2 DEF Abort, Promise!Cancel
    <2> QED BY <2>1 DEF Promise!Next
  <1>3. ASSUME NEW c \in Conn, NEW n \in Name, NEW P \in Lists, Register(c, n, P)
        PROVE  Promise!Next
    BY <1>3, RegisterIsJoin DEF Promise!Next
  <1>4. ASSUME NEW c \in Conn, NEW b \in BOOLEAN, LoadDisabled(c, b)
        PROVE  UNCHANGED Promise!dispatchVars
    <2>1. [handler[c] EXCEPT !.disabled = b].job = handler[c].job
      BY DEF TypeOK, Handler
    <2> QED BY <1>4, <2>1 DEF LoadDisabled, TypeOK, Promise!dispatchVars
  <1>5. ASSUME NEW n \in Name, NEW b \in BOOLEAN, UpdateDisableJudge(n, b)
        PROVE  UNCHANGED Promise!dispatchVars
    <2>1. \A d \in Conn : [handler[d] EXCEPT !.disabled = b].job = handler[d].job
      BY DEF TypeOK, Handler
    <2> QED BY <1>5, <2>1 DEF UpdateDisableJudge, Promise!dispatchVars
  <1>6. ASSUME NEW n \in Name, Disconnect(n) PROVE FALSE
    BY <1>6 DEF Disconnect, FaultFree
  <1>7. ASSUME NEW c \in Conn, NEW s \in Sub, OnJudgeFree(c, s) PROVE Promise!Next
    BY <1>7, OnJudgeFreeIsReport DEF Promise!Next
  <1>8. ASSUME NEW c \in Conn, RemoveJudge(c) PROVE Promise!Next
    BY <1>8, RemoveJudgeIsLeave DEF Promise!Next
  <1>9. ASSUME NEW c \in Conn, NEW P \in Lists, SupportedProblems(c, P) PROVE FALSE
    BY <1>9 DEF SupportedProblems, FaultFree
  <1>10. ASSUME NEW c \in Conn, ReadWorking(c) \/ UpdateProblems(c) PROVE FALSE
    BY <1>10 DEF ReadWorking, UpdateProblems, FaultFreeInv
  <1>11. CASE UNCHANGED vars
    BY <1>11 DEF vars, Promise!dispatchVars
  <1>12. 0 .. REJUDGE_PRIORITY - 1 \subseteq Priority
    BY DEF Priority, REJUDGE_PRIORITY
  <1> QED
    BY <1>1, <1>2, <1>3, <1>4, <1>5, <1>6, <1>7, <1>8, <1>9, <1>10, <1>11, <1>12 DEF Next

(***************************************************************************)
(* Every behaviour of the dispatcher without faults is a behaviour of      *)
(* Dispatch: the promise of the bridge is kept for every number of judges, *)
(* names, submissions and kinds of problem.                                *)
(***************************************************************************)
THEOREM PromiseKept == ASSUME FaultFree PROVE Spec => KeepsPromise
  <1>1. Init => Promise!Init
    BY DEF Init, NewHandler, Promise!Init
  <1>2. TypeOK /\ QueueWellFormed /\ FaultFreeInv /\ [Next]_vars
          => [Promise!Next]_(Promise!dispatchVars)
    BY QueueWellFormedIsForm, StepKeepsPromise
  <1> QED
    BY <1>1, <1>2, TypeCorrect, QueueAgrees, AgreementKept, PTL DEF Spec, KeepsPromise, Promise!Spec

(***************************************************************************)
(* Where a submission is, for callers of the list: it waits, or one judge  *)
(* has it and nothing else, or the list does not know it.                  *)
(***************************************************************************)
Placed ==
    /\ \A t \in Sub : Known(t) <=> t \in node_map \/ \E c \in Conn : t \in handler[c].job
    /\ \A c \in Conn, t \in Sub :
         t \in handler[c].job =>
           handler[c].job = {t} /\ handler[c].working = t /\ t \notin node_map
    /\ \A c, d \in Conn, t \in Sub : t \in handler[c].job /\ t \in handler[d].job => c = d
    /\ \A c \in judges : handler[c].working # NoSub => handler[c].working \in handler[c].job

LEMMA AgreementPlaces == ASSUME TypeOK, FaultFreeInv PROVE Placed
  <1>1. /\ \A s \in Sub, c \in Conn :
             submission_map[s] = c <=> c \in judges /\ handler[c].working = s
        /\ \A s \in Sub : submission_map[s] # NoConn => s \notin node_map
    BY DEF FaultFreeInv, Agree
  <1>0. \A c \in Conn : handler[c].job =
          IF c \in judges /\ handler[c].working # NoSub THEN {handler[c].working} ELSE {}
    BY DEF FaultFreeInv, Agree
  <1>2. /\ NoSub \notin Sub /\ NoConn \notin Conn /\ judges \subseteq Conn
        /\ \A s \in Sub : submission_map[s] \in Conn \cup {NoConn}
    BY JudgeListAssumption DEF TypeOK
  <1>3. ASSUME NEW c \in Conn, NEW t \in Sub
        PROVE  /\ t \in handler[c].job <=> c \in judges /\ handler[c].working = t
               /\ t \in handler[c].job <=> submission_map[t] = c
               /\ t \in handler[c].job => handler[c].job = {t} /\ t \notin node_map
    <2>1. CASE c \in judges /\ handler[c].working # NoSub
      <3>1. handler[c].job = {handler[c].working}
        BY <1>0, <2>1
      <3>2. submission_map[t] = c <=> handler[c].working = t
        BY <1>1, <2>1
      <3>3. submission_map[t] = c => t \notin node_map
        BY <1>1, <1>2
      <3> QED BY <2>1, <3>1, <3>2, <3>3
    <2>2. CASE ~(c \in judges /\ handler[c].working # NoSub)
      <3>1. handler[c].job = {}
        BY <1>0, <2>2
      <3> QED BY <1>1, <1>2, <2>2, <3>1
    <2> QED BY <2>1, <2>2
  <1>4. \A t \in Sub : Known(t) <=> t \in node_map \/ \E c \in Conn : t \in handler[c].job
    BY <1>2, <1>3 DEF Known
  <1>5. \A c \in Conn, t \in Sub :
          t \in handler[c].job =>
            handler[c].job = {t} /\ handler[c].working = t /\ t \notin node_map
    BY <1>3
  <1>6. \A c, d \in Conn, t \in Sub : t \in handler[c].job /\ t \in handler[d].job => c = d
    BY <1>3
  <1>7. \A c \in judges : handler[c].working # NoSub => handler[c].working \in handler[c].job
    <2>1. \A c \in judges : handler[c].working # NoSub => handler[c].job = {handler[c].working}
      BY <1>0, <1>2
    <2> QED BY <2>1
  <1> QED BY <1>4, <1>5, <1>6, <1>7 DEF Placed

(***************************************************************************)
(* What a step may do to where submissions are: those of R may come in,    *)
(* those of F are given up, what waits may be given to a judge, and what   *)
(* judges have stays with them.                                            *)
(***************************************************************************)
Moved(R, F) ==
    /\ node_map' \subseteq node_map \cup R
    /\ \A c \in Conn, t \in Sub :
         t \in handler'[c].job => handler'[c].job = handler[c].job \/ t \in node_map \cup R
    /\ \A c \in Conn, t \in Sub \ F :
         t \in handler[c].job => handler'[c].job = handler[c].job
    /\ \A t \in F : t \notin node_map' /\ \A c \in Conn : t \notin handler'[c].job

\* What settles takes nothing away and brings nothing in.
LEMMA SettlesMoves ==
    ASSUME NEW h \in [Conn -> SUBSET Sub], NEW D \in SUBSET Conn, Promise!Settle(h, D)
    PROVE  /\ node_map' \subseteq node_map
           /\ \A c \in Conn, t \in Sub :
                t \in handler'[c].job => handler'[c].job = h[c] \/ t \in node_map
           /\ \A c \in Conn : h[c] # {} => handler'[c].job = h[c]
  <1>1. \A c \in Conn : Jobs(handler')[c] = handler'[c].job
    BY DEF Jobs
  <1>2. CASE Jobs(handler') = h /\ UNCHANGED node_map
    BY <1>1, <1>2
  <1>3. ASSUME NEW d \in D, NEW s \in node_map, h[d] = {},
               Jobs(handler') = [h EXCEPT ![d] = {s}], node_map' = node_map \ {s}
        PROVE  /\ node_map' \subseteq node_map
               /\ \A c \in Conn, t \in Sub :
                    t \in handler'[c].job => handler'[c].job = h[c] \/ t \in node_map
               /\ \A c \in Conn : h[c] # {} => handler'[c].job = h[c]
    <2>1. handler'[d].job = {s} /\ \A c \in Conn : c # d => handler'[c].job = h[c]
      BY <1>1, <1>3
    <2> QED BY <1>3, <2>1
  <1> QED BY <1>2, <1>3 DEF Promise!Settle, Jobs

\* The operations of the list in these terms.
LEMMA OperationMoves ==
    ASSUME TypeOK, FaultFree, FaultFreeInv, QueueForm(queue, node_map)
    PROVE  /\ \A s \in Sub, p \in Priority : Judge(s, p, NoName) => Moved({s}, {})
           /\ \A c \in Conn, n \in Name, P \in Lists : Register(c, n, P) => Moved({}, {})
           /\ \A c \in Conn, n \in Name, b \in BOOLEAN :
                LoadDisabled(c, b) \/ UpdateDisableJudge(n, b)
                  => Moved({}, {}) /\ \A d \in Conn : handler'[d].job = handler[d].job
           /\ \A c \in Conn, s \in Sub :
                OnJudgeFree(c, s) => Moved({}, {s}) /\ handler[c].job = {s}
           /\ \A c \in Conn : RemoveJudge(c) => Moved({}, handler[c].job) /\ c \in judges
  <1>1. /\ \A x \in Conn : Jobs(handler)[x] = handler[x].job
        /\ \A x \in Conn : Jobs(handler')[x] = handler'[x].job
        /\ Jobs(handler) \in [Conn -> SUBSET Sub]
    BY DEF Jobs, TypeOK, Handler
  <1>2. Placed
    BY AgreementPlaces
  <1>3. ASSUME NEW s \in Sub, NEW p \in Priority, Judge(s, p, NoName) PROVE Moved({s}, {})
    <2>1. Promise!Request(s)
      BY <1>3, JudgeIsRequest
    <2>2. CASE node_map' = node_map \cup {s} /\ Jobs(handler') = Jobs(handler)
      BY <1>1, <2>2 DEF Moved
    <2>3. ASSUME NEW c \in judges, Jobs(handler)[c] = {}, UNCHANGED node_map,
                 Jobs(handler') = [Jobs(handler) EXCEPT ![c] = {s}]
          PROVE  Moved({s}, {})
      <3>1. /\ c \in Conn /\ handler[c].job = {} /\ handler'[c].job = {s}
            /\ \A d \in Conn : d # c => handler'[d].job = handler[d].job
        BY <1>1, <2>3 DEF TypeOK
      <3> QED BY <2>3, <3>1 DEF Moved
    <2> QED BY <2>1, <2>2, <2>3 DEF Promise!Request, Jobs
  <1>4. ASSUME NEW c \in Conn, NEW n \in Name, NEW P \in Lists, Register(c, n, P)
        PROVE  Moved({}, {})
    <2>1. Promise!Settle(Jobs(handler), {c})
      BY <1>4, RegisterIsJoin DEF Promise!Join, Jobs
    <2> QED BY <1>1, <2>1, SettlesMoves DEF Moved
  <1>5. ASSUME NEW c \in Conn, NEW n \in Name, NEW b \in BOOLEAN,
               LoadDisabled(c, b) \/ UpdateDisableJudge(n, b)
        PROVE  Moved({}, {}) /\ \A d \in Conn : handler'[d].job = handler[d].job
    <2>1. \A d \in Conn : [handler[d] EXCEPT !.disabled = b].job = handler[d].job
      BY DEF TypeOK, Handler
    <2>2. node_map' = node_map /\ \A d \in Conn : handler'[d].job = handler[d].job
      BY <1>5, <2>1 DEF LoadDisabled, UpdateDisableJudge, TypeOK
    <2> QED BY <2>2 DEF Moved
  <1>6. ASSUME NEW c \in Conn, NEW s \in Sub, OnJudgeFree(c, s)
        PROVE  Moved({}, {s}) /\ handler[c].job = {s}
    <2> DEFINE h == [Jobs(handler) EXCEPT ![c] = {}]
    <2>1. Promise!Settle(h, {c}) /\ handler[c].job = {s}
      BY <1>6, OnJudgeFreeIsReport, OnJudgeFreeAgrees DEF Promise!Report, Jobs
    <2>2. /\ h \in [Conn -> SUBSET Sub] /\ h[c] = {}
          /\ \A d \in Conn : d # c => h[d] = handler[d].job
      BY <1>1
    <2> HIDE DEF h
    <2>3. /\ node_map' \subseteq node_map
          /\ \A d \in Conn, t \in Sub :
               t \in handler'[d].job => handler'[d].job = h[d] \/ t \in node_map
          /\ \A d \in Conn : h[d] # {} => handler'[d].job = h[d]
      BY <2>1, <2>2, SettlesMoves
    <2>4. s \notin node_map /\ \A d \in Conn : d # c => s \notin handler[d].job
      BY <1>2, <2>1 DEF Placed
    <2> QED BY <2>1, <2>2, <2>3, <2>4 DEF Moved
  <1>7. ASSUME NEW c \in Conn, RemoveJudge(c)
        PROVE  Moved({}, handler[c].job) /\ c \in judges
    <2> DEFINE h == [Jobs(handler) EXCEPT ![c] = {}]
    <2>0. PICK D : D = judges \ {c}
      OBVIOUS
    <2>1. c \in judges /\ Promise!Settle(h, D) /\ D \in SUBSET Conn
      BY <1>7, <2>0, RemoveJudgeIsLeave, RemoveJudgeAgrees
         DEF Promise!Leave, Promise!Settle, Jobs, TypeOK
    <2>2. /\ h \in [Conn -> SUBSET Sub] /\ h[c] = {}
          /\ \A d \in Conn : d # c => h[d] = handler[d].job
      BY <1>1
    <2> HIDE DEF h
    <2>3. /\ node_map' \subseteq node_map
          /\ \A d \in Conn, t \in Sub :
               t \in handler'[d].job => handler'[d].job = h[d] \/ t \in node_map
          /\ \A d \in Conn : h[d] # {} => handler'[d].job = h[d]
      BY <2>1, <2>2, SettlesMoves
    <2>4. handler[c].job \subseteq Sub
      BY DEF TypeOK, Handler
    <2>5. \A t \in handler[c].job :
            t \notin node_map /\ \A d \in Conn : d # c => t \notin handler[d].job
      BY <1>2, <2>4 DEF Placed
    <2> QED BY <2>1, <2>2, <2>3, <2>4, <2>5 DEF Moved
  <1> QED BY <1>3, <1>4, <1>5, <1>6, <1>7

-----------------------------------------------------------------------------
(***************************************************************************)
(* The order of the queue: who waits, and who is served before whom.       *)
(***************************************************************************)

\* The attributes that decide what a judge may take; submit changes none.
Alike(h, g) == g.name = h.name /\ g.problems = h.problems /\ g.disabled = h.disabled

LEMMA AlikeJudgeAlike ==
    ASSUME NEW h, NEW g, Alike(h, g), NEW e PROVE CanJudge(g, e) <=> CanJudge(h, e)
  BY DEF Alike, CanJudge

\* A position is a class and a place in it.
LEMMA PositionsAreIndices ==
    ASSUME TypeOK
    PROVE  \A p \in Priority : \A k \in 1 .. Len(queue[p]) :
             /\ <<p, k>> \in Positions
             /\ EntryAt(<<p, k>>) = queue[p][k]
             /\ queue[p][k] \in Entry
  <1> SUFFICES ASSUME NEW p \in Priority, NEW k \in 1 .. Len(queue[p])
               PROVE  <<p, k>> \in Positions /\ EntryAt(<<p, k>>) = queue[p][k] /\ queue[p][k] \in Entry
    OBVIOUS
  <1>1. queue[p] \in Seq(Entry)
    BY DEF TypeOK
  <1>2. DOMAIN queue[p] = 1 .. Len(queue[p]) /\ queue[p][k] \in Entry
    BY <1>1, LenProperties, ElementOfSeq
  <1>3. <<p, k>> \in {p} \X DOMAIN queue[p]
    BY <1>2
  <1> QED BY <1>2, <1>3 DEF Positions, EntryAt

\* What is left when a node is removed was there before,
LEMMA RemovalLeaves ==
    ASSUME TypeOK, NEW pos \in Positions,
           queue' = [queue EXCEPT ![pos[1]] = RemoveAt(@, pos[2])]
    PROVE  \A p \in Priority : \A k \in 1 .. Len(queue'[p]) :
             \E l \in 1 .. Len(queue[p]) : queue'[p][k] = queue[p][l]
  <1>1. pos[1] \in Priority /\ pos[2] \in 1 .. Len(queue[pos[1]])
    BY PositionProperties
  <1>2. \A p \in Priority : queue[p] \in Seq(Entry) /\ Len(queue[p]) \in Nat
    BY LenProperties DEF TypeOK
  <1>3. queue'[pos[1]] = RemoveAt(queue[pos[1]], pos[2])
    BY <1>1 DEF TypeOK
  <1>4. /\ Len(queue'[pos[1]]) = Len(queue[pos[1]]) - 1
        /\ \A k \in 1 .. Len(queue[pos[1]]) - 1 :
             queue'[pos[1]][k] = IF k < pos[2] THEN queue[pos[1]][k] ELSE queue[pos[1]][k + 1]
    BY <1>1, <1>2, <1>3, RemoveAtProperties
  <1>5. \A p \in Priority : p # pos[1] => queue'[p] = queue[p]
    BY DEF TypeOK
  <1> SUFFICES ASSUME NEW p \in Priority, NEW k \in 1 .. Len(queue'[p])
               PROVE  \E l \in 1 .. Len(queue[p]) : queue'[p][k] = queue[p][l]
    OBVIOUS
  <1>6. CASE p # pos[1]
    BY <1>5, <1>6
  <1>7. CASE p = pos[1]
    <2>1. k \in 1 .. Len(queue[p]) - 1 /\ k + 1 \in 1 .. Len(queue[p]) /\ k \in 1 .. Len(queue[p])
      BY <1>1, <1>2, <1>4, <1>7
    <2> QED BY <1>4, <1>7, <2>1
  <1> QED BY <1>6, <1>7

\* and an insertion adds one entry to its class.
LEMMA InsertionAdds ==
    ASSUME TypeOK, NEW r \in Priority, NEW e \in Entry,
           queue' = [queue EXCEPT ![r] = Inserted(@, e)]
    PROVE  \A p \in Priority : \A k \in 1 .. Len(queue'[p]) :
             \/ p = r /\ queue'[p][k] = e
             \/ \E l \in 1 .. Len(queue[p]) : queue'[p][k] = queue[p][l]
  <1>1. queue[r] \in Seq(Entry) /\ Len(queue[r]) \in Nat
    BY LenProperties DEF TypeOK
  <1>2. queue'[r] = Append(queue[r], e)
    BY DEF TypeOK, Inserted
  <1>3. /\ Len(queue'[r]) = Len(queue[r]) + 1
        /\ \A k \in 1 .. Len(queue[r]) : queue'[r][k] = queue[r][k]
        /\ queue'[r][Len(queue[r]) + 1] = e
    BY <1>1, <1>2, AppendProperties
  <1>4. \A p \in Priority : p # r => queue'[p] = queue[p]
    BY DEF TypeOK
  <1> SUFFICES ASSUME NEW p \in Priority, NEW k \in 1 .. Len(queue'[p])
               PROVE  \/ p = r /\ queue'[p][k] = e
                      \/ \E l \in 1 .. Len(queue[p]) : queue'[p][k] = queue[p][l]
    OBVIOUS
  <1>5. CASE p # r
    BY <1>4, <1>5
  <1>6. CASE p = r
    <2>1. k \in 1 .. Len(queue[r]) \/ k = Len(queue[r]) + 1
      BY <1>1, <1>3, <1>6
    <2> QED BY <1>3, <1>6, <2>1
  <1> QED BY <1>5, <1>6

\* s was submitted to the handler h, which became g.
Given(h, g, s) == Alike(h, g) /\ g.working = s /\ s # NoSub /\ g.job = h.job \cup {s}

\* The three ways a submit ends for the handlers.
LEMMA SubmitOutcome ==
    ASSUME NEW c \in Conn, NEW s \in Sub, NEW J \in SUBSET Conn,
           NEW H \in [Conn -> Handler], NEW M
    PROVE  /\ Submitted(c, s, J, H, M)
                => /\ judges' = J
                   /\ Given(H[c], handler'[c], s)
                   /\ \A d \in Conn : d # c => handler'[d] = H[d]
           /\ SubmitFailed(c, s, J, H, M)
                => /\ judges' \subseteq J
                   /\ \A d \in Conn : Alike(H[d], handler'[d]) /\ handler'[d].job = H[d].job
  <1>1. H[c] \in Handler /\ s # NoSub
    BY JudgeListAssumption
  <1>2. ASSUME Submitted(c, s, J, H, M)
        PROVE  /\ judges' = J
               /\ Given(H[c], handler'[c], s)
               /\ \A d \in Conn : d # c => handler'[d] = H[d]
    <2>1. handler'[c] = [H[c] EXCEPT !.working = s, !.job = @ \cup {s}]
      BY <1>2 DEF Submitted
    <2>2. Given(H[c], handler'[c], s)
      BY <1>1, <2>1 DEF Given, Alike, Handler
    <2> QED BY <1>2, <2>2 DEF Submitted
  <1>3. ASSUME SubmitFailed(c, s, J, H, M)
        PROVE  /\ judges' \subseteq J
               /\ \A d \in Conn : Alike(H[d], handler'[d]) /\ handler'[d].job = H[d].job
    <2>1. CASE handler' = H
      BY <1>3, <2>1 DEF SubmitFailed, Alike
    <2>2. CASE handler' = [H EXCEPT ![c].working = s]
      <3>1. handler'[c] = [H[c] EXCEPT !.working = s]
        BY <2>2
      <3>2. Alike(H[c], handler'[c]) /\ handler'[c].job = H[c].job
        BY <1>1, <3>1 DEF Alike, Handler
      <3>3. \A d \in Conn : d # c => handler'[d] = H[d]
        BY <2>2
      <3> QED BY <1>3, <3>2, <3>3 DEF SubmitFailed, Alike
    <2> QED BY <1>3, <2>1, <2>2 DEF SubmitFailed
  <1> QED BY <1>2, <1>3

\* (what they have in common, and the first one by itself)
LEMMA SubmitLeavesAlike ==
    ASSUME NEW c \in Conn, NEW s \in Sub, NEW J \in SUBSET Conn,
           NEW H \in [Conn -> Handler], NEW M,
           Submitted(c, s, J, H, M) \/ SubmitFailed(c, s, J, H, M)
    PROVE  /\ judges' \subseteq J
           /\ \A d \in Conn : /\ Alike(H[d], handler'[d])
                               /\ handler'[d].job \subseteq H[d].job \cup {s}
  <1>1. \A h : Alike(h, h)
    BY DEF Alike
  <1>2. CASE Submitted(c, s, J, H, M)
    <2>1. /\ judges' = J
          /\ Given(H[c], handler'[c], s)
          /\ \A d \in Conn : d # c => handler'[d] = H[d]
      BY <1>2, SubmitOutcome
    <2> QED BY <1>1, <2>1 DEF Given
  <1>3. CASE SubmitFailed(c, s, J, H, M)
    <2>1. /\ judges' \subseteq J
          /\ \A d \in Conn : Alike(H[d], handler'[d]) /\ handler'[d].job = H[d].job
      BY <1>3, SubmitOutcome
    <2> QED BY <2>1
  <1> QED BY <1>2, <1>3

LEMMA SubmittedIsGiven ==
    ASSUME NEW c \in Conn, NEW s \in Sub, NEW J \in SUBSET Conn,
           NEW H \in [Conn -> Handler], NEW M, Submitted(c, s, J, H, M)
    PROVE  /\ judges' = J /\ Alike(H[c], handler'[c])
           /\ \A d \in Conn : d # c => handler'[d] = H[d]
  <1>1. judges' = J /\ Given(H[c], handler'[c], s) /\ \A d \in Conn : d # c => handler'[d] = H[d]
    BY SubmitOutcome
  <1> QED BY <1>1 DEF Given

\* A walk that dispatches takes the first node that the judge may take.
Dispatched(c, J, H, pos) ==
    /\ \A other \in Eligible(c, J, H) : ~Before(other, pos)
    /\ judges' = J
    /\ Given(H[c], handler'[c], EntryAt(pos).id)
    /\ \A d \in Conn : d # c => handler'[d] = H[d]
    /\ queue' = [queue EXCEPT ![pos[1]] = RemoveAt(@, pos[2])]

LEMMA WalkOutcome ==
    ASSUME TypeOK, NEW c \in Conn, NEW J \in SUBSET Conn, NEW H \in [Conn -> Handler],
           NEW M, HandleFreeJudge(c, J, H, M)
    PROVE  \/ Eligible(c, J, H) = {} /\ judges' = J /\ handler' = H /\ queue' = queue
           \/ \E pos \in Eligible(c, J, H) : Dispatched(c, J, H, pos)
           \/ /\ Faults # {} \/ closed # {}
              /\ judges' \subseteq J /\ queue' = queue
              /\ \A d \in Conn : Alike(H[d], handler'[d]) /\ handler'[d].job = H[d].job
  <1>1. ASSUME NEW pos \in Eligible(c, J, H),
               \A other \in Eligible(c, J, H) : ~Before(other, pos),
               Submitted(c, EntryAt(pos).id, J, H, M),
               queue' = [queue EXCEPT ![pos[1]] = RemoveAt(@, pos[2])]
        PROVE  Dispatched(c, J, H, pos)
    <2>1. PICK s \in Sub : s = EntryAt(pos).id
      BY PositionProperties DEF Eligible
    <2>2. /\ judges' = J
          /\ Given(H[c], handler'[c], s)
          /\ \A d \in Conn : d # c => handler'[d] = H[d]
      <3>1. Submitted(c, s, J, H, M)
        BY <1>1, <2>1
      <3> QED BY <3>1, SubmitOutcome
    <2> QED BY <1>1, <2>1, <2>2 DEF Dispatched
  <1>2. ASSUME NEW pos \in Eligible(c, J, H), SubmitFailed(c, EntryAt(pos).id, J, H, M)
        PROVE  /\ Faults # {} \/ closed # {}
               /\ judges' \subseteq J
               /\ \A d \in Conn : Alike(H[d], handler'[d]) /\ handler'[d].job = H[d].job
    <2>1. PICK s \in Sub : s = EntryAt(pos).id
      BY PositionProperties DEF Eligible
    <2>2. SubmitFailed(c, s, J, H, M)
      BY <1>2, <2>1
    <2>3. /\ judges' \subseteq J
          /\ \A d \in Conn : Alike(H[d], handler'[d]) /\ handler'[d].job = H[d].job
      BY <2>2, SubmitOutcome
    <2>4. Faults # {} \/ closed # {}
      BY <2>2 DEF SubmitFailed
    <2> QED BY <2>3, <2>4
  <1> QED BY <1>1, <1>2 DEF HandleFreeJudge

\* The values of submission_map.
Map == [Sub -> Conn \cup {NoConn}]

LEMMA Unmapping ==
    ASSUME NEW M \in Map, NEW s
    PROVE  Unmapped(M, s) \in Map
  BY DEF Map, Unmapped

\* The walk of register, for a handler that is new,
LEMMA RegisterWalks ==
    ASSUME TypeOK, NEW c \in Conn, NEW n \in Name, NEW P \in Lists, Register(c, n, P)
    PROVE  \E H \in [Conn -> Handler], M \in Map :
             /\ HandleFreeJudge(c, judges \cup {c}, H, M)
             /\ H[c] = NewHandler(n, P)
             /\ \A d \in Conn : d # c => H[d] = handler[d]
  <1> DEFINE H == [handler EXCEPT ![c] = NewHandler(n, P)]
  <1>1. HandleFreeJudge(c, judges \cup {c}, H, submission_map)
    BY DEF Register
  <1>2. NewHandler(n, P) \in Handler
    BY JudgeListAssumption DEF NewHandler, Handler
  <1>3. /\ H \in [Conn -> Handler] /\ H[c] = NewHandler(n, P)
        /\ \A d \in Conn : d # c => H[d] = handler[d]
    BY <1>2 DEF TypeOK
  <1>4. submission_map \in Map
    BY DEF TypeOK, Map
  <1> HIDE DEF H
  <1> QED BY <1>1, <1>3, <1>4

\* of on_judge_free, for the handler that is freed,
LEMMA ReportWalks ==
    ASSUME TypeOK, NEW c \in Conn, NEW s \in Sub, OnJudgeFree(c, s), submission_map[s] # NoConn
    PROVE  \E H \in [Conn -> Handler], M \in Map :
             /\ HandleFreeJudge(c, judges, H, M)
             /\ Alike(handler[c], H[c]) /\ H[c].working = NoSub /\ H[c].job = handler[c].job \ {s}
             /\ \A d \in Conn : d # c => H[d] = handler[d]
  <1> DEFINE told == [handler EXCEPT ![c].job = @ \ {s}]
             H == [told EXCEPT ![c].working = NoSub]
             h == [[handler[c] EXCEPT !.job = @ \ {s}] EXCEPT !.working = NoSub]
  <1>1. HandleFreeJudge(c, judges, H, Unmapped(submission_map, s))
    BY DEF OnJudgeFree
  <1>2. handler \in [Conn -> Handler] /\ handler[c] \in Handler
    BY DEF TypeOK
  <1>3. /\ h \in Handler /\ Alike(handler[c], h)
        /\ h.working = NoSub /\ h.job = handler[c].job \ {s}
    BY <1>2 DEF Handler, Alike
  <1>4. H = [handler EXCEPT ![c] = h]
    BY <1>2
  <1> HIDE DEF H, h
  <1>5. H \in [Conn -> Handler] /\ H[c] = h /\ \A d \in Conn : d # c => H[d] = handler[d]
    BY <1>2, <1>3, <1>4
  <1>6. Unmapped(submission_map, s) \in Map
    BY Unmapping DEF TypeOK, Map
  <1> QED BY <1>1, <1>3, <1>5, <1>6

\* and of remove, for the only judge that is left.
LEMMA RemoveWalks ==
    ASSUME TypeOK, NEW c \in Conn, RemoveJudge(c)
    PROVE  \E H \in [Conn -> Handler], M \in Map :
             /\ \/ /\ SoleFree(judges \ {c}, H) = {}
                   /\ judges' = judges \ {c} /\ handler' = H /\ queue' = queue
                \/ \E d \in SoleFree(judges \ {c}, H) : HandleFreeJudge(d, judges \ {c}, H, M)
             /\ Alike(handler[c], H[c]) /\ H[c].job = {}
             /\ \A d \in Conn : d # c => H[d] = handler[d]
  <1> DEFINE H == [handler EXCEPT ![c].job = {}]
             h == [handler[c] EXCEPT !.job = {}]
             M == Unmapped(submission_map, handler[c].working)
  <1>1. \/ /\ SoleFree(judges \ {c}, H) = {}
           /\ judges' = judges \ {c} /\ handler' = H /\ queue' = queue
        \/ \E d \in SoleFree(judges \ {c}, H) : HandleFreeJudge(d, judges \ {c}, H, M)
    BY DEF RemoveJudge
  <1>2. handler \in [Conn -> Handler] /\ handler[c] \in Handler
    BY DEF TypeOK
  <1>3. h \in Handler /\ Alike(handler[c], h) /\ h.job = {}
    BY <1>2 DEF Handler, Alike
  <1>4. H \in [Conn -> Handler] /\ H[c] = h /\ \A d \in Conn : d # c => H[d] = handler[d]
    BY <1>2, <1>3
  <1>5. M \in Map
    BY Unmapping DEF TypeOK, Map
  <1> HIDE DEF H, h, M
  <1> QED BY <1>1, <1>3, <1>4, <1>5

\* Without faults every report finds its submission in the map.
LEMMA ReportIsMapped ==
    ASSUME TypeOK, FaultFreeInv, NEW c \in Conn, NEW s \in Sub, OnJudgeFree(c, s)
    PROVE  submission_map[s] # NoConn /\ c \in judges /\ handler[c].job = {s}
  <1>1. handler[c].job =
          IF c \in judges /\ handler[c].working # NoSub THEN {handler[c].working} ELSE {}
    BY DEF FaultFreeInv, Agree
  <1>2. c \in judges /\ handler[c].working = s /\ handler[c].job = {s}
    BY <1>1 DEF OnJudgeFree
  <1>3. submission_map[s] = c
    BY <1>2 DEF FaultFreeInv, Agree
  <1> QED BY <1>2, <1>3, JudgeListAssumption

-----------------------------------------------------------------------------
(***************************************************************************)
(* High-priority submissions never wait, for values of judges, handler and *)
(* queue: a walk starts from values in the middle of a method.             *)
(***************************************************************************)
HighServed(J, H, q) ==
    \A c \in J, p \in Priority : \A k \in 1 .. Len(q[p]) :
        p < REJUDGE_PRIORITY /\ Idle(H[c]) => ~CanJudge(H[c], q[p][k])

HighInv == FaultFreeInv /\ HighServed(judges, handler, queue)

\* An entry that c may take stands in the way of nothing but the reserve.
LEMMA HighIsEligible ==
    ASSUME TypeOK, NEW c, NEW J, NEW H, NEW p \in Priority, p < REJUDGE_PRIORITY,
           NEW k \in 1 .. Len(queue[p]), CanJudge(H[c], queue[p][k])
    PROVE  <<p, k>> \in Eligible(c, J, H)
  <1>1. <<p, k>> \in Positions /\ EntryAt(<<p, k>>) = queue[p][k]
    BY PositionsAreIndices
  <1> QED BY <1>1 DEF Eligible

\* A walk serves the judge it is for and leaves the others as they are.
LEMMA WalkServesHigh ==
    ASSUME TypeOK, FaultFree, closed = {}, NEW c \in Conn, NEW J \in SUBSET Conn,
           NEW H \in [Conn -> Handler], NEW M, HandleFreeJudge(c, J, H, M),
           HighServed(J \ {c}, H, queue)
    PROVE  HighServed(judges', handler', queue')
  <1>1. CASE Eligible(c, J, H) = {} /\ judges' = J /\ handler' = H /\ queue' = queue
    BY <1>1, HighIsEligible DEF HighServed
  <1>2. ASSUME NEW pos \in Eligible(c, J, H), Dispatched(c, J, H, pos)
        PROVE  HighServed(judges', handler', queue')
    <2>1. ~Idle(handler'[c]) /\ judges' = J /\ \A d \in Conn : d # c => handler'[d] = H[d]
      BY <1>2 DEF Dispatched, Given, Idle
    <2>2. \A p \in Priority : \A k \in 1 .. Len(queue'[p]) :
            \E l \in 1 .. Len(queue[p]) : queue'[p][k] = queue[p][l]
      BY <1>2, RemovalLeaves DEF Dispatched, Eligible
    <2> QED BY <2>1, <2>2 DEF HighServed
  <1> QED BY <1>1, <1>2, WalkOutcome DEF FaultFree

\* judge lets a submission wait only when no judge is free for it,
LEMMA JudgeServesHigh ==
    ASSUME TypeOK, FaultFree, HighInv,
           NEW s \in Sub, NEW p \in Priority, NEW j \in Name \cup {NoName}, Judge(s, p, j)
    PROVE  HighServed(judges', handler', queue')
  <1> DEFINE e == [id |-> s, judge_id |-> j]
  <1>1. judges \in SUBSET Conn /\ handler \in [Conn -> Handler] /\ closed = {}
    BY DEF TypeOK, HighInv, FaultFreeInv
  <1>2. ASSUME NEW c \in Available(e, p), Submitted(c, s, judges, handler, submission_map),
               UNCHANGED queue
        PROVE  HighServed(judges', handler', queue')
    <2>1. c \in Conn
      BY <1>1 DEF Available, Candidates
    <2>2. /\ judges' = judges
          /\ Given(handler[c], handler'[c], s)
          /\ \A d \in Conn : d # c => handler'[d] = handler[d]
      BY <1>1, <1>2, <2>1, SubmitOutcome
    <2> QED BY <1>1, <1>2, <2>2 DEF HighInv, HighServed, Given, Idle
  <1>3. ASSUME Available(e, p) = {}, queue' = [queue EXCEPT ![p] = Inserted(@, e)],
               UNCHANGED <<judges, handler>>
        PROVE  HighServed(judges', handler', queue')
    <2>1. ASSUME p < REJUDGE_PRIORITY
          PROVE  \A c \in judges : Idle(handler[c]) => ~CanJudge(handler[c], e)
      <3>1. ~(p >= REJUDGE_PRIORITY)
        BY <2>1 DEF Priority, REJUDGE_PRIORITY
      <3>2. Available(e, p) = {c \in Candidates(e) : Idle(handler[c])}
        BY <3>1 DEF Available
      <3> QED BY <1>3, <3>2 DEF Candidates
    <2>2. e \in Entry
      BY DEF Entry
    <2> HIDE DEF e
    <2>3. \A r \in Priority : \A k \in 1 .. Len(queue'[r]) :
            \/ r = p /\ queue'[r][k] = e
            \/ \E l \in 1 .. Len(queue[r]) : queue'[r][k] = queue[r][l]
      BY <1>3, <2>2, InsertionAdds
    <2> QED BY <1>3, <2>1, <2>3 DEF HighInv, HighServed
  <1>4. ASSUME NEW c, SubmitFailed(c, s, judges, handler, submission_map) PROVE FALSE
    BY <1>1, <1>4 DEF SubmitFailed, FaultFree
  <1> QED BY <1>2, <1>3, <1>4 DEF Judge

\* The handlers a walk starts from: the one that is served, and the others.
LEMMA OthersHigh ==
    ASSUME HighInv, NEW c \in Conn, NEW J \in SUBSET Conn, J \ {c} \subseteq judges,
           NEW H, \A d \in Conn : d # c => H[d] = handler[d]
    PROVE  HighServed(J \ {c}, H, queue)
  BY DEF HighInv, HighServed

\* A flag that can only be set takes judges away.
LEMMA FlagsOnlySet ==
    ASSUME TypeOK, ~Enabling, NEW b \in BOOLEAN,
           \/ \E c \in Conn : LoadDisabled(c, b)
           \/ \E n \in Name : UpdateDisableJudge(n, b)
    PROVE  /\ \A d \in Conn : \/ handler'[d] = handler[d]
                              \/ handler'[d] = [handler[d] EXCEPT !.disabled = TRUE]
           /\ \A d \in Conn : Idle(handler'[d]) => handler'[d] = handler[d]
           /\ UNCHANGED <<judges, queue>>
  <1>1. \A d \in Conn : handler[d] \in Handler
    BY DEF TypeOK
  <1>2. \A d \in Conn : ~handler[d].disabled => [handler[d] EXCEPT !.disabled = FALSE] = handler[d]
    BY <1>1 DEF Handler
  <1>3. /\ \A d \in Conn : \/ handler'[d] = handler[d]
                           \/ handler'[d] = [handler[d] EXCEPT !.disabled = TRUE]
        /\ UNCHANGED <<judges, queue>>
    <2>1. ASSUME NEW c \in Conn, LoadDisabled(c, b)
          PROVE  /\ \A d \in Conn : \/ handler'[d] = handler[d]
                                    \/ handler'[d] = [handler[d] EXCEPT !.disabled = TRUE]
                 /\ UNCHANGED <<judges, queue>>
      <3>1. /\ handler' = [handler EXCEPT ![c].disabled = b]
            /\ UNCHANGED <<judges, queue>>
            /\ handler[c].disabled /\ ~b => FALSE
        BY <2>1 DEF LoadDisabled
      <3>2. handler'[c] = [handler[c] EXCEPT !.disabled = b] /\ \A d \in Conn : d # c => handler'[d] = handler[d]
        BY <3>1 DEF TypeOK
      <3> QED BY <1>2, <3>1, <3>2
    <2>2. ASSUME NEW n \in Name, UpdateDisableJudge(n, b)
          PROVE  /\ \A d \in Conn : \/ handler'[d] = handler[d]
                                    \/ handler'[d] = [handler[d] EXCEPT !.disabled = TRUE]
                 /\ UNCHANGED <<judges, queue>>
      BY <2>2 DEF UpdateDisableJudge
    <2> QED BY <2>1, <2>2
  <1>4. \A d \in Conn : [handler[d] EXCEPT !.disabled = TRUE].disabled
    BY <1>1 DEF Handler
  <1> QED BY <1>3, <1>4 DEF Idle

\* Every step keeps the invariant.
LEMMA NextServesHigh ==
    ASSUME TypeOK, FaultFree, ~Enabling, HighInv, QueueForm(queue, node_map), [Next]_vars
    PROVE  HighServed(judges', handler', queue')
  <1>1. /\ judges \in SUBSET Conn /\ handler \in [Conn -> Handler] /\ closed = {}
        /\ FaultFreeInv /\ HighServed(judges, handler, queue)
    BY DEF TypeOK, HighInv, FaultFreeInv
  <1>2. ASSUME NEW s \in Sub, NEW p \in Priority, NEW j \in Name \cup {NoName}, Judge(s, p, j)
        PROVE  HighServed(judges', handler', queue')
    BY <1>2, JudgeServesHigh
  <1>3. ASSUME NEW s \in Sub, Abort(s) PROVE HighServed(judges', handler', queue')
    <2>1. PICK pos \in Positions : queue' = [queue EXCEPT ![pos[1]] = RemoveAt(@, pos[2])]
      BY <1>3 DEF Abort
    <2>2. \A p \in Priority : \A k \in 1 .. Len(queue'[p]) :
            \E l \in 1 .. Len(queue[p]) : queue'[p][k] = queue[p][l]
      BY <2>1, RemovalLeaves
    <2> QED BY <1>1, <1>3, <2>2 DEF Abort, HighServed
  <1>4. ASSUME NEW c \in Conn, NEW n \in Name, NEW P \in Lists, Register(c, n, P)
        PROVE  HighServed(judges', handler', queue')
    <2>1. PICK H \in [Conn -> Handler], M \in Map :
            /\ HandleFreeJudge(c, judges \cup {c}, H, M)
            /\ \A d \in Conn : d # c => H[d] = handler[d]
      BY <1>4, RegisterWalks
    <2> DEFINE J == judges \cup {c}
    <2>2. J \in SUBSET Conn /\ J \ {c} \subseteq judges
      BY <1>1
    <2>3. HandleFreeJudge(c, J, H, M)
      BY <2>1
    <2> HIDE DEF J
    <2>4. HighServed(J \ {c}, H, queue)
      BY <2>1, <2>2, OthersHigh
    <2> QED BY <1>1, <2>1, <2>2, <2>3, <2>4, WalkServesHigh
  <1>5. ASSUME NEW b \in BOOLEAN,
               \/ \E c \in Conn : LoadDisabled(c, b)
               \/ \E n \in Name : UpdateDisableJudge(n, b)
        PROVE  HighServed(judges', handler', queue')
    BY <1>1, <1>5, FlagsOnlySet DEF HighServed
  <1>6. ASSUME NEW c \in Conn, NEW s \in Sub, OnJudgeFree(c, s)
        PROVE  HighServed(judges', handler', queue')
    <2>1. PICK H \in [Conn -> Handler], M \in Map :
            /\ HandleFreeJudge(c, judges, H, M)
            /\ \A d \in Conn : d # c => H[d] = handler[d]
      BY <1>1, <1>6, ReportIsMapped, ReportWalks
    <2>2. HighServed(judges \ {c}, H, queue)
      BY <1>1, <2>1, OthersHigh
    <2> QED BY <1>1, <2>1, <2>2, WalkServesHigh
  <1>7. ASSUME NEW c \in Conn, RemoveJudge(c) PROVE HighServed(judges', handler', queue')
    <2> DEFINE J == judges \ {c}
    <2>1. PICK H \in [Conn -> Handler], M \in Map :
            /\ \/ judges' = J /\ handler' = H /\ queue' = queue
               \/ \E d \in SoleFree(J, H) : HandleFreeJudge(d, J, H, M)
            /\ \A d \in Conn : d # c => H[d] = handler[d]
      BY <1>7, RemoveWalks
    <2>2. J \in SUBSET Conn /\ J \subseteq judges /\ c \notin J
      BY <1>1
    <2> HIDE DEF J
    <2>3. HighServed(J, H, queue)
      BY <1>1, <2>1, <2>2 DEF HighServed
    <2>4. ASSUME NEW d \in SoleFree(J, H), HandleFreeJudge(d, J, H, M)
          PROVE  HighServed(judges', handler', queue')
      <3>1. d \in Conn
        BY <2>2 DEF SoleFree
      <3>2. HighServed(J \ {d}, H, queue)
        BY <2>3 DEF HighServed
      <3> QED BY <1>1, <2>2, <2>4, <3>1, <3>2, WalkServesHigh
    <2> QED BY <2>1, <2>3, <2>4
  <1>8. ASSUME NEW n \in Name, Disconnect(n) PROVE FALSE
    BY <1>8 DEF Disconnect, FaultFree
  <1>9. ASSUME NEW c \in Conn, NEW P \in Lists, SupportedProblems(c, P) PROVE FALSE
    BY <1>9 DEF SupportedProblems, FaultFree
  <1>10. ASSUME NEW c \in Conn, ReadWorking(c) \/ UpdateProblems(c) PROVE FALSE
    BY <1>1, <1>10 DEF ReadWorking, UpdateProblems, FaultFreeInv
  <1>11. CASE UNCHANGED vars
    BY <1>1, <1>11 DEF vars
  <1>12. 0 .. REJUDGE_PRIORITY - 1 \subseteq Priority
    BY DEF Priority, REJUDGE_PRIORITY
  <1> QED
    BY <1>2, <1>3, <1>4, <1>5, <1>6, <1>7, <1>8, <1>9, <1>10, <1>11, <1>12 DEF Next

\* No judge that is free leaves a submission waiting that it may take.
THEOREM HighServedKept ==
    ASSUME FaultFree, ~Enabling PROVE Spec => [](FaultFreeInv /\ HighServed(judges, handler, queue))
  <1>1. Init => HighServed(judges, handler, queue)
    BY DEF Init, HighServed
  <1>2. ASSUME TypeOK, QueueWellFormed, FaultFreeInv, HighServed(judges, handler, queue),
               [Next]_vars
        PROVE  HighServed(judges, handler, queue)'
    <2>1. HighServed(judges', handler', queue')
      BY <1>2, QueueWellFormedIsForm, NextServesHigh DEF HighInv
    <2> QED BY <2>1 DEF HighServed
  <1> QED BY <1>1, <1>2, TypeCorrect, QueueAgrees, AgreementKept, PTL DEF Spec

(***************************************************************************)
(* A contest or default submission never waits while a judge is free that  *)
(* could take it: for any number of judges, problem lists and submissions, *)
(* while no dispatch fails, no list changes and no judge is enabled again. *)
(***************************************************************************)
THEOREM HighPriorityNeverWaitsHolds ==
    ASSUME FaultFree, ~Enabling PROVE Spec => []HighPriorityNeverWaits
  <1>1. TypeOK /\ HighServed(judges, handler, queue) => HighPriorityNeverWaits
    <2> SUFFICES ASSUME TypeOK, HighServed(judges, handler, queue),
                        NEW c \in judges, NEW pos \in Positions,
                        pos[1] < REJUDGE_PRIORITY, Idle(handler[c])
                 PROVE  ~CanJudge(handler[c], EntryAt(pos))
      BY DEF HighPriorityNeverWaits
    <2> QED BY PositionProperties DEF HighServed, EntryAt
  <1> QED BY <1>1, TypeCorrect, HighServedKept, PTL

-----------------------------------------------------------------------------
(***************************************************************************)
(* First come, first served.                                               *)
(***************************************************************************)

\* s came before whatever contest or default entry the handler h could take.
InTurn(h, s) ==
    \A pos \in Positions :
        pos[1] < REJUDGE_PRIORITY /\ EntryAt(pos).id # s /\ CanJudge(h, EntryAt(pos))
          => \E from \in Positions :
               /\ EntryAt(from).id = s
               /\ from[1] < pos[1] \/ (from[1] = pos[1] /\ from[2] < pos[2])

\* Two positions are ordered.
LEMMA BeforeIsTotal ==
    ASSUME TypeOK, NEW a \in Positions, NEW b \in Positions, a # b, ~Before(b, a)
    PROVE  a[1] < b[1] \/ (a[1] = b[1] /\ a[2] < b[2])
  <1>1. /\ a[1] \in Nat /\ a[2] \in Nat /\ b[1] \in Nat /\ b[2] \in Nat
        /\ a = <<a[1], a[2]>> /\ b = <<b[1], b[2]>>
    <2>1. /\ a[1] \in Priority /\ a[2] \in 1 .. Len(queue[a[1]])
          /\ b[1] \in Priority /\ b[2] \in 1 .. Len(queue[b[1]])
      BY PositionProperties
    <2>2. a = <<a[1], a[2]>> /\ b = <<b[1], b[2]>>
      BY PositionProperties
    <2> QED BY <2>1, <2>2 DEF Priority
  <1> QED BY <1>1 DEF Before

\* A walk starts what came first.
LEMMA WalkStartsInTurn ==
    ASSUME TypeOK, FaultFree, closed = {}, NEW c \in Conn, NEW J \in SUBSET Conn,
           NEW H \in [Conn -> Handler], NEW M, HandleFreeJudge(c, J, H, M),
           \A d \in Conn : H[d].job \subseteq handler[d].job,
           NEW x \in Conn, NEW s \in Sub, Started(x, s)
    PROVE  InTurn(handler'[x], s)
  <1>1. CASE handler' = H
    BY <1>1 DEF Started
  <1>2. ASSUME NEW first \in Eligible(c, J, H), Dispatched(c, J, H, first)
        PROVE  InTurn(handler'[x], s)
    <2>1. x = c /\ s = EntryAt(first).id /\ Alike(H[c], handler'[c])
      BY <1>2 DEF Dispatched, Given, Started
    <2>2. first \in Positions /\ \A pos \in Eligible(c, J, H) : ~Before(pos, first)
      BY <1>2 DEF Dispatched, Eligible
    <2>3. ASSUME NEW pos \in Positions, pos[1] < REJUDGE_PRIORITY,
                 EntryAt(pos).id # s, CanJudge(handler'[x], EntryAt(pos))
          PROVE  first[1] < pos[1] \/ (first[1] = pos[1] /\ first[2] < pos[2])
      <3>1. CanJudge(H[c], EntryAt(pos))
        BY <2>1, <2>3, AlikeJudgeAlike
      <3>2. ~Before(pos, first)
        BY <2>2, <2>3, <3>1 DEF Eligible
      <3> QED BY <2>1, <2>2, <2>3, <3>2, BeforeIsTotal
    <2> QED BY <2>1, <2>2, <2>3 DEF InTurn
  <1> QED BY <1>1, <1>2, WalkOutcome DEF FaultFree

\* What judge sends straight to a judge passes nobody: that judge was free.
LEMMA JudgeStartsInTurn ==
    ASSUME TypeOK, FaultFree, HighInv,
           NEW r \in Sub, NEW p \in Priority, NEW j \in Name \cup {NoName}, Judge(r, p, j),
           NEW x \in Conn, NEW s \in Sub, Started(x, s)
    PROVE  InTurn(handler'[x], s)
  <1> DEFINE e == [id |-> r, judge_id |-> j]
  <1>1. judges \in SUBSET Conn /\ handler \in [Conn -> Handler] /\ closed = {}
    BY DEF TypeOK, HighInv, FaultFreeInv
  <1>2. ASSUME NEW c \in Available(e, p), Submitted(c, r, judges, handler, submission_map)
        PROVE  InTurn(handler'[x], s)
    <2>1. c \in judges /\ c \in Conn /\ Idle(handler[c])
      BY <1>1 DEF Available, Candidates
    <2>2. /\ Given(handler[c], handler'[c], r)
          /\ \A d \in Conn : d # c => handler'[d] = handler[d]
      BY <1>1, <1>2, <2>1, SubmitOutcome
    <2>3. x = c /\ Alike(handler[c], handler'[c])
      BY <2>2 DEF Given, Started
    <2>4. \A pos \in Positions : pos[1] < REJUDGE_PRIORITY => ~CanJudge(handler[c], EntryAt(pos))
      BY <2>1, PositionProperties DEF HighInv, HighServed, EntryAt
    <2> QED BY <2>3, <2>4, AlikeJudgeAlike DEF InTurn
  <1>3. CASE UNCHANGED handler
    BY <1>3 DEF Started
  <1>4. ASSUME NEW c, SubmitFailed(c, r, judges, handler, submission_map) PROVE FALSE
    BY <1>1, <1>4 DEF SubmitFailed, FaultFree
  <1> QED BY <1>2, <1>3, <1>4 DEF Judge

\* Work is started by judge or by a walk, whatever faults occur.
LEMMA WorkIsStarted ==
    ASSUME TypeOK, [Next]_vars, NEW x \in Conn, NEW s \in Sub, Started(x, s)
    PROVE  \/ \E r \in Sub, p \in Priority, j \in Name \cup {NoName} : Judge(r, p, j)
           \/ \E c \in Conn, J \in SUBSET Conn, H \in [Conn -> Handler], M \in Map :
                /\ HandleFreeJudge(c, J, H, M)
                /\ \A d \in Conn : H[d].job \subseteq handler[d].job
  <1> DEFINE Walked ==
        \E c \in Conn, J \in SUBSET Conn, H \in [Conn -> Handler], M \in Map :
          /\ HandleFreeJudge(c, J, H, M)
          /\ \A d \in Conn : H[d].job \subseteq handler[d].job
  <1>1. /\ judges \in SUBSET Conn /\ handler \in [Conn -> Handler]
        /\ \A d \in Conn : handler[d] \in Handler
    BY DEF TypeOK
  <1>2. ASSUME handler' = handler PROVE FALSE
    BY <1>2 DEF Started
  <1>3. ASSUME NEW c \in Conn, NEW n \in Name, NEW P \in Lists, Register(c, n, P)
        PROVE  Walked
    <2>1. PICK H \in [Conn -> Handler], M \in Map :
            /\ HandleFreeJudge(c, judges \cup {c}, H, M)
            /\ H[c] = NewHandler(n, P)
            /\ \A d \in Conn : d # c => H[d] = handler[d]
      BY <1>3, RegisterWalks
    <2>2. NewHandler(n, P).job = {}
      BY DEF NewHandler
    <2> QED BY <1>1, <2>1, <2>2
  <1>4. ASSUME NEW c \in Conn, NEW b \in BOOLEAN, LoadDisabled(c, b) PROVE FALSE
    <2>1. [handler[c] EXCEPT !.disabled = b].job = handler[c].job
      BY <1>1 DEF Handler
    <2> QED BY <1>1, <1>4, <2>1 DEF LoadDisabled, Started
  <1>5. ASSUME NEW n \in Name, NEW b \in BOOLEAN, UpdateDisableJudge(n, b) PROVE FALSE
    <2>1. [handler[x] EXCEPT !.disabled = b].job = handler[x].job
      BY <1>1 DEF Handler
    <2> QED BY <1>5, <2>1 DEF UpdateDisableJudge, Started
  <1>6. ASSUME NEW c \in Conn, NEW r \in Sub, OnJudgeFree(c, r) PROVE Walked
    <2>1. CASE submission_map[r] # NoConn
      <3>1. PICK H \in [Conn -> Handler], M \in Map :
              /\ HandleFreeJudge(c, judges, H, M)
              /\ H[c].job = handler[c].job \ {r}
              /\ \A d \in Conn : d # c => H[d] = handler[d]
        BY <1>6, <2>1, ReportWalks
      <3> QED BY <1>1, <3>1
    <2>2. CASE submission_map[r] = NoConn
      <3>1. handler' = [handler EXCEPT ![c].job = @ \ {r}]
        BY <1>6, <2>2 DEF OnJudgeFree
      <3>2. [handler[c] EXCEPT !.job = @ \ {r}].job = handler[c].job \ {r}
        BY <1>1 DEF Handler
      <3> QED BY <1>1, <3>1, <3>2 DEF Started
    <2> QED BY <2>1, <2>2
  <1>7. ASSUME NEW c \in Conn, RemoveJudge(c) PROVE Walked
    <2> DEFINE J == judges \ {c}
    <2>1. PICK H \in [Conn -> Handler], M \in Map :
            /\ \/ handler' = H
               \/ \E d \in SoleFree(J, H) : HandleFreeJudge(d, J, H, M)
            /\ H[c].job = {}
            /\ \A d \in Conn : d # c => H[d] = handler[d]
      BY <1>7, RemoveWalks
    <2>2. \A d \in Conn : H[d].job \subseteq handler[d].job
      BY <2>1
    <2>3. J \in SUBSET Conn
      BY <1>1
    <2> HIDE DEF J
    <2>4. PICK d \in SoleFree(J, H) : HandleFreeJudge(d, J, H, M)
      BY <2>1, <2>2 DEF Started
    <2>5. d \in Conn
      BY <2>3 DEF SoleFree
    <2> QED BY <2>2, <2>3, <2>4, <2>5
  <1>8. ASSUME NEW c \in Conn, NEW P \in Lists, SupportedProblems(c, P) PROVE FALSE
    <2>1. [handler[c] EXCEPT !.problems = P].job = handler[c].job
      BY <1>1 DEF Handler
    <2> QED BY <1>1, <1>8, <2>1 DEF SupportedProblems, Started
  <1>9. ASSUME NEW c \in Conn, UpdateProblems(c) PROVE Walked
    <2>1. HandleFreeJudge(c, judges, handler, submission_map)
      BY <1>9 DEF UpdateProblems
    <2>2. submission_map \in Map
      BY DEF TypeOK, Map
    <2> QED BY <1>1, <2>1, <2>2
  <1>10. 0 .. REJUDGE_PRIORITY - 1 \subseteq Priority
    BY DEF Priority, REJUDGE_PRIORITY
  <1>11. ASSUME NEW r \in Sub, Abort(r) PROVE FALSE
    BY <1>2, <1>11 DEF Abort
  <1>12. ASSUME NEW n \in Name, Disconnect(n) PROVE FALSE
    BY <1>2, <1>12 DEF Disconnect
  <1>13. ASSUME NEW c \in Conn, ReadWorking(c) PROVE FALSE
    BY <1>2, <1>13 DEF ReadWorking
  <1>14. ASSUME UNCHANGED vars PROVE FALSE
    BY <1>2, <1>14 DEF vars
  <1> HIDE DEF Walked
  <1>15. Walked \/ \E r \in Sub, p \in Priority, j \in Name \cup {NoName} : Judge(r, p, j)
    BY <1>3, <1>4, <1>5, <1>6, <1>7, <1>8, <1>9, <1>10, <1>11, <1>12, <1>13, <1>14 DEF Next
  <1> QED BY <1>15 DEF Walked

\* Whatever starts, starts in its turn.
LEMMA StepStartsInTurn ==
    ASSUME TypeOK, FaultFree, HighInv, [Next]_vars,
           NEW x \in Conn, NEW s \in Sub, Started(x, s)
    PROVE  InTurn(handler'[x], s)
  <1>1. closed = {}
    BY DEF HighInv, FaultFreeInv
  <1> QED BY <1>1, WorkIsStarted, JudgeStartsInTurn, WalkStartsInTurn

(***************************************************************************)
(* Nobody is overtaken by what came later or has a lower class: in every   *)
(* behaviour without faults, on any number of judges, whatever problems    *)
(* each of them can do.                                                    *)
(***************************************************************************)
THEOREM NeverOvertakenHolds == ASSUME FaultFree, ~Enabling PROVE Spec => NeverOvertaken
  <1>1. ASSUME TypeOK, FaultFreeInv, HighServed(judges, handler, queue), [Next]_vars,
               NEW c \in Conn, NEW s \in Sub, Started(c, s), NEW pos \in Positions,
               pos[1] < REJUDGE_PRIORITY /\ EntryAt(pos).id # s
                                        /\ CanJudge(handler'[c], EntryAt(pos))
        PROVE  \E from \in Positions :
                 /\ EntryAt(from).id = s
                 /\ from[1] < pos[1] \/ (from[1] = pos[1] /\ from[2] < pos[2])
    <2>1. InTurn(handler'[c], s)
      BY <1>1, StepStartsInTurn DEF HighInv
    <2> QED BY <1>1, <2>1 DEF InTurn
  <1>2. TypeOK /\ FaultFreeInv /\ HighServed(judges, handler, queue) /\ [Next]_vars
          => [\A c \in Conn, s \in Sub : Started(c, s) =>
                \A pos \in Positions :
                    pos[1] < REJUDGE_PRIORITY /\ EntryAt(pos).id # s
                                             /\ CanJudge(handler'[c], EntryAt(pos))
                      => \E from \in Positions :
                          /\ EntryAt(from).id = s
                          /\ from[1] < pos[1] \/ (from[1] = pos[1] /\ from[2] < pos[2])]_vars
    BY <1>1
  <1> QED BY <1>2, TypeCorrect, HighServedKept, PTL DEF Spec, NeverOvertaken

-----------------------------------------------------------------------------
(***************************************************************************)
(* The reserve, for judges that can all do the same work.                  *)
(***************************************************************************)
OneList == \A P, Q \in Lists : P = Q

\* Every judge of the list announced one of the lists.
Announced(J, H) == \A c \in J : H[c].problems \in Lists

\* Two facts about cardinality.
LEMMA AnotherMember ==
    ASSUME NEW S, IsFiniteSet(S), Cardinality(S) > 1, NEW c
    PROVE  \E d \in S : d # c
  <1> SUFFICES ASSUME \A d \in S : d = c PROVE FALSE
    OBVIOUS
  <1>1. S \in SUBSET {c} /\ IsFiniteSet({c}) /\ Cardinality({c}) = 1
    BY FS_Singleton
  <1>2. Cardinality(S) <= 1 /\ Cardinality(S) \in Nat
    BY <1>1, FS_Subset, FS_CardinalityType
  <1> QED BY <1>2

LEMMA OnlyMember ==
    ASSUME NEW S, IsFiniteSet(S), Cardinality(S) =< 1, NEW c \in S
    PROVE  S = {c}
  <1>1. IsFiniteSet(S \ {c}) /\ Cardinality(S \ {c}) = Cardinality(S) - 1
    BY FS_RemoveElement
  <1>2. Cardinality(S \ {c}) \in Nat /\ Cardinality(S) \in Nat
    BY <1>1, FS_CardinalityType
  <1>3. Cardinality(S \ {c}) = 0
    BY <1>1, <1>2
  <1> QED BY <1>1, <1>3, FS_EmptySet

LEMMA JudgesAreFinite ==
    ASSUME IsFiniteSet(Conn), NEW J \in SUBSET Conn
    PROVE  \A S \in SUBSET J : IsFiniteSet(S)
  BY FS_Subset

\* A walk that starts a rejudge leaves another judge free.
LEMMA WalkKeepsReserve ==
    ASSUME TypeOK, IsFiniteSet(Conn), NEW c \in Conn, NEW J \in SUBSET Conn,
           NEW H \in [Conn -> Handler], NEW pos \in Eligible(c, J, H), Dispatched(c, J, H, pos),
           pos[1] >= REJUDGE_PRIORITY,
           Cardinality({d \in judges' : ~handler'[d].disabled}) > 1
    PROVE  \E d \in judges' : Idle(handler'[d])
  <1> DEFINE Enabled == {d \in J : ~H[d].disabled}
             Free == {d \in J : Idle(H[d])}
  <1>1. judges' = J /\ Alike(H[c], handler'[c]) /\ \A d \in Conn : d # c => handler'[d] = H[d]
    BY DEF Dispatched, Given
  <1>2. {d \in judges' : ~handler'[d].disabled} = Enabled
    BY <1>1 DEF Alike
  <1>3. pos[1] \in Priority
    BY PositionProperties DEF Eligible
  <1>4. ~Reserved(J, H)
    BY <1>3 DEF Eligible, Priority, REJUDGE_PRIORITY
  <1>5. IsFiniteSet(Free) /\ Cardinality(Free) \in Nat
    <2>1. Free \in SUBSET J
      OBVIOUS
    <2> HIDE DEF Free
    <2> QED BY <2>1, JudgesAreFinite, FS_CardinalityType
  <1>6. Cardinality(Free) > 1
    <2>1. Cardinality(Enabled) > 1
      BY <1>2
    <2>2. ~(Cardinality(Free) =< 1)
      BY <1>4, <2>1 DEF Reserved
    <2> HIDE DEF Free
    <2> QED BY <1>5, <2>2
  <1> HIDE DEF Free
  <1>7. PICK d \in Free : d # c
    BY <1>5, <1>6, AnotherMember
  <1>8. d \in J /\ d \in Conn /\ Idle(H[d])
    BY <1>7 DEF Free
  <1> QED BY <1>1, <1>7, <1>8

\* judge leaves another candidate free, and all enabled judges are candidates.
LEMMA JudgeKeepsReserve ==
    ASSUME TypeOK, IsFiniteSet(Conn), OneList, Announced(judges, handler),
           NEW s \in Sub, NEW p \in REJUDGE_PRIORITY .. 3, Judge(s, p, NoName),
           NEW x \in Conn, NEW t \in Sub, Started(x, t),
           Cardinality({d \in judges' : ~handler'[d].disabled}) > 1
    PROVE  \E d \in judges' : Idle(handler'[d])
  <1> DEFINE e == [id |-> s, judge_id |-> NoName]
             Free == {c \in Candidates(e) : Idle(handler[c])}
  <1>1. judges \in SUBSET Conn /\ handler \in [Conn -> Handler]
    BY DEF TypeOK
  <1>2. ASSUME NEW c \in Available(e, p), Submitted(c, s, judges, handler, submission_map)
        PROVE  \E d \in judges' : Idle(handler'[d])
    <2>1. c \in Free /\ c \in Candidates(e) /\ c \in judges /\ c \in Conn
      BY <1>1 DEF Available, Candidates
    <2>2. /\ judges' = judges /\ Alike(handler[c], handler'[c])
          /\ \A d \in Conn : d # c => handler'[d] = handler[d]
      BY <1>1, <1>2, <2>1, SubmittedIsGiven
    <2>3. {d \in judges' : ~handler'[d].disabled} = {d \in judges : ~handler[d].disabled}
      BY <1>1, <2>2 DEF Alike
    <2>4. {d \in judges : ~handler[d].disabled} \subseteq Candidates(e)
      <3>1. \A d \in judges : handler[d].problems = handler[c].problems
        BY <2>1 DEF OneList, Announced
      <3>2. KindOf[e.id] \in handler[c].problems
        BY <2>1 DEF Candidates, CanJudge
      <3> QED BY <3>1, <3>2 DEF Candidates, CanJudge
    <2>5. /\ IsFiniteSet(Candidates(e)) /\ Cardinality(Candidates(e)) \in Nat
          /\ Cardinality({d \in judges : ~handler[d].disabled}) \in Nat
          /\ Cardinality({d \in judges : ~handler[d].disabled}) =< Cardinality(Candidates(e))
      <3>1. Candidates(e) \in SUBSET judges
        BY DEF Candidates
      <3>2. IsFiniteSet(Candidates(e)) /\ IsFiniteSet({d \in judges : ~handler[d].disabled})
        BY <1>1, <3>1, JudgesAreFinite
      <3> QED BY <2>4, <3>2, FS_Subset, FS_CardinalityType
    <2>6. Cardinality(Candidates(e)) > 1
      <3> DEFINE n == Cardinality(Candidates(e))
                 m == Cardinality({d \in judges : ~handler[d].disabled})
      <3>1. m > 1
        BY <2>3
      <3>2. n \in Nat /\ m \in Nat /\ m =< n
        BY <2>5
      <3> HIDE DEF n, m
      <3>3. n > 1
        BY <3>1, <3>2
      <3> QED BY <3>3 DEF n
    <2>7. Cardinality(Free) # 1
      BY <1>2, <2>6 DEF Available
    <2>8. Free # {c}
      BY <2>7, FS_Singleton
    <2>9. PICK d \in Free : d # c
      BY <2>1, <2>8
    <2>10. d \in judges /\ d \in Conn /\ Idle(handler[d])
      BY <1>1 DEF Candidates
    <2> QED BY <2>2, <2>9, <2>10
  <1>3. CASE UNCHANGED handler
    BY <1>3 DEF Started
  <1>4. ASSUME NEW c \in Available(e, p), SubmitFailed(c, s, judges, handler, submission_map)
        PROVE  FALSE
    <2>1. c \in Conn
      BY <1>1 DEF Available, Candidates
    <2>2. \A d \in Conn : handler'[d].job = handler[d].job
      BY <1>1, <1>4, <2>1, SubmitOutcome
    <2> QED BY <2>2 DEF Started
  <1> QED BY <1>2, <1>3, <1>4 DEF Judge

LEMMA StepKeepsReserve ==
    ASSUME TypeOK, QueueForm(queue, node_map), IsFiniteSet(Conn), OneList,
           Announced(judges, handler), [Next]_vars,
           NEW x \in Conn, NEW s \in Sub, Started(x, s), IsRejudge(s),
           Cardinality({d \in judges' : ~handler'[d].disabled}) > 1
    PROVE  \E d \in judges' : Idle(handler'[d])
  <1>1. CASE \E p \in REJUDGE_PRIORITY .. 3 : Judge(s, p, NoName)
    BY <1>1, JudgeKeepsReserve
  <1>2. ASSUME NEW pos \in Positions, EntryAt(pos).id = s, pos[1] >= REJUDGE_PRIORITY
        PROVE  \E d \in judges' : Idle(handler'[d])
    <2>1. s \in node_map
      BY <1>2, PositionProperties DEF QueueForm, EntryAt
    <2>2. ASSUME NEW r \in Sub, NEW p \in Priority, NEW j \in Name \cup {NoName}, Judge(r, p, j)
          PROVE  FALSE
      <3> DEFINE e == [id |-> r, judge_id |-> j]
      <3>1. r # s
        BY <2>1, <2>2 DEF Judge, Known
      <3>2. judges \in SUBSET Conn /\ handler \in [Conn -> Handler]
        BY DEF TypeOK
      <3>3. ASSUME NEW c \in Available(e, p),
                   \/ Submitted(c, r, judges, handler, submission_map)
                   \/ SubmitFailed(c, r, judges, handler, submission_map)
            PROVE  FALSE
        <4>1. c \in Conn
          BY <3>2 DEF Available, Candidates
        <4>2. \A d \in Conn : handler'[d].job \subseteq handler[d].job \cup {r}
          BY <3>2, <3>3, <4>1, SubmitLeavesAlike
        <4> QED BY <3>1, <4>2 DEF Started
      <3> QED BY <2>2, <3>3 DEF Judge, Started
    <2>3. ASSUME NEW c \in Conn, NEW J \in SUBSET Conn, NEW H \in [Conn -> Handler], NEW M,
                 HandleFreeJudge(c, J, H, M),
                 \A d \in Conn : H[d].job \subseteq handler[d].job
          PROVE  \E d \in judges' : Idle(handler'[d])
      <3>1. PICK first \in Eligible(c, J, H) : Dispatched(c, J, H, first)
        BY <2>3, WalkOutcome DEF Started
      <3>2. first \in Positions /\ EntryAt(first).id = s
        BY <2>3, <3>1 DEF Eligible, Dispatched, Given, Started
      <3>3. first = pos
        BY <1>2, <3>2, PositionProperties DEF QueueForm, EntryAt
      <3> QED BY <1>2, <3>1, <3>3, WalkKeepsReserve
    <2> QED BY <2>2, <2>3, WorkIsStarted
  <1> QED BY <1>1, <1>2 DEF IsRejudge

\* The lists that judges announce are theirs for as long as they are in judges.
LEMMA WalkKeepsLists ==
    ASSUME TypeOK, NEW c \in Conn, NEW J \in SUBSET Conn, NEW H \in [Conn -> Handler], NEW M,
           HandleFreeJudge(c, J, H, M), Announced(J, H)
    PROVE  Announced(judges', handler')
  <1>1. \A h : Alike(h, h)
    BY DEF Alike
  <1>2. judges' \subseteq J /\ \A d \in Conn : Alike(H[d], handler'[d])
    BY <1>1, WalkOutcome DEF Dispatched, Given
  <1> QED BY <1>2 DEF Announced, Alike

LEMMA NextKeepsLists ==
    ASSUME TypeOK, Announced(judges, handler), [Next]_vars
    PROVE  Announced(judges', handler')
  <1>1. /\ judges \in SUBSET Conn /\ handler \in [Conn -> Handler]
        /\ \A d \in Conn : handler[d] \in Handler
    BY DEF TypeOK
  <1>2. ASSUME NEW s \in Sub, NEW p \in Priority, NEW j \in Name \cup {NoName}, Judge(s, p, j)
        PROVE  Announced(judges', handler')
    <2> DEFINE e == [id |-> s, judge_id |-> j]
    <2>1. ASSUME NEW c \in Available(e, p),
                 \/ Submitted(c, s, judges, handler, submission_map)
                 \/ SubmitFailed(c, s, judges, handler, submission_map)
          PROVE  Announced(judges', handler')
      <3>1. c \in Conn
        BY <1>1 DEF Available, Candidates
      <3>2. judges' \subseteq judges /\ \A d \in Conn : Alike(handler[d], handler'[d])
        BY <1>1, <2>1, <3>1, SubmitLeavesAlike
      <3> QED BY <1>1, <3>2 DEF Announced, Alike
    <2> QED BY <1>2, <2>1 DEF Judge, Announced
  <1>3. ASSUME NEW s \in Sub, Abort(s) PROVE Announced(judges', handler')
    BY <1>3 DEF Abort, Announced
  <1>4. ASSUME NEW c \in Conn, NEW n \in Name, NEW P \in Lists, Register(c, n, P)
        PROVE  Announced(judges', handler')
    <2>1. PICK H \in [Conn -> Handler], M \in Map :
            /\ HandleFreeJudge(c, judges \cup {c}, H, M)
            /\ H[c] = NewHandler(n, P)
            /\ \A d \in Conn : d # c => H[d] = handler[d]
      BY <1>4, RegisterWalks
    <2>2. Announced(judges \cup {c}, H)
      BY <1>1, <2>1 DEF Announced, NewHandler
    <2> QED BY <1>1, <2>1, <2>2, WalkKeepsLists
  <1>5. ASSUME NEW c \in Conn, NEW b \in BOOLEAN, LoadDisabled(c, b)
        PROVE  Announced(judges', handler')
    <2>1. [handler[c] EXCEPT !.disabled = b].problems = handler[c].problems
      BY <1>1 DEF Handler
    <2> QED BY <1>1, <1>5, <2>1 DEF LoadDisabled, Announced
  <1>6. ASSUME NEW n \in Name, NEW b \in BOOLEAN, UpdateDisableJudge(n, b)
        PROVE  Announced(judges', handler')
    <2>1. \A d \in Conn : [handler[d] EXCEPT !.disabled = b].problems = handler[d].problems
      BY <1>1 DEF Handler
    <2> QED BY <1>1, <1>6, <2>1 DEF UpdateDisableJudge, Announced
  <1>7. ASSUME NEW n \in Name, Disconnect(n) PROVE Announced(judges', handler')
    BY <1>7 DEF Disconnect, Announced
  <1>8. ASSUME NEW c \in Conn, NEW s \in Sub, OnJudgeFree(c, s) PROVE Announced(judges', handler')
    <2>1. CASE submission_map[s] # NoConn
      <3>1. PICK H \in [Conn -> Handler], M \in Map :
              /\ HandleFreeJudge(c, judges, H, M)
              /\ Alike(handler[c], H[c])
              /\ \A d \in Conn : d # c => H[d] = handler[d]
        BY <1>8, <2>1, ReportWalks
      <3>2. Announced(judges, H)
        BY <1>1, <3>1 DEF Announced, Alike
      <3> QED BY <1>1, <3>1, <3>2, WalkKeepsLists
    <2>2. CASE submission_map[s] = NoConn
      <3>1. handler' = [handler EXCEPT ![c].job = @ \ {s}] /\ UNCHANGED judges
        BY <1>8, <2>2 DEF OnJudgeFree
      <3>2. [handler[c] EXCEPT !.job = @ \ {s}].problems = handler[c].problems
        BY <1>1 DEF Handler
      <3> QED BY <1>1, <3>1, <3>2 DEF Announced
    <2> QED BY <2>1, <2>2
  <1>9. ASSUME NEW c \in Conn, RemoveJudge(c) PROVE Announced(judges', handler')
    <2> DEFINE J == judges \ {c}
    <2>1. PICK H \in [Conn -> Handler], M \in Map :
            /\ \/ judges' = J /\ handler' = H
               \/ \E d \in SoleFree(J, H) : HandleFreeJudge(d, J, H, M)
            /\ \A d \in Conn : d # c => H[d] = handler[d]
      BY <1>9, RemoveWalks
    <2>2. J \in SUBSET Conn /\ Announced(J, H)
      BY <1>1, <2>1 DEF Announced
    <2> HIDE DEF J
    <2>3. ASSUME NEW d \in SoleFree(J, H), HandleFreeJudge(d, J, H, M)
          PROVE  Announced(judges', handler')
      <3>1. d \in Conn
        BY <2>2 DEF SoleFree
      <3> QED BY <2>2, <2>3, <3>1, WalkKeepsLists
    <2> QED BY <2>1, <2>2, <2>3
  <1>10. ASSUME NEW c \in Conn, NEW P \in Lists, SupportedProblems(c, P)
         PROVE  Announced(judges', handler')
    <2>1. [handler[c] EXCEPT !.problems = P].problems = P
      BY <1>1 DEF Handler
    <2> QED BY <1>1, <1>10, <2>1 DEF SupportedProblems, Announced
  <1>11. ASSUME NEW c \in Conn, ReadWorking(c) PROVE Announced(judges', handler')
    BY <1>11 DEF ReadWorking, Announced
  <1>12. ASSUME NEW c \in Conn, UpdateProblems(c) PROVE Announced(judges', handler')
    <2>1. HandleFreeJudge(c, judges, handler, submission_map)
      BY <1>12 DEF UpdateProblems
    <2> QED BY <1>1, <2>1, WalkKeepsLists
  <1>13. CASE UNCHANGED vars
    BY <1>13 DEF vars, Announced
  <1>14. 0 .. REJUDGE_PRIORITY - 1 \subseteq Priority
    BY DEF Priority, REJUDGE_PRIORITY
  <1> QED
    BY <1>2, <1>3, <1>4, <1>5, <1>6, <1>7, <1>8, <1>9, <1>10, <1>11, <1>12, <1>13, <1>14 DEF Next

LEMMA ListsKept == Spec => []Announced(judges, handler)
  <1>1. Init => Announced(judges, handler)
    BY DEF Init, Announced
  <1>2. ASSUME TypeOK, Announced(judges, handler), [Next]_vars
        PROVE  Announced(judges, handler)'
    <2>1. Announced(judges', handler')
      BY <1>2, NextKeepsLists
    <2> QED BY <2>1 DEF Announced
  <1> QED BY <1>1, <1>2, TypeCorrect, PTL DEF Spec

(***************************************************************************)
(* Starting a rejudge leaves an enabled judge free, when there is more     *)
(* than one and all have the same problems: whatever fails or changes      *)
(* meanwhile, on any finite number of connections.                         *)
(***************************************************************************)
THEOREM ReserveKeptHolds == ASSUME IsFiniteSet(Conn), OneList PROVE Spec => ReserveKept
  <1>1. TypeOK /\ QueueWellFormed /\ Announced(judges, handler) /\ [Next]_vars
          => [\A c \in Conn, s \in Sub :
                Started(c, s) /\ IsRejudge(s)
                              /\ Cardinality({d \in judges' : ~handler'[d].disabled}) > 1
                  => \E d \in judges' : Idle(handler'[d])]_vars
    BY QueueWellFormedIsForm, StepKeepsReserve
  <1> QED BY <1>1, TypeCorrect, QueueAgrees, ListsKept, PTL DEF Spec, ReserveKept

-----------------------------------------------------------------------------
(***************************************************************************)
(* What waits beside a free judge, for values of judges, handler, queue.   *)
(* Alone is the part of it that a walk for one judge relies on for the     *)
(* others: who is passed by is the only one that is free.                  *)
(***************************************************************************)
Alone(J, H, q) ==
    \A x \in J, p \in Priority : \A k \in 1 .. Len(q[p]) :
        Idle(H[x]) /\ CanJudge(H[x], q[p][k]) => \A d \in J : Idle(H[d]) => d = x

ReserveOnly(J, H, q) ==
    /\ Alone(J, H, q)
    /\ \A x \in J, p \in Priority : \A k \in 1 .. Len(q[p]) :
         Idle(H[x]) /\ CanJudge(H[x], q[p][k]) => J # {x}

\* Only contest and default submissions are for a particular judge.
RejudgesAreOpen(q) ==
    \A p \in Priority : \A k \in 1 .. Len(q[p]) :
        p >= REJUDGE_PRIORITY => q[p][k].judge_id = NoName

SameWork == FaultFree /\ ~Enabling /\ IsFiniteSet(Conn) /\ OneList

\* An idle judge that a walk gives nothing is the reserve.
LEMMA PassedByIsReserve ==
    ASSUME TypeOK, SameWork, NEW J \in SUBSET Conn, NEW H \in [Conn -> Handler],
           Announced(J, H), NEW c \in J, Idle(H[c]), Eligible(c, J, H) = {},
           NEW x \in J, Idle(H[x]), NEW p \in Priority, NEW k \in 1 .. Len(queue[p]),
           CanJudge(H[x], queue[p][k]),
           RejudgesAreOpen(queue), p >= REJUDGE_PRIORITY
    PROVE  J # {x} /\ \A d \in J : Idle(H[d]) => d = x
  <1> DEFINE Enabled == {d \in J : ~H[d].disabled}
             Free == {d \in J : Idle(H[d])}
  <1>1. CanJudge(H[c], queue[p][k])
    <2>1. queue[p][k].judge_id = NoName
      BY DEF RejudgesAreOpen
    <2>2. KindOf[queue[p][k].id] \in H[x].problems /\ H[x].problems = H[c].problems
      BY DEF CanJudge, Announced, SameWork, OneList
    <2> QED BY <2>1, <2>2 DEF CanJudge, Idle
  <1>2. <<p, k>> \in Positions /\ EntryAt(<<p, k>>) = queue[p][k]
    BY PositionsAreIndices
  <1>3. Reserved(J, H)
    BY <1>1, <1>2 DEF Eligible
  <1>4. Enabled \in SUBSET J /\ Free \in SUBSET J
    OBVIOUS
  <1>5. IsFiniteSet(Enabled) /\ IsFiniteSet(Free)
    BY <1>4, JudgesAreFinite DEF SameWork
  <1>6. Cardinality(Enabled) > 1 /\ Cardinality(Free) =< 1 /\ x \in Free
    BY <1>3 DEF Reserved
  <1> HIDE DEF Enabled, Free
  <1>7. Free = {x}
    BY <1>5, <1>6, OnlyMember
  <1>8. PICK d \in Enabled : d # x
    BY <1>5, <1>6, AnotherMember
  <1>9. J # {x}
    BY <1>4, <1>8
  <1>10. \A y \in J : Idle(H[y]) => y = x
    BY <1>7 DEF Free
  <1> QED BY <1>9, <1>10

\* A walk for c leaves at most the reserve unserved, if the others are alone.
LEMMA WalkKeepsReserveOnly ==
    ASSUME TypeOK, SameWork, closed = {}, NEW J \in SUBSET Conn, NEW c \in J,
           NEW H \in [Conn -> Handler], NEW M, HandleFreeJudge(c, J, H, M),
           Announced(J, H), RejudgesAreOpen(queue),
           HighServed(J \ {c}, H, queue), Alone(J \ {c}, H, queue)
    PROVE  ReserveOnly(judges', handler', queue')
  <1>1. c \in Conn /\ FaultFree
    BY DEF SameWork
  <1>2. HighServed(judges', handler', queue')
    BY <1>1, WalkServesHigh
  <1>3. ASSUME Eligible(c, J, H) = {}, judges' = J, handler' = H, queue' = queue
        PROVE  ReserveOnly(judges', handler', queue')
    <2> SUFFICES ASSUME NEW x \in J, NEW p \in Priority, NEW k \in 1 .. Len(queue[p]),
                        Idle(H[x]), CanJudge(H[x], queue[p][k])
                 PROVE  J # {x} /\ \A d \in J : Idle(H[d]) => d = x
      BY <1>3 DEF ReserveOnly, Alone
    <2>1. p >= REJUDGE_PRIORITY
      <3>1. ~(p < REJUDGE_PRIORITY)
        BY <1>2, <1>3 DEF HighServed
      <3> QED BY <3>1 DEF Priority, REJUDGE_PRIORITY
    <2>2. CASE Idle(H[c])
      BY <1>3, <2>1, <2>2, PassedByIsReserve
    <2>3. CASE ~Idle(H[c])
      <3>1. x \in J \ {c}
        BY <2>3
      <3> QED BY <2>3, <3>1 DEF Alone
    <2> QED BY <2>2, <2>3
  <1>4. ASSUME NEW pos \in Eligible(c, J, H), Dispatched(c, J, H, pos)
        PROVE  ReserveOnly(judges', handler', queue')
    <2>1. ~Idle(handler'[c]) /\ judges' = J /\ \A d \in Conn : d # c => handler'[d] = H[d]
      BY <1>4 DEF Dispatched, Given, Idle
    <2>2. \A p \in Priority : \A k \in 1 .. Len(queue'[p]) :
            \E l \in 1 .. Len(queue[p]) : queue'[p][k] = queue[p][l]
      BY <1>4, RemovalLeaves DEF Dispatched, Eligible
    <2> SUFFICES ASSUME NEW x \in J, NEW p \in Priority, NEW k \in 1 .. Len(queue'[p]),
                        Idle(handler'[x]), CanJudge(handler'[x], queue'[p][k])
                 PROVE  J # {x} /\ \A d \in J : Idle(handler'[d]) => d = x
      BY <2>1 DEF ReserveOnly, Alone
    <2>3. x # c /\ x \in Conn /\ x \in J \ {c} /\ handler'[x] = H[x]
      BY <2>1
    <2>4. PICK l \in 1 .. Len(queue[p]) : queue'[p][k] = queue[p][l]
      BY <2>2
    <2>5. \A d \in J \ {c} : Idle(H[d]) => d = x
      BY <2>3, <2>4 DEF Alone
    <2> QED BY <2>1, <2>3, <2>5
  <1> QED BY <1>1, <1>3, <1>4, WalkOutcome DEF FaultFree

ReserveInv ==
    /\ HighInv
    /\ Announced(judges, handler)
    /\ RejudgesAreOpen(queue)
    /\ ReserveOnly(judges, handler, queue)

\* judge sends a submission away or lets it wait for the reserve.
LEMMA JudgeKeepsReserveOnly ==
    ASSUME TypeOK, SameWork, ReserveInv,
           NEW s \in Sub, NEW p \in Priority, NEW j \in Name \cup {NoName},
           p >= REJUDGE_PRIORITY => j = NoName, Judge(s, p, j)
    PROVE  RejudgesAreOpen(queue') /\ ReserveOnly(judges', handler', queue')
  <1> DEFINE e == [id |-> s, judge_id |-> j]
             Free == {c \in Candidates(e) : Idle(handler[c])}
  <1>1. judges \in SUBSET Conn /\ handler \in [Conn -> Handler] /\ closed = {}
    BY DEF TypeOK, ReserveInv, HighInv, FaultFreeInv
  <1>2. ASSUME NEW c \in Available(e, p), Submitted(c, s, judges, handler, submission_map),
               UNCHANGED queue
        PROVE  RejudgesAreOpen(queue') /\ ReserveOnly(judges', handler', queue')
    <2>1. c \in judges /\ c \in Conn /\ Idle(handler[c])
      BY <1>1 DEF Available, Candidates
    <2>2. /\ judges' = judges
          /\ Given(handler[c], handler'[c], s)
          /\ \A d \in Conn : d # c => handler'[d] = handler[d]
      BY <1>1, <1>2, <2>1, SubmitOutcome
    <2>3. ~Idle(handler'[c])
      BY <2>2 DEF Given, Idle
    <2>4. ASSUME NEW x \in judges, NEW r \in Priority, NEW k \in 1 .. Len(queue[r]),
                 Idle(handler'[x]), CanJudge(handler'[x], queue[r][k])
          PROVE  FALSE
      <3>1. x # c /\ handler'[x] = handler[x]
        BY <1>1, <2>2, <2>3, <2>4
      <3> QED BY <2>1, <2>4, <3>1 DEF ReserveInv, ReserveOnly, Alone
    <2> QED BY <1>2, <2>2, <2>4 DEF ReserveInv, ReserveOnly, Alone
  <1>3. ASSUME Available(e, p) = {}, queue' = [queue EXCEPT ![p] = Inserted(@, e)],
               UNCHANGED <<judges, handler>>
        PROVE  RejudgesAreOpen(queue') /\ ReserveOnly(judges', handler', queue')
    <2>1. ASSUME NEW x \in judges, Idle(handler[x]), CanJudge(handler[x], e)
          PROVE  judges # {x} /\ \A d \in judges : Idle(handler[d]) => d = x
      <3>1. x \in Free
        BY <2>1 DEF Candidates
      <3>2. Available(e, p) # Free
        BY <1>3, <3>1
      <3>3. /\ Cardinality(Candidates(e)) > 1 /\ Cardinality(Free) = 1
            /\ p >= REJUDGE_PRIORITY
        BY <3>2 DEF Available
      <3>4. Free \in SUBSET judges /\ Candidates(e) \in SUBSET judges
        BY DEF Candidates
      <3>5. IsFiniteSet(Free) /\ IsFiniteSet(Candidates(e))
        BY <1>1, <3>4, JudgesAreFinite DEF SameWork
      <3>6. \A d \in judges : Idle(handler[d]) => d \in Free
        <4>1. j = NoName
          BY <3>3
        <4>2. \A d \in judges : handler[d].problems = handler[x].problems
          BY <2>1 DEF ReserveInv, Announced, SameWork, OneList
        <4> QED BY <2>1, <4>1, <4>2 DEF Candidates, CanJudge, Idle
      <3> HIDE DEF Free, e
      <3>7. Free = {x}
        BY <3>1, <3>3, <3>5, OnlyMember
      <3>8. PICK d \in Candidates(e) : d # x
        BY <3>3, <3>5, AnotherMember
      <3> QED BY <3>4, <3>6, <3>7, <3>8
    <2>2. e \in Entry /\ (p >= REJUDGE_PRIORITY => e.judge_id = NoName)
      BY DEF Entry
    <2> HIDE DEF e
    <2>3. \A r \in Priority : \A k \in 1 .. Len(queue'[r]) :
            \/ r = p /\ queue'[r][k] = e
            \/ \E l \in 1 .. Len(queue[r]) : queue'[r][k] = queue[r][l]
      BY <1>3, <2>2, InsertionAdds
    <2>4. RejudgesAreOpen(queue')
      BY <2>2, <2>3 DEF ReserveInv, RejudgesAreOpen
    <2>5. ReserveOnly(judges', handler', queue')
      BY <1>3, <2>1, <2>3 DEF ReserveInv, ReserveOnly, Alone
    <2> QED BY <2>4, <2>5
  <1>4. ASSUME NEW c, SubmitFailed(c, s, judges, handler, submission_map) PROVE FALSE
    BY <1>1, <1>4 DEF SubmitFailed, FaultFree, SameWork
  <1> QED BY <1>2, <1>3, <1>4 DEF Judge

\* A walk changes the queue by taking an entry from it or not at all.
LEMMA WalkKeepsRejudgesOpen ==
    ASSUME TypeOK, RejudgesAreOpen(queue), NEW c \in Conn, NEW J \in SUBSET Conn,
           NEW H \in [Conn -> Handler], NEW M, HandleFreeJudge(c, J, H, M)
    PROVE  RejudgesAreOpen(queue')
  <1>1. ASSUME NEW pos \in Eligible(c, J, H), Dispatched(c, J, H, pos)
        PROVE  RejudgesAreOpen(queue')
    <2>1. \A p \in Priority : \A k \in 1 .. Len(queue'[p]) :
            \E l \in 1 .. Len(queue[p]) : queue'[p][k] = queue[p][l]
      BY <1>1, RemovalLeaves DEF Dispatched, Eligible
    <2> QED BY <2>1 DEF RejudgesAreOpen
  <1>2. CASE queue' = queue
    BY <1>2
  <1> QED BY <1>1, <1>2, WalkOutcome

LEMMA NextKeepsReserveOnly ==
    ASSUME TypeOK, SameWork, ReserveInv, [Next]_vars
    PROVE  RejudgesAreOpen(queue') /\ ReserveOnly(judges', handler', queue')
  <1> DEFINE Kept == RejudgesAreOpen(queue') /\ ReserveOnly(judges', handler', queue')
  <1>1. /\ judges \in SUBSET Conn /\ handler \in [Conn -> Handler] /\ closed = {}
        /\ FaultFreeInv /\ HighInv /\ HighServed(judges, handler, queue)
        /\ Announced(judges, handler) /\ RejudgesAreOpen(queue)
        /\ ReserveOnly(judges, handler, queue) /\ Alone(judges, handler, queue)
    BY DEF TypeOK, ReserveInv, HighInv, FaultFreeInv, ReserveOnly
  <1>2. ASSUME NEW s \in Sub, NEW p \in Priority, NEW j \in Name \cup {NoName},
               p >= REJUDGE_PRIORITY => j = NoName, Judge(s, p, j)
        PROVE  Kept
    BY <1>2, JudgeKeepsReserveOnly
  <1>3. ASSUME NEW s \in Sub, Abort(s) PROVE Kept
    <2>1. PICK pos \in Positions : queue' = [queue EXCEPT ![pos[1]] = RemoveAt(@, pos[2])]
      BY <1>3 DEF Abort
    <2>2. \A p \in Priority : \A k \in 1 .. Len(queue'[p]) :
            \E l \in 1 .. Len(queue[p]) : queue'[p][k] = queue[p][l]
      BY <2>1, RemovalLeaves
    <2>3. UNCHANGED <<judges, handler>>
      BY <1>3 DEF Abort
    <2>4. RejudgesAreOpen(queue')
      <3>1. RejudgesAreOpen(queue)
        BY <1>1
      <3> QED BY <2>2, <3>1 DEF RejudgesAreOpen
    <2>5. ReserveOnly(judges', handler', queue')
      BY <1>1, <2>2, <2>3 DEF ReserveOnly, Alone
    <2> QED BY <2>4, <2>5
  <1>4. ASSUME NEW J \in SUBSET Conn, NEW c \in J, NEW H \in [Conn -> Handler], NEW M,
               HandleFreeJudge(c, J, H, M), Announced(J, H),
               HighServed(J \ {c}, H, queue), Alone(J \ {c}, H, queue)
        PROVE  Kept
    <2>1. c \in Conn
      OBVIOUS
    <2> QED BY <1>1, <1>4, <2>1, WalkKeepsReserveOnly, WalkKeepsRejudgesOpen
  <1>5. ASSUME NEW c \in Conn, NEW n \in Name, NEW P \in Lists, Register(c, n, P)
        PROVE  Kept
    <2>1. PICK H \in [Conn -> Handler], M \in Map :
            /\ HandleFreeJudge(c, judges \cup {c}, H, M)
            /\ H[c] = NewHandler(n, P)
            /\ \A d \in Conn : d # c => H[d] = handler[d]
      BY <1>5, RegisterWalks
    <2> DEFINE J == judges \cup {c}
    <2>2. J \in SUBSET Conn /\ c \in J /\ J \ {c} \subseteq judges
      BY <1>1
    <2>3. HandleFreeJudge(c, J, H, M)
      BY <2>1
    <2>4. Announced(J, H)
      BY <1>1, <2>1 DEF Announced, NewHandler
    <2> HIDE DEF J
    <2>5. HighServed(J \ {c}, H, queue)
      BY <1>1, <2>1, <2>2, OthersHigh
    <2>6. Alone(J \ {c}, H, queue)
      BY <1>1, <2>1, <2>2 DEF Alone
    <2> QED BY <1>4, <2>2, <2>3, <2>4, <2>5, <2>6
  <1>6. ASSUME NEW b \in BOOLEAN,
               \/ \E c \in Conn : LoadDisabled(c, b)
               \/ \E n \in Name : UpdateDisableJudge(n, b)
        PROVE  Kept
    <2>1. /\ \A d \in Conn : Idle(handler'[d]) => handler'[d] = handler[d]
          /\ UNCHANGED <<judges, queue>>
      BY <1>6, FlagsOnlySet DEF SameWork
    <2>2. \A d \in judges : d \in Conn
      BY <1>1
    <2>3. ReserveOnly(judges', handler', queue')
      BY <1>1, <2>1, <2>2 DEF ReserveOnly, Alone
    <2> QED BY <1>1, <2>1, <2>3
  <1>7. ASSUME NEW c \in Conn, NEW s \in Sub, OnJudgeFree(c, s) PROVE Kept
    <2>1. c \in judges
      BY <1>1, <1>7, ReportIsMapped
    <2>2. PICK H \in [Conn -> Handler], M \in Map :
            /\ HandleFreeJudge(c, judges, H, M)
            /\ Alike(handler[c], H[c])
            /\ \A d \in Conn : d # c => H[d] = handler[d]
      BY <1>1, <1>7, ReportIsMapped, ReportWalks
    <2>3. HighServed(judges \ {c}, H, queue)
      BY <1>1, <2>2, OthersHigh
    <2>4. Alone(judges \ {c}, H, queue)
      BY <1>1, <2>2 DEF Alone
    <2>5. Announced(judges, H)
      BY <1>1, <2>2 DEF Announced, Alike
    <2> QED BY <1>1, <1>4, <2>1, <2>2, <2>3, <2>4, <2>5
  <1>8. ASSUME NEW c \in Conn, RemoveJudge(c) PROVE Kept
    <2> DEFINE J == judges \ {c}
    <2>1. PICK H \in [Conn -> Handler], M \in Map :
            /\ \/ /\ SoleFree(J, H) = {}
                  /\ judges' = J /\ handler' = H /\ queue' = queue
               \/ \E d \in SoleFree(J, H) : HandleFreeJudge(d, J, H, M)
            /\ \A d \in Conn : d # c => H[d] = handler[d]
      BY <1>8, RemoveWalks
    <2>2. J \in SUBSET Conn /\ J \subseteq judges /\ \A d \in J : d \in Conn /\ H[d] = handler[d]
      BY <1>1, <2>1
    <2> HIDE DEF J
    <2>3. ASSUME NEW d \in SoleFree(J, H), HandleFreeJudge(d, J, H, M)
          PROVE  Kept
      <3>1. J \ {d} = {} /\ d \in J
        BY DEF SoleFree
      <3>2. HighServed(J \ {d}, H, queue) /\ Alone(J \ {d}, H, queue)
        BY <3>1 DEF HighServed, Alone
      <3>3. Announced(J, H)
        BY <1>1, <2>2 DEF Announced
      <3> QED BY <1>4, <2>2, <2>3, <3>1, <3>2, <3>3
    <2>4. ASSUME SoleFree(J, H) = {}, judges' = J, handler' = H, queue' = queue
          PROVE  Kept
      <3>1. Alone(J, H, queue)
        BY <1>1, <2>2 DEF Alone
      <3>2. \A x \in J : Idle(H[x]) => J # {x}
        BY <2>4 DEF SoleFree, Idle
      <3> QED BY <1>1, <2>4, <3>1, <3>2 DEF ReserveOnly
    <2> QED BY <2>1, <2>3, <2>4
  <1>9. ASSUME NEW n \in Name, Disconnect(n) PROVE FALSE
    BY <1>9 DEF Disconnect, SameWork, FaultFree
  <1>10. ASSUME NEW c \in Conn, NEW P \in Lists, SupportedProblems(c, P) PROVE FALSE
    BY <1>10 DEF SupportedProblems, SameWork, FaultFree
  <1>11. ASSUME NEW c \in Conn, ReadWorking(c) \/ UpdateProblems(c) PROVE FALSE
    BY <1>1, <1>11 DEF ReadWorking, UpdateProblems, FaultFreeInv
  <1>12. ASSUME UNCHANGED vars PROVE Kept
    BY <1>1, <1>12 DEF vars
  <1> HIDE DEF Kept
  <1>13. /\ \A s \in Sub, p \in Priority : Judge(s, p, NoName) => Kept
         /\ \A s \in Sub, p \in 0 .. REJUDGE_PRIORITY - 1, j \in Name : Judge(s, p, j) => Kept
    <2>1. /\ 0 .. REJUDGE_PRIORITY - 1 \subseteq Priority
          /\ \A p \in 0 .. REJUDGE_PRIORITY - 1 : ~(p >= REJUDGE_PRIORITY)
      BY DEF Priority, REJUDGE_PRIORITY
    <2> QED BY <1>2, <2>1
  <1>14. Kept
    BY <1>3, <1>5, <1>6, <1>7, <1>8, <1>9, <1>10, <1>11, <1>12, <1>13 DEF Next
  <1> QED BY <1>14 DEF Kept

(***************************************************************************)
(* When all judges can do the same work, a rejudge waits beside a free     *)
(* judge only while that judge is the reserve among several: for any       *)
(* finite number of judges, while no dispatch fails and no judge is        *)
(* enabled again.                                                          *)
(***************************************************************************)
THEOREM RejudgeWaitsForReserveOnlyHolds ==
    ASSUME SameWork PROVE Spec => []RejudgeWaitsForReserveOnly
  <1> DEFINE Waits == RejudgesAreOpen(queue) /\ ReserveOnly(judges, handler, queue)
  <1>1. FaultFree /\ ~Enabling
    BY DEF SameWork
  <1>2. Init => Waits
    <2> SUFFICES ASSUME Init PROVE Waits
      OBVIOUS
    <2>1. \A p \in Priority : Len(queue[p]) = 0 /\ 1 .. Len(queue[p]) = {}
      BY EmptySeq DEF Init
    <2> QED BY <2>1 DEF Init, RejudgesAreOpen, ReserveOnly, Alone
  <1>3. ASSUME TypeOK, FaultFreeInv, HighServed(judges, handler, queue),
               Announced(judges, handler), Waits, [Next]_vars
        PROVE  Waits'
    <2>1. RejudgesAreOpen(queue') /\ ReserveOnly(judges', handler', queue')
      BY <1>3, NextKeepsReserveOnly DEF ReserveInv, HighInv
    <2> QED BY <2>1 DEF RejudgesAreOpen, ReserveOnly, Alone
  <1>4. ASSUME TypeOK, Waits PROVE RejudgeWaitsForReserveOnly
    <2> SUFFICES ASSUME NEW c \in judges, NEW pos \in Positions,
                        Idle(handler[c]), CanJudge(handler[c], EntryAt(pos))
                 PROVE  {d \in judges : Idle(handler[d])} = {c} /\ judges # {c}
      BY DEF RejudgeWaitsForReserveOnly
    <2>1. pos[1] \in Priority /\ pos[2] \in 1 .. Len(queue[pos[1]])
      BY <1>4, PositionProperties
    <2> QED BY <1>4, <2>1 DEF ReserveOnly, Alone, EntryAt
  <1> HIDE DEF Waits
  <1> QED
    BY <1>1, <1>2, <1>3, <1>4, TypeCorrect, HighServedKept, ListsKept, PTL DEF Spec
=============================================================================
