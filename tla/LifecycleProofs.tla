--------------------------- MODULE LifecycleProofs ---------------------------
(***************************************************************************)
(* Theorems about SubmissionLifecycle for every value of its constants.    *)
(* What is known of the list's operations is taken from the proofs about   *)
(* JudgeList, through an instance of them.                                 *)
(***************************************************************************)
EXTENDS SubmissionLifecycle, Sequences, TLAPS

Queue == INSTANCE DispatchProofs

\* The two instances speak of the same list: the constants and the state,
LEMMA SameState ==
    /\ Queue!JudgeListAssumption
    /\ Queue!Priority = List!Priority
    /\ Queue!REJUDGE_PRIORITY = List!REJUDGE_PRIORITY
    /\ Queue!TypeOK = List!TypeOK
    /\ Queue!TypeOK' = List!TypeOK'
    /\ Queue!Init = List!Init
    /\ \A n, P : Queue!NewHandler(n, P) = List!NewHandler(n, P)
    /\ \A s : Queue!Known(s) = List!Known(s)
    /\ \A s : Queue!Known(s)' = List!Known(s)'
  <1>1. Queue!JudgeListAssumption
    BY ListAssumption DEF Queue!JudgeListAssumption, List!JudgeListAssumption
  <1>2. /\ Queue!Priority = List!Priority
        /\ Queue!REJUDGE_PRIORITY = List!REJUDGE_PRIORITY
        /\ Queue!TypeOK = List!TypeOK
        /\ Queue!TypeOK' = List!TypeOK'
    BY DEF Queue!TypeOK, List!TypeOK, Queue!Handler, List!Handler, Queue!Step, List!Step,
           Queue!Entry, List!Entry, Queue!Priority, List!Priority,
           Queue!REJUDGE_PRIORITY, List!REJUDGE_PRIORITY
  <1>3. /\ \A n, P : Queue!NewHandler(n, P) = List!NewHandler(n, P)
        /\ \A s : Queue!Known(s) = List!Known(s)
        /\ \A s : Queue!Known(s)' = List!Known(s)'
    BY DEF Queue!NewHandler, List!NewHandler, Queue!Known, List!Known
  <1>4. Queue!Init = List!Init
    BY DEF Queue!Init, List!Init, Queue!NewHandler, List!NewHandler,
           Queue!Priority, List!Priority
  <1> QED BY <1>1, <1>2, <1>3, <1>4

\* a walk of the queue,
LEMMA SameWalk ==
    ASSUME NEW c, NEW J, NEW H, NEW M
    PROVE  Queue!HandleFreeJudge(c, J, H, M) = List!HandleFreeJudge(c, J, H, M)
  BY DEF Queue!HandleFreeJudge, List!HandleFreeJudge, Queue!Eligible, List!Eligible,
         Queue!CanJudge, List!CanJudge, Queue!Reserved, List!Reserved,
         Queue!Idle, List!Idle, Queue!Before, List!Before,
         Queue!Positions, List!Positions, Queue!EntryAt, List!EntryAt,
         Queue!Submitted, List!Submitted, Queue!SubmitFailed, List!SubmitFailed,
         Queue!Priority, List!Priority, Queue!REJUDGE_PRIORITY, List!REJUDGE_PRIORITY,
         Queue!RemoveAt, List!RemoveAt, Queue!Cardinality, List!Cardinality

\* and the operations.
LEMMA SameJudge ==
    ASSUME NEW s, NEW p, NEW j PROVE Queue!Judge(s, p, j) = List!Judge(s, p, j)
  BY DEF Queue!Judge, List!Judge, Queue!Known, List!Known,
         Queue!Available, List!Available, Queue!Candidates, List!Candidates,
         Queue!CanJudge, List!CanJudge, Queue!Idle, List!Idle,
         Queue!Submitted, List!Submitted, Queue!SubmitFailed, List!SubmitFailed,
         Queue!Inserted, List!Inserted, Queue!REJUDGE_PRIORITY, List!REJUDGE_PRIORITY,
         Queue!Cardinality, List!Cardinality

LEMMA SameAbort == ASSUME NEW s PROVE Queue!Abort(s) = List!Abort(s)
  BY DEF Queue!Abort, List!Abort, Queue!Positions, List!Positions,
         Queue!EntryAt, List!EntryAt, Queue!Priority, List!Priority,
         Queue!RemoveAt, List!RemoveAt

LEMMA SameConnection ==
    ASSUME NEW c, NEW n, NEW P, NEW b, NEW s
    PROVE  /\ Queue!Register(c, n, P) = List!Register(c, n, P)
           /\ Queue!LoadDisabled(c, b) = List!LoadDisabled(c, b)
           /\ Queue!UpdateDisableJudge(n, b) = List!UpdateDisableJudge(n, b)
           /\ Queue!OnJudgeFree(c, s) = List!OnJudgeFree(c, s)
           /\ Queue!RemoveJudge(c) = List!RemoveJudge(c)
  BY SameWalk
     DEF Queue!Register, List!Register, Queue!SameName, List!SameName,
         Queue!NewHandler, List!NewHandler,
         Queue!LoadDisabled, List!LoadDisabled,
         Queue!UpdateDisableJudge, List!UpdateDisableJudge,
         Queue!OnJudgeFree, List!OnJudgeFree, Queue!Unmapped, List!Unmapped,
         Queue!RemoveJudge, List!RemoveJudge, Queue!SoleFree, List!SoleFree

-----------------------------------------------------------------------------
(***************************************************************************)
(* Every step of the lifecycle is a step of the list, or leaves it alone,  *)
(* or restarts the bridge.                                                 *)
(***************************************************************************)

(***************************************************************************)
(* A worker that does something does it for a submission, and a handler    *)
(* that has a query to make makes it for one.                              *)
(***************************************************************************)
Actors ==
    /\ \A w \in Worker : worker[w].pc = "idle" <=> worker[w].sub = NoSub
    /\ \A c \in Conn : todo[c].do = "none" <=> todo[c].sub = NoSub

\* The operations that the lifecycle uses are steps of the list.
LEMMA OperationIsStep ==
    /\ \A s \in Sub, p \in List!Priority : List!Judge(s, p, NoName) => Queue!Next
    /\ \A s \in Sub : List!Abort(s) => Queue!Next
    /\ \A c \in Conn, n \in Name, P \in Lists : List!Register(c, n, P) => Queue!Next
    /\ \A c \in Conn, b \in BOOLEAN : List!LoadDisabled(c, b) => Queue!Next
    /\ \A n \in Name, b \in BOOLEAN : List!UpdateDisableJudge(n, b) => Queue!Next
    /\ \A c \in Conn, s \in Sub : List!OnJudgeFree(c, s) => Queue!Next
    /\ \A c \in Conn : List!RemoveJudge(c) => Queue!Next
  <1>1. ASSUME NEW s \in Sub, NEW p \in List!Priority, List!Judge(s, p, NoName)
        PROVE  Queue!Next
    BY <1>1, SameJudge, SameState DEF Queue!Next
  <1>2. ASSUME NEW s \in Sub, List!Abort(s) PROVE Queue!Next
    BY <1>2, SameAbort DEF Queue!Next
  <1>3. ASSUME NEW c \in Conn, NEW n \in Name, NEW P \in Lists, List!Register(c, n, P)
        PROVE  Queue!Next
    BY <1>3, SameConnection DEF Queue!Next
  <1>4. ASSUME NEW c \in Conn, NEW b \in BOOLEAN, List!LoadDisabled(c, b) PROVE Queue!Next
    BY <1>4, SameConnection DEF Queue!Next
  <1>5. ASSUME NEW n \in Name, NEW b \in BOOLEAN, List!UpdateDisableJudge(n, b)
        PROVE  Queue!Next
    BY <1>5, SameConnection DEF Queue!Next
  <1>6. ASSUME NEW c \in Conn, NEW s \in Sub, List!OnJudgeFree(c, s) PROVE Queue!Next
    BY <1>6, SameConnection DEF Queue!Next
  <1>7. ASSUME NEW c \in Conn, List!RemoveJudge(c) PROVE Queue!Next
    BY <1>7, SameConnection DEF Queue!Next
  <1> QED BY <1>1, <1>2, <1>3, <1>4, <1>5, <1>6, <1>7

\* A worker that is not idle works for a submission, a handler with a query too.
LEMMA ActorProperties ==
    ASSUME RowTypeOK, Actors
    PROVE  /\ \A w \in Worker : /\ worker[w] \in WorkerState
                                /\ worker[w].level \in List!Priority
                                /\ worker[w].pc # "idle" => worker[w].sub \in Sub
           /\ \A c \in Conn : /\ todo[c] \in Todo
                              /\ todo[c].do # "none" => todo[c].sub \in Sub
  BY ListAssumption DEF RowTypeOK, Actors, WorkerState, Todo, List!JudgeListAssumption

\* A worker's step changes the list by a request or an abort.
LEMMA WorkerListStep ==
    ASSUME RowTypeOK, Actors, NEW w \in Worker, WorkerStep(w) \/ Unreachable(w)
    PROVE  Queue!Next \/ UNCHANGED listVars
  <1>1. worker[w].level \in List!Priority /\ (worker[w].pc # "idle" => worker[w].sub \in Sub)
    BY ActorProperties
  <1>2. CASE Request(w)
    BY <1>1, <1>2, OperationIsStep DEF Request, At
  <1>3. CASE Terminate(w)
    BY <1>1, <1>3, OperationIsStep DEF Terminate, At
  <1>4. CASE Update(w) \/ DeleteTestCases(w) \/ RequestFailed(w) \/ MarkAborted(w) \/ Unreachable(w)
    BY <1>4 DEF Update, DeleteTestCases, RequestFailed, MarkAborted, Unreachable
  <1> QED BY <1>2, <1>3, <1>4 DEF WorkerStep

\* A handler's step changes the list by a report or not at all.
LEMMA HandlerListStep ==
    ASSUME NEW c \in Conn, HandlerStep(c)
    PROVE  Queue!Next \/ UNCHANGED listVars
  <1>1. ASSUME NEW s \in Sub, NEW what, End(c, s, what) PROVE Queue!Next
    BY <1>1, OperationIsStep DEF End
  <1>2. ASSUME NEW s \in Sub,
               Acknowledged(c, s) \/ GradingBegin(c, s) \/ TestCase(c, s)
        PROVE  UNCHANGED listVars
    BY <1>2 DEF Acknowledged, GradingBegin, TestCase
  <1>3. ASSUME NEW s \in Sub,
               \/ GradingEnd(c, s) \/ CompileError(c, s)
               \/ InternalError(c, s) \/ Terminated(c, s)
        PROVE  Queue!Next
    BY <1>1, <1>3 DEF GradingEnd, CompileError, InternalError, Terminated
  <1>4. CASE ClearTestCases(c) \/ ReadTestCases(c) \/ Save(c) \/ WriteOutcome(c)
    BY <1>4 DEF ClearTestCases, ReadTestCases, Save, WriteOutcome
  <1> QED BY <1>2, <1>3, <1>4 DEF HandlerStep

LEMMA ListStep ==
    ASSUME RowTypeOK, Actors, [Next]_vars
    PROVE  Queue!Next \/ UNCHANGED listVars \/ Restart
  <1>1. ASSUME NEW w \in Worker, NEW s \in Sub, NEW p,
               \/ Submit(w, s, p) \/ Rejudge(w, s) \/ BatchRejudge(w, s) \/ StartAbort(w, s)
        PROVE  UNCHANGED listVars
    BY <1>1 DEF Submit, Rejudge, BatchRejudge, StartAbort, Enter
  <1>2. ASSUME NEW w \in Worker, WorkerStep(w) \/ Unreachable(w)
        PROVE  Queue!Next \/ UNCHANGED listVars
    BY <1>2, WorkerListStep
  <1>3. ASSUME NEW c \in Conn, NEW n \in Name, NEW P \in Lists, Register(c, n, P)
        PROVE  Queue!Next
    BY <1>3, OperationIsStep DEF Register
  <1>4. ASSUME NEW c \in Conn, NEW n \in Name, NEW b \in Flags, SetDisabled(c, n, b)
        PROVE  Queue!Next
    BY <1>4, OperationIsStep, LifecycleAssumption DEF SetDisabled
  <1>5. ASSUME NEW c \in Conn, HandlerStep(c) PROVE Queue!Next \/ UNCHANGED listVars
    BY <1>5, HandlerListStep
  <1>6. ASSUME NEW c \in Conn, OnDisconnect(c) PROVE Queue!Next
    BY <1>6, OperationIsStep DEF OnDisconnect
  <1>7. CASE UNCHANGED vars
    BY <1>7 DEF vars
  <1> QED BY <1>1, <1>2, <1>3, <1>4, <1>5, <1>6, <1>7 DEF Next

-----------------------------------------------------------------------------
(***************************************************************************)
(* Type correctness.                                                       *)
(***************************************************************************)

\* The progress of the judges after a step of the list.
LEMMA RestartedTypeOK ==
    ASSUME RowTypeOK, Restarted
    PROVE  progress' \in [Conn -> Sent .. Cases] /\ stopping' \subseteq Conn
  BY LifecycleAssumption DEF RowTypeOK, Restarted, Sent

\* A worker goes on to another step of the same submission, or is done.
LEMMA WorkerGoes ==
    ASSUME RowTypeOK, Actors, NEW w \in Worker
    PROVE  /\ \A pc \in {"delete", "request", "fail", "aborted"} :
                Goto(w, pc) /\ worker[w].pc # "idle"
                  => /\ worker' \in [Worker -> WorkerState]
                     /\ \A v \in Worker : worker'[v].pc = "idle" <=> worker'[v].sub = NoSub
           /\ Finish(w)
                => /\ worker' \in [Worker -> WorkerState]
                   /\ \A v \in Worker : worker'[v].pc = "idle" <=> worker'[v].sub = NoSub
  <1>1. worker[w] \in WorkerState /\ worker \in [Worker -> WorkerState]
    BY DEF RowTypeOK
  <1>2. ASSUME NEW pc \in {"delete", "request", "fail", "aborted"},
               Goto(w, pc), worker[w].pc # "idle"
        PROVE  /\ worker' \in [Worker -> WorkerState]
               /\ \A v \in Worker : worker'[v].pc = "idle" <=> worker'[v].sub = NoSub
    <2>1. /\ [worker[w] EXCEPT !.pc = pc] \in WorkerState
          /\ [worker[w] EXCEPT !.pc = pc].pc = pc
          /\ [worker[w] EXCEPT !.pc = pc].sub = worker[w].sub
      BY <1>1 DEF WorkerState
    <2>2. worker' = [worker EXCEPT ![w] = [worker[w] EXCEPT !.pc = pc]]
      BY <1>1, <1>2 DEF Goto
    <2>3. worker' \in [Worker -> WorkerState]
      BY <1>1, <2>1, <2>2
    <2>4. worker'[w].pc # "idle" /\ worker'[w].sub # NoSub
      BY <1>1, <1>2, <2>1, <2>2 DEF Actors
    <2>5. \A v \in Worker : v # w => worker'[v] = worker[v]
      BY <1>1, <2>2
    <2> QED BY <2>3, <2>4, <2>5 DEF Actors
  <1>3. ASSUME Finish(w)
        PROVE  /\ worker' \in [Worker -> WorkerState]
               /\ \A v \in Worker : worker'[v].pc = "idle" <=> worker'[v].sub = NoSub
    <2>1. Free \in WorkerState /\ Free.pc = "idle" /\ Free.sub = NoSub
      BY DEF Free, WorkerState, List!Priority
    <2> QED BY <1>1, <1>3, <2>1 DEF Finish, Actors
  <1> QED BY <1>2, <1>3

\* A worker that starts has a submission.
LEMMA WorkerStarts ==
    ASSUME RowTypeOK, Actors, NEW w \in Worker, NEW s \in Sub, NEW p \in List!Priority,
           NEW pc \in {"update", "terminate"},
           worker' = [worker EXCEPT ![w] = [pc |-> pc, sub |-> s, level |-> p]]
    PROVE  /\ worker' \in [Worker -> WorkerState]
           /\ \A v \in Worker : worker'[v].pc = "idle" <=> worker'[v].sub = NoSub
  <1>1. [pc |-> pc, sub |-> s, level |-> p] \in WorkerState
    BY DEF WorkerState
  <1>2. s # NoSub
    BY ListAssumption DEF List!JudgeListAssumption
  <1> QED BY <1>1, <1>2 DEF RowTypeOK, Actors

\* Worker steps keep the types,
LEMMA WorkerStepTypeOK ==
    ASSUME List!TypeOK, RowTypeOK, Actors, NEW w \in Worker, WorkerStep(w) \/ Unreachable(w)
    PROVE  RowTypeOK' /\ Actors'
  <1>1. worker[w].pc # "idle" => worker[w].sub \in Sub
    BY ActorProperties
  <1>2. "QU" \in IN_PROGRESS_GRADING_STATUS /\ "IE" \in Final /\ "AB" \in Final
    BY DEF IN_PROGRESS_GRADING_STATUS, Final
  <1>3. CASE Update(w)
    <2>1. worker[w].pc # "idle" /\ UNCHANGED <<rows, todo, progress, stopping>>
      BY <1>3 DEF Update, At, rowVars
    <2>2. Finish(w) \/ Goto(w, "delete")
      BY <1>3 DEF Update
    <2>3. /\ status' \in [Sub -> Final \cup IN_PROGRESS_GRADING_STATUS \cup {"absent"}]
          /\ score' \in [Sub -> SUBSET (1 .. Cases)]
      BY <1>2, <1>3 DEF Update, rowVars, RowTypeOK
    <2> QED BY <2>1, <2>2, <2>3, WorkerGoes DEF RowTypeOK, Actors
  <1>4. CASE DeleteTestCases(w)
    BY <1>4, WorkerGoes DEF DeleteTestCases, At, RowTypeOK, Actors
  <1>5. CASE Request(w)
    <2>1. Finish(w) /\ UNCHANGED <<status, rows, score, todo>>
      BY <1>5 DEF Request, rowVars
    <2>2. progress' \in [Conn -> Sent .. Cases] /\ stopping' \subseteq Conn
      BY <1>5, RestartedTypeOK DEF Request, RowTypeOK
    <2> QED BY <2>1, <2>2, WorkerGoes DEF RowTypeOK, Actors
  <1>6. CASE RequestFailed(w)
    BY <1>2, <1>6, WorkerGoes DEF RequestFailed, At, RowTypeOK, Actors
  <1>7. CASE Terminate(w)
    <2>1. worker[w].pc # "idle" /\ UNCHANGED <<status, rows, score, todo, progress>>
      BY <1>7 DEF Terminate, At, rowVars
    <2>2. Finish(w) \/ Goto(w, "aborted")
      BY <1>7 DEF Terminate
    <2>3. stopping' \subseteq Conn
      <3>1. submission_map[worker[w].sub] \in Conn \cup {NoConn}
        BY <1>1, <2>1 DEF List!TypeOK
      <3> QED BY <1>7, <3>1 DEF Terminate, RowTypeOK
    <2> QED BY <2>1, <2>2, <2>3, WorkerGoes DEF RowTypeOK, Actors
  <1>8. CASE MarkAborted(w)
    BY <1>2, <1>8, WorkerGoes DEF MarkAborted, At, RowTypeOK, Actors
  <1>9. CASE Unreachable(w)
    BY <1>9, WorkerGoes DEF Unreachable, At, RowTypeOK, Actors, rowVars
  <1> QED BY <1>3, <1>4, <1>5, <1>6, <1>7, <1>8, <1>9 DEF WorkerStep

\* handler steps,
LEMMA HandlerStepTypeOK ==
    ASSUME RowTypeOK, Actors, NEW c \in Conn, HandlerStep(c)
    PROVE  RowTypeOK' /\ Actors'
  <1>1. todo[c] \in Todo /\ (todo[c].do # "none" => todo[c].sub \in Sub)
    BY ActorProperties
  <1>2. NoSub \notin Sub
    BY ListAssumption DEF List!JudgeListAssumption
  <1>3. \A what \in {"clear", "read", "CE", "IE", "AB"}, s \in Sub :
          /\ Query(what, s) \in Todo
          /\ Query(what, s).do = what /\ Query(what, s).sub = s
    BY DEF Query, Todo
  <1>4. Nothing \in Todo /\ Nothing.do = "none" /\ Nothing.sub = NoSub
    BY DEF Nothing, Todo
  <1>5. /\ "P" \in IN_PROGRESS_GRADING_STATUS /\ "G" \in IN_PROGRESS_GRADING_STATUS
        /\ {"D", "CE", "IE", "AB"} \subseteq Final
    BY DEF IN_PROGRESS_GRADING_STATUS, Final
  <1>6. ASSUME NEW s \in Sub, Acknowledged(c, s) PROVE RowTypeOK' /\ Actors'
    <2>1. Acked \in Sent .. Cases
      BY LifecycleAssumption DEF Acked, Sent
    <2> QED BY <1>5, <1>6, <2>1 DEF Acknowledged, RowTypeOK, Actors
  <1>7. ASSUME NEW s \in Sub, GradingBegin(c, s) PROVE RowTypeOK' /\ Actors'
    <2>1. 0 \in Sent .. Cases
      BY LifecycleAssumption DEF Sent
    <2> QED BY <1>2, <1>3, <1>5, <1>7, <2>1 DEF GradingBegin, RowTypeOK, Actors
  <1>8. ASSUME NEW s \in Sub, TestCase(c, s) PROVE RowTypeOK' /\ Actors'
    <2>1. progress[c] + 1 \in 1 .. Cases /\ progress[c] + 1 \in Sent .. Cases
      BY <1>8, LifecycleAssumption DEF TestCase, Sent
    <2> QED BY <1>8, <2>1 DEF TestCase, RowTypeOK, Actors
  <1>9. ASSUME NEW s \in Sub, NEW what \in {"read", "CE", "IE", "AB"}, End(c, s, what)
        PROVE  RowTypeOK' /\ Actors'
    <2>1. /\ UNCHANGED <<status, rows, score, worker>>
          /\ todo' = todo \/ todo' = [todo EXCEPT ![c] = Query(what, s)]
      BY <1>9 DEF End, rowVars
    <2>2. progress' \in [Conn -> Sent .. Cases] /\ stopping' \subseteq Conn
      BY <1>9, RestartedTypeOK DEF End
    <2>3. Query(what, s) \in Todo /\ Query(what, s).do # "none" /\ Query(what, s).sub # NoSub
      BY <1>2, <1>3
    <2>4. todo' \in [Conn -> Todo]
      BY <2>1, <2>3 DEF RowTypeOK
    <2>5. \A d \in Conn : todo'[d].do = "none" <=> todo'[d].sub = NoSub
      BY <2>1, <2>3 DEF RowTypeOK, Actors
    <2> QED BY <2>1, <2>2, <2>4, <2>5 DEF RowTypeOK, Actors
  <1>10. CASE ClearTestCases(c)
    BY <1>1, <1>4, <1>10 DEF ClearTestCases, RowTypeOK, Actors
  <1>11. CASE ReadTestCases(c)
    <2>1. todo[c].sub \in Sub /\ rows[todo[c].sub] \in SUBSET (1 .. Cases)
      BY <1>1, <1>11 DEF ReadTestCases, RowTypeOK
    <2>2. /\ [todo[c] EXCEPT !.do = "save", !.seen = rows[todo[c].sub]] \in Todo
          /\ [todo[c] EXCEPT !.do = "save", !.seen = rows[todo[c].sub]].do = "save"
          /\ [todo[c] EXCEPT !.do = "save", !.seen = rows[todo[c].sub]].sub = todo[c].sub
      BY <1>1, <2>1 DEF Todo
    <2>3. todo' = [todo EXCEPT ![c] = [todo[c] EXCEPT !.do = "save", !.seen = rows[todo[c].sub]]]
            /\ UNCHANGED <<status, rows, score, worker, progress, stopping>>
      BY <1>11 DEF ReadTestCases, rowVars, RowTypeOK
    <2> QED BY <1>2, <2>1, <2>2, <2>3 DEF RowTypeOK, Actors
  <1>12. CASE Save(c)
    <2>1. todo[c].sub \in Sub /\ todo[c].seen \in SUBSET (1 .. Cases)
      BY <1>1, <1>12 DEF Save, Todo
    <2> QED BY <1>4, <1>5, <1>12, <2>1 DEF Save, RowTypeOK, Actors
  <1>13. CASE WriteOutcome(c)
    <2>1. todo[c].sub \in Sub /\ todo[c].do \in Final
      BY <1>1, <1>5, <1>13 DEF WriteOutcome
    <2>2. score' \in [Sub -> SUBSET (1 .. Cases)]
      BY <1>13, <2>1 DEF WriteOutcome, RowTypeOK
    <2> QED BY <1>4, <1>13, <2>1, <2>2 DEF WriteOutcome, RowTypeOK, Actors
  <1>14. ASSUME NEW s \in Sub,
                \/ GradingEnd(c, s) \/ CompileError(c, s)
                \/ InternalError(c, s) \/ Terminated(c, s)
         PROVE  RowTypeOK' /\ Actors'
    BY <1>9, <1>14 DEF GradingEnd, CompileError, InternalError, Terminated
  <1> QED BY <1>6, <1>7, <1>8, <1>10, <1>11, <1>12, <1>13, <1>14 DEF HandlerStep

\* the death of the bridge
LEMMA RestartTypeOK ==
    ASSUME RowTypeOK, Actors, Restart
    PROVE  List!TypeOK' /\ RowTypeOK' /\ Actors'
  <1>1. /\ judges' = {} /\ queue' = [p \in List!Priority |-> <<>>] /\ node_map' = {}
        /\ handler' = [c \in Conn |-> List!NewHandler(NoName, {})]
        /\ step' = [c \in Conn |-> "gone"] /\ closed' = {}
        /\ submission_map' = [s \in Sub |-> NoConn]
    BY DEF Restart
  <1>2. List!NewHandler(NoName, {}) \in List!Handler
    BY DEF List!NewHandler, List!Handler
  <1>3. List!TypeOK'
    <2>1. <<>> \in Seq(List!Entry)
      OBVIOUS
    <2> QED BY <1>1, <1>2, <2>1 DEF List!TypeOK, List!Step
  <1>4. todo' \in [Conn -> Todo] /\ \A c \in Conn : todo'[c].do = "none" /\ todo'[c].sub = NoSub
    BY DEF Restart, Nothing, Todo
  <1>5. progress' \in [Conn -> Sent .. Cases] /\ stopping' \subseteq Conn
    BY LifecycleAssumption DEF Restart, Sent
  <1>6. status' \in [Sub -> Final \cup IN_PROGRESS_GRADING_STATUS \cup {"absent"}]
    BY DEF Restart, Final, RowTypeOK
  <1>7. UNCHANGED <<rows, score, worker>>
    BY DEF Restart
  <1> QED BY <1>3, <1>4, <1>5, <1>6, <1>7 DEF RowTypeOK, Actors

\* and every step.
LEMMA StepTypeOK ==
    ASSUME TypeOK, Actors, [Next]_vars
    PROVE  TypeOK' /\ Actors'
  <1>1. List!TypeOK /\ RowTypeOK
    BY DEF TypeOK
  <1>2. CASE Restart
    BY <1>1, <1>2, RestartTypeOK DEF TypeOK
  <1>3. CASE ~Restart
    <2>1. List!TypeOK'
      <3>1. Queue!TypeOK /\ [Queue!Next]_(Queue!vars)
        BY <1>1, <1>3, ListStep, SameState DEF listVars, Queue!vars
      <3> QED BY <3>1, Queue!NextTypeOK, SameState
    <2>2. RowTypeOK' /\ Actors'
      <3>1. ASSUME NEW w \in Worker, NEW s \in Sub, NEW p \in Levels \cup {2, 3}, Enter(w, s, p),
                   status' \in [Sub -> Final \cup IN_PROGRESS_GRADING_STATUS \cup {"absent"}]
            PROVE  RowTypeOK' /\ Actors'
        <4>1. p \in List!Priority
          BY LifecycleAssumption DEF List!Priority
        <4>2. /\ worker' = [worker EXCEPT ![w] = [pc |-> "update", sub |-> s, level |-> p]]
              /\ UNCHANGED <<rows, score, todo, progress, stopping>>
          BY <3>1 DEF Enter
        <4> QED BY <1>1, <3>1, <4>1, <4>2, WorkerStarts DEF RowTypeOK, Actors
      <3>2. ASSUME NEW w \in Worker, NEW s \in Sub,
                   \/ \E p \in Levels : Submit(w, s, p)
                   \/ Rejudge(w, s) \/ BatchRejudge(w, s)
            PROVE  RowTypeOK' /\ Actors'
        BY <1>1, <3>1, <3>2
           DEF Submit, Rejudge, BatchRejudge, RowTypeOK, IN_PROGRESS_GRADING_STATUS,
               List!REJUDGE_PRIORITY, BATCH_REJUDGE_PRIORITY
      <3>3. ASSUME NEW w \in Worker, NEW s \in Sub, StartAbort(w, s)
            PROVE  RowTypeOK' /\ Actors'
        <4>1. 0 \in List!Priority
          BY DEF List!Priority
        <4> QED BY <1>1, <3>3, <4>1, WorkerStarts DEF StartAbort, rowVars, RowTypeOK, Actors
      <3>4. ASSUME NEW w \in Worker, WorkerStep(w) \/ Unreachable(w)
            PROVE  RowTypeOK' /\ Actors'
        BY <1>1, <3>4, WorkerStepTypeOK
      <3>5. ASSUME NEW c \in Conn, NEW n, NEW P, Register(c, n, P)
            PROVE  RowTypeOK' /\ Actors'
        BY <1>1, <3>5, RestartedTypeOK DEF Register, rowVars, RowTypeOK, Actors
      <3>6. ASSUME NEW c, NEW n, NEW b, SetDisabled(c, n, b)
            PROVE  RowTypeOK' /\ Actors'
        BY <1>1, <3>6 DEF SetDisabled, rowVars, RowTypeOK, Actors
      <3>7. ASSUME NEW c \in Conn, HandlerStep(c) PROVE RowTypeOK' /\ Actors'
        BY <1>1, <3>7, HandlerStepTypeOK
      <3>8. ASSUME NEW c \in Conn, OnDisconnect(c) PROVE RowTypeOK' /\ Actors'
        <4>1. todo' = [todo EXCEPT ![c] = WorkLost(c)] /\ UNCHANGED <<status, rows, score, worker>>
          BY <3>8 DEF OnDisconnect, rowVars
        <4>2. handler[c].working \in Sub \cup {NoSub}
          BY <1>1 DEF List!TypeOK, List!Handler
        <4>3. /\ WorkLost(c) \in Todo
              /\ WorkLost(c).do = "none" <=> WorkLost(c).sub = NoSub
          BY <4>2 DEF WorkLost, Query, Nothing, Todo
        <4>4. progress' \in [Conn -> Sent .. Cases] /\ stopping' \subseteq Conn
          BY <1>1, <3>8, RestartedTypeOK DEF OnDisconnect
        <4> QED BY <1>1, <4>1, <4>3, <4>4 DEF RowTypeOK, Actors
      <3>9. CASE UNCHANGED vars
        BY <1>1, <3>9 DEF vars, rowVars, RowTypeOK, Actors
      <3> QED BY <1>3, <3>2, <3>3, <3>4, <3>5, <3>6, <3>7, <3>8, <3>9 DEF Next
    <2> QED BY <2>1, <2>2 DEF TypeOK
  <1> QED BY <1>2, <1>3

\* The first state has the right type.
LEMMA InitLifecycleTypeOK == Init => TypeOK /\ Actors
  <1> SUFFICES ASSUME Init PROVE TypeOK /\ Actors
    OBVIOUS
  <1>1. List!TypeOK
    BY SameState, Queue!InitTypeOK DEF Init
  <1>2. RowTypeOK
    BY LifecycleAssumption
       DEF Init, RowTypeOK, Free, WorkerState, Nothing, Todo, Sent, List!Priority
  <1>3. Actors
    BY DEF Init, Actors, Free, Nothing
  <1> QED BY <1>1, <1>2, <1>3 DEF TypeOK

(***************************************************************************)
(* The rows, the workers, the handlers and the list keep their types,      *)
(* whatever the workers and judges do and whenever the bridge dies; a      *)
(* worker or handler that has something to do has a submission to do it    *)
(* for.                                                                    *)
(***************************************************************************)
THEOREM TypeCorrect == Spec => [](TypeOK /\ Actors)
  <1>1. Init => TypeOK /\ Actors
    BY InitLifecycleTypeOK
  <1>2. TypeOK /\ Actors /\ [Next]_vars => TypeOK' /\ Actors'
    BY StepTypeOK
  <1> QED BY <1>1, <1>2, PTL DEF Spec

-----------------------------------------------------------------------------
(***************************************************************************)
(* No submission is forgotten: NeverForgotten and RefusedIsWorkedOn,       *)
(* whatever dispatches fail and whenever the bridge dies, and              *)
(* RefusedOnlyWhileJudged while no dispatch fails.                         *)
(***************************************************************************)

\* A step of the list that forgets none of S and takes none of them from a handler.
Remains(S) ==
    /\ Queue!OneJob'
    /\ \A s \in S : List!Known(s) => List!Known(s)'
    /\ \A s \in S : WorkedOn(s) => WorkedOn(s)'

\* What each operation of the list may forget.
LEMMA ListRemains ==
    ASSUME List!TypeOK, Queue!OneJob
    PROVE  /\ \A s \in Sub, p \in List!Priority :
                List!Judge(s, p, NoName) => List!Known(s)' /\ Remains(Sub)
           /\ \A s \in Sub : List!Abort(s) => Remains(Sub \ {s}) /\ (WorkedOn(s) => WorkedOn(s)')
           /\ \A c \in Conn, n \in Name, P \in Lists : List!Register(c, n, P) => Remains(Sub)
           /\ \A c \in Conn, n \in Name, b \in BOOLEAN :
                List!LoadDisabled(c, b) \/ List!UpdateDisableJudge(n, b) => Remains(Sub)
           /\ \A c \in Conn, s \in Sub : List!OnJudgeFree(c, s) =>
                /\ Remains(Sub \ {s})
                /\ submission_map[s] = NoConn => Remains(Sub)
           /\ \A c \in Conn : List!RemoveJudge(c) => Remains(Sub \ {handler[c].working})
  <1>1. Queue!TypeOK /\ Queue!JudgeListAssumption
    BY SameState
  <1>2. ASSUME NEW S, Queue!OneJob', Queue!Remembers(S), Queue!Keeps(S) PROVE Remains(S)
    BY <1>2, SameState DEF Remains, Queue!Remembers, Queue!Keeps, Queue!WorksOn, WorkedOn
  <1>3. ASSUME NEW s \in Sub, NEW p \in List!Priority, List!Judge(s, p, NoName)
        PROVE  List!Known(s)' /\ Remains(Sub)
    <2>1. Queue!Judge(s, p, NoName) /\ p \in Queue!Priority /\ NoName \in Name \cup {NoName}
      BY <1>3, SameJudge, SameState
    <2>2. Queue!OneJob' /\ Queue!Known(s)' /\ Queue!Remembers(Sub) /\ Queue!Keeps(Sub)
      BY <1>1, <2>1, Queue!JudgeRemembers
    <2> QED BY <1>2, <2>2, SameState
  <1>4. ASSUME NEW s \in Sub, List!Abort(s)
        PROVE  Remains(Sub \ {s}) /\ (WorkedOn(s) => WorkedOn(s)')
    <2>1. Queue!Abort(s)
      BY <1>4, SameAbort
    <2>2. Queue!OneJob' /\ Queue!Remembers(Sub \ {s}) /\ Queue!Keeps(Sub)
      BY <1>1, <2>1, Queue!AbortRemembers
    <2>3. Remains(Sub \ {s})
      BY <1>2, <2>2 DEF Queue!Keeps
    <2> QED BY <1>4, <2>3 DEF List!Abort, WorkedOn
  <1>5. ASSUME NEW c \in Conn, NEW n \in Name, NEW P \in Lists, List!Register(c, n, P)
        PROVE  Remains(Sub)
    <2>1. Queue!Register(c, n, P)
      BY <1>5, SameConnection
    <2> QED BY <1>1, <1>2, <2>1, Queue!RegisterRemembers
  <1>6. ASSUME NEW c \in Conn, NEW n \in Name, NEW b \in BOOLEAN,
               List!LoadDisabled(c, b) \/ List!UpdateDisableJudge(n, b)
        PROVE  Remains(Sub)
    <2>1. Queue!LoadDisabled(c, b) \/ Queue!UpdateDisableJudge(n, b)
      BY <1>6, SameConnection
    <2> QED BY <1>1, <1>2, <2>1, Queue!FlagRemembers
  <1>7. ASSUME NEW c \in Conn, NEW s \in Sub, List!OnJudgeFree(c, s)
        PROVE  Remains(Sub \ {s}) /\ (submission_map[s] = NoConn => Remains(Sub))
    <2>1. Queue!OnJudgeFree(c, s)
      BY <1>7, SameConnection
    <2> QED BY <1>1, <1>2, <2>1, Queue!OnJudgeFreeRemembers
  <1>8. ASSUME NEW c \in Conn, List!RemoveJudge(c)
        PROVE  Remains(Sub \ {handler[c].working})
    <2>1. Queue!RemoveJudge(c)
      BY <1>8, SameConnection
    <2> QED BY <1>1, <1>2, <2>1, Queue!RemoveJudgeRemembers
  <1> QED BY <1>3, <1>4, <1>5, <1>6, <1>7, <1>8

\* The two invariants for one submission.
Asked(t) == \E w \in Worker : worker[w].sub = t /\ ~At(w, "terminate")

Safe(t) ==
    /\ status[t] = "QU" => List!Known(t) \/ OutcomeDue(t) \/ Asked(t)
    /\ Refuses(t) => OutcomeDue(t) \/ WorkedOn(t)

SafeInv == Queue!OneJob /\ \A t \in Sub : Safe(t)

\* A submission stays safe when nothing that holds it lets it go,
LEMMA StaysSafe ==
    ASSUME NEW S \in SUBSET Sub, NEW t \in S, Safe(t), Remains(S), status'[t] = status[t],
           OutcomeDue(t) => OutcomeDue(t)', Asked(t) => Asked(t)'
    PROVE  Safe(t)'
  BY DEF Safe, Refuses, Remains

\* and a finished one is safe.
LEMMA FinalIsSafe == ASSUME NEW t, status'[t] \in Final PROVE Safe(t)'
  BY DEF Safe, Refuses, Final

\* A step that leaves the list alone forgets nothing.
LEMMA QuietRemains == ASSUME Queue!OneJob, UNCHANGED listVars PROVE Remains(Sub)
  BY DEF listVars, Remains, Queue!OneJob, List!Known, WorkedOn

\* Queries and requests for other submissions stay.
LEMMA DueElsewhere ==
    ASSUME NEW c \in Conn, NEW x, RowTypeOK, todo' = [todo EXCEPT ![c] = x], NEW t,
           t # todo[c].sub \/ todo[c].do \in {"none", "clear"}, OutcomeDue(t)
    PROVE  OutcomeDue(t)'
  BY DEF OutcomeDue, RowTypeOK

LEMMA AskedElsewhere ==
    ASSUME NEW w \in Worker, NEW x, RowTypeOK, worker' = [worker EXCEPT ![w] = x], NEW t,
           t # worker[w].sub \/ At(w, "terminate"), Asked(t)
    PROVE  Asked(t)'
  BY DEF Asked, At, RowTypeOK

\* A worker that has entered or goes on with s still asks for it.
LEMMA AskedHere ==
    ASSUME NEW w \in Worker, RowTypeOK, NEW pc \in {"update", "delete", "request", "fail", "aborted"}
    PROVE  /\ \A s : worker[w].sub = s /\ Goto(w, pc) => Asked(s)'
           /\ \A s, p : worker' = [worker EXCEPT ![w] = [pc |-> pc, sub |-> s, level |-> p]]
                          => Asked(s)'
  <1>1. worker \in [Worker -> WorkerState] /\ worker[w] \in WorkerState
    BY DEF RowTypeOK
  <1>2. ASSUME NEW s, worker[w].sub = s, Goto(w, pc) PROVE Asked(s)'
    <2>1. worker'[w] = [worker[w] EXCEPT !.pc = pc]
      BY <1>1, <1>2 DEF Goto
    <2>2. worker'[w].pc = pc /\ worker'[w].sub = worker[w].sub
      BY <1>1, <2>1 DEF WorkerState
    <2> QED BY <1>2, <2>2 DEF Asked, At
  <1>3. ASSUME NEW s, NEW p, worker' = [worker EXCEPT ![w] = [pc |-> pc, sub |-> s, level |-> p]]
        PROVE  Asked(s)'
    BY <1>1, <1>3 DEF Asked, At
  <1> QED BY <1>2, <1>3

\* A worker keeps every submission safe,
LEMMA WorkerStepSafe ==
    ASSUME TypeOK, Actors, SafeInv, NEW w \in Worker, WorkerStep(w) \/ Unreachable(w)
    PROVE  SafeInv'
  <1>0. PICK s : s = worker[w].sub
    OBVIOUS
  <1>1. List!TypeOK /\ RowTypeOK /\ Queue!OneJob /\ \A t \in Sub : Safe(t)
    BY DEF TypeOK, SafeInv
  <1>2. worker[w].pc # "idle" => s \in Sub
    BY <1>0, <1>1, ActorProperties
  <1>3. worker[w].level \in List!Priority
    BY <1>1, ActorProperties
  <1>4. \A t : t # s /\ Asked(t) /\ (Finish(w) \/ \E pc : Goto(w, pc)) => Asked(t)'
    BY <1>0, <1>1, AskedElsewhere DEF Finish, Goto
  <1>5. UNCHANGED todo => \A t : OutcomeDue(t) => OutcomeDue(t)'
    BY DEF OutcomeDue
  <1>6. CASE Update(w)
    <2>1. UNCHANGED listVars /\ UNCHANGED todo /\ (Finish(w) \/ Goto(w, "delete")) /\ s \in Sub
      BY <1>2, <1>6 DEF Update, At
    <2>2. Remains(Sub)
      BY <1>1, <2>1, QuietRemains
    <2>3. \A t \in Sub : t # s => status'[t] = status[t]
      BY <1>0, <1>1, <1>6 DEF Update, rowVars, RowTypeOK
    <2>4. Safe(s)'
      <3>1. CASE Refuses(s) /\ UNCHANGED status
        BY <1>1, <1>5, <2>1, <2>2, <3>1 DEF Safe, Refuses, Remains
      <3>2. CASE status' = [status EXCEPT ![s] = "QU"] /\ Goto(w, "delete")
        <4>1. Asked(s)'
          BY <1>0, <1>1, <3>2, AskedHere
        <4> QED BY <1>1, <2>1, <3>2, <4>1 DEF Safe, Refuses, RowTypeOK
      <3> QED BY <1>0, <1>6, <3>1, <3>2 DEF Update, rowVars
    <2>5. \A t \in Sub : t # s => Safe(t)'
      BY <1>1, <1>4, <1>5, <2>1, <2>2, <2>3, StaysSafe
    <2> QED BY <2>2, <2>4, <2>5 DEF SafeInv, Remains
  <1>7. CASE DeleteTestCases(w)
    <2>1. UNCHANGED listVars /\ UNCHANGED todo /\ UNCHANGED status /\ Goto(w, "request")
      BY <1>7 DEF DeleteTestCases
    <2>2. Remains(Sub)
      BY <1>1, <2>1, QuietRemains
    <2>3. Asked(s)'
      BY <1>0, <1>1, <2>1, AskedHere
    <2> QED BY <1>1, <1>4, <1>5, <2>1, <2>2, <2>3, StaysSafe DEF SafeInv, Remains
  <1>8. CASE Request(w)
    <2>1. Finish(w) /\ UNCHANGED todo /\ UNCHANGED status /\ s \in Sub
      BY <1>2, <1>8 DEF Request, At, rowVars
    <2>2. Remains(Sub) /\ List!Known(s)'
      <3>1. CASE List!Known(s) /\ UNCHANGED listVars
        BY <1>1, <3>1, QuietRemains DEF listVars, List!Known
      <3>2. CASE List!Judge(s, worker[w].level, NoName)
        BY <1>1, <1>3, <2>1, <3>2, ListRemains
      <3> QED BY <1>0, <1>8, <3>1, <3>2 DEF Request
    <2>3. Safe(s)'
      BY <1>1, <1>5, <2>1, <2>2 DEF Safe, Refuses, Remains
    <2>4. \A t \in Sub : t # s => Safe(t)'
      BY <1>1, <1>4, <1>5, <2>1, <2>2, StaysSafe
    <2> QED BY <2>2, <2>3, <2>4 DEF SafeInv, Remains
  <1>9. CASE RequestFailed(w)
    <2>1. UNCHANGED listVars /\ UNCHANGED todo /\ Finish(w) /\ s \in Sub
            /\ status' = [status EXCEPT ![s] = "IE"]
      BY <1>0, <1>2, <1>9 DEF RequestFailed, At
    <2>2. Remains(Sub)
      BY <1>1, <2>1, QuietRemains
    <2>3. Safe(s)' /\ \A t \in Sub : t # s => status'[t] = status[t]
      BY <1>1, <2>1, FinalIsSafe DEF RowTypeOK, Final
    <2> QED BY <1>1, <1>4, <1>5, <2>1, <2>2, <2>3, StaysSafe DEF SafeInv, Remains
  <1>10. CASE Terminate(w)
    <2>1. UNCHANGED todo /\ UNCHANGED status /\ At(w, "terminate") /\ s \in Sub
      BY <1>2, <1>10 DEF Terminate, At, rowVars
    <2>2. \A t : Asked(t) => Asked(t)'
      BY <1>1, <1>10, <2>1, AskedElsewhere DEF Terminate, Finish, Goto
    <2>3. CASE UNCHANGED listVars
      <3>1. Remains(Sub)
        BY <1>1, <2>3, QuietRemains
      <3> QED BY <1>1, <1>5, <2>1, <2>2, <3>1, StaysSafe DEF SafeInv, Remains
    <2>4. CASE List!Abort(s) /\ Goto(w, "aborted")
      <3>1. Remains(Sub \ {s}) /\ (WorkedOn(s) => WorkedOn(s)')
        BY <1>1, <2>1, <2>4, ListRemains
      <3>2. Asked(s)'
        BY <1>0, <1>1, <2>4, AskedHere
      <3>3. Safe(s)'
        BY <1>1, <1>5, <2>1, <3>1, <3>2 DEF Safe, Refuses
      <3>4. \A t \in Sub \ {s} : Safe(t)'
        <4> DEFINE S == Sub \ {s}
        <4>1. S \in SUBSET Sub /\ Remains(S)
          BY <3>1
        <4> HIDE DEF S
        <4>2. \A t \in S : t \in Sub /\ Safe(t)'
          BY <1>1, <1>5, <2>1, <2>2, <4>1, StaysSafe
        <4> QED BY <4>2 DEF S
      <3> QED BY <3>1, <3>3, <3>4 DEF SafeInv, Remains
    <2> QED BY <1>0, <1>10, <2>3, <2>4 DEF Terminate
  <1>11. CASE MarkAborted(w)
    <2>1. UNCHANGED listVars /\ UNCHANGED todo /\ Finish(w) /\ s \in Sub
            /\ status' = [status EXCEPT ![s] = "AB"]
      BY <1>0, <1>2, <1>11 DEF MarkAborted, At
    <2>2. Remains(Sub)
      BY <1>1, <2>1, QuietRemains
    <2>3. Safe(s)' /\ \A t \in Sub : t # s => status'[t] = status[t]
      BY <1>1, <2>1, FinalIsSafe DEF RowTypeOK, Final
    <2> QED BY <1>1, <1>4, <1>5, <2>1, <2>2, <2>3, StaysSafe DEF SafeInv, Remains
  <1>12. CASE Unreachable(w)
    <2>1. UNCHANGED listVars /\ UNCHANGED todo /\ UNCHANGED status
      BY <1>12 DEF Unreachable, rowVars
    <2>2. Remains(Sub)
      BY <1>1, <2>1, QuietRemains
    <2>3. \A t \in Sub : Asked(t) => Asked(t)'
      <3>1. CASE Goto(w, "fail")
        BY <1>0, <1>1, <1>4, <3>1, AskedHere
      <3>2. CASE At(w, "terminate") /\ Finish(w)
        BY <1>1, <3>2, AskedElsewhere DEF Finish
      <3> QED BY <1>12, <3>1, <3>2 DEF Unreachable
    <2> QED BY <1>1, <1>5, <2>1, <2>2, <2>3, StaysSafe DEF SafeInv, Remains
  <1> QED BY <1>6, <1>7, <1>8, <1>9, <1>10, <1>11, <1>12 DEF WorkerStep

\* a handler as well: what it lets go of, it has an outcome to write for,
LEMMA HandlerStepSafe ==
    ASSUME TypeOK, Actors, SafeInv, NEW c \in Conn, HandlerStep(c)
    PROVE  SafeInv'
  <1>1. /\ List!TypeOK /\ RowTypeOK /\ Queue!OneJob /\ \A t \in Sub : Safe(t)
        /\ todo \in [Conn -> Todo]
    BY DEF TypeOK, SafeInv, RowTypeOK
  <1>2. todo[c].do # "none" => todo[c].sub \in Sub
    BY <1>1, ActorProperties
  <1>3. UNCHANGED worker => \A t : Asked(t) => Asked(t)'
    BY DEF Asked, At
  <1>4. ASSUME NEW s \in Sub, Acknowledged(c, s) \/ GradingBegin(c, s) \/ TestCase(c, s)
        PROVE  SafeInv'
    <2>1. /\ UNCHANGED listVars /\ UNCHANGED worker
          /\ WorkedOn(s)
          /\ \A t \in Sub : t # s => status'[t] = status[t]
          /\ status'[s] = status[s] \/ status'[s] \in {"P", "G"}
      <3>1. step[c] = "ready" /\ handler[c].working = s
        BY <1>1, <1>4 DEF Acknowledged, GradingBegin, TestCase, Packet, Queue!OneJob
      <3> QED BY <1>1, <1>4, <3>1
              DEF Acknowledged, GradingBegin, TestCase, WorkedOn, RowTypeOK
    <2>2. Remains(Sub)
      BY <1>1, <2>1, QuietRemains
    <2>3. \A t : OutcomeDue(t) => OutcomeDue(t)'
      <3>1. CASE UNCHANGED todo
        BY <3>1 DEF OutcomeDue
      <3>2. CASE GradingBegin(c, s)
        <4>1. todo[c].do = "none" /\ todo' = [todo EXCEPT ![c] = Query("clear", s)]
          BY <3>2 DEF GradingBegin, Packet, Nothing
        <4> QED BY <1>1, <4>1, DueElsewhere
      <3> QED BY <1>4, <3>1, <3>2 DEF Acknowledged, TestCase
    <2>4. Safe(s)'
      <3>1. CASE status'[s] = status[s]
        BY <1>1, <1>3, <2>1, <2>2, <2>3, <3>1, StaysSafe
      <3>2. CASE status'[s] \in {"P", "G"}
        BY <2>1, <2>2, <3>2 DEF Safe, Refuses, Remains
      <3> QED BY <2>1, <3>1, <3>2
    <2> QED BY <1>1, <1>3, <2>1, <2>2, <2>3, <2>4, StaysSafe DEF SafeInv, Remains
  <1>5. ASSUME NEW s \in Sub, NEW what \in {"read", "CE", "IE", "AB"}, End(c, s, what)
        PROVE  SafeInv'
    <2>1. /\ UNCHANGED <<status, worker>>
          /\ todo[c] = Nothing
          /\ List!OnJudgeFree(c, s)
      BY <1>5 DEF End, Packet, rowVars
    <2>2. CASE submission_map[s] = NoConn
      <3>1. Remains(Sub)
        BY <1>1, <2>1, <2>2, ListRemains
      <3>2. UNCHANGED todo /\ \A t : OutcomeDue(t) => OutcomeDue(t)'
        BY <1>5, <2>2 DEF End, OutcomeDue
      <3> QED BY <1>1, <1>3, <2>1, <3>1, <3>2, StaysSafe DEF SafeInv, Remains
    <2>3. CASE submission_map[s] # NoConn
      <3>1. Remains(Sub \ {s})
        BY <1>1, <2>1, ListRemains
      <3>2. todo' = [todo EXCEPT ![c] = Query(what, s)]
        BY <1>5, <2>3 DEF End
      <3>3. \A t : OutcomeDue(t) => OutcomeDue(t)'
        <4>1. todo[c].do = "none"
          BY <2>1 DEF Nothing
        <4> QED BY <1>1, <3>2, <4>1, DueElsewhere
      <3>4. OutcomeDue(s)'
        BY <1>1, <3>2 DEF OutcomeDue, Query
      <3>5. Safe(s)'
        BY <3>4 DEF Safe
      <3>6. \A t \in Sub \ {s} : Safe(t)'
        <4> DEFINE S == Sub \ {s}
        <4>1. S \in SUBSET Sub /\ Remains(S) /\ \A t \in S : Safe(t)
          BY <1>1, <3>1
        <4> HIDE DEF S
        <4>2. \A t \in S : Safe(t)'
          BY <1>3, <2>1, <3>3, <4>1, StaysSafe
        <4> QED BY <4>2 DEF S
      <3> QED BY <3>1, <3>5, <3>6 DEF SafeInv, Remains
    <2> QED BY <2>2, <2>3
  <1>6. CASE ClearTestCases(c)
    <2>1. /\ UNCHANGED listVars /\ UNCHANGED <<status, worker>>
          /\ todo[c].do = "clear" /\ todo' = [todo EXCEPT ![c] = Nothing]
      BY <1>6 DEF ClearTestCases
    <2>2. Remains(Sub)
      BY <1>1, <2>1, QuietRemains
    <2>3. \A t : OutcomeDue(t) => OutcomeDue(t)'
      BY <1>1, <2>1, DueElsewhere
    <2> QED BY <1>1, <1>3, <2>1, <2>2, <2>3, StaysSafe DEF SafeInv, Remains
  <1>7. CASE ReadTestCases(c)
    <2>1. /\ UNCHANGED listVars /\ UNCHANGED <<status, worker>>
          /\ todo' = [todo EXCEPT ![c] = [todo[c] EXCEPT !.do = "save", !.seen = rows[todo[c].sub]]]
      BY <1>1, <1>7 DEF ReadTestCases, rowVars
    <2>2. Remains(Sub)
      BY <1>1, <2>1, QuietRemains
    <2>3. \A t : OutcomeDue(t) => OutcomeDue(t)'
      <3>1. todo'[c].do = "save" /\ todo'[c].sub = todo[c].sub
        BY <1>1, <2>1 DEF Todo
      <3> QED BY <1>1, <2>1, <3>1 DEF OutcomeDue
    <2> QED BY <1>1, <1>3, <2>1, <2>2, <2>3, StaysSafe DEF SafeInv, Remains
  <1>8. CASE Save(c) \/ WriteOutcome(c)
    <2>1. PICK s : s = todo[c].sub
      OBVIOUS
    <2>2. /\ UNCHANGED listVars /\ UNCHANGED worker
          /\ todo' = [todo EXCEPT ![c] = Nothing]
          /\ s \in Sub
          /\ status'[s] \in Final
          /\ \A t \in Sub : t # s => status'[t] = status[t]
      BY <1>1, <1>2, <1>8, <2>1 DEF Save, WriteOutcome, RowTypeOK, Final
    <2>3. Remains(Sub)
      BY <1>1, <2>2, QuietRemains
    <2>4. \A t \in Sub : t # s /\ OutcomeDue(t) => OutcomeDue(t)'
      BY <1>1, <2>1, <2>2, DueElsewhere
    <2>5. Safe(s)'
      BY <2>2, FinalIsSafe
    <2> QED BY <1>1, <1>3, <2>2, <2>3, <2>4, <2>5, StaysSafe DEF SafeInv, Remains
  <1>9. ASSUME NEW s \in Sub,
               \/ GradingEnd(c, s) \/ CompileError(c, s)
               \/ InternalError(c, s) \/ Terminated(c, s)
        PROVE  SafeInv'
    BY <1>5, <1>9 DEF GradingEnd, CompileError, InternalError, Terminated
  <1> QED BY <1>4, <1>6, <1>7, <1>8, <1>9 DEF HandlerStep

\* and so does every step.
LEMMA StepSafe ==
    ASSUME TypeOK, Actors, SafeInv, [Next]_vars
    PROVE  SafeInv'
  <1>1. List!TypeOK /\ RowTypeOK /\ Queue!OneJob /\ \A t \in Sub : Safe(t)
    BY DEF TypeOK, SafeInv
  <1>2. UNCHANGED worker => \A t : Asked(t) => Asked(t)'
    BY DEF Asked, At
  <1>3. UNCHANGED todo => \A t : OutcomeDue(t) => OutcomeDue(t)'
    BY DEF OutcomeDue
  <1>4. ASSUME NEW w \in Worker, NEW s \in Sub,
               \/ \E p \in Levels : Submit(w, s, p)
               \/ Rejudge(w, s) \/ BatchRejudge(w, s) \/ StartAbort(w, s)
        PROVE  SafeInv'
    <2>1. At(w, "idle") /\ UNCHANGED listVars /\ UNCHANGED todo
      BY <1>4 DEF Submit, Rejudge, BatchRejudge, StartAbort, Enter
    <2>2. Remains(Sub)
      BY <1>1, <2>1, QuietRemains
    <2>3. \A t \in Sub : Asked(t) => Asked(t)'
      <3>1. worker[w].sub = NoSub /\ NoSub \notin Sub
        BY <2>1, ListAssumption DEF Actors, At, List!JudgeListAssumption
      <3> QED BY <1>1, <1>4, <3>1, AskedElsewhere
              DEF Submit, Rejudge, BatchRejudge, StartAbort, Enter
    <2>4. CASE UNCHANGED status
      BY <1>1, <1>3, <2>1, <2>2, <2>3, <2>4, StaysSafe DEF SafeInv, Remains
    <2>5. ASSUME NEW p \in Levels, Submit(w, s, p) PROVE SafeInv'
      <3>1. Asked(s)'
        BY <1>1, <2>5, AskedHere DEF Submit, Enter
      <3>2. status' = [status EXCEPT ![s] = "QU"]
        BY <2>5 DEF Submit
      <3>3. Safe(s)'
        BY <1>1, <3>1, <3>2 DEF Safe, Refuses, RowTypeOK
      <3>4. \A t \in Sub : t # s => status'[t] = status[t]
        BY <1>1, <3>2 DEF RowTypeOK
      <3> QED BY <1>1, <1>3, <2>1, <2>2, <2>3, <3>3, <3>4, StaysSafe DEF SafeInv, Remains
    <2> QED BY <1>4, <2>4, <2>5 DEF Rejudge, BatchRejudge, StartAbort, rowVars
  <1>5. ASSUME NEW w \in Worker, WorkerStep(w) \/ Unreachable(w) PROVE SafeInv'
    BY <1>5, WorkerStepSafe
  <1>6. ASSUME NEW c \in Conn, NEW n \in Name,
               \/ \E P \in Lists : Register(c, n, P)
               \/ \E b \in Flags : SetDisabled(c, n, b)
        PROVE  SafeInv'
    <2>1. Remains(Sub)
      BY <1>1, <1>6, ListRemains, LifecycleAssumption DEF Register, SetDisabled
    <2>2. UNCHANGED status /\ UNCHANGED worker /\ UNCHANGED todo
      BY <1>6 DEF Register, SetDisabled, rowVars
    <2> QED BY <1>1, <1>2, <1>3, <2>1, <2>2, StaysSafe DEF SafeInv, Remains
  <1>7. ASSUME NEW c \in Conn, HandlerStep(c) PROVE SafeInv'
    BY <1>7, HandlerStepSafe
  <1>8. ASSUME NEW c \in Conn, OnDisconnect(c) PROVE SafeInv'
    <2>1. PICK s : s = handler[c].working
      OBVIOUS
    <2>2. /\ UNCHANGED <<status, worker>>
          /\ todo[c] = Nothing
          /\ todo' = [todo EXCEPT ![c] = WorkLost(c)]
      BY <1>8 DEF OnDisconnect, rowVars
    <2>3. Remains(Sub \ {s})
      BY <1>1, <1>8, <2>1, ListRemains DEF OnDisconnect
    <2>4. \A t : OutcomeDue(t) => OutcomeDue(t)'
      <3>1. todo[c].do = "none"
        BY <2>2 DEF Nothing
      <3> QED BY <1>1, <2>2, <3>1, DueElsewhere
    <2>5. ASSUME s \in Sub PROVE Safe(s)'
      <3>1. WorkLost(c) = Query("IE", s)
        BY <2>1, <2>5, ListAssumption DEF WorkLost, List!JudgeListAssumption
      <3>2. OutcomeDue(s)'
        BY <1>1, <2>2, <3>1 DEF OutcomeDue, Query, RowTypeOK
      <3> QED BY <3>2 DEF Safe
    <2>6. \A t \in Sub \ {s} : Safe(t)'
      <3> DEFINE S == Sub \ {s}
      <3>1. S \in SUBSET Sub /\ Remains(S) /\ \A t \in S : Safe(t)
        BY <1>1, <2>3
      <3> HIDE DEF S
      <3>2. \A t \in S : Safe(t)'
        BY <1>2, <2>2, <2>4, <3>1, StaysSafe
      <3> QED BY <3>2 DEF S
    <2> QED BY <2>3, <2>5, <2>6 DEF SafeInv, Remains
  <1>9. CASE Restart
    <2>1. \A t \in Sub : Safe(t)'
      BY <1>1, <1>9 DEF Restart, Safe, Refuses, RowTypeOK, WrittenOff,
                        IN_PROGRESS_GRADING_STATUS, Final
    <2>2. Queue!OneJob'
      BY <1>9 DEF Restart, Queue!OneJob, List!NewHandler
    <2> QED BY <2>1, <2>2 DEF SafeInv
  <1>10. CASE UNCHANGED vars
    <2>1. UNCHANGED listVars /\ UNCHANGED <<status, worker, todo>>
      BY <1>10 DEF vars, rowVars
    <2> QED BY <1>1, <1>2, <1>3, <2>1, QuietRemains, StaysSafe DEF SafeInv, Remains
  <1> QED
    BY <1>4, <1>5, <1>6, <1>7, <1>8, <1>9, <1>10 DEF Next

\* No submission is in progress, and no handler holds anything, at the start.
LEMMA InitSafe == Init => SafeInv
  BY DEF Init, List!Init, List!NewHandler, SafeInv, Safe, Refuses, Queue!OneJob

\* Every submission is safe in every reachable state.
THEOREM AllSafe == Spec => []SafeInv
  <1>1. TypeOK /\ Actors /\ SafeInv /\ [Next]_vars => SafeInv'
    BY StepSafe
  <1> QED BY <1>1, InitSafe, TypeCorrect, PTL DEF Spec

(***************************************************************************)
(* A submission that shows as queued is in the list, or an outcome or a    *)
(* request for it is on its way: with any number of workers, judges and    *)
(* submissions, through failed dispatches, aborts, disconnections, an      *)
(* unreachable bridge and its restarts.                                    *)
(***************************************************************************)
THEOREM NeverForgottenHolds == Spec => []NeverForgotten
  <1>1. SafeInv => NeverForgotten
    BY DEF SafeInv, Safe, NeverForgotten, Asked
  <1> QED BY <1>1, AllSafe, PTL

(***************************************************************************)
(* judge_submission refuses a submission only while its outcome is about   *)
(* to be written or the handler of a connected judge works on it, under    *)
(* the same faults: the judge itself may have lost it, and then the row is *)
(* written when that judge disconnects.                                    *)
(***************************************************************************)
THEOREM RefusedIsWorkedOnHolds == Spec => []RefusedIsWorkedOn
  <1>1. SafeInv => RefusedIsWorkedOn
    BY DEF SafeInv, Safe, RefusedIsWorkedOn
  <1> QED BY <1>1, AllSafe, PTL

ListAgrees == Queue!FaultFreeInv /\ Queue!QueueForm(queue, node_map)

\* While no dispatch fails the list agrees with the handlers, whenever the
\* bridge dies.
LEMMA StepAgrees ==
    ASSUME Queue!FaultFree, TypeOK, Actors, ListAgrees, [Next]_vars
    PROVE  ListAgrees'
  <1>1. Queue!TypeOK /\ Queue!JudgeListAssumption
    BY SameState DEF TypeOK
  <1>2. CASE Restart
    <2>1. /\ judges' = {} /\ queue' = [p \in Queue!Priority |-> <<>>] /\ node_map' = {}
          /\ handler' = [c \in Conn |-> Queue!NewHandler(NoName, {})]
          /\ step' = [c \in Conn |-> "gone"] /\ closed' = {}
          /\ submission_map' = [s \in Sub |-> NoConn]
      BY <1>2, SameState DEF Restart
    <2>2. Queue!FaultFreeInv'
      BY <1>1, <2>1
         DEF Queue!FaultFreeInv, Queue!Agree, Queue!NewHandler, Queue!JudgeListAssumption
    <2>3. Queue!QueueForm(queue, node_map)'
      BY <2>1 DEF Queue!QueueForm
    <2> QED BY <2>2, <2>3 DEF ListAgrees
  <1>3. CASE ~Restart
    <2>1. [Queue!Next]_(Queue!vars)
      BY <1>3, ListStep DEF TypeOK, listVars, Queue!vars
    <2> QED BY <1>1, <2>1, Queue!NextFaultFree, Queue!NextQueueForm DEF ListAgrees
  <1> QED BY <1>2, <1>3

ListInv == ListAgrees /\ Queue!Placed

LEMMA ListInvKept == ASSUME Queue!FaultFree PROVE Spec => []ListInv
  <1>1. Init => ListAgrees
    <2> SUFFICES ASSUME Init PROVE ListAgrees
      OBVIOUS
    <2>1. Queue!Init /\ Queue!JudgeListAssumption
      BY SameState DEF Init
    <2> QED BY <2>1 DEF Queue!Init, Queue!FaultFreeInv, Queue!Agree, Queue!NewHandler,
                       Queue!JudgeListAssumption, Queue!QueueForm, ListAgrees
  <1>2. TypeOK /\ Actors /\ ListAgrees /\ [Next]_vars => ListAgrees'
    BY StepAgrees
  <1>3. TypeOK /\ ListAgrees => ListInv
    BY SameState, Queue!AgreementPlaces DEF TypeOK, ListAgrees, ListInv
  <1> QED BY <1>1, <1>2, <1>3, TypeCorrect, PTL DEF Spec

(***************************************************************************)
(* While no dispatch fails, judge_submission refuses a submission only     *)
(* while a judge has it or its outcome is about to be written: through     *)
(* aborts, disconnections, an unreachable bridge and its restarts.         *)
(***************************************************************************)
THEOREM RefusedOnlyWhileJudgedHolds ==
    ASSUME Queue!FaultFree PROVE Spec => []RefusedOnlyWhileJudged
  <1>1. SafeInv /\ ListInv => RefusedOnlyWhileJudged
    <2> SUFFICES ASSUME SafeInv, ListInv, NEW s \in Sub, Refuses(s), ~OutcomeDue(s)
                 PROVE  \E c \in Conn : s \in handler[c].job
      BY DEF RefusedOnlyWhileJudged
    <2>1. PICK c \in Conn : step[c] # "gone" /\ handler[c].working = s
      BY DEF SafeInv, Safe, WorkedOn
    <2>2. s # NoSub
      BY ListAssumption DEF List!JudgeListAssumption
    <2>3. handler[c].job = {s}
      BY <2>1, <2>2 DEF ListInv, ListAgrees, Queue!FaultFreeInv, Queue!Agree
    <2> QED BY <2>3
  <1> QED BY <1>1, AllSafe, ListInvKept, PTL

-----------------------------------------------------------------------------
(***************************************************************************)
(* What is true while a submission is asked for by one worker at a time.   *)
(***************************************************************************)

(***************************************************************************)
(* No dispatch fails, the bridge stays up, nobody aborts, no submission in *)
(* progress is rejudged, and if finished ones are rejudged then by one     *)
(* worker: two could have read the row before either changes it.           *)
(***************************************************************************)
Calm ==
    /\ Faults = {} /\ ~LiveUpdates
    /\ ~Outages /\ ~Aborting
    /\ List!REJUDGE_PRIORITY \notin Levels
    /\ BATCH_REJUDGE_PRIORITY \in Levels => \A v, w \in Worker : v = w

(***************************************************************************)
(* While the bridge stays up, the list that workers and handler threads    *)
(* use behaves as JudgeList, so what is proved of it holds here too.       *)
(***************************************************************************)
THEOREM ListIsJudgeList == ASSUME ~Outages PROVE Spec => Queue!Spec
  <1>1. Init => Queue!Init
    BY SameState DEF Init
  <1>2. TypeOK /\ Actors /\ [Next]_vars => [Queue!Next]_(Queue!vars)
    <2>1. ~Restart
      BY DEF Restart
    <2> QED BY <2>1, ListStep DEF TypeOK, listVars, Queue!vars
  <1> QED BY <1>1, <1>2, TypeCorrect, PTL DEF Spec, Queue!Spec

(***************************************************************************)
(* The stages of a submission.  In each of them one actor alone may change *)
(* its row: the worker that asks for it, the judge that has it, the thread *)
(* that has its outcome to write.                                          *)
(***************************************************************************)
Unasked(t) == \A w \in Worker : worker[w].sub # t

DueFor(c, t) == todo[c].sub = t /\ todo[c].do \in {"read", "save", "CE", "IE", "AB"}

Complete(t) == score[t] = 1 .. Cases /\ rows[t] = 1 .. Cases

\* The status while a judge has come that far.
Shown(p) == IF p = Sent THEN "QU" ELSE IF p = Acked THEN "P" ELSE "G"

Resting(t) ==
    /\ Unasked(t) /\ ~List!Known(t) /\ ~OutcomeDue(t)
    /\ status[t] \in Final \cup {"absent"}
    /\ status[t] = "D" => Complete(t)

Asking(t, w) ==
    /\ worker[w].sub = t /\ \A v \in Worker : worker[v].sub = t => v = w
    /\ ~List!Known(t) /\ ~OutcomeDue(t)
    /\ \/ status[t] = "QU"
       \/ At(w, "update") /\ status[t] \in Final /\ (status[t] = "D" => Complete(t))

Waiting(t) ==
    /\ Unasked(t) /\ ~OutcomeDue(t)
    /\ t \in node_map
    /\ status[t] = "QU"

Judging(t, c) ==
    /\ Unasked(t) /\ ~OutcomeDue(t)
    /\ t \in handler[c].job
    /\ status[t] = Shown(progress[c])
    /\ progress[c] >= 0 => todo[c] = Query("clear", t) \/ rows[t] = 1 .. progress[c]

Ending(t, c) ==
    /\ Unasked(t) /\ ~List!Known(t)
    /\ DueFor(c, t) /\ \A d \in Conn : DueFor(d, t) => d = c
    /\ status[t] \in IN_PROGRESS_GRADING_STATUS
    /\ todo[c].do \in {"read", "save"} => rows[t] = 1 .. Cases
    /\ todo[c].do = "save" => todo[c].seen = 1 .. Cases

Orderly(t) ==
    \/ Resting(t)
    \/ \E w \in Worker : Asking(t, w)
    \/ Waiting(t)
    \/ \E c \in Conn : Judging(t, c)
    \/ \E c \in Conn : Ending(t, c)

OrderlyInv ==
    /\ stopping = {}
    /\ \A w \in Worker : worker[w].pc \in {"idle", "update", "delete", "request"}
    /\ \A c \in Conn : todo[c].do = "clear" => todo[c].sub \in handler[c].job /\ progress[c] = 0
    /\ \A t \in Sub : Orderly(t)

\* What the other theorems say of a state.
Sound == TypeOK /\ Actors /\ ListInv

\* The list knows what waits or is with a judge, which has nothing else.
LEMMA WhereKnown ==
    ASSUME ListInv
    PROVE  /\ \A t \in Sub : List!Known(t) <=> t \in node_map \/ \E c \in Conn : t \in handler[c].job
           /\ \A c \in Conn, t \in Sub : t \in handler[c].job => handler[c].job = {t} /\ t \notin node_map
           /\ \A c, d \in Conn, t \in Sub : t \in handler[c].job /\ t \in handler[d].job => c = d
  BY SameState DEF ListInv, Queue!Placed

LEMMA WhereKnownThen ==
    ASSUME ListInv'
    PROVE  \A t \in Sub : List!Known(t)' <=> t \in node_map' \/ \E c \in Conn : t \in handler'[c].job
  BY SameState DEF ListInv, Queue!Placed

\* The stage of what a worker asks for, a judge has, or a thread is to write.
LEMMA StageOf ==
    ASSUME ListInv, NEW t \in Sub, Orderly(t)
    PROVE  /\ \A w \in Worker : worker[w].sub = t => Asking(t, w)
           /\ \A c \in Conn : t \in handler[c].job => Judging(t, c)
           /\ \A c \in Conn : DueFor(c, t) => Ending(t, c)
           /\ status[t] = "absent" => Resting(t)
           /\ status[t] \in Final => Resting(t) \/ \E w \in Worker : Asking(t, w) /\ At(w, "update")
  <1>1. OutcomeDue(t) <=> \E c \in Conn : DueFor(c, t)
    BY DEF OutcomeDue, DueFor
  <1>2. \A p : Shown(p) \in {"QU", "P", "G"}
    BY DEF Shown
  <1>3. Final \cap IN_PROGRESS_GRADING_STATUS = {} /\ "absent" \notin Final \cup IN_PROGRESS_GRADING_STATUS
    BY DEF Final, IN_PROGRESS_GRADING_STATUS
  <1>4. \A p : Shown(p) \in IN_PROGRESS_GRADING_STATUS /\ "QU" \in IN_PROGRESS_GRADING_STATUS
    BY <1>2 DEF IN_PROGRESS_GRADING_STATUS
  <1>5. CASE Resting(t)
    BY <1>1, <1>5, WhereKnown DEF Resting, Unasked
  <1>6. ASSUME NEW w \in Worker, Asking(t, w)
        PROVE  /\ \A v \in Worker : worker[v].sub = t => Asking(t, v)
               /\ \A c \in Conn : t \notin handler[c].job /\ ~DueFor(c, t)
               /\ status[t] # "absent"
               /\ status[t] \in Final => At(w, "update")
    BY <1>1, <1>3, <1>4, <1>6, WhereKnown DEF Asking
  <1>7. CASE Waiting(t)
    BY <1>1, <1>3, <1>4, <1>7, WhereKnown DEF Waiting, Unasked
  <1>8. ASSUME NEW c \in Conn, Judging(t, c)
        PROVE  /\ Unasked(t) /\ \A d \in Conn : ~DueFor(d, t)
               /\ \A d \in Conn : t \in handler[d].job => Judging(t, d)
               /\ status[t] \notin Final \cup {"absent"}
    BY <1>1, <1>3, <1>4, <1>8, WhereKnown DEF Judging
  <1>9. ASSUME NEW c \in Conn, Ending(t, c)
        PROVE  /\ Unasked(t) /\ \A d \in Conn : DueFor(d, t) => Ending(t, d)
               /\ \A d \in Conn : t \notin handler[d].job
               /\ status[t] \notin Final \cup {"absent"}
    BY <1>1, <1>3, <1>9, WhereKnown DEF Ending
  <1> QED BY <1>5, <1>6, <1>7, <1>8, <1>9 DEF Orderly, Unasked

\* A step that leaves t where it is, but may give it to a judge if it waits,
Stays(t) ==
    /\ t \in node_map => t \in node_map' \/ \E c \in Conn : t \in handler'[c].job
    /\ t \in node_map' => t \in node_map
    /\ \A c \in Conn : t \in handler[c].job => t \in handler'[c].job
    /\ \A c \in Conn : t \in handler'[c].job =>
         \/ t \in node_map /\ progress'[c] = Sent
         \/ t \in handler[c].job /\ progress'[c] = progress[c]

\* and in which nobody does anything for t.
Untouched(t) ==
    /\ status'[t] = status[t] /\ rows'[t] = rows[t] /\ score'[t] = score[t]
    /\ \A w \in Worker : worker'[w].sub = t <=> worker[w].sub = t
    /\ \A w \in Worker : worker[w].sub = t => worker'[w] = worker[w]
    /\ \A c \in Conn : DueFor(c, t) <=> DueFor(c, t)'
    /\ \A c \in Conn : DueFor(c, t) => todo'[c] = todo[c]
    /\ \A c \in Conn : todo[c] = Query("clear", t) => todo'[c] = todo[c]
    /\ Stays(t)

LEMMA StaysOrderly ==
    ASSUME ListInv, ListInv', NEW t \in Sub, Orderly(t), Untouched(t)
    PROVE  Orderly(t)'
  <1>1. /\ OutcomeDue(t) <=> \E c \in Conn : DueFor(c, t)
        /\ OutcomeDue(t)' <=> \E c \in Conn : DueFor(c, t)'
    BY DEF OutcomeDue, DueFor
  <1>2. OutcomeDue(t)' <=> OutcomeDue(t)
    BY <1>1 DEF Untouched
  <1>3. List!Known(t)' => List!Known(t)
    BY WhereKnown, WhereKnownThen DEF Untouched, Stays
  <1>4. Unasked(t) => Unasked(t)'
    BY DEF Unasked, Untouched
  <1>5. Complete(t) => Complete(t)'
    BY DEF Complete, Untouched
  <1>6. CASE Resting(t)
    <2>1. Resting(t)'
      BY <1>2, <1>3, <1>4, <1>5, <1>6 DEF Resting, Untouched
    <2> QED BY <2>1 DEF Orderly
  <1>7. ASSUME NEW w \in Worker, Asking(t, w) PROVE Orderly(t)'
    <2>1. Asking(t, w)'
      BY <1>2, <1>3, <1>5, <1>7 DEF Asking, At, Untouched
    <2> QED BY <2>1 DEF Orderly
  <1>8. CASE Waiting(t)
    <2>1. CASE t \in node_map'
      <3>1. Waiting(t)'
        BY <1>2, <1>4, <1>8, <2>1 DEF Waiting, Untouched
      <3> QED BY <3>1 DEF Orderly
    <2>2. ASSUME NEW c \in Conn, t \in handler'[c].job PROVE Orderly(t)'
      <3>1. progress'[c] = Sent
        BY <1>8, <2>2, WhereKnown DEF Waiting, Untouched, Stays
      <3>2. Judging(t, c)'
        BY <1>2, <1>4, <1>8, <2>2, <3>1 DEF Waiting, Judging, Shown, Sent, Untouched
      <3> QED BY <3>2 DEF Orderly
    <2> QED BY <1>8, <2>1, <2>2 DEF Waiting, Untouched, Stays
  <1>9. ASSUME NEW c \in Conn, Judging(t, c) PROVE Orderly(t)'
    <2>1. /\ t \in handler'[c].job /\ progress'[c] = progress[c]
          /\ todo[c] = Query("clear", t) => todo'[c] = todo[c]
      BY <1>9, WhereKnown DEF Judging, Untouched, Stays
    <2>2. Judging(t, c)'
      BY <1>2, <1>4, <1>9, <2>1 DEF Judging, Query, Untouched
    <2> QED BY <2>2 DEF Orderly
  <1>10. ASSUME NEW c \in Conn, Ending(t, c) PROVE Orderly(t)'
    <2>1. todo'[c] = todo[c] /\ DueFor(c, t)'
      BY <1>10 DEF Ending, Untouched
    <2>2. Ending(t, c)'
      BY <1>3, <1>4, <1>10, <2>1 DEF Ending, Untouched
    <2> QED BY <2>2 DEF Orderly
  <1> QED BY <1>6, <1>7, <1>8, <1>9, <1>10 DEF Orderly

\* The judges that are given something begin again.
Follows ==
    \A c \in Conn :
        progress'[c] = IF handler'[c].job = handler[c].job THEN progress[c] ELSE Sent

LEMMA RestartedFollows == ASSUME Restarted, stopping = {} PROVE Follows /\ stopping' = {}
  BY DEF Restarted, Renewed, Follows

\* A list that moves what it was asked for and what is given up leaves the rest.
LEMMA RestStays ==
    ASSUME ListInv, ListInv', NEW R, NEW F, Queue!Moved(R, F), Remains(Sub \ F), Follows,
           NEW t \in Sub, t \notin R, t \notin F
    PROVE  Stays(t)
  <1>1. /\ t \in node_map' => t \in node_map
        /\ \A c \in Conn : t \in handler'[c].job => handler'[c].job = handler[c].job \/ t \in node_map
        /\ \A c \in Conn : t \in handler[c].job => handler'[c].job = handler[c].job
    BY DEF Queue!Moved
  <1>2. t \in node_map => t \in node_map' \/ \E c \in Conn : t \in handler'[c].job
    BY WhereKnown, WhereKnownThen DEF Remains
  <1>3. ASSUME NEW c \in Conn, t \in handler'[c].job
        PROVE  \/ t \in node_map /\ progress'[c] = Sent
               \/ t \in handler[c].job /\ progress'[c] = progress[c]
    BY <1>1, <1>3 DEF Follows
  <1> QED BY <1>1, <1>2, <1>3 DEF Stays

\* Rows that are to be cleared are those of what the judge still has.
LEMMA ClearStays ==
    ASSUME ListInv, NEW R, NEW F, Queue!Moved(R, F), Follows, NEW c \in Conn,
           todo'[c] = todo[c], todo[c].sub \in Sub \ F,
           todo[c].sub \in handler[c].job /\ progress[c] = 0
    PROVE  todo'[c].sub \in handler'[c].job /\ progress'[c] = 0
  BY DEF Queue!Moved, Follows

\* A step that leaves the list and the judges' progress alone.
LEMMA QuietStays ==
    ASSUME UNCHANGED <<listVars, progress>>, NEW t PROVE Stays(t)
  BY DEF listVars, Stays

\* Where another worker, or another thread, acts for another submission.
LEMMA OtherUntouched ==
    ASSUME NEW t \in Sub, Stays(t), RowTypeOK, Actors,
           status'[t] = status[t], rows'[t] = rows[t], score'[t] = score[t],
           \/ UNCHANGED worker
           \/ \E x : \E w \in Worker : /\ worker' = [worker EXCEPT ![w] = x]
                                      /\ worker[w].sub # t /\ x.sub # t,
           \/ UNCHANGED todo
           \/ \E x : \E c \in Conn : /\ todo' = [todo EXCEPT ![c] = x]
                                    /\ todo[c].sub # t /\ x.sub # t
    PROVE  Untouched(t)
  <1>1. worker \in [Worker -> WorkerState] /\ todo \in [Conn -> Todo]
    BY DEF RowTypeOK
  <1>2. /\ \A w \in Worker : worker'[w].sub = t <=> worker[w].sub = t
        /\ \A w \in Worker : worker[w].sub = t => worker'[w] = worker[w]
    BY <1>1
  <1>3. /\ \A c \in Conn : todo'[c].sub = t <=> todo[c].sub = t
        /\ \A c \in Conn : todo[c].sub = t => todo'[c] = todo[c]
    BY <1>1
  <1>4. /\ \A c \in Conn : DueFor(c, t) <=> DueFor(c, t)'
        /\ \A c \in Conn : DueFor(c, t) => todo'[c] = todo[c]
        /\ \A c \in Conn : todo[c] = Query("clear", t) => todo'[c] = todo[c]
    BY <1>3 DEF DueFor, Query
  <1> QED BY <1>2, <1>4 DEF Untouched

\* The steps of a worker: it enters,
LEMMA EnterOrderly ==
    ASSUME Calm, Sound, ListInv', OrderlyInv, NEW w \in Worker, NEW s \in Sub,
           (\E p \in Levels : Submit(w, s, p)) \/ BatchRejudge(w, s)
    PROVE  OrderlyInv'
  <1>1. RowTypeOK /\ Actors /\ ListInv /\ \A t \in Sub : Orderly(t)
    BY DEF Sound, TypeOK, OrderlyInv
  <1>2. PICK p : worker' = [worker EXCEPT ![w] = [pc |-> "update", sub |-> s, level |-> p]]
    BY DEF Submit, BatchRejudge, Enter
  <1>3. At(w, "idle") /\ UNCHANGED <<listVars, rows, score, todo, progress, stopping>>
    BY DEF Submit, BatchRejudge, Enter
  <1>4. /\ worker'[w].sub = s /\ worker'[w].pc = "update"
        /\ \A v \in Worker : v # w => worker'[v] = worker[v]
    BY <1>1, <1>2 DEF RowTypeOK
  <1>5. \A t \in Sub : Stays(t)
    BY <1>3, QuietStays
  <1>6. worker[w].sub = NoSub /\ NoSub \notin Sub
    BY <1>1, <1>3, ListAssumption DEF Actors, At, List!JudgeListAssumption
  <1>7. \A t \in Sub : t # s => status'[t] = status[t]
    BY <1>1 DEF Submit, BatchRejudge, RowTypeOK
  <1>8. ASSUME NEW t \in Sub, t # s PROVE Orderly(t)'
    <2> DEFINE x == [pc |-> "update", sub |-> s, level |-> p]
    <2>1. worker' = [worker EXCEPT ![w] = x] /\ worker[w].sub # t /\ x.sub # t
      BY <1>2, <1>6, <1>8
    <2>2. status'[t] = status[t] /\ rows'[t] = rows[t] /\ score'[t] = score[t] /\ Stays(t)
      BY <1>3, <1>5, <1>7, <1>8
    <2> HIDE DEF x
    <2>3. Untouched(t)
      BY <1>1, <1>3, <2>1, <2>2, OtherUntouched
    <2> QED BY <1>1, <2>3, StaysOrderly
  <1>9. /\ Resting(s)
        /\ status'[s] = "QU" \/ (status'[s] = status[s] /\ status[s] \in Final)
    <2>1. CASE \E q \in Levels : Submit(w, s, q)
      BY <1>1, <2>1, StageOf DEF Submit, RowTypeOK
    <2>2. CASE BatchRejudge(w, s)
      <3>1. \A v \in Worker : v = w
        BY <2>2 DEF BatchRejudge, Enter, Calm
      <3>2. status[s] \in Final
        BY <2>2 DEF BatchRejudge
      <3>3. \A v \in Worker : worker[v].sub # s
        BY <1>6, <3>1
      <3>4. Resting(s)
        BY <1>1, <3>2, <3>3, StageOf DEF Asking
      <3> QED BY <2>2, <3>2, <3>4 DEF BatchRejudge
    <2> QED BY <2>1, <2>2
  <1>10. Asking(s, w)'
    <2>1. ~List!Known(s)' /\ ~OutcomeDue(s)'
      BY <1>3, <1>9 DEF Resting, listVars, List!Known, OutcomeDue
    <2>2. status[s] = "D" => Complete(s)'
      BY <1>3, <1>9 DEF Resting, Complete
    <2>3. \A v \in Worker : worker'[v].sub = s => v = w
      BY <1>4, <1>9 DEF Resting, Unasked
    <2> QED BY <1>4, <1>9, <2>1, <2>2, <2>3 DEF Asking, At
  <1> QED BY <1>3, <1>4, <1>8, <1>10 DEF OrderlyInv, Orderly, listVars

\* updates the row and deletes the test cases,
LEMMA AskOrderly ==
    ASSUME Calm, Sound, ListInv', OrderlyInv, NEW w \in Worker, Update(w) \/ DeleteTestCases(w)
    PROVE  OrderlyInv'
  <1>0. PICK s : s = worker[w].sub
    OBVIOUS
  <1>1. RowTypeOK /\ Actors /\ ListInv /\ \A t \in Sub : Orderly(t)
    BY DEF Sound, TypeOK, OrderlyInv
  <1>2. s \in Sub
    BY <1>0, <1>1, ActorProperties DEF Update, DeleteTestCases, At
  <1>3. Asking(s, w)
    BY <1>0, <1>1, <1>2, StageOf
  <1>4. ~Refuses(s) /\ (DeleteTestCases(w) => status[s] = "QU")
    BY <1>3 DEF Asking, DeleteTestCases, At, Refuses, Final
  <1>5. PICK pc \in {"delete", "request"} : worker' = [worker EXCEPT ![w].pc = pc]
    BY <1>0, <1>4 DEF Update, DeleteTestCases, Goto
  <1>6. UNCHANGED <<listVars, todo, progress, stopping>>
    BY DEF Update, DeleteTestCases
  <1>7. worker' = [worker EXCEPT ![w] = [worker[w] EXCEPT !.pc = pc]]
    BY <1>1, <1>5 DEF RowTypeOK
  <1>8. /\ worker[w] \in WorkerState /\ worker \in [Worker -> WorkerState]
        /\ [worker[w] EXCEPT !.pc = pc].sub = s /\ [worker[w] EXCEPT !.pc = pc].pc = pc
    BY <1>0, <1>1 DEF RowTypeOK, WorkerState
  <1>9. /\ worker'[w].sub = s /\ worker'[w].pc = pc
        /\ \A v \in Worker : v # w => worker'[v] = worker[v]
    BY <1>7, <1>8
  <1>10. /\ status'[s] = "QU"
         /\ \A t \in Sub : t # s =>
              status'[t] = status[t] /\ rows'[t] = rows[t] /\ score'[t] = score[t]
    BY <1>0, <1>1, <1>2, <1>4 DEF Update, DeleteTestCases, RowTypeOK
  <1>11. ASSUME NEW t \in Sub, t # s PROVE Orderly(t)'
    <2>1. Stays(t)
      BY <1>6, QuietStays
    <2>2. Untouched(t)
      BY <1>0, <1>1, <1>6, <1>7, <1>8, <1>10, <1>11, <2>1, OtherUntouched
    <2> QED BY <1>1, <2>2, StaysOrderly
  <1>12. Asking(s, w)'
    <2>1. ~List!Known(s)' /\ ~OutcomeDue(s)'
      BY <1>3, <1>6 DEF Asking, listVars, List!Known, OutcomeDue
    <2>2. \A v \in Worker : worker'[v].sub = s => v = w
      BY <1>3, <1>9 DEF Asking
    <2> QED BY <1>9, <1>10, <2>1, <2>2 DEF Asking
  <1> QED BY <1>6, <1>9, <1>11, <1>12 DEF OrderlyInv, Orderly, listVars

\* and requests.
LEMMA RequestOrderly ==
    ASSUME Calm, Sound, Queue!OneJob, ListInv', OrderlyInv, NEW w \in Worker, Request(w)
    PROVE  OrderlyInv'
  <1>0. PICK s : s = worker[w].sub
    OBVIOUS
  <1>1. /\ RowTypeOK /\ Actors /\ ListInv /\ List!TypeOK
        /\ stopping = {} /\ \A t \in Sub : Orderly(t)
    BY DEF Sound, TypeOK, OrderlyInv
  <1>2. s \in Sub /\ worker[w].level \in List!Priority
    BY <1>0, <1>1, ActorProperties DEF Request, At
  <1>3. Asking(s, w) /\ status[s] = "QU" /\ ~List!Known(s)
    BY <1>0, <1>1, <1>2, StageOf DEF Asking, Request, At
  <1>4. List!Judge(s, worker[w].level, NoName) /\ Restarted
    BY <1>0, <1>3 DEF Request
  <1>5. UNCHANGED <<status, rows, score, todo>> /\ worker' = [worker EXCEPT ![w] = Free]
    BY DEF Request, rowVars, Finish
  <1>6. Queue!Moved({s}, {})
    BY <1>1, <1>2, <1>4, SameState, SameJudge, Queue!OperationMoves
       DEF ListInv, ListAgrees, Calm, Queue!FaultFree
  <1>7. List!Known(s)' /\ Remains(Sub \ {})
    <2>1. Sub \ {} = Sub
      OBVIOUS
    <2> QED BY <1>1, <1>2, <1>4, <2>1, ListRemains
  <1>8. Follows /\ stopping' = {}
    BY <1>1, <1>4, RestartedFollows
  <1>9. /\ Free.sub = NoSub /\ Free.pc = "idle" /\ NoSub \notin Sub
        /\ worker'[w] = Free /\ \A v \in Worker : v # w => worker'[v] = worker[v]
    BY <1>1, <1>5, ListAssumption DEF Free, RowTypeOK, List!JudgeListAssumption
  <1>10. ASSUME NEW t \in Sub, t # s PROVE Orderly(t)'
    <2>1. Stays(t)
      BY <1>1, <1>6, <1>7, <1>8, <1>10, RestStays
    <2>2. Untouched(t)
      BY <1>0, <1>1, <1>5, <1>9, <1>10, <2>1, OtherUntouched
    <2> QED BY <1>1, <2>2, StaysOrderly
  <1>11. Orderly(s)'
    <2>1. Unasked(s)' /\ ~OutcomeDue(s)'
      BY <1>2, <1>3, <1>5, <1>9 DEF Asking, Unasked, OutcomeDue
    <2>2. CASE s \in node_map'
      <3>1. Waiting(s)'
        BY <1>3, <1>5, <2>1, <2>2 DEF Waiting
      <3> QED BY <3>1 DEF Orderly
    <2>3. ASSUME NEW c \in Conn, s \in handler'[c].job PROVE Orderly(s)'
      <3>1. s \notin handler[c].job
        BY <1>1, <1>2, <1>3, WhereKnown
      <3>2. progress'[c] = Sent
        BY <1>8, <2>3, <3>1 DEF Follows
      <3>3. Judging(s, c)'
        BY <1>3, <1>5, <2>1, <2>3, <3>2 DEF Judging, Shown, Sent
      <3> QED BY <3>3 DEF Orderly
    <2> QED BY <1>2, <1>7, <2>2, <2>3, WhereKnownThen
  <1>12. ASSUME NEW c \in Conn, todo'[c].do = "clear"
         PROVE  todo'[c].sub \in handler'[c].job /\ progress'[c] = 0
    <2>1. todo[c].do = "clear" /\ todo'[c] = todo[c]
      BY <1>5, <1>12
    <2>2. todo[c].sub \in Sub \ {}
      BY <1>1, <2>1, ActorProperties
    <2>3. todo[c].sub \in handler[c].job /\ progress[c] = 0
      BY <2>1 DEF OrderlyInv
    <2> QED BY <1>1, <1>6, <1>8, <2>1, <2>2, <2>3, ClearStays
  <1> QED BY <1>8, <1>9, <1>10, <1>11, <1>12 DEF OrderlyInv

\* A judge's progress with the submission that it has: only its row changes.
LEMMA ProgressOrderly ==
    ASSUME Sound, ListInv', OrderlyInv, NEW c \in Conn, NEW s \in Sub,
           Acknowledged(c, s) \/ GradingBegin(c, s) \/ TestCase(c, s)
    PROVE  OrderlyInv'
  <1>1. RowTypeOK /\ Actors /\ ListInv /\ \A t \in Sub : Orderly(t)
    BY DEF Sound, TypeOK, OrderlyInv
  <1>2. /\ s \in handler[c].job /\ todo[c] = Nothing
        /\ UNCHANGED <<listVars, score, worker, stopping>>
    BY DEF Acknowledged, GradingBegin, TestCase, Packet
  <1>3. Judging(s, c)
    BY <1>1, <1>2, StageOf
  <1>4. /\ todo[c].do = "none" /\ todo[c].sub = NoSub /\ NoSub \notin Sub
        /\ Query("clear", s).do = "clear" /\ Query("clear", s).sub = s
    BY <1>2, ListAssumption DEF Nothing, Query, List!JudgeListAssumption
  <1>5. /\ todo' = todo \/ todo' = [todo EXCEPT ![c] = Query("clear", s)]
        /\ todo' # todo => GradingBegin(c, s)
    BY DEF Acknowledged, GradingBegin, TestCase
  <1>6. /\ \A t \in Sub : t # s => status'[t] = status[t] /\ rows'[t] = rows[t]
        /\ \A d \in Conn : d # c => progress'[d] = progress[d]
    BY <1>1 DEF Acknowledged, GradingBegin, TestCase, RowTypeOK
  <1>7. ASSUME NEW t \in Sub, t # s PROVE Orderly(t)'
    <2>1. Stays(t)
      BY <1>1, <1>2, <1>6, <1>7, WhereKnown DEF Stays, listVars
    <2>2. \/ UNCHANGED todo
          \/ /\ todo' = [todo EXCEPT ![c] = Query("clear", s)]
             /\ todo[c].sub # t /\ Query("clear", s).sub # t
      BY <1>4, <1>5, <1>7
    <2>3. status'[t] = status[t] /\ rows'[t] = rows[t] /\ score'[t] = score[t] /\ UNCHANGED worker
      BY <1>2, <1>6, <1>7
    <2>4. Untouched(t)
      BY <1>1, <2>1, <2>2, <2>3, OtherUntouched
    <2> QED BY <1>1, <2>4, StaysOrderly
  <1>8. Judging(s, c)'
    <2>1. Unasked(s)' /\ s \in handler'[c].job
      BY <1>2, <1>3 DEF Judging, Unasked, listVars
    <2>2. ~OutcomeDue(s)'
      BY <1>1, <1>3, <1>4, <1>5 DEF Judging, OutcomeDue, RowTypeOK
    <2>3. CASE Acknowledged(c, s)
      <3>1. status'[s] = "P" /\ progress'[c] = -1
        BY <1>1, <2>3 DEF Acknowledged, Acked, RowTypeOK
      <3> QED BY <2>1, <2>2, <3>1 DEF Judging, Shown, Sent, Acked
    <2>4. CASE GradingBegin(c, s)
      <3>1. status'[s] = "G" /\ progress'[c] = 0 /\ todo'[c] = Query("clear", s)
        BY <1>1, <2>4 DEF GradingBegin, RowTypeOK
      <3> QED BY <2>1, <2>2, <3>1 DEF Judging, Shown, Sent, Acked
    <2>5. CASE TestCase(c, s)
      <3>1. /\ progress[c] \in 0 .. Cases - 1 /\ Cases \in Nat
            /\ progress'[c] = progress[c] + 1 /\ status'[s] = status[s]
            /\ rows'[s] = rows[s] \cup {progress[c] + 1}
        BY <1>1, <2>5, LifecycleAssumption DEF TestCase, RowTypeOK
      <3>2. status[s] = "G" /\ rows[s] = 1 .. progress[c]
        <4>1. todo[c] # Query("clear", s)
          BY <1>4
        <4> QED BY <1>3, <3>1, <4>1 DEF Judging, Shown, Sent, Acked
      <3>3. rows'[s] = 1 .. progress'[c]
        BY <3>1, <3>2
      <3>4. status'[s] = Shown(progress'[c])
        BY <3>1, <3>2 DEF Shown, Sent, Acked
      <3> QED BY <2>1, <2>2, <3>3, <3>4 DEF Judging
    <2> QED BY <2>3, <2>4, <2>5
  <1>9. ASSUME NEW d \in Conn, todo'[d].do = "clear"
        PROVE  todo'[d].sub \in handler'[d].job /\ progress'[d] = 0
    <2>1. CASE d = c
      <3>1. GradingBegin(c, s) /\ todo'[c] = Query("clear", s)
        BY <1>1, <1>4, <1>5, <1>9, <2>1 DEF RowTypeOK
      <3>2. progress'[c] = 0
        BY <1>1, <3>1 DEF GradingBegin, RowTypeOK
      <3> QED BY <1>2, <1>4, <2>1, <3>1, <3>2 DEF listVars
    <2>2. CASE d # c
      <3>1. todo'[d] = todo[d]
        BY <1>1, <1>5, <2>2 DEF RowTypeOK
      <3> QED BY <1>2, <1>6, <1>9, <2>2, <3>1 DEF OrderlyInv, listVars
    <2> QED BY <2>1, <2>2
  <1> QED BY <1>2, <1>7, <1>8, <1>9 DEF OrderlyInv, Orderly

\* The queries that a handler thread has to make.
LEMMA QueryOrderly ==
    ASSUME Sound, ListInv', OrderlyInv, NEW c \in Conn,
           ClearTestCases(c) \/ ReadTestCases(c) \/ Save(c) \/ WriteOutcome(c)
    PROVE  OrderlyInv'
  <1>0. PICK s : s = todo[c].sub
    OBVIOUS
  <1>1. RowTypeOK /\ Actors /\ ListInv /\ \A t \in Sub : Orderly(t)
    BY DEF Sound, TypeOK, OrderlyInv
  <1>2. UNCHANGED <<listVars, worker, progress, stopping>>
    BY DEF ClearTestCases, ReadTestCases, Save, WriteOutcome, rowVars
  <1>3. s \in Sub /\ todo[c] \in Todo /\ todo \in [Conn -> Todo]
    BY <1>0, <1>1, ActorProperties
       DEF ClearTestCases, ReadTestCases, Save, WriteOutcome, RowTypeOK
  <1>4. Nothing.do = "none" /\ Nothing.sub = NoSub /\ NoSub \notin Sub
    BY ListAssumption DEF Nothing, List!JudgeListAssumption
  <1>5. PICK x : /\ todo' = [todo EXCEPT ![c] = x]
                 /\ \/ x = Nothing /\ ~ReadTestCases(c)
                    \/ ReadTestCases(c) /\ x.do = "save" /\ x.sub = s /\ x.seen = rows[s]
    <2>1. CASE ReadTestCases(c)
      <3> DEFINE y == [todo[c] EXCEPT !.do = "save", !.seen = rows[s]]
      <3>1. todo' = [todo EXCEPT ![c] = y]
        BY <1>0, <1>3, <2>1 DEF ReadTestCases
      <3>2. y.do = "save" /\ y.sub = s /\ y.seen = rows[s]
        BY <1>0, <1>3 DEF Todo
      <3> HIDE DEF y
      <3> QED BY <2>1, <3>1, <3>2
    <2>2. CASE ~ReadTestCases(c)
      BY <2>2 DEF ClearTestCases, Save, WriteOutcome
    <2> QED BY <2>1, <2>2
  <1>6. /\ x.sub \in {s, NoSub} /\ x.do \in {"none", "save"}
        /\ todo'[c] = x /\ \A d \in Conn : d # c => todo'[d] = todo[d]
    BY <1>3, <1>4, <1>5
  <1>7. \A t \in Sub : t # s =>
          status'[t] = status[t] /\ rows'[t] = rows[t] /\ score'[t] = score[t]
    BY <1>0, <1>1 DEF ClearTestCases, ReadTestCases, Save, WriteOutcome, RowTypeOK, rowVars
  <1>8. ASSUME NEW t \in Sub, t # s PROVE Orderly(t)'
    <2>1. Stays(t)
      BY <1>2, QuietStays
    <2>2. x.sub # t /\ todo[c].sub # t
      BY <1>0, <1>4, <1>6, <1>8
    <2>3. Untouched(t)
      BY <1>1, <1>2, <1>5, <1>7, <1>8, <2>1, <2>2, OtherUntouched
    <2> QED BY <1>1, <2>3, StaysOrderly
  <1>9. /\ Unasked(s)' <=> Unasked(s)
        /\ List!Known(s)' <=> List!Known(s)
    BY <1>2 DEF Unasked, listVars, List!Known
  <1>10. Orderly(s)'
    <2>1. CASE ClearTestCases(c)
      <3>1. s \in handler[c].job /\ progress[c] = 0
        BY <1>0, <2>1 DEF ClearTestCases, OrderlyInv
      <3>2. Judging(s, c)
        BY <1>1, <1>3, <3>1, StageOf
      <3>3. rows'[s] = {} /\ status'[s] = status[s] /\ todo'[c] = Nothing
        BY <1>0, <1>1, <1>3, <2>1 DEF ClearTestCases, RowTypeOK
      <3>4. ~OutcomeDue(s)'
        BY <1>4, <1>6, <3>2, <3>3 DEF Judging, OutcomeDue
      <3>5. Judging(s, c)'
        BY <1>2, <1>9, <3>1, <3>2, <3>3, <3>4 DEF Judging, listVars
      <3> QED BY <3>5 DEF Orderly
    <2>2. CASE ~ClearTestCases(c)
      <3>1. Ending(s, c)
        <4>1. DueFor(c, s)
          BY <1>0, <2>2 DEF ReadTestCases, Save, WriteOutcome, DueFor
        <4> QED BY <1>1, <1>3, <4>1, StageOf
      <3>2. CASE ReadTestCases(c)
        <4>1. /\ todo'[c].do = "save" /\ todo'[c].sub = s /\ todo'[c].seen = rows[s]
              /\ UNCHANGED <<status, rows>>
          BY <1>5, <1>6, <3>2 DEF ReadTestCases, rowVars
        <4>2. rows[s] = 1 .. Cases
          BY <3>1, <3>2 DEF Ending, ReadTestCases
        <4>3. DueFor(c, s)' /\ \A d \in Conn : DueFor(d, s)' => d = c
          BY <1>6, <3>1, <4>1 DEF Ending, DueFor
        <4>4. Ending(s, c)'
          BY <1>9, <3>1, <4>1, <4>2, <4>3 DEF Ending
        <4> QED BY <4>4 DEF Orderly
      <3>3. CASE Save(c) \/ WriteOutcome(c)
        <4>1. todo'[c] = Nothing
          BY <1>3, <3>3 DEF Save, WriteOutcome
        <4>2. ~OutcomeDue(s)'
          BY <1>4, <1>6, <3>1, <4>1 DEF Ending, DueFor, OutcomeDue
        <4>3. status'[s] \in Final /\ (status'[s] = "D" => Complete(s)')
          <5>1. CASE Save(c)
            BY <1>0, <1>1, <1>3, <3>1, <5>1 DEF Save, Ending, Complete, RowTypeOK, Final
          <5>2. CASE WriteOutcome(c)
            BY <1>0, <1>1, <1>3, <5>2 DEF WriteOutcome, RowTypeOK, Final
          <5> QED BY <3>3, <5>1, <5>2
        <4>4. Resting(s)'
          BY <1>9, <3>1, <4>2, <4>3 DEF Ending, Resting
        <4> QED BY <4>4 DEF Orderly
      <3> QED BY <2>2, <3>2, <3>3
    <2> QED BY <2>1, <2>2
  <1>11. ASSUME NEW d \in Conn, todo'[d].do = "clear"
         PROVE  todo'[d].sub \in handler'[d].job /\ progress'[d] = 0
    BY <1>2, <1>6, <1>11 DEF OrderlyInv, listVars
  <1> QED BY <1>2, <1>8, <1>10, <1>11 DEF OrderlyInv

\* Judges that connect, or whose flag changes.
LEMMA JoinOrderly ==
    ASSUME Calm, Sound, Queue!OneJob, ListInv', OrderlyInv, NEW c \in Conn, NEW n \in Name,
           (\E P \in Lists : Register(c, n, P)) \/ (\E b \in Flags : SetDisabled(c, n, b))
    PROVE  OrderlyInv'
  <1>1. /\ RowTypeOK /\ Actors /\ ListInv /\ List!TypeOK
        /\ stopping = {} /\ \A t \in Sub : Orderly(t)
    BY DEF Sound, TypeOK, OrderlyInv
  <1>2. UNCHANGED <<status, rows, score, worker, todo>>
    BY DEF Register, SetDisabled, rowVars
  <1>3. Queue!TypeOK /\ Queue!FaultFree /\ Queue!FaultFreeInv /\ Queue!QueueForm(queue, node_map)
    BY <1>1, SameState DEF ListInv, ListAgrees, Calm, Queue!FaultFree
  <1>4. Queue!Moved({}, {}) /\ Remains(Sub \ {}) /\ Follows /\ stopping' = {}
    <2>0. Sub \ {} = Sub
      OBVIOUS
    <2>1. ASSUME NEW P \in Lists, Register(c, n, P)
          PROVE  Queue!Moved({}, {}) /\ Remains(Sub \ {}) /\ Follows /\ stopping' = {}
      <3>1. List!Register(c, n, P) /\ Restarted
        BY <2>1 DEF Register
      <3>2. Queue!Register(c, n, P)
        BY <3>1, SameConnection
      <3>3. Queue!Moved({}, {})
        BY <1>3, <3>2, SameState, Queue!OperationMoves
      <3> QED BY <1>1, <2>0, <3>1, <3>3, ListRemains, RestartedFollows
    <2>2. ASSUME NEW b \in Flags, SetDisabled(c, n, b)
          PROVE  Queue!Moved({}, {}) /\ Remains(Sub \ {}) /\ Follows /\ stopping' = {}
      <3>1. /\ List!LoadDisabled(c, b) \/ List!UpdateDisableJudge(n, b)
            /\ b \in BOOLEAN /\ UNCHANGED <<progress, stopping>>
        BY <2>2, LifecycleAssumption DEF SetDisabled
      <3>2. Queue!LoadDisabled(c, b) \/ Queue!UpdateDisableJudge(n, b)
        BY <3>1, SameConnection
      <3>3. Queue!Moved({}, {}) /\ \A d \in Conn : handler'[d].job = handler[d].job
        BY <1>3, <3>1, <3>2, SameState, Queue!OperationMoves
      <3>4. Follows
        BY <3>1, <3>3 DEF Follows
      <3> QED BY <1>1, <2>0, <3>1, <3>3, <3>4, ListRemains
    <2> QED BY <2>1, <2>2
  <1>5. ASSUME NEW t \in Sub PROVE Orderly(t)'
    <2>1. Stays(t)
      BY <1>1, <1>4, RestStays
    <2>2. Untouched(t)
      BY <1>1, <1>2, <2>1, OtherUntouched
    <2> QED BY <1>1, <2>2, StaysOrderly
  <1>6. ASSUME NEW d \in Conn, todo'[d].do = "clear"
        PROVE  todo'[d].sub \in handler'[d].job /\ progress'[d] = 0
    <2>1. todo[d].do = "clear" /\ todo'[d] = todo[d]
      BY <1>2, <1>6
    <2>2. todo[d].sub \in Sub \ {}
      BY <1>1, <2>1, ActorProperties
    <2>3. todo[d].sub \in handler[d].job /\ progress[d] = 0
      BY <2>1 DEF OrderlyInv
    <2> QED BY <1>1, <1>4, <2>1, <2>2, <2>3, ClearStays
  <1> QED BY <1>2, <1>4, <1>5, <1>6 DEF OrderlyInv

\* A judge gives up what it has, and its thread has an outcome to write.
LEMMA GivesUpOrderly ==
    ASSUME Sound, ListInv', OrderlyInv, NEW c \in Conn, NEW s \in Sub,
           NEW what \in {"read", "CE", "IE", "AB"},
           s \in handler[c].job, todo[c] = Nothing, what = "read" => progress[c] = Cases,
           Queue!Moved({}, {s}), Remains(Sub \ {s}), Restarted,
           todo' = [todo EXCEPT ![c] = Query(what, s)],
           UNCHANGED <<rowVars, worker>>
    PROVE  OrderlyInv'
  <1>1. /\ RowTypeOK /\ Actors /\ ListInv /\ List!TypeOK
        /\ stopping = {} /\ \A t \in Sub : Orderly(t)
    BY DEF Sound, TypeOK, OrderlyInv
  <1>2. Follows /\ stopping' = {}
    BY <1>1, RestartedFollows
  <1>3. UNCHANGED <<status, rows, score>>
    BY DEF rowVars
  <1>4. /\ Query(what, s).do = what /\ Query(what, s).sub = s
        /\ todo[c].do = "none" /\ todo[c].sub = NoSub /\ NoSub \notin Sub
    BY ListAssumption DEF Query, Nothing, List!JudgeListAssumption
  <1>5. todo'[c] = Query(what, s) /\ \A d \in Conn : d # c => todo'[d] = todo[d]
    BY <1>1 DEF RowTypeOK
  <1>6. ASSUME NEW t \in Sub, t # s PROVE Orderly(t)'
    <2>1. Stays(t)
      BY <1>1, <1>2, <1>6, RestStays
    <2>2. todo[c].sub # t /\ Query(what, s).sub # t
      BY <1>4, <1>6
    <2>3. Untouched(t)
      BY <1>1, <1>3, <1>6, <2>1, <2>2, OtherUntouched
    <2> QED BY <1>1, <2>3, StaysOrderly
  <1>7. Judging(s, c)
    BY <1>1, StageOf
  <1>8. Ending(s, c)'
    <2>1. Unasked(s)'
      BY <1>7 DEF Judging, Unasked
    <2>2. ~List!Known(s)'
      BY WhereKnownThen DEF Queue!Moved
    <2>3. DueFor(c, s)' /\ \A d \in Conn : DueFor(d, s)' => d = c
      <3>1. \A d \in Conn : ~DueFor(d, s)
        BY <1>7 DEF Judging, OutcomeDue, DueFor
      <3> QED BY <1>4, <1>5, <3>1 DEF DueFor
    <2>4. status'[s] \in IN_PROGRESS_GRADING_STATUS
      BY <1>3, <1>7 DEF Judging, Shown, IN_PROGRESS_GRADING_STATUS
    <2>5. what = "read" => rows'[s] = 1 .. Cases
      <3>1. todo[c] # Query("clear", s)
        BY DEF Nothing, Query
      <3> QED BY <1>3, <1>7, <3>1, LifecycleAssumption DEF Judging
    <2> QED BY <1>4, <1>5, <2>1, <2>2, <2>3, <2>4, <2>5 DEF Ending
  <1>9. ASSUME NEW d \in Conn, todo'[d].do = "clear"
        PROVE  todo'[d].sub \in handler'[d].job /\ progress'[d] = 0
    <2>1. d # c /\ todo'[d] = todo[d] /\ todo[d].do = "clear"
      BY <1>4, <1>5, <1>9
    <2>2. todo[d].sub \in handler[d].job /\ progress[d] = 0
      BY <2>1 DEF OrderlyInv
    <2>3. todo[d].sub \in Sub \ {s}
      BY <1>1, <2>1, <2>2, ActorProperties, WhereKnown
    <2> QED BY <1>1, <1>2, <2>1, <2>2, <2>3, ClearStays
  <1> QED BY <1>2, <1>6, <1>8, <1>9 DEF OrderlyInv, Orderly

\* The judge reports the end,
LEMMA EndOrderly ==
    ASSUME Calm, Sound, Queue!OneJob, ListInv', OrderlyInv, NEW c \in Conn, NEW s \in Sub,
           GradingEnd(c, s) \/ CompileError(c, s) \/ InternalError(c, s) \/ Terminated(c, s)
    PROVE  OrderlyInv'
  <1>1. PICK what \in {"read", "CE", "IE", "AB"} :
          End(c, s, what) /\ (what = "read" => progress[c] = Cases)
    BY DEF GradingEnd, CompileError, InternalError, Terminated
  <1>2. /\ s \in handler[c].job /\ todo[c] = Nothing /\ List!OnJudgeFree(c, s)
        /\ Restarted /\ todo' = [todo EXCEPT ![c] = Query(what, s)]
        /\ UNCHANGED <<rowVars, worker>>
    <2>1. s \in handler[c].job
      BY <1>1 DEF End, Packet
    <2>2. Queue!Agree(judges, handler, submission_map, node_map)
      BY DEF Sound, ListInv, ListAgrees, Queue!FaultFreeInv
    <2>3. submission_map[s] = c
      <3>1. handler[c].job = IF c \in judges /\ handler[c].working # NoSub
                             THEN {handler[c].working} ELSE {}
        BY <2>2 DEF Queue!Agree
      <3>2. submission_map[s] = c <=> c \in judges /\ handler[c].working = s
        BY <2>2 DEF Queue!Agree
      <3> QED BY <2>1, <3>1, <3>2
    <2> QED BY <1>1, <2>1, <2>3, ListAssumption DEF End, Packet, List!JudgeListAssumption
  <1>3. Queue!TypeOK /\ Queue!FaultFree /\ Queue!FaultFreeInv /\ Queue!QueueForm(queue, node_map)
    BY SameState DEF Sound, TypeOK, ListInv, ListAgrees, Calm, Queue!FaultFree
  <1>4. Queue!OnJudgeFree(c, s)
    BY <1>2, SameConnection
  <1>5. Queue!Moved({}, {s})
    BY <1>3, <1>4, SameState, Queue!OperationMoves
  <1>6. Remains(Sub \ {s})
    BY <1>2, ListRemains DEF Sound, TypeOK
  <1> QED BY <1>1, <1>2, <1>5, <1>6, GivesUpOrderly

\* or goes away, with or without work.
LEMMA LeaveOrderly ==
    ASSUME Calm, Sound, Queue!OneJob, ListInv', OrderlyInv, NEW c \in Conn, OnDisconnect(c)
    PROVE  OrderlyInv'
  <1>0. PICK s : s = handler[c].working
    OBVIOUS
  <1>1. /\ RowTypeOK /\ Actors /\ ListInv /\ List!TypeOK
        /\ stopping = {} /\ \A t \in Sub : Orderly(t)
    BY DEF Sound, TypeOK, OrderlyInv
  <1>2. /\ todo[c] = Nothing /\ List!RemoveJudge(c) /\ Restarted
        /\ todo' = [todo EXCEPT ![c] = WorkLost(c)]
        /\ UNCHANGED <<status, rows, score, worker>> /\ UNCHANGED <<rowVars, worker>>
    BY DEF OnDisconnect, rowVars
  <1>3. Queue!TypeOK /\ Queue!FaultFree /\ Queue!FaultFreeInv /\ Queue!QueueForm(queue, node_map)
    BY <1>1, SameState DEF ListInv, ListAgrees, Calm, Queue!FaultFree
  <1>4. Queue!RemoveJudge(c)
    BY <1>2, SameConnection
  <1>5. Queue!Moved({}, handler[c].job) /\ c \in judges
    BY <1>3, <1>4, SameState, Queue!OperationMoves
  <1>6. Remains(Sub \ {s})
    BY <1>0, <1>1, <1>2, ListRemains
  <1>7. handler[c].working \in Sub \cup {NoSub} /\ handler[c].job \subseteq Sub /\ NoSub \notin Sub
    BY <1>1, ListAssumption DEF List!TypeOK, List!Handler, List!JudgeListAssumption
  <1>8. CASE s = NoSub
    <2>1. handler[c].job = {}
      <3>1. \A t \in Sub : t \in handler[c].job => handler[c].working = t
        BY <1>1 DEF ListInv, Queue!Placed
      <3> QED BY <1>0, <1>7, <1>8, <3>1
    <2>2. Queue!Moved({}, {}) /\ Remains(Sub \ {})
      <3>1. Sub \ {s} = Sub \ {}
        BY <1>7, <1>8
      <3> QED BY <1>5, <1>6, <2>1, <3>1
    <2>3. Follows /\ stopping' = {}
      BY <1>1, <1>2, RestartedFollows
    <2>4. todo' = todo
      BY <1>0, <1>1, <1>2, <1>8 DEF WorkLost, RowTypeOK
    <2>5. ASSUME NEW t \in Sub PROVE Orderly(t)'
      <3>1. Stays(t)
        BY <1>1, <2>2, <2>3, RestStays
      <3>2. Untouched(t)
        BY <1>1, <1>2, <2>4, <3>1, OtherUntouched
      <3> QED BY <1>1, <3>2, StaysOrderly
    <2>6. ASSUME NEW d \in Conn, todo'[d].do = "clear"
          PROVE  todo'[d].sub \in handler'[d].job /\ progress'[d] = 0
      <3>1. todo[d].do = "clear" /\ todo'[d] = todo[d]
        BY <2>4, <2>6
      <3>2. todo[d].sub \in Sub \ {}
        BY <1>1, <3>1, ActorProperties
      <3>3. todo[d].sub \in handler[d].job /\ progress[d] = 0
        BY <3>1 DEF OrderlyInv
      <3> QED BY <1>1, <2>2, <2>3, <3>1, <3>2, <3>3, ClearStays
    <2> QED BY <1>2, <2>3, <2>5, <2>6 DEF OrderlyInv
  <1>9. CASE s # NoSub
    <2>1. s \in Sub /\ s \in handler[c].job
      BY <1>0, <1>1, <1>5, <1>7, <1>9 DEF ListInv, Queue!Placed
    <2>2. handler[c].job = {s}
      BY <1>1, <2>1, WhereKnown
    <2>3. Queue!Moved({}, {s})
      BY <1>5, <2>2
    <2>4. WorkLost(c) = Query("IE", s)
      BY <1>0, <1>9 DEF WorkLost
    <2>5. todo' = [todo EXCEPT ![c] = Query("IE", s)]
      BY <1>2, <2>4
    <2> QED BY <1>2, <1>6, <2>1, <2>3, <2>5, GivesUpOrderly
  <1> QED BY <1>8, <1>9

LEMMA StepOrderly ==
    ASSUME Calm, Sound, Queue!OneJob, ListInv', OrderlyInv, [Next]_vars
    PROVE  OrderlyInv'
  <1>1. ASSUME NEW w \in Worker, NEW s \in Sub,
               (\E p \in Levels : Submit(w, s, p)) \/ BatchRejudge(w, s)
        PROVE  OrderlyInv'
    BY <1>1, EnterOrderly
  <1>2. ASSUME NEW w \in Worker, NEW s \in Sub, Rejudge(w, s) \/ StartAbort(w, s)
        PROVE  FALSE
    BY <1>2 DEF Rejudge, Enter, StartAbort, Calm
  <1>3. ASSUME NEW w \in Worker, WorkerStep(w) PROVE OrderlyInv'
    <2>1. ~(RequestFailed(w) \/ Terminate(w) \/ MarkAborted(w))
      BY DEF OrderlyInv, RequestFailed, Terminate, MarkAborted, At
    <2> QED BY <1>3, <2>1, AskOrderly, RequestOrderly DEF WorkerStep
  <1>4. ASSUME NEW w \in Worker, Unreachable(w) PROVE FALSE
    BY <1>4 DEF Unreachable, Calm
  <1>5. ASSUME NEW c \in Conn, NEW n \in Name,
               (\E P \in Lists : Register(c, n, P)) \/ (\E b \in Flags : SetDisabled(c, n, b))
        PROVE  OrderlyInv'
    BY <1>5, JoinOrderly
  <1>6. ASSUME NEW c \in Conn, HandlerStep(c) PROVE OrderlyInv'
    BY <1>6, ProgressOrderly, QueryOrderly, EndOrderly DEF HandlerStep
  <1>7. ASSUME NEW c \in Conn, OnDisconnect(c) PROVE OrderlyInv'
    BY <1>7, LeaveOrderly
  <1>8. ~Restart
    BY DEF Restart, Calm
  <1>9. CASE UNCHANGED vars
    <2>1. UNCHANGED <<listVars, status, rows, score, worker, todo, progress, stopping>>
      BY <1>9 DEF vars, rowVars
    <2>2. \A t \in Sub : Orderly(t)'
      <3> SUFFICES ASSUME NEW t \in Sub PROVE Orderly(t)'
        OBVIOUS
      <3>1. Stays(t)
        BY <2>1, QuietStays
      <3>2. Untouched(t)
        BY <2>1, <3>1, OtherUntouched DEF Sound, TypeOK
      <3> QED BY <3>2, StaysOrderly DEF OrderlyInv, Sound
    <2> QED BY <2>1, <2>2 DEF OrderlyInv, listVars
  <1> QED BY <1>1, <1>2, <1>3, <1>4, <1>5, <1>6, <1>7, <1>8, <1>9 DEF Next

\* At the start nothing was submitted.
LEMMA InitOrderly == Init => OrderlyInv
  <1> SUFFICES ASSUME Init PROVE OrderlyInv
    OBVIOUS
  <1>1. /\ \A t \in Sub : status[t] = "absent" /\ ~List!Known(t)
        /\ \A w \in Worker : worker[w].sub = NoSub /\ worker[w].pc = "idle"
        /\ \A c \in Conn : todo[c].do = "none"
        /\ stopping = {} /\ NoSub \notin Sub
    BY ListAssumption
       DEF Init, List!Init, List!Known, Free, Nothing, List!JudgeListAssumption
  <1>2. \A t \in Sub : Resting(t)
    BY <1>1 DEF Resting, Unasked, OutcomeDue
  <1> QED BY <1>1, <1>2 DEF OrderlyInv, Orderly

\* Every submission is in one of its stages in every reachable state.
THEOREM AllOrderly == ASSUME Calm PROVE Spec => []OrderlyInv
  <1>1. TypeOK /\ Actors /\ SafeInv /\ ListInv /\ ListInv' /\ OrderlyInv /\ [Next]_vars
          => OrderlyInv'
    BY StepOrderly DEF Sound, SafeInv
  <1>2. Queue!FaultFree
    BY DEF Calm, Queue!FaultFree
  <1>3. Spec => []ListInv
    BY <1>2, ListInvKept
  <1> QED BY <1>1, <1>3, InitOrderly, TypeCorrect, AllSafe, PTL DEF Spec

(***************************************************************************)
(* The points of a graded submission were computed from all its test       *)
(* cases, and all are there: whatever judges come and go, for any number   *)
(* of submissions, judges and cases.                                       *)
(***************************************************************************)
THEOREM ResultCompleteHolds == ASSUME Calm PROVE Spec => []ResultComplete
  <1>1. ListInv /\ OrderlyInv => ResultComplete
    <2> SUFFICES ASSUME ListInv, OrderlyInv, NEW t \in Sub, status[t] = "D"
                 PROVE  Complete(t)
      BY DEF ResultComplete, Complete
    <2>1. Resting(t) \/ \E w \in Worker : Asking(t, w)
      BY StageOf DEF OrderlyInv, Final
    <2> QED BY <2>1 DEF Resting, Asking
  <1>2. Spec => []ListInv
    BY ListInvKept DEF Calm, Queue!FaultFree
  <1> QED BY <1>1, <1>2, AllOrderly, PTL

(***************************************************************************)
(* What the database shows as finished is known neither to the list nor to *)
(* any judge, under the same hypotheses.                                   *)
(***************************************************************************)
THEOREM FinishedIsForgottenHolds == ASSUME Calm PROVE Spec => []FinishedIsForgotten
  <1>1. ListInv /\ OrderlyInv => FinishedIsForgotten
    <2> SUFFICES ASSUME ListInv, OrderlyInv, NEW t \in Sub, status[t] \in Final
                 PROVE  ~List!Known(t)
      BY DEF FinishedIsForgotten
    <2>1. Resting(t) \/ \E w \in Worker : Asking(t, w)
      BY StageOf DEF OrderlyInv
    <2> QED BY <2>1 DEF Resting, Asking
  <1>2. Spec => []ListInv
    BY ListInvKept DEF Calm, Queue!FaultFree
  <1> QED BY <1>1, <1>2, AllOrderly, PTL
=============================================================================
