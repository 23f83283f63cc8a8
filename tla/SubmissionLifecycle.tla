------------------------ MODULE SubmissionLifecycle ------------------------
(***************************************************************************)
(* The row of a submission in the database while web workers ask for it to *)
(* be judged or aborted (site/judge/judgeapi.py), the bridge dispatches it *)
(* (JudgeList) and the thread of the judge's connection writes what the    *)
(* judge reports (site/judge/bridge/judge_handler.py).  Neither the web    *)
(* workers nor the handlers lock the row: every query is a step.           *)
(*                                                                         *)
(* The judge process follows the protocol: it acknowledges, then reports a *)
(* compile error, or the begin of grading, each case once and the end.  An *)
(* internal error may come at any time after the acknowledgement.          *)
(***************************************************************************)
EXTENDS Integers, FiniteSets

CONSTANTS
    Conn, NoConn, Name, NoName, Sub, NoSub, Kind, KindOf, Lists, Faults,
    LiveUpdates, Enabling,  \* see JudgeList
    Worker,         \* web and celery workers that handle one request at a time
    Levels,         \* the priorities that requests are made with
    Cases,          \* the number of test cases of a problem
    Flags,          \* the values of is_disabled that occur
    Aborting,       \* whether users abort submissions
    Outages         \* whether the bridge may be unreachable or restart

VARIABLES
    judges, handler, step, closed, queue, node_map, submission_map,
    status,     \* Submission.status, "absent" before the row is created
    rows,       \* the SubmissionTestCase rows of each submission
    score,      \* the cases that the points in the row were computed from
    worker,     \* what each worker does next, see WorkerState
    todo,       \* the query that each handler thread makes next, see Todo
    progress,   \* how far the judge has got with what it was sent
    stopping    \* connections that terminate-submission was sent to

listVars == <<judges, handler, step, closed, queue, node_map, submission_map>>
rowVars == <<status, rows, score>>
vars == <<listVars, rowVars, worker, todo, progress, stopping>>

List == INSTANCE JudgeList

ASSUME ListAssumption == List!JudgeListAssumption

ASSUME LifecycleAssumption ==
    /\ Cases \in Nat \ {0}
    /\ Levels \subseteq List!Priority
    /\ Flags \subseteq BOOLEAN
    /\ Aborting \in BOOLEAN /\ Outages \in BOOLEAN

Final == {"D", "IE", "CE", "AB"}
IN_PROGRESS_GRADING_STATUS == {"QU", "P", "G"}

BATCH_REJUDGE_PRIORITY == 3

\* "update", "delete", "request", "fail" in judge_submission;
\* "terminate", "aborted" in abort_submission.
WorkerState ==
    [pc : {"idle", "update", "delete", "request", "fail", "terminate", "aborted"},
     sub : Sub \cup {NoSub}, level : List!Priority]

Free == [pc |-> "idle", sub |-> NoSub, level |-> 0]

\* "clear": delete the rows now that grading has begun; "read" the rows, "save"
\* the row with what was seen; "CE", "IE", "AB": update the status to it.
Todo == [do : {"none", "clear", "read", "save", "CE", "IE", "AB"},
         sub : Sub \cup {NoSub}, seen : SUBSET (1 .. Cases)]

Nothing == [do |-> "none", sub |-> NoSub, seen |-> {}]
Query(what, s) == [do |-> what, sub |-> s, seen |-> {}]

Sent == -2          \* progress of a judge that has not acknowledged,
Acked == -1         \* that has not begun to grade; then the cases reported

RowTypeOK ==
    /\ status \in [Sub -> Final \cup IN_PROGRESS_GRADING_STATUS \cup {"absent"}]
    /\ rows \in [Sub -> SUBSET (1 .. Cases)]
    /\ score \in [Sub -> SUBSET (1 .. Cases)]
    /\ worker \in [Worker -> WorkerState]
    /\ todo \in [Conn -> Todo]
    /\ progress \in [Conn -> Sent .. Cases]
    /\ stopping \subseteq Conn

TypeOK == List!TypeOK /\ RowTypeOK

Init ==
    /\ List!Init
    /\ status = [s \in Sub |-> "absent"]
    /\ rows = [s \in Sub |-> {}]
    /\ score = [s \in Sub |-> {}]
    /\ worker = [w \in Worker |-> Free]
    /\ todo = [c \in Conn |-> Nothing]
    /\ progress = [c \in Conn |-> Sent]
    /\ stopping = {}

\* What a dispatch changes beside the list: the judge starts from the beginning.
Renewed == {c \in Conn : handler'[c].job # handler[c].job}
Restarted ==
    /\ progress' = [c \in Conn |-> IF c \in Renewed THEN Sent ELSE progress[c]]
    /\ stopping' = stopping \ Renewed

-----------------------------------------------------------------------------
At(w, pc) == worker[w].pc = pc
Goto(w, pc) == worker' = [worker EXCEPT ![w].pc = pc]
Finish(w) == worker' = [worker EXCEPT ![w] = Free]

\* A worker enters judge_submission for s.
Enter(w, s, p) ==
    /\ At(w, "idle")
    /\ p \in Levels
    /\ worker' = [worker EXCEPT ![w] = [pc |-> "update", sub |-> s, level |-> p]]
    /\ UNCHANGED <<listVars, rows, score, todo, progress, stopping>>

\* A submission is created, with status QU, for a contest or outside one.
Submit(w, s, p) ==
    /\ status[s] = "absent"
    /\ p < List!REJUDGE_PRIORITY
    /\ status' = [status EXCEPT ![s] = "QU"]
    /\ Enter(w, s, p)

\* rejudge_submission of one submission, whatever its status.
Rejudge(w, s) ==
    /\ status[s] # "absent"
    /\ Enter(w, s, List!REJUDGE_PRIORITY)
    /\ UNCHANGED status

\* Mutant: nothing in progress is left out.
BatchRejudgeAll(w, s) ==
    /\ status[s] # "absent"
    /\ Enter(w, s, BATCH_REJUDGE_PRIORITY)
    /\ UNCHANGED status

\* rejudge_problem_filter leaves out what is in progress when its query reads
\* the row.
BatchRejudge(w, s) ==
    /\ status[s] \in Final
    /\ Enter(w, s, BATCH_REJUDGE_PRIORITY)
    /\ UNCHANGED status

\* What the update of judge_submission leaves out.
Refuses(s) == status[s] \in {"P", "G"}

Update(w) ==
    LET s == worker[w].sub IN
    /\ At(w, "update")
    /\ \/ Refuses(s) /\ Finish(w) /\ UNCHANGED rowVars
       \/ /\ ~Refuses(s)
          /\ status' = [status EXCEPT ![s] = "QU"]
          /\ score' = [score EXCEPT ![s] = {}]
          /\ Goto(w, "delete")
          /\ UNCHANGED rows
    /\ UNCHANGED <<listVars, todo, progress, stopping>>

DeleteTestCases(w) ==
    /\ At(w, "delete")
    /\ rows' = [rows EXCEPT ![worker[w].sub] = {}]
    /\ Goto(w, "request")
    /\ UNCHANGED <<listVars, status, score, todo, progress, stopping>>

\* submission-request; judge returns at once for a submission it knows.
Request(w) ==
    LET s == worker[w].sub IN
    /\ At(w, "request")
    /\ \/ List!Known(s) /\ UNCHANGED <<listVars, progress, stopping>>
       \/ List!Judge(s, worker[w].level, NoName) /\ Restarted
    /\ Finish(w)
    /\ UNCHANGED <<rowVars, todo>>

\* judge_request raises: judge_submission catches it, abort_submission does not.
Unreachable(w) ==
    /\ Outages
    /\ \/ At(w, "request") /\ Goto(w, "fail")
       \/ At(w, "terminate") /\ Finish(w)
    /\ UNCHANGED <<listVars, rowVars, todo, progress, stopping>>

RequestFailed(w) ==
    /\ At(w, "fail")
    /\ status' = [status EXCEPT ![worker[w].sub] = "IE"]
    /\ Finish(w)
    /\ UNCHANGED <<listVars, rows, score, todo, progress, stopping>>

\* The view loads the submission, and abort_submission looks at that copy.
StartAbort(w, s) ==
    /\ Aborting
    /\ At(w, "idle")
    /\ status[s] \notin {"absent", "D"}
    /\ worker' = [worker EXCEPT ![w] = [pc |-> "terminate", sub |-> s, level |-> 0]]
    /\ UNCHANGED <<listVars, rowVars, todo, progress, stopping>>

(***************************************************************************)
(* terminate-submission: the judge that has the submission is told, or the *)
(* queue loses it.  Only then, or when the list does not know it at all,   *)
(* the answer is that no judge aborts it.                                  *)
(***************************************************************************)
Terminate(w) ==
    LET s == worker[w].sub IN
    /\ At(w, "terminate")
    /\ \/ /\ submission_map[s] # NoConn
          /\ stopping' = stopping \cup {submission_map[s]}
          /\ Finish(w)
          /\ UNCHANGED listVars
       \/ List!Abort(s) /\ Goto(w, "aborted") /\ UNCHANGED stopping
       \/ ~List!Known(s) /\ Goto(w, "aborted") /\ UNCHANGED <<listVars, stopping>>
    /\ UNCHANGED <<rowVars, todo, progress>>

MarkAborted(w) ==
    /\ At(w, "aborted")
    /\ status' = [status EXCEPT ![worker[w].sub] = "AB"]
    /\ score' = [score EXCEPT ![worker[w].sub] = {}]
    /\ Finish(w)
    /\ UNCHANGED <<listVars, rows, todo, progress, stopping>>

WorkerStep(w) ==
    \/ Update(w) \/ DeleteTestCases(w) \/ Request(w) \/ RequestFailed(w)
    \/ Terminate(w) \/ MarkAborted(w)

-----------------------------------------------------------------------------
(***************************************************************************)
(* The bridge's side.  A handler thread reads the next packet when it has  *)
(* made the queries of the last one.                                       *)
(***************************************************************************)
Register(c, n, P) ==
    /\ todo[c] = Nothing
    /\ List!Register(c, n, P)
    /\ Restarted
    /\ UNCHANGED <<rowVars, worker, todo>>

SetDisabled(c, n, b) ==
    /\ List!LoadDisabled(c, b) \/ List!UpdateDisableJudge(n, b)
    /\ UNCHANGED <<rowVars, worker, todo, progress, stopping>>

\* A packet about s from the judge at the other end of c is handled.
Packet(c, s) == step[c] = "ready" /\ todo[c] = Nothing /\ s \in handler[c].job

\* on_submission_acknowledged, on_submission_processing
Acknowledged(c, s) ==
    /\ Packet(c, s) /\ progress[c] = Sent
    /\ progress' = [progress EXCEPT ![c] = Acked]
    /\ status' = [status EXCEPT ![s] = "P"]
    /\ UNCHANGED <<listVars, rows, score, worker, todo, stopping>>

GradingBegin(c, s) ==
    /\ Packet(c, s) /\ progress[c] = Acked
    /\ progress' = [progress EXCEPT ![c] = 0]
    /\ status' = [status EXCEPT ![s] = "G"]
    /\ todo' = [todo EXCEPT ![c] = Query("clear", s)]
    /\ UNCHANGED <<listVars, rows, score, worker, stopping>>

ClearTestCases(c) ==
    /\ todo[c].do = "clear"
    /\ rows' = [rows EXCEPT ![todo[c].sub] = {}]
    /\ todo' = [todo EXCEPT ![c] = Nothing]
    /\ UNCHANGED <<listVars, status, score, worker, progress, stopping>>

\* Mutant: the judge reports one case more than there are.
TestCaseTooMany(c, s) ==
    /\ Packet(c, s) /\ progress[c] \in 0 .. Cases
    /\ progress' = [progress EXCEPT ![c] = @ + 1]
    /\ rows' = [rows EXCEPT ![s] = @ \cup {progress[c] + 1}]
    /\ UNCHANGED <<listVars, status, score, worker, todo, stopping>>

TestCase(c, s) ==
    /\ Packet(c, s) /\ progress[c] \in 0 .. Cases - 1
    /\ progress' = [progress EXCEPT ![c] = @ + 1]
    /\ rows' = [rows EXCEPT ![s] = @ \cup {progress[c] + 1}]
    /\ UNCHANGED <<listVars, status, score, worker, todo, stopping>>

\* Mutant: the judge is not freed.
EndUnfreed(c, s, what) ==
    /\ Packet(c, s)
    /\ todo' = [todo EXCEPT ![c] = Query(what, s)]
    /\ UNCHANGED <<listVars, rowVars, worker, progress, stopping>>

(***************************************************************************)
(* The packets that end a grading free the judge first, which may be given *)
(* other work before the thread writes the outcome.  When submission_map   *)
(* has no entry, the KeyError cuts the handler short: nothing is written,  *)
(* and the handler goes on working on s.                                   *)
(***************************************************************************)
End(c, s, what) ==
    /\ Packet(c, s)
    /\ List!OnJudgeFree(c, s)
    /\ Restarted
    /\ todo' = IF submission_map[s] = NoConn THEN todo
               ELSE [todo EXCEPT ![c] = Query(what, s)]
    /\ UNCHANGED <<rowVars, worker>>

GradingEnd(c, s) == progress[c] = Cases /\ End(c, s, "read")
CompileError(c, s) == progress[c] = Acked /\ End(c, s, "CE")
InternalError(c, s) == progress[c] # Sent /\ End(c, s, "IE")
Terminated(c, s) == c \in stopping /\ progress[c] # Sent /\ End(c, s, "AB")

ReadTestCases(c) ==
    /\ todo[c].do = "read"
    /\ todo' = [todo EXCEPT ![c].do = "save", ![c].seen = rows[todo[c].sub]]
    /\ UNCHANGED <<listVars, rowVars, worker, progress, stopping>>

\* submission.save() writes every column.
Save(c) ==
    /\ todo[c].do = "save"
    /\ status' = [status EXCEPT ![todo[c].sub] = "D"]
    /\ score' = [score EXCEPT ![todo[c].sub] = todo[c].seen]
    /\ todo' = [todo EXCEPT ![c] = Nothing]
    /\ UNCHANGED <<listVars, rows, worker, progress, stopping>>

\* The updates of on_compile_error, on_internal_error, on_submission_terminated
\* and on_disconnect.
WriteOutcome(c) ==
    /\ todo[c].do \in {"CE", "IE", "AB"}
    /\ status' = [status EXCEPT ![todo[c].sub] = todo[c].do]
    /\ score' = [score EXCEPT ![todo[c].sub] = IF todo[c].do = "AB" THEN {} ELSE @]
    /\ todo' = [todo EXCEPT ![c] = Nothing]
    /\ UNCHANGED <<listVars, rows, worker, progress, stopping>>

\* Mutant: what a judge worked on when it left is forgotten.
ForgetWork(c) == Nothing

\* on_disconnect writes the status of what the handler was working on.
WorkLost(c) ==
    IF handler[c].working = NoSub THEN Nothing ELSE Query("IE", handler[c].working)

OnDisconnect(c) ==
    /\ todo[c] = Nothing
    /\ List!RemoveJudge(c)
    /\ Restarted
    /\ todo' = [todo EXCEPT ![c] = WorkLost(c)]
    /\ UNCHANGED <<rowVars, worker>>

HandlerStep(c) ==
    \/ \E s \in Sub :
         \/ Acknowledged(c, s) \/ GradingBegin(c, s) \/ TestCase(c, s)
         \/ GradingEnd(c, s) \/ CompileError(c, s) \/ InternalError(c, s)
         \/ Terminated(c, s)
    \/ ClearTestCases(c) \/ ReadTestCases(c) \/ Save(c) \/ WriteOutcome(c)

\* Mutant: only what a judge had begun is written off.
WrittenOffBegun == {"P", "G"}

\* The submissions a starting bridge writes off, by status.
WrittenOff == IN_PROGRESS_GRADING_STATUS

\* The bridge dies and judge_daemon starts it again.
Restart ==
    /\ Outages
    /\ judges' = {} /\ queue' = [p \in List!Priority |-> <<>>] /\ node_map' = {}
    /\ handler' = [c \in Conn |-> List!NewHandler(NoName, {})]
    /\ step' = [c \in Conn |-> "gone"] /\ closed' = {}
    /\ submission_map' = [s \in Sub |-> NoConn]
    /\ todo' = [c \in Conn |-> Nothing]
    /\ progress' = [c \in Conn |-> Sent] /\ stopping' = {}
    /\ status' = [s \in Sub |-> IF status[s] \in WrittenOff THEN "IE" ELSE status[s]]
    /\ UNCHANGED <<rows, score, worker>>

Next ==
    \/ \E w \in Worker, s \in Sub, p \in Levels : Submit(w, s, p)
    \/ \E w \in Worker, s \in Sub : Rejudge(w, s) \/ BatchRejudge(w, s) \/ StartAbort(w, s)
    \/ \E w \in Worker : WorkerStep(w) \/ Unreachable(w)
    \/ \E c \in Conn, n \in Name, P \in Lists : Register(c, n, P)
    \/ \E c \in Conn, n \in Name, b \in Flags : SetDisabled(c, n, b)
    \/ \E c \in Conn : HandlerStep(c) \/ OnDisconnect(c)
    \/ Restart

Spec == Init /\ [][Next]_vars

(***************************************************************************)
(* Workers and handler threads keep running, a judge that has work or has  *)
(* connected keeps talking, and judges that are gone connect again.        *)
(***************************************************************************)
Fairness ==
    /\ \A w \in Worker : WF_vars(WorkerStep(w))
    /\ \A c \in Conn :
         /\ WF_vars(HandlerStep(c))
         /\ WF_vars(\E n \in Name, P \in Lists : Register(c, n, P))
         /\ WF_vars(\E n \in Name, b \in Flags : SetDisabled(c, n, b))

FairSpec == Spec /\ Fairness
-----------------------------------------------------------------------------
\* A handler thread that still has to write the outcome of s.
OutcomeDue(s) ==
    \E c \in Conn : todo[c].sub = s /\ todo[c].do \in {"read", "save", "CE", "IE", "AB"}

(***************************************************************************)
(* A submission is never stuck: one that is QU waits in the list, is with  *)
(* a judge, or some worker or handler is about to ask for it or to write   *)
(* its outcome.  Nothing times a submission out, so one that all of them   *)
(* have forgotten would show as queued for ever.                           *)
(***************************************************************************)
NeverForgotten ==
    \A s \in Sub : status[s] = "QU" =>
        \/ List!Known(s) \/ OutcomeDue(s)
        \/ \E w \in Worker : worker[w].sub = s /\ ~At(w, "terminate")

(***************************************************************************)
(* judge_submission refuses what is P or G.  That is harmless only while   *)
(* a judge really has the submission, or its outcome is about to be        *)
(* written: else it could never be judged again.                           *)
(***************************************************************************)
RefusedOnlyWhileJudged ==
    \A s \in Sub : Refuses(s) =>
        OutcomeDue(s) \/ \E c \in Conn : s \in handler[c].job

\* A connected handler works on s, so on_disconnect will write its status.
WorkedOn(s) == \E c \in Conn : step[c] # "gone" /\ handler[c].working = s

(***************************************************************************)
(* After a failed dispatch the end that a judge reports may be lost, and   *)
(* the row stays P or G though no judge has the submission.  Even then a   *)
(* handler works on it, so the row is written when its judge disconnects.  *)
(***************************************************************************)
RefusedIsWorkedOn == \A s \in Sub : Refuses(s) => OutcomeDue(s) \/ WorkedOn(s)

(***************************************************************************)
(* The points of a graded submission were computed from every test case,   *)
(* and every test case is there to be shown: "that does not lead to data   *)
(* corruption" (judgeapi.py:74).                                           *)
(***************************************************************************)
ResultComplete ==
    \A s \in Sub : status[s] = "D" => score[s] = 1 .. Cases /\ rows[s] = 1 .. Cases

(***************************************************************************)
(* What the database shows as finished is finished: the list and the       *)
(* judges no longer know it.  Holds for one worker while nobody aborts; an *)
(* abort between remove and the late IE of on_disconnect breaks it.        *)
(***************************************************************************)
FinishedIsForgotten ==
    \A s \in Sub : status[s] \in Final => ~List!Known(s)

(***************************************************************************)
(* Whatever is in progress comes to an end, through any number of aborts,  *)
(* rejudges, disconnections and restarts.                                  *)
(***************************************************************************)
EventuallyFinal ==
    \A s \in Sub :
        status[s] \in IN_PROGRESS_GRADING_STATUS ~> status[s] \in Final
=============================================================================
