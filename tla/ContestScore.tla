---------------------------- MODULE ContestScore ----------------------------
(***************************************************************************)
(* The result of one participation in a contest: the points of its         *)
(* submissions (ContestSubmission.points), the row of the participation    *)
(* (ContestParticipation) and everything that writes them: the threads of  *)
(* the bridge at the end of a grading, the tasks that rescore a problem or *)
(* a contest, and the people who disqualify the participant or edit the    *)
(* row.  Statements are committed one by one, except in recompute_results, *)
(* a transaction that locks the participation's row, and in the form of    *)
(* the administration, which is one transaction; transactions read what    *)
(* has been committed (Django's default isolation for MySQL).              *)
(***************************************************************************)
EXTENDS Integers, FiniteSets, FiniteSetsExt

CONSTANTS
    Sub,        \* the submissions of the participation
    Problem,    \* the problems of the contest
    ProblemOf,  \* the problem of a submission
    Full,       \* the points of a contest problem
    Grader,     \* threads of the bridge, one for each judge
    Rescorer,   \* Celery workers and administrators that recompute results;
                \* a process of both sets does either, one at a time
    Moderator,  \* editors of the contest
    NoProc      \* holds the lock when nobody does

Proc == Grader \cup Rescorer \cup Moderator

ASSUME ProblemOfType == ProblemOf \in [Sub -> Problem]
ASSUME FullType == Full \in Nat
ASSUME ProcsDistinct ==
    /\ NoProc \notin Proc
    /\ Moderator \cap (Grader \cup Rescorer) = {}

VARIABLES
    row,        \* the submissions: the points of the last grading
    points,     \* ContestSubmission.points
    part,       \* the row of the participation
    banned,     \* the participant is among the contest's banned_users
    proc,       \* what each process is doing, with the copies it holds
    holder,     \* who has locked the row of the participation
    stale,      \* history: since the results were last read a writer was
                \* lost or an older copy of the row was written back, or they
                \* could not be read
    torn        \* history: submissions graded beside an older result of
                \* theirs, or whose result was lost on its way

vars == <<row, points, part, banned, proc, holder, stale, torn>>

-----------------------------------------------------------------------------
(* Data.  A grading earns 0..Full.  format_data keeps the best points of   *)
(* each problem and score is their sum, or -9999 for the disqualified.     *)

Grade == 0..Full

\* A submission in progress, or one whose last grading ended without points
\* (on_compile_error, on_internal_error, an abort): its row has none, and the
\* contest is not told.
Ungraded == -1

\* What update_contest gets for a row: case_points are 0 since judge_submission.
Earned(n) == IF n = Ungraded THEN 0 ELSE n

Best(pts) == [q \in Problem |-> Max({0} \cup {pts[s] : s \in {t \in Sub : ProblemOf[t] = q}})]

NoData == [q \in Problem |-> 0]

Data == {NoData} \cup {Best(pts) : pts \in [Sub -> Grade]}

Disqualified == -9999

Score(dq, data) == IF dq THEN Disqualified ELSE MapThenSumSet(LAMBDA q : data[q], Problem)

Scores == {Score(dq, data) : dq \in BOOLEAN, data \in Data}

\* is_disqualified, format_data and score.
Part == [dq : BOOLEAN, data : Data, score : Scores]

Result(dq, data) == [dq |-> dq, data |-> data, score |-> Score(dq, data)]

\* What the administration's form has of the row.
Form == [dq : BOOLEAN, score : Scores]

NoForm == [dq |-> FALSE, score |-> Score(FALSE, NoData)]

\* todo: the submissions whose points are to be written, from copy; dq, data:
\* what the copy of the participation is going to be saved with, deferred: the
\* copy was loaded without is_disqualified; form: what an administrator edits.
ProcState ==
    [pc : {"idle", "contest", "form", "load", "lock", "read", "save", "ban"},
     todo : SUBSET Sub, copy : [Sub -> Grade], dq : BOOLEAN, deferred : BOOLEAN,
     data : Data, form : Form]

Idle == [pc |-> "idle", todo |-> {}, copy |-> [s \in Sub |-> 0], dq |-> FALSE,
         deferred |-> FALSE, data |-> NoData, form |-> NoForm]

\* A process that will read the points before it writes the participation.
Reads(p) == proc[p].pc \in {"load", "lock", "read"}

\* The submissions whose points p is going to write, from a copy it holds.
Open(p) == proc[p].todo

-----------------------------------------------------------------------------
Init ==
    /\ row = [s \in Sub |-> Ungraded]
    /\ points = [s \in Sub |-> 0]
    /\ part = Result(FALSE, Best(points))
    /\ banned = FALSE
    /\ proc = [p \in Proc |-> Idle]
    /\ holder = NoProc
    /\ stale = FALSE
    /\ torn = {}

(* The submissions. *)

\* judge_submission.
Rejudge(s) ==
    /\ row[s] # Ungraded
    /\ row' = [row EXCEPT ![s] = Ungraded]
    /\ UNCHANGED <<points, part, banned, proc, holder, stale, torn>>

\* on_grading_end up to submission.save(): the judge has been freed before.
GradingEnd(g, s, n) ==
    /\ proc[g].pc = "idle"
    /\ row[s] = Ungraded
    /\ row' = [row EXCEPT ![s] = n]
    /\ proc' = [proc EXCEPT ![g] = [Idle EXCEPT !.pc = "contest", !.todo = {s}, !.copy[s] = n]]
    /\ torn' = IF \E p \in Proc : s \in Open(p) THEN torn \cup {s} ELSE torn \ {s}
    /\ UNCHANGED <<points, part, banned, holder, stale>>

-----------------------------------------------------------------------------
(* Those who start a recomputation. *)

Start(p, state) ==
    /\ proc[p].pc = "idle"
    /\ proc' = [proc EXCEPT ![p] = state]
    /\ UNCHANGED <<row, points, part, banned, holder, stale, torn>>

\* rescore_problem: the rows are read when the iteration begins.
RescoreProblem(r, q) ==
    LET subs == {s \in Sub : ProblemOf[s] = q}
    IN  /\ subs # {}
        /\ Start(r, [Idle EXCEPT !.pc = "contest", !.todo = subs,
                                 !.copy = [s \in Sub |-> IF s \in subs THEN Earned(row[s]) ELSE 0]])

\* rescore_contest: the participation has been loaded.
RescoreContest(r) == Start(r, [Idle EXCEPT !.pc = "lock", !.dq = part.dq])

\* The administration's recalculate_results: the only() of its queryset leaves
\* is_disqualified out.
Recalculate(r) == Start(r, [Idle EXCEPT !.pc = "lock", !.deferred = TRUE])

\* ContestParticipationDisqualify.post, set_disqualified.
Disqualify(m) == Start(m, [Idle EXCEPT !.pc = "lock", !.dq = ~part.dq])

\* The administration's form loads the row with its score but, by the same
\* only(), without format_data; is_disqualified, a field of the form, is loaded
\* when the form is made of the row, which is taken to be at once.
OpenForm(m) ==
    Start(m, [Idle EXCEPT !.pc = "form", !.form = [dq |-> part.dq, score |-> part.score]])

-----------------------------------------------------------------------------
(* update_contest, recompute_results and what follows. *)

\* Mutant: the points of a contest submission never go down.
KeepBetterPoints(p, s) ==
    /\ proc[p].pc = "contest"
    /\ s \in Open(p)
    /\ points' = [points EXCEPT ![s] = Max({@, proc[p].copy[s]})]
    /\ proc' = [proc EXCEPT ![p].pc = "load", ![p].todo = @ \ {s}, ![p].copy[s] = 0]
    /\ UNCHANGED <<row, part, banned, holder, stale, torn>>

\* update_contest: contest.points, contest.save().
WritePoints(p, s) ==
    /\ proc[p].pc = "contest"
    /\ s \in Open(p)
    /\ points' = [points EXCEPT ![s] = proc[p].copy[s]]
    /\ proc' = [proc EXCEPT ![p].pc = "load", ![p].todo = @ \ {s}, ![p].copy[s] = 0]
    /\ UNCHANGED <<row, part, banned, holder, stale, torn>>

\* update_contest: contest.participation.
Load(p) ==
    /\ proc[p].pc = "load"
    /\ proc' = [proc EXCEPT ![p].pc = "lock", ![p].dq = part.dq]
    /\ UNCHANGED <<row, points, part, banned, holder, stale, torn>>

\* Mutant: select_for_update is dropped.
LockNothing(p) ==
    /\ proc[p].pc = "lock"
    /\ holder' = p
    /\ proc' = [proc EXCEPT ![p].pc = "read"]
    /\ UNCHANGED <<row, points, part, banned, stale, torn>>

\* recompute_results: select_for_update; what it returns is not used.
Lock(p) ==
    /\ proc[p].pc = "lock"
    /\ holder = NoProc
    /\ holder' = p
    /\ proc' = [proc EXCEPT ![p].pc = "read"]
    /\ UNCHANGED <<row, points, part, banned, stale, torn>>

\* save_model: what the form has loaded is written back.  When the form changes
\* is_disqualified the transaction goes on with set_disqualified, and only what
\* that leaves is ever seen by others.
SaveForm(m, dq) ==
    LET form == proc[m].form
    IN  /\ proc[m].pc = "form"
        /\ holder = NoProc
        /\ IF dq # form.dq
              THEN /\ holder' = m
                   /\ proc' = [proc EXCEPT ![m] = [Idle EXCEPT !.pc = "read", !.dq = dq]]
                   /\ UNCHANGED <<part, stale>>
              ELSE /\ part' = [dq |-> form.dq, data |-> part.data, score |-> form.score]
                   /\ stale' = (stale \/ part' # part)
                   /\ proc' = [proc EXCEPT ![m] = Idle]
                   /\ UNCHANGED holder
        /\ UNCHANGED <<row, points, banned, torn>>

\* update_participation: the queries; when one fails the error is logged and
\* the results are saved as if there were none.
Read(p, ok) ==
    /\ proc[p].pc = "read"
    /\ proc' = [proc EXCEPT ![p].pc = "save", ![p].data = IF ok THEN Best(points) ELSE NoData]
    /\ stale' = ~ok
    /\ UNCHANGED <<row, points, part, banned, holder, torn>>

\* Mutant: the rescoring returns after its first submission.
ReturnEarly(p) ==
    IF p \in Moderator THEN [Idle EXCEPT !.pc = "ban", !.dq = proc[p].dq]
    ELSE [Idle EXCEPT !.todo = Open(p), !.copy = proc[p].copy]

\* What a process does after the transaction, and with what.
Continue(p) ==
    IF p \in Moderator THEN [Idle EXCEPT !.pc = "ban", !.dq = proc[p].dq]
    ELSE [Idle EXCEPT !.pc = IF Open(p) = {} THEN "idle" ELSE "contest",
                      !.todo = Open(p), !.copy = proc[p].copy]

\* update_participation and recompute_results: participation.save(), the copy
\* of is_disqualified included if it was loaded, and the commit.
Save(p) ==
    /\ proc[p].pc = "save"
    /\ part' = Result(IF proc[p].deferred THEN part.dq ELSE proc[p].dq, proc[p].data)
    /\ holder' = NoProc
    /\ proc' = [proc EXCEPT ![p] = Continue(p)]
    /\ UNCHANGED <<row, points, banned, stale, torn>>

\* set_disqualified: banned_users.
Ban(m) ==
    /\ proc[m].pc = "ban"
    /\ banned' = proc[m].dq
    /\ proc' = [proc EXCEPT ![m] = Idle]
    /\ UNCHANGED <<row, points, part, holder, stale, torn>>

\* A process is killed, or an exception ends it; an open transaction of its is
\* rolled back.
Crash(p) ==
    /\ proc[p].pc # "idle"
    /\ proc' = [proc EXCEPT ![p] = Idle]
    /\ holder' = IF holder = p THEN NoProc ELSE holder
    /\ stale' = (stale \/ Reads(p) \/ proc[p].pc = "save")
    /\ torn' = torn \cup Open(p)
    /\ UNCHANGED <<row, points, part, banned>>

-----------------------------------------------------------------------------
Submission(s) ==
    \/ Rejudge(s)
    \/ \E g \in Grader, n \in Grade : GradingEnd(g, s, n)

Rescoring(r) ==
    \/ \E q \in Problem : RescoreProblem(r, q)
    \/ RescoreContest(r) \/ Recalculate(r)

Moderation(m) ==
    \/ Disqualify(m) \/ OpenForm(m) \/ Ban(m)
    \/ \E dq \in BOOLEAN : SaveForm(m, dq)

Step(p) ==
    \/ \E s \in Sub : WritePoints(p, s)
    \/ Load(p) \/ Lock(p) \/ Save(p) \/ Crash(p)
    \/ \E ok \in BOOLEAN : Read(p, ok)

Next ==
    \/ \E s \in Sub : Submission(s)
    \/ \E r \in Rescorer : Rescoring(r)
    \/ \E m \in Moderator : Moderation(m)
    \/ \E p \in Proc : Step(p)

Spec == Init /\ [][Next]_vars

-----------------------------------------------------------------------------
(* Properties *)

Types ==
    /\ row \in [Sub -> Grade \cup {Ungraded}]
    /\ points \in [Sub -> Grade]
    /\ part \in Part
    /\ banned \in BOOLEAN
    /\ proc \in [Proc -> ProcState]
    /\ holder \in Proc \cup {NoProc}
    /\ stale \in BOOLEAN
    /\ torn \subseteq Sub

LockHeld == \A p \in Proc : proc[p].pc \in {"read", "save"} <=> holder = p

NothingLeft == \A p \in Proc : proc[p].pc = "idle" \/ p \in Moderator => Open(p) = {}

\* Every variable keeps its type, the lock is held by whoever is inside
\* recompute_results, and an idle process has no submission left to write.
TypeOK == Types /\ LockHeld /\ NothingLeft

\* The participation shows the results of the points in the database, and the
\* score that goes with them and with its disqualification: in
\* whatever order gradings end and results are rescored, no older result is
\* left standing once nobody is recomputing (recompute_results locks the row
\* before it reads).
ScoreIsCurrent ==
    \/ stale
    \/ \E p \in Proc : Reads(p) \/ proc[p].pc = "save"
    \/ part.data = Best(points) /\ part.score = Score(part.dq, part.data)

\* The contest counts the last grading of a submission, unless a second
\* grading ended, or a rescoring had read the row, before the first was
\* through (update_contest writes from a copy).
PointsFollowGrades ==
    \A s \in Sub :
        \/ row[s] = Ungraded
        \/ s \in torn
        \/ \E p \in Proc : s \in Open(p)
        \/ points[s] = row[s]

\* Once it is done a disqualification stands until it is taken back: a
\* banned participant has the score of the disqualified, unless an editor wrote an older row
\* back (set_disqualified; recompute_results is meant to keep concurrent
\* recomputations apart).
BannedScoresNothing ==
    \/ stale
    \/ \E m \in Moderator : proc[m].pc # "idle"
    \/ banned => part.score = Disqualified

=============================================================================
