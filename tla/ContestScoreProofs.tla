------------------------- MODULE ContestScoreProofs -------------------------
(***************************************************************************)
(* The results of a participation are current and count the last gradings, *)
(* for any submissions, problems and processes.  Nothing is used of how    *)
(* the results are computed (Best, Score): only when, and from what.       *)
(***************************************************************************)
EXTENDS ContestScore, TLAPS

Writes(p) == proc[p].pc = "save"

\* Whoever is about to write the participation has the results of the points
\* in the database, or somebody will read them after it.
SaveCurrent ==
    \A p \in Proc : Writes(p) =>
        \/ stale
        \/ \E q \in Proc : Reads(q)
        \/ proc[p].data = Best(points)

\* The points of a graded submission are on their way or written.
PointsCurrent ==
    \A s \in Sub : row[s] # Ungraded /\ s \notin torn =>
        /\ \A p \in Proc : s \in Open(p) => proc[p].copy[s] = row[s]
        /\ (\A p \in Proc : s \notin Open(p)) => points[s] = row[s]

IInv == TypeOK /\ SaveCurrent /\ ScoreIsCurrent /\ PointsCurrent

USE ProblemOfType, FullType, ProcsDistinct DEF Ungraded

-----------------------------------------------------------------------------
(* The data. *)

LEMMA ZeroGrade == 0 \in Grade
  BY DEF Grade

LEMMA NoDataType == NoData \in Data
  BY DEF Data

LEMMA BestType == ASSUME NEW pts \in [Sub -> Grade] PROVE Best(pts) \in Data
  BY DEF Data

LEMMA ResultType ==
    ASSUME NEW dq \in BOOLEAN, NEW data \in Data
    PROVE  /\ Score(dq, data) \in Scores /\ Result(dq, data) \in Part
           /\ Result(dq, data).dq = dq /\ Result(dq, data).data = data
           /\ Result(dq, data).score = Score(dq, data)
  <1>1. Score(dq, data) \in Scores
    BY DEF Scores
  <1> QED BY <1>1 DEF Part, Result

LEMMA IdleType == /\ Idle \in ProcState /\ Idle.pc = "idle" /\ Idle.todo = {}
                  /\ NoForm \in Form
  <1>1. [s \in Sub |-> 0] \in [Sub -> Grade]
    BY ZeroGrade
  <1>2. NoForm \in Form
    BY NoDataType, ResultType DEF NoForm, Form
  <1> QED BY <1>1, <1>2, NoDataType DEF Idle, ProcState

\* What Types says, one variable at a time.
LEMMA Flat ==
    ASSUME IInv
    PROVE  /\ row \in [Sub -> Grade \cup {Ungraded}] /\ points \in [Sub -> Grade]
           /\ part \in Part /\ banned \in BOOLEAN /\ proc \in [Proc -> ProcState]
           /\ holder \in Proc \cup {NoProc} /\ stale \in BOOLEAN /\ torn \subseteq Sub
           /\ \A p \in Proc : proc[p].pc \in {"read", "save"} <=> holder = p
           /\ \A p \in Proc : proc[p].pc = "idle" \/ p \in Moderator => proc[p].todo = {}
  <1> USE DEF IInv, TypeOK, Types
  <1>1. row \in [Sub -> Grade \cup {Ungraded}] /\ points \in [Sub -> Grade]
    OBVIOUS
  <1>2. part \in Part /\ proc \in [Proc -> ProcState] /\ holder \in Proc \cup {NoProc} /\ torn \subseteq Sub
    OBVIOUS
  <1>3. banned \in BOOLEAN /\ stale \in BOOLEAN
    BY Zenon
  <1>4. \A p \in Proc : proc[p].pc \in {"read", "save"} <=> holder = p
    BY DEF LockHeld
  <1>5. \A p \in Proc : proc[p].pc = "idle" \/ p \in Moderator => proc[p].todo = {}
    BY DEF NothingLeft, Open
  <1> QED BY <1>1, <1>2, <1>3, <1>4, <1>5, Zenon

-----------------------------------------------------------------------------
(* A process changes its state. *)

\* Types and the lock.
LEMMA TypeStep ==
    ASSUME IInv, NEW p \in Proc, NEW new \in ProcState, proc' = [proc EXCEPT ![p] = new],
           row' \in [Sub -> Grade \cup {Ungraded}], points' \in [Sub -> Grade], part' \in Part,
           banned' \in BOOLEAN, stale' \in BOOLEAN, torn' \subseteq Sub,
           holder' \in Proc \cup {NoProc},
           \A q \in Proc : q # p => (holder' = q <=> holder = q),
           new.pc \in {"read", "save"} <=> holder' = p,
           new.pc = "idle" \/ p \in Moderator => new.todo = {}
    PROVE  TypeOK'
  <1>1. proc' \in [Proc -> ProcState]
    BY Flat
  <1>2. proc'[p] = new /\ \A q \in Proc : q # p => proc'[q] = proc[q]
    BY Flat
  <1>3. Types'
    BY <1>1, Zenon DEF Types
  <1>4. LockHeld'
    BY <1>2, Flat DEF LockHeld
  <1>5. NothingLeft'
    BY <1>2, Flat DEF NothingLeft, Open
  <1> QED BY <1>3, <1>4, <1>5 DEF TypeOK

\* A step that writes neither points nor results: whoever was going to read
\* or to write still is, or it is known that somebody was lost.
LEMMA ScoreStep ==
    ASSUME IInv, NEW p \in Proc, NEW new \in ProcState, proc' = [proc EXCEPT ![p] = new],
           points' = points, part' = part, stale => stale', new.pc # "save",
           Reads(p) \/ Writes(p) => stale' \/ new.pc \in {"load", "lock", "read"}
    PROVE  SaveCurrent' /\ ScoreIsCurrent'
  <1>1. proc'[p] = new /\ \A q \in Proc : q # p => proc'[q] = proc[q]
    BY Flat
  <1>2. \A q \in Proc : Reads(q) => stale' \/ Reads(q)'
    BY <1>1 DEF Reads
  <1>3. \A q \in Proc : Writes(q) => stale' \/ Reads(q)' \/ (Writes(q)' /\ proc'[q] = proc[q])
    BY <1>1 DEF Reads, Writes
  <1>4. \A q \in Proc : Writes(q)' => Writes(q) /\ proc'[q] = proc[q]
    BY <1>1 DEF Writes
  <1>5. SaveCurrent'
    BY <1>2, <1>4 DEF IInv, SaveCurrent
  <1>6. ScoreIsCurrent'
    BY <1>2, <1>3 DEF IInv, ScoreIsCurrent, Writes
  <1> QED BY <1>5, <1>6

\* A step that writes neither rows nor points: what it drops is torn, and
\* what it adds it has just read.
LEMMA PointsStep ==
    ASSUME IInv, NEW p \in Proc, NEW new \in ProcState, proc' = [proc EXCEPT ![p] = new],
           row' = row, points' = points, torn \subseteq torn', proc[p].todo \ new.todo \subseteq torn',
           \A s \in Sub : s \in new.todo /\ row[s] # Ungraded =>
               new.copy[s] = row[s] \/ (s \in proc[p].todo /\ new.copy[s] = proc[p].copy[s])
    PROVE  PointsCurrent'
  <1>1. proc'[p] = new /\ \A q \in Proc : q # p => proc'[q] = proc[q]
    BY Flat
  <1> SUFFICES ASSUME NEW s \in Sub, row[s] # Ungraded, s \notin torn'
               PROVE  /\ \A q \in Proc : s \in proc'[q].todo => proc'[q].copy[s] = row[s]
                      /\ (\A q \in Proc : s \notin proc'[q].todo) => points[s] = row[s]
    BY DEF PointsCurrent, Open
  <1>2. /\ \A q \in Proc : s \in proc[q].todo => proc[q].copy[s] = row[s]
        /\ (\A q \in Proc : s \notin proc[q].todo) => points[s] = row[s]
    BY DEF IInv, PointsCurrent, Open
  <1>3. s \in proc[p].todo => s \in new.todo
    OBVIOUS
  <1>4. \A q \in Proc : s \in proc'[q].todo => proc'[q].copy[s] = row[s]
    BY <1>1, <1>2
  <1>5. (\A q \in Proc : s \notin proc'[q].todo) => points[s] = row[s]
    BY <1>1, <1>2, <1>3
  <1> QED BY <1>4, <1>5

-----------------------------------------------------------------------------
LEMMA InitInv == Init => IInv
  <1> SUFFICES ASSUME Init PROVE IInv
    OBVIOUS
  <1>1. points \in [Sub -> Grade] /\ row \in [Sub -> Grade \cup {Ungraded}]
    BY ZeroGrade DEF Init
  <1>2. part = Result(FALSE, Best(points)) /\ part \in Part
    BY <1>1, BestType, ResultType DEF Init
  <1>3. banned \in BOOLEAN /\ stale \in BOOLEAN
    BY Zenon DEF Init
  <1>4. \A p \in Proc : proc[p] = Idle
    BY DEF Init
  <1>5. proc \in [Proc -> ProcState] /\ holder = NoProc /\ torn \subseteq Sub
    BY IdleType DEF Init
  <1>6. TypeOK
    <2>1. Types
      BY <1>1, <1>2, <1>3, <1>5, Zenon DEF Types
    <2>2. LockHeld /\ NothingLeft
      BY <1>4, <1>5, IdleType DEF LockHeld, NothingLeft, Open
    <2> QED BY <2>1, <2>2 DEF TypeOK
  <1>7. SaveCurrent
    BY <1>4, IdleType DEF SaveCurrent, Writes
  <1>8. ScoreIsCurrent
    BY <1>1, <1>2, BestType, ResultType DEF ScoreIsCurrent
  <1>9. PointsCurrent
    BY DEF Init, PointsCurrent
  <1> QED BY <1>6, <1>7, <1>8, <1>9 DEF IInv

-----------------------------------------------------------------------------
(* The submissions. *)

LEMMA RejudgeInv == ASSUME IInv, NEW s \in Sub, Rejudge(s) PROVE IInv'
  <1>1. UNCHANGED <<points, part, banned, proc, holder, stale, torn>>
    BY DEF Rejudge
  <1>2. row' \in [Sub -> Grade \cup {Ungraded}] /\ \A t \in Sub : row'[t] \in {row[t], Ungraded}
    BY Flat DEF Rejudge
  <1>3. TypeOK'
    <2>1. Types'
      BY <1>1, <1>2, Flat, Zenon DEF Types
    <2> QED BY <1>1, <2>1 DEF IInv, TypeOK, LockHeld, NothingLeft, Open
  <1>4. SaveCurrent' /\ ScoreIsCurrent'
    BY <1>1 DEF IInv, SaveCurrent, ScoreIsCurrent, Reads, Writes
  <1>5. PointsCurrent'
    BY <1>1, <1>2 DEF IInv, PointsCurrent, Open
  <1> QED BY <1>3, <1>4, <1>5 DEF IInv

LEMMA GradingInv ==
    ASSUME IInv, NEW s \in Sub, NEW g \in Grader, NEW n \in Grade, GradingEnd(g, s, n) PROVE IInv'
  <1> DEFINE new == [Idle EXCEPT !.pc = "contest", !.todo = {s}, !.copy[s] = n]
  <1>1. /\ proc' = [proc EXCEPT ![g] = new] /\ proc[g].pc = "idle" /\ proc[g].todo = {}
        /\ g \in Proc /\ g \notin Moderator
    BY Flat DEF GradingEnd, Proc
  <1>2. new \in ProcState /\ new.pc = "contest" /\ new.todo = {s} /\ new.copy[s] = n
    BY IdleType DEF ProcState
  <1>3. UNCHANGED <<points, part, banned, holder, stale>> /\ row' = [row EXCEPT ![s] = n]
    BY DEF GradingEnd
  <1>4. /\ (\E p \in Proc : s \in proc[p].todo) => torn' = torn \cup {s}
        /\ (\A p \in Proc : s \notin proc[p].todo) => torn' = torn \ {s}
    BY DEF GradingEnd, Open
  <1> HIDE DEF new
  <1>5. row' \in [Sub -> Grade \cup {Ungraded}] /\ row'[s] = n /\ \A t \in Sub : t # s => row'[t] = row[t]
    BY <1>3, Flat
  <1>6. torn' \subseteq Sub /\ \A t \in Sub : t # s => (t \in torn' <=> t \in torn)
    BY <1>4, Flat
  <1>7. TypeOK'
    BY <1>1, <1>2, <1>3, <1>5, <1>6, Flat, TypeStep
  <1>8. SaveCurrent' /\ ScoreIsCurrent'
    BY <1>1, <1>2, <1>3, ScoreStep DEF Reads, Writes
  <1>9. PointsCurrent'
    <2>1. proc'[g] = new /\ \A q \in Proc : q # g => proc'[q] = proc[q]
      BY <1>1, Flat
    <2> SUFFICES ASSUME NEW t \in Sub, row'[t] # Ungraded, t \notin torn'
                 PROVE  /\ \A q \in Proc : t \in proc'[q].todo => proc'[q].copy[t] = row'[t]
                        /\ (\A q \in Proc : t \notin proc'[q].todo) => points'[t] = row'[t]
      BY DEF PointsCurrent, Open
    <2>2. CASE t = s
      <3>1. \A q \in Proc : s \notin proc[q].todo
        BY <1>4, <2>2
      <3> QED BY <1>1, <1>2, <1>5, <2>1, <2>2, <3>1
    <2>3. CASE t # s
      <3>1. /\ \A q \in Proc : t \in proc[q].todo => proc[q].copy[t] = row[t]
            /\ (\A q \in Proc : t \notin proc[q].todo) => points[t] = row[t]
        BY <1>5, <1>6, <2>3 DEF IInv, PointsCurrent, Open
      <3>2. t \notin proc'[g].todo /\ t \notin proc[g].todo
        BY <1>1, <1>2, <2>1, <2>3
      <3>3. \A q \in Proc : (t \in proc'[q].todo => t \in proc[q].todo /\ proc'[q] = proc[q])
        BY <2>1, <3>2
      <3>4. \A q \in Proc : (t \in proc[q].todo => t \in proc'[q].todo)
        BY <2>1, <3>2
      <3> QED BY <1>3, <1>5, <2>3, <3>1, <3>3, <3>4
    <2> QED BY <2>2, <2>3
  <1> QED BY <1>7, <1>8, <1>9 DEF IInv

-----------------------------------------------------------------------------
(* Those who start a recomputation. *)

\* An idle process begins with what it has read.
LEMMA StartInv ==
    ASSUME IInv, NEW p \in Proc, NEW new \in ProcState, Start(p, new),
           new.pc \in {"contest", "lock", "form"}, p \in Moderator => new.todo = {},
           \A s \in new.todo : row[s] # Ungraded => new.copy[s] = row[s]
    PROVE  IInv'
  <1>1. /\ proc' = [proc EXCEPT ![p] = new] /\ proc[p].pc = "idle" /\ proc[p].todo = {}
        /\ UNCHANGED <<row, points, part, banned, holder, stale, torn>>
    BY Flat DEF Start
  <1>2. TypeOK'
    BY <1>1, Flat, TypeStep
  <1>3. SaveCurrent' /\ ScoreIsCurrent'
    BY <1>1, ScoreStep DEF Reads, Writes
  <1>4. \A s \in Sub : s \in new.todo /\ row[s] # Ungraded =>
            new.copy[s] = row[s] \/ (s \in proc[p].todo /\ new.copy[s] = proc[p].copy[s])
    OBVIOUS
  <1>5. proc' = [proc EXCEPT ![p] = new] /\ row' = row /\ points' = points /\ torn \subseteq torn' /\ proc[p].todo \ new.todo \subseteq torn'
    BY <1>1
  <1>6. PointsCurrent'
    BY <1>4, <1>5, PointsStep
  <1> QED BY <1>2, <1>3, <1>6 DEF IInv

LEMMA RescoringInv == ASSUME IInv, NEW r \in Rescorer, Rescoring(r) PROVE IInv'
  <1>0. r \in Proc /\ r \notin Moderator
    BY DEF Proc
  <1>1. ASSUME NEW q \in Problem, RescoreProblem(r, q) PROVE IInv'
    <2> DEFINE subs == {s \in Sub : ProblemOf[s] = q}
               copy == [s \in Sub |-> IF s \in subs THEN Earned(row[s]) ELSE 0]
               new == [Idle EXCEPT !.pc = "contest", !.todo = subs, !.copy = copy]
    <2>1. Start(r, new)
      BY <1>1 DEF RescoreProblem
    <2>2. copy \in [Sub -> Grade]
      BY Flat, ZeroGrade DEF Earned
    <2>3. \A s \in subs : row[s] # Ungraded => copy[s] = row[s]
      BY DEF Earned
    <2> HIDE DEF copy
    <2>4. new \in ProcState /\ new.pc = "contest" /\ new.todo = subs /\ new.copy = copy
      BY <2>2, IdleType DEF ProcState
    <2> HIDE DEF new
    <2> QED BY <1>0, <2>1, <2>3, <2>4, StartInv
  <1>2. CASE RescoreContest(r)
    <2> DEFINE new == [Idle EXCEPT !.pc = "lock", !.dq = part.dq]
    <2>1. Start(r, new)
      BY <1>2 DEF RescoreContest
    <2>2. new \in ProcState /\ new.pc = "lock" /\ new.todo = {}
      BY Flat, IdleType DEF ProcState, Part
    <2> HIDE DEF new
    <2> QED BY <1>0, <2>1, <2>2, StartInv
  <1>3. CASE Recalculate(r)
    <2> DEFINE new == [Idle EXCEPT !.pc = "lock", !.deferred = TRUE]
    <2>1. Start(r, new)
      BY <1>3 DEF Recalculate
    <2>2. new \in ProcState /\ new.pc = "lock" /\ new.todo = {}
      BY IdleType DEF ProcState
    <2> HIDE DEF new
    <2> QED BY <1>0, <2>1, <2>2, StartInv
  <1> QED BY <1>1, <1>2, <1>3 DEF Rescoring

LEMMA ModerationInv == ASSUME IInv, NEW m \in Moderator, Moderation(m) PROVE IInv'
  <1>0. m \in Proc /\ proc[m].todo = {} /\ proc[m] \in ProcState
    BY Flat DEF Proc
  <1>1. CASE Disqualify(m)
    <2> DEFINE new == [Idle EXCEPT !.pc = "lock", !.dq = ~part.dq]
    <2>1. Start(m, new)
      BY <1>1 DEF Disqualify
    <2>2. new \in ProcState /\ new.pc = "lock" /\ new.todo = {}
      BY Flat, IdleType DEF ProcState, Part
    <2> HIDE DEF new
    <2> QED BY <1>0, <2>1, <2>2, StartInv
  <1>2. CASE OpenForm(m)
    <2> DEFINE form == [dq |-> part.dq, score |-> part.score]
               new == [Idle EXCEPT !.pc = "form", !.form = form]
    <2>1. Start(m, new)
      BY <1>2 DEF OpenForm
    <2>3. form \in Form
      BY Flat DEF Part, Form
    <2> HIDE DEF form
    <2>2. new \in ProcState /\ new.pc = "form" /\ new.todo = {}
      BY <2>3, IdleType DEF ProcState
    <2> HIDE DEF new
    <2> QED BY <1>0, <2>1, <2>2, StartInv
  <1>3. CASE Ban(m)
    <2>1. /\ proc' = [proc EXCEPT ![m] = Idle] /\ proc[m].pc = "ban"
          /\ UNCHANGED <<row, points, part, holder, stale, torn>>
      BY <1>3 DEF Ban
    <2>2. banned' = proc[m].dq
      BY <1>3 DEF Ban
    <2>3. banned' \in BOOLEAN
      BY <1>0, <2>2, Zenon DEF ProcState
    <2>4. TypeOK'
      BY <1>0, <2>1, <2>3, IdleType, Flat, TypeStep
    <2>5. SaveCurrent' /\ ScoreIsCurrent'
      BY <1>0, <2>1, IdleType, ScoreStep DEF Reads, Writes
    <2>6. PointsCurrent'
      BY <1>0, <2>1, IdleType, PointsStep
    <2> QED BY <2>4, <2>5, <2>6 DEF IInv
  <1>4. ASSUME NEW dq \in BOOLEAN, SaveForm(m, dq) PROVE IInv'
    <2>1. proc[m].pc = "form" /\ holder = NoProc /\ UNCHANGED <<row, points, banned, torn>>
      BY <1>4 DEF SaveForm
    <2>2. CASE dq # proc[m].form.dq
      <3> DEFINE new == [Idle EXCEPT !.pc = "read", !.dq = dq]
      <3>1. holder' = m /\ proc' = [proc EXCEPT ![m] = new] /\ UNCHANGED <<part, stale>>
        BY <1>4, <2>2 DEF SaveForm
      <3>2. new \in ProcState /\ new.pc = "read" /\ new.todo = {}
        BY IdleType DEF ProcState
      <3> HIDE DEF new
      <3>3. TypeOK'
        BY <1>0, <2>1, <3>1, <3>2, Flat, TypeStep
      <3>4. SaveCurrent' /\ ScoreIsCurrent'
        BY <1>0, <2>1, <3>1, <3>2, ScoreStep
      <3>5. PointsCurrent'
        BY <1>0, <2>1, <3>1, <3>2, PointsStep
      <3> QED BY <3>3, <3>4, <3>5 DEF IInv
    <2>3. CASE dq = proc[m].form.dq
      <3>1. /\ proc' = [proc EXCEPT ![m] = Idle] /\ UNCHANGED holder
            /\ part' = [dq |-> proc[m].form.dq, data |-> part.data, score |-> proc[m].form.score]
            /\ stale' = (stale \/ part' # part)
        BY <1>4, <2>3 DEF SaveForm
      <3>2. part' \in Part
        <4>1. proc[m].form.dq \in BOOLEAN /\ proc[m].form.score \in Scores
          BY <1>0 DEF ProcState, Form
        <4>2. part.data \in Data
          BY Flat DEF Part
        <4> QED BY <3>1, <4>1, <4>2 DEF Part
      <3>3. stale' \in BOOLEAN
        BY <3>1, Zenon
      <3>4. TypeOK'
        BY <1>0, <2>1, <3>1, <3>2, <3>3, IdleType, Flat, TypeStep
      <3>5. SaveCurrent' /\ ScoreIsCurrent'
        <4>1. CASE stale'
          BY <4>1 DEF SaveCurrent, ScoreIsCurrent
        <4>2. CASE ~stale'
          <5>1. part' = part /\ (stale => stale')
            BY <3>1, <4>2, Zenon
          <5> QED BY <1>0, <2>1, <3>1, <5>1, IdleType, ScoreStep DEF Reads, Writes
        <4> QED BY <4>1, <4>2
      <3>6. PointsCurrent'
        BY <1>0, <2>1, <3>1, IdleType, PointsStep
      <3> QED BY <3>4, <3>5, <3>6 DEF IInv
    <2> QED BY <2>2, <2>3
  <1> QED BY <1>1, <1>2, <1>3, <1>4 DEF Moderation

-----------------------------------------------------------------------------
(* update_contest and recompute_results. *)

LEMMA WriteInv == ASSUME IInv, NEW p \in Proc, NEW s \in Sub, WritePoints(p, s) PROVE IInv'
  <1> DEFINE new == [proc[p] EXCEPT !.pc = "load", !.todo = @ \ {s}, !.copy[s] = 0]
  <1>0. proc' = [proc EXCEPT ![p] = new]
    <2>1. proc' = [proc EXCEPT ![p].pc = "load", ![p].todo = @ \ {s}, ![p].copy[s] = 0]
      BY DEF WritePoints
    <2>2. DOMAIN proc = Proc
      BY Flat
    <2> QED BY <2>1, <2>2, Zenon
  <1>1. /\ proc' = [proc EXCEPT ![p] = new] /\ proc[p].pc = "contest" /\ s \in proc[p].todo
        /\ proc[p] \in ProcState /\ points' = [points EXCEPT ![s] = proc[p].copy[s]]
        /\ UNCHANGED <<row, part, banned, holder, stale, torn>>
    BY <1>0, Flat DEF WritePoints, Open
  <1>2. /\ new \in ProcState /\ new.pc = "load" /\ new.todo = proc[p].todo \ {s}
        /\ \A t \in Sub : t # s => new.copy[t] = proc[p].copy[t]
    BY <1>1, ZeroGrade DEF ProcState
  <1>3. /\ points' \in [Sub -> Grade] /\ points'[s] = proc[p].copy[s]
        /\ \A t \in Sub : t # s => points'[t] = points[t]
    BY <1>1, Flat DEF ProcState
  <1> HIDE DEF new
  <1>4. p \notin Moderator
    BY <1>1, Flat
  <1>5. proc'[p] = new /\ \A q \in Proc : q # p => proc'[q] = proc[q]
    BY <1>1, Flat
  <1>6. TypeOK'
    BY <1>1, <1>2, <1>3, <1>4, Flat, TypeStep
  <1>7. Reads(p)'
    BY <1>2, <1>5 DEF Reads
  <1>8. SaveCurrent' /\ ScoreIsCurrent'
    BY <1>7 DEF SaveCurrent, ScoreIsCurrent
  <1>9. PointsCurrent'
    <2> SUFFICES ASSUME NEW t \in Sub, row[t] # Ungraded, t \notin torn
                 PROVE  /\ \A q \in Proc : t \in proc'[q].todo => proc'[q].copy[t] = row[t]
                        /\ (\A q \in Proc : t \notin proc'[q].todo) => points'[t] = row[t]
      BY <1>1 DEF PointsCurrent, Open
    <2>1. /\ \A q \in Proc : t \in proc[q].todo => proc[q].copy[t] = row[t]
          /\ (\A q \in Proc : t \notin proc[q].todo) => points[t] = row[t]
      BY DEF IInv, PointsCurrent, Open
    <2>2. \A q \in Proc : t \in proc'[q].todo => proc'[q].copy[t] = row[t]
      BY <1>2, <1>5, <2>1
    <2>3. CASE t = s
      BY <1>1, <1>3, <2>1, <2>2, <2>3
    <2>4. CASE t # s
      <3>1. \A q \in Proc : t \in proc[q].todo => t \in proc'[q].todo
        BY <1>2, <1>5, <2>4
      <3> QED BY <1>3, <2>1, <2>2, <2>4, <3>1
    <2> QED BY <2>3, <2>4
  <1> QED BY <1>6, <1>8, <1>9 DEF IInv

LEMMA LoadInv == ASSUME IInv, NEW p \in Proc, Load(p) PROVE IInv'
  <1> DEFINE new == [proc[p] EXCEPT !.pc = "lock", !.dq = part.dq]
  <1>1. /\ proc' = [proc EXCEPT ![p] = new] /\ proc[p].pc = "load" /\ proc[p] \in ProcState
        /\ UNCHANGED <<row, points, part, banned, holder, stale, torn>>
    BY Flat DEF Load
  <1>2. new \in ProcState /\ new.pc = "lock" /\ new.todo = proc[p].todo /\ new.copy = proc[p].copy
    BY <1>1, Flat DEF ProcState, Part
  <1> HIDE DEF new
  <1>3. TypeOK'
    BY <1>1, <1>2, Flat, TypeStep
  <1>4. SaveCurrent' /\ ScoreIsCurrent'
    BY <1>1, <1>2, ScoreStep
  <1>5. PointsCurrent'
    BY <1>1, <1>2, Flat, PointsStep
  <1> QED BY <1>3, <1>4, <1>5 DEF IInv

LEMMA LockInv == ASSUME IInv, NEW p \in Proc, Lock(p) PROVE IInv'
  <1> DEFINE new == [proc[p] EXCEPT !.pc = "read"]
  <1>1. /\ proc' = [proc EXCEPT ![p] = new] /\ proc[p].pc = "lock" /\ proc[p] \in ProcState
        /\ holder = NoProc /\ holder' = p
        /\ UNCHANGED <<row, points, part, banned, stale, torn>>
    BY Flat DEF Lock
  <1>2. new \in ProcState /\ new.pc = "read" /\ new.todo = proc[p].todo /\ new.copy = proc[p].copy
    BY <1>1 DEF ProcState
  <1> HIDE DEF new
  <1>3. TypeOK'
    BY <1>1, <1>2, Flat, TypeStep
  <1>4. SaveCurrent' /\ ScoreIsCurrent'
    BY <1>1, <1>2, ScoreStep
  <1>5. PointsCurrent'
    BY <1>1, <1>2, Flat, PointsStep
  <1> QED BY <1>3, <1>4, <1>5 DEF IInv

LEMMA ReadInv == ASSUME IInv, NEW p \in Proc, NEW ok \in BOOLEAN, Read(p, ok) PROVE IInv'
  <1> DEFINE data == IF ok THEN Best(points) ELSE NoData
             new == [proc[p] EXCEPT !.pc = "save", !.data = data]
  <1>1. /\ proc' = [proc EXCEPT ![p] = new] /\ proc[p].pc = "read" /\ proc[p] \in ProcState
        /\ stale' = ~ok /\ UNCHANGED <<row, points, part, banned, holder, torn>>
    BY Flat DEF Read
  <1>2. data \in Data /\ (stale' \/ data = Best(points))
    BY <1>1, Flat, BestType, NoDataType
  <1> HIDE DEF data
  <1>3. /\ new \in ProcState /\ new.pc = "save" /\ new.data = data
        /\ new.todo = proc[p].todo /\ new.copy = proc[p].copy
    BY <1>1, <1>2 DEF ProcState
  <1> HIDE DEF new
  <1>4. stale' \in BOOLEAN
    BY <1>1, Zenon
  <1>5. TypeOK'
    BY <1>1, <1>3, <1>4, Flat, TypeStep
  <1>6. proc'[p] = new /\ \A q \in Proc : q # p => proc'[q] = proc[q]
    BY <1>1, Flat
  <1>7. \A q \in Proc : Writes(q)' => q = p
    BY <1>1, <1>6, Flat DEF Writes
  <1>8. Best(points)' = Best(points)
    BY <1>1 DEF Best
  <1>9. SaveCurrent' /\ ScoreIsCurrent'
    BY <1>2, <1>3, <1>6, <1>7, <1>8 DEF SaveCurrent, ScoreIsCurrent
  <1>10. PointsCurrent'
    BY <1>1, <1>3, Flat, PointsStep
  <1> QED BY <1>5, <1>9, <1>10 DEF IInv

LEMMA SaveInv == ASSUME IInv, NEW p \in Proc, Save(p) PROVE IInv'
  <1> DEFINE new == Continue(p)
  <1>1. /\ proc' = [proc EXCEPT ![p] = new] /\ proc[p].pc = "save" /\ proc[p] \in ProcState
        /\ holder' = NoProc
        /\ UNCHANGED <<row, points, banned, stale, torn>>
    BY Flat DEF Save
  <1>2. /\ new \in ProcState /\ new.todo = proc[p].todo /\ new.pc \in {"ban", "idle", "contest"}
        /\ (new.pc = "idle" => new.todo = {})
        /\ \A s \in Sub : s \in new.todo => new.copy[s] = proc[p].copy[s]
    <2>1. CASE p \in Moderator
      BY <1>1, <2>1, Flat, IdleType DEF Continue, ProcState
    <2>2. CASE p \notin Moderator
      <3> DEFINE pc == IF Open(p) = {} THEN "idle" ELSE "contest"
      <3>1. new = [Idle EXCEPT !.pc = pc, !.todo = proc[p].todo, !.copy = proc[p].copy]
        BY <2>2 DEF Continue, Open
      <3>2. pc \in {"idle", "contest"} /\ (pc = "idle" => proc[p].todo = {})
        BY DEF Open
      <3> HIDE DEF pc, new
      <3> QED BY <1>1, <3>1, <3>2, IdleType DEF ProcState
    <2> QED BY <2>1, <2>2
  <1> HIDE DEF new
  <1>3. /\ part' \in Part /\ part'.data = proc[p].data
        /\ part'.score = Score(part'.dq, part'.data)
    <2> DEFINE dq == IF proc[p].deferred THEN part.dq ELSE proc[p].dq
    <2>1. part' = Result(dq, proc[p].data)
      BY DEF Save
    <2>2. proc[p].dq \in BOOLEAN /\ proc[p].data \in Data /\ part.dq \in BOOLEAN
      BY <1>1, Flat DEF ProcState, Part
    <2>3. dq \in BOOLEAN
      BY <2>2
    <2> HIDE DEF dq
    <2> QED BY <2>1, <2>2, <2>3, ResultType
  <1>4. holder = p
    BY <1>1, Flat
  <1>5. TypeOK'
    BY <1>1, <1>2, <1>3, <1>4, Flat, TypeStep
  <1>6. proc'[p] = new /\ \A q \in Proc : q # p => proc'[q] = proc[q]
    BY <1>1, Flat
  <1>7. \A q \in Proc : ~Writes(q)' /\ (Reads(q) => Reads(q)')
    BY <1>1, <1>2, <1>4, <1>6, Flat DEF Writes, Reads
  <1>8. \/ stale
        \/ \E q \in Proc : Reads(q)
        \/ proc[p].data = Best(points)
    BY <1>1 DEF IInv, SaveCurrent, Writes
  <1>9. Best(points)' = Best(points)
    BY <1>1 DEF Best
  <1>10. SaveCurrent' /\ ScoreIsCurrent'
    BY <1>1, <1>3, <1>7, <1>8, <1>9 DEF SaveCurrent, ScoreIsCurrent
  <1>11. PointsCurrent'
    <2>1. proc[p].todo \ new.todo \subseteq torn' /\ torn \subseteq torn'
      BY <1>1, <1>2
    <2>2. \A s \in Sub : s \in new.todo /\ row[s] # Ungraded =>
              new.copy[s] = row[s] \/ (s \in proc[p].todo /\ new.copy[s] = proc[p].copy[s])
      BY <1>2
    <2>3. row' = row /\ points' = points
      BY <1>1
    <2> QED BY <1>1, <1>2, <2>1, <2>2, <2>3, PointsStep
  <1> QED BY <1>5, <1>10, <1>11 DEF IInv

LEMMA CrashInv == ASSUME IInv, NEW p \in Proc, Crash(p) PROVE IInv'
  <1>1. /\ proc' = [proc EXCEPT ![p] = Idle] /\ proc[p] \in ProcState /\ torn' = torn \cup proc[p].todo
        /\ UNCHANGED <<row, points, part, banned>>
    BY Flat DEF Crash, Open
  <1>2. stale' = (stale \/ Reads(p) \/ proc[p].pc = "save")
    BY DEF Crash
  <1>3. stale' \in BOOLEAN /\ (stale => stale') /\ (Reads(p) \/ Writes(p) => stale')
    BY <1>2, Zenon DEF Writes
  <1>4. holder' = IF holder = p THEN NoProc ELSE holder
    BY DEF Crash
  <1>5. torn' \subseteq Sub
    BY <1>1, Flat DEF ProcState
  <1>6. TypeOK'
    BY <1>1, <1>3, <1>4, <1>5, IdleType, Flat, TypeStep
  <1>7. SaveCurrent' /\ ScoreIsCurrent'
    BY <1>1, <1>3, IdleType, ScoreStep
  <1>8. PointsCurrent'
    BY <1>1, IdleType, PointsStep
  <1> QED BY <1>6, <1>7, <1>8 DEF IInv

-----------------------------------------------------------------------------
LEMMA StepInv == IInv /\ [Next]_vars => IInv'
  <1> SUFFICES ASSUME IInv, [Next]_vars PROVE IInv'
    OBVIOUS
  <1>1. ASSUME NEW s \in Sub, Submission(s) PROVE IInv'
    BY <1>1, RejudgeInv, GradingInv DEF Submission
  <1>2. ASSUME NEW p \in Proc, Step(p) PROVE IInv'
    BY <1>2, WriteInv, LoadInv, LockInv, SaveInv, CrashInv, ReadInv DEF Step
  <1>3. CASE UNCHANGED vars
    <2>1. UNCHANGED <<row, points, part, banned, proc, holder, stale, torn>>
      BY <1>3 DEF vars
    <2>2. Types'
      BY <2>1, Flat, Zenon DEF Types
    <2>3. LockHeld' /\ NothingLeft'
      BY <2>1 DEF IInv, TypeOK, LockHeld, NothingLeft, Open
    <2>4. Best(points)' = Best(points) /\ \A p \in Proc : Reads(p)' = Reads(p) /\ Writes(p)' = Writes(p)
      BY <2>1 DEF Best, Reads, Writes
    <2>5. SaveCurrent' /\ ScoreIsCurrent'
      BY <2>1, <2>4 DEF IInv, SaveCurrent, ScoreIsCurrent
    <2>6. PointsCurrent'
      BY <2>1 DEF IInv, PointsCurrent, Open
    <2> QED BY <2>2, <2>3, <2>5, <2>6 DEF IInv, TypeOK
  <1> QED BY <1>1, <1>2, <1>3, RescoringInv, ModerationInv DEF Next

THEOREM Invariance == Spec => []IInv
  BY InitInv, StepInv, PTL DEF Spec

-----------------------------------------------------------------------------
\* Every variable keeps its type, the lock of the participation is held by
\* whoever is inside recompute_results, and nobody idles over work.
THEOREM TypeCorrect == Spec => []TypeOK
  BY Invariance, PTL DEF IInv

\* Once nobody is recomputing, the participation has the results of the
\* points in the database.
THEOREM ScoreCurrent == Spec => []ScoreIsCurrent
  BY Invariance, PTL DEF IInv

\* The points follow the last grading of a submission.
LEMMA PointsFollowLemma == IInv => PointsFollowGrades
  BY DEF IInv, PointsCurrent, PointsFollowGrades

THEOREM PointsFollow == Spec => []PointsFollowGrades
  BY Invariance, PointsFollowLemma, PTL
=============================================================================
