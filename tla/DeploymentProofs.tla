-------------------------- MODULE DeploymentProofs --------------------------
(***************************************************************************)
(* What Deployment promises about the schema, the backup and the bridge,   *)
(* proved for any releases, schemas and faults, as long as the operator    *)
(* answers a failed restart.sh with restart.sh.                            *)
(***************************************************************************)
EXTENDS Deployment, TLAPS

OnlyRestartMends == Recovery \subseteq {"restart"}

Fits(r) == r \in Release /\ SchemaOf[r] = schema

\* A release that is committed after what the database was migrated for.
Ahead(r) == r \in Release /\ schema =< SchemaOf[r]

Busy(cmd) == script.cmd = cmd /\ script.at # "idle"

\* The colours that state.env would have started again.
RecordedFits ==
    /\ state.active # Nobody => Fits(state.release[state.active])
    /\ state.previous # Nobody => Fits(state.release[state.previous])

StateFits ==
    \/ ~broken /\ ~Busy("restart")
    \/ Running("restart", "end")
    => RecordedFits

\* Where deploy.sh may be with a candidate that the schema does not fit.
Unchecked == {"migrations", "trap", "restore", "undo"}

DeployFits ==
    Busy("deploy") \/ Busy("rollback") =>
        /\ ~broken
        /\ script.original \in Colour /\ Fits(Former)
        /\ Ahead(Candidate)
        /\ script.cmd = "rollback" \/ script.at \notin Unchecked => Fits(Candidate)

\* What restart.sh has stopped by the time it is at a command.
WebsDown == {"stopCelery", "drain", "stopBridge", "backup", "init", "bridge", "up"}
CeleriesDown == {"drain", "stopBridge", "backup", "init", "bridge", "up"}
BridgeDown == {"backup", "init", "bridge"}
Drained == {"stopBridge", "backup", "init", "bridge"}
Migrated == {"bridge", "up", "check", "switch", "persist", "end"}

RestartFits ==
    Busy("restart") =>
        /\ script.at \notin {"stopOld", "restore", "undo"}
        /\ script.original = Nobody
        /\ Candidate = head /\ script.plan.bridge = head
        /\ script.at \in WebsDown => \A s \in Slot : web[s] = Down
        /\ script.at \in CeleriesDown => \A s \in Slot : celery[s] = Down
        /\ script.at \in BridgeDown => bridge = Down
        /\ script.at \in Drained => ~unfinished
        /\ At("init") => backup
        /\ script.at \in Migrated => Fits(head)

IInv ==
    /\ TypeOK
    /\ SchemaFits
    /\ Ahead(head)
    /\ StateFits
    /\ DeployFits
    /\ RestartFits
-----------------------------------------------------------------------------
USE DEF Colour, Slot, Nobody, Down, Command, Step, services, data, memory,
        Running, At, Busy, Unchecked, WebsDown, CeleriesDown, BridgeDown,
        Drained, Migrated

\* The script has gone on to l and is otherwise what it was.
Moved(l) ==
    /\ script' \in Script
    /\ script'.at = l
    /\ script'.cmd = script.cmd
    /\ script'.plan = script.plan
    /\ script'.original = script.original
    /\ script'.target = script.target

LEMMA MoveFacts ==
    ASSUME script \in Script, NEW l \in Step, NEW k \in {0, 1, 20}, NEW b \in BOOLEAN
    PROVE  /\ script' = [script EXCEPT !.at = l] => Moved(l)
           /\ script' = [script EXCEPT !.at = l, !.code = k] => Moved(l)
           /\ script' = [script EXCEPT !.at = l, !.armed = b] => Moved(l)
           /\ script' = [script EXCEPT !.armed = b, !.at = l] => Moved(l)
<1>1. script' = [script EXCEPT !.at = l] => Moved(l)
  BY DEF Script, Moved
<1>2. script' = [script EXCEPT !.at = l, !.code = k] => Moved(l)
  BY DEF Script, Moved
<1>3. script' = [script EXCEPT !.at = l, !.armed = b] => Moved(l)
  BY DEF Script, Moved
<1>4. script' = [script EXCEPT !.armed = b, !.at = l] => Moved(l)
  BY DEF Script, Moved
<1> QED
  BY <1>1, <1>2, <1>3, <1>4

LEMMA Movement ==
    ASSUME script \in Script, NEW l \in Step
    PROVE  /\ Goto(l) => Moved(l)
           /\ Exit(1) => Moved("trap")
           /\ Exit(20) => Moved("trap")
           /\ FailLate => Moved("trap")
           /\ Then(l) => Moved(l) \/ Moved("trap")
BY MoveFacts DEF Goto, Exit, FailLate, Then

LEMMA SameCandidate ==
    ASSUME NEW l, Moved(l)
    PROVE  Candidate' = Candidate /\ Former' = Former
BY DEF Moved, Candidate, Former

LEMMA IdleTyped == Idle \in Script /\ Idle.at = "idle" /\ Idle.cmd = "deploy"
<1>1. NoState \in State
  BY DEF NoState, State
<1> QED
  BY <1>1 DEF Idle, Begin, Script

LEMMA StateTyped ==
    ASSUME NEW plan \in State, NEW c \in Colour, NEW d \in Colour \cup {Nobody},
           NEW r \in Release
    PROVE  /\ [plan EXCEPT !.active = c, !.previous = d] \in State
           /\ [plan EXCEPT !.release[c] = r] \in State
           /\ [plan EXCEPT !.bridge = r] \in State
<1>1. [plan EXCEPT !.active = c, !.previous = d] \in State
  BY DEF State
<1>2. [plan EXCEPT !.release[c] = r] \in State
  BY DEF State
<1>3. [plan EXCEPT !.bridge = r] \in State
  BY DEF State
<1> QED
  BY <1>1, <1>2, <1>3

LEMMA StepSound ==
    ASSUME IInv, OnlyRestartMends, Next
    PROVE  IInv'
PROOF
<1> USE DeploymentAssumption
<1>0. script \in Script /\ script.cmd \in Command /\ script.target \in Colour
      /\ script.plan \in State /\ script.original \in Colour \cup {Nobody}
  BY DEF IInv, TypeOK, Script
<1>a. script.at # "idle" => Candidate \in Release
  BY <1>0 DEF IInv, DeployFits, RestartFits, TypeOK, Ahead
<1>b. script.at # "idle" /\ (script.cmd # "restart" \/ script.at = "restore") =>
        script.original \in Colour /\ Former \in Release
  BY <1>0 DEF IInv, DeployFits, RestartFits, Fits
<1>c. script.plan.bridge \in Release \cup {Down}
  BY <1>0 DEF State
<1>d. schema \in Nat /\ \A r \in Release : SchemaOf[r] \in Nat
  BY DEF IInv, TypeOK
<1>1. CASE Deploy
  <2>3. TypeOK'
    BY <1>1, <1>0, <1>a, <1>b, <1>c, SMTT(20)
       DEF Deploy, Start, Begin, WithRelease, Other, May, IInv, TypeOK,
           State, Script
  <2>4. SchemaFits' /\ Ahead(head)'
    BY <1>1, <1>0, <1>a, <1>d, SMTT(20)
       DEF Deploy, Start, Begin, WithRelease, Other, May, IInv, TypeOK,
           SchemaFits, DeployFits, RestartFits, Fits, Ahead
  <2>5. StateFits'
    BY <1>1, <1>0, SMTT(20)
       DEF Deploy, Start, Begin, WithRelease, Other, May, IInv,
           StateFits, RecordedFits, Fits, State, RestartFits,
           DeployFits, Candidate, Former
  <2>6. DeployFits'
    BY <1>1, <1>0, SMTT(20)
       DEF Deploy, Start, Begin, WithRelease, Other, May, IInv,
           DeployFits, Ahead, Fits, TypeOK, StateFits, RecordedFits,
           State, Candidate, Former, OnlyRestartMends
  <2>7. RestartFits'
    BY <1>1, <1>0, SMTT(20)
       DEF Deploy, Start, Begin, WithRelease, Other, May, IInv, TypeOK,
           RestartFits, Ahead, Fits, State, Candidate, Former
  <2> QED
    BY <2>3, <2>4, <2>5, <2>6, <2>7 DEF IInv
<1>2. CASE Rollback
  <2>3. TypeOK'
    BY <1>2, <1>0, <1>a, <1>b, <1>c, SMTT(20)
       DEF Rollback, Start, Begin, May, IInv, TypeOK, State, Script
  <2>4. SchemaFits' /\ Ahead(head)'
    BY <1>2, <1>0, <1>a, <1>d, SMTT(20)
       DEF Rollback, Start, Begin, May, IInv, TypeOK, SchemaFits,
           DeployFits, RestartFits, Fits, Ahead
  <2>5. StateFits'
    BY <1>2, <1>0, SMTT(20)
       DEF Rollback, Start, Begin, May, IInv, StateFits, RecordedFits,
           Fits, State, RestartFits, DeployFits, Candidate, Former
  <2>6. DeployFits'
    BY <1>2, <1>0, SMTT(20)
       DEF Rollback, Start, Begin, May, IInv, DeployFits, Ahead, Fits,
           TypeOK, StateFits, RecordedFits, State, Candidate, Former,
           OnlyRestartMends
  <2>7. RestartFits'
    BY <1>2, <1>0, SMTT(20)
       DEF Rollback, Start, Begin, May, IInv, TypeOK, RestartFits,
           Ahead, Fits, State, Candidate, Former
  <2> QED
    BY <2>3, <2>4, <2>5, <2>6, <2>7 DEF IInv
<1>3. CASE Restart
  <2>3. TypeOK'
    <3>1. script' \in Script
      <4> DEFINE target == IF state.active # Nobody THEN Other(state.active) ELSE "blue"
                 plan == IF state.active # Nobody THEN state ELSE FirstState
      <4>1. FirstState \in State /\ state \in State /\ head \in Release
        BY DEF FirstState, State, IInv, TypeOK
      <4>2. target \in Colour
        BY <4>1 DEF Other
      <4>3. [plan EXCEPT !.release[target] = head] \in State
        BY <4>1, <4>2, StateTyped
      <4>4. [[plan EXCEPT !.release[target] = head] EXCEPT !.bridge = head] \in State
        BY <4>1, <4>3, StateTyped
      <4>5. script' = Begin("restart", "maintenance", Nobody, target,
                            [[plan EXCEPT !.release[target] = head] EXCEPT !.bridge = head])
        BY <1>3 DEF Restart, Start, WithRelease
      <4> HIDE DEF target, plan
      <4> QED
        BY <4>2, <4>4, <4>5 DEF Begin, Script
    <3>2. UNCHANGED <<web, ready, celery, head, bridge, route, schema, unfinished, backup, broken, shaken, state>>
      BY <1>3 DEF Restart, Start, Begin, WithRelease, Other, FirstState, May
    <3> QED
      BY <3>1, <3>2 DEF IInv, TypeOK
  <2>4. SchemaFits' /\ Ahead(head)'
    BY <1>3, <1>0, <1>a, <1>d, SMTT(20)
       DEF Restart, Start, Begin, WithRelease, Other, FirstState, May,
           IInv, TypeOK, SchemaFits, DeployFits, RestartFits, Fits,
           Ahead
  <2>5. StateFits'
    BY <1>3, <1>0, SMTT(20)
       DEF Restart, Start, Begin, WithRelease, Other, FirstState, May,
           IInv, StateFits, RecordedFits, Fits, State, RestartFits,
           DeployFits, Candidate, Former
  <2>6. DeployFits'
    BY <1>3, <1>0, SMTT(20)
       DEF Restart, Start, Begin, WithRelease, Other, FirstState, May,
           IInv, DeployFits, Ahead, Fits, TypeOK, StateFits,
           RecordedFits, State, Candidate, Former, OnlyRestartMends
  <2>7. RestartFits'
    <3> DEFINE target == IF state.active # Nobody THEN Other(state.active) ELSE "blue"
               plan == IF state.active # Nobody THEN state ELSE FirstState
    <3>1. FirstState \in State /\ state \in State /\ head' = head
      BY <1>3 DEF Restart, Start, FirstState, State, IInv, TypeOK
    <3>2. target \in Colour /\ plan \in State
      BY <3>1 DEF Other, State
    <3>3. script' = Begin("restart", "maintenance", Nobody, target,
                          [[plan EXCEPT !.release[target] = head] EXCEPT !.bridge = head])
      BY <1>3 DEF Restart, Start, WithRelease
    <3> HIDE DEF target, plan
    <3>4. script'.plan.release[target] = head /\ script'.plan.bridge = head
      BY <3>2, <3>3 DEF Begin, State
    <3> QED
      BY <3>1, <3>2, <3>3, <3>4 DEF Begin, RestartFits, Candidate
  <2> QED
    BY <2>3, <2>4, <2>5, <2>6, <2>7 DEF IInv
<1>4. CASE CheckMigrations
  <2>1. Moved("trap") \/ (Moved("up") /\ Fits(Candidate))
    <3>1. Candidate \in Release /\ schema =< SchemaOf[Candidate]
      BY <1>4, <1>a DEF CheckMigrations, IInv, DeployFits, Ahead
    <3>2. SchemaOf[Candidate] =< schema => Fits(Candidate)
      <4> HIDE DeploymentAssumption
      <4> QED
        BY <1>d, <3>1 DEF Fits
    <3> QED
      BY <1>4, <1>0, <3>2, Movement DEF CheckMigrations
  <2>2. Candidate' = Candidate /\ Former' = Former
    BY <2>1, SameCandidate
  <2>3. TypeOK'
    BY <1>4, <1>0, <1>a, <1>b, <1>c, <2>1, SMTT(20)
       DEF CheckMigrations, Moved, IInv, TypeOK
  <2>4. SchemaFits' /\ Ahead(head)'
    BY <1>4, <1>0, <1>a, <1>d, <2>1, SMTT(20)
       DEF CheckMigrations, Moved, IInv, TypeOK, SchemaFits, DeployFits,
           RestartFits, Fits, Ahead
  <2>5. StateFits'
    BY <1>4, <1>0, <2>1, SMTT(20)
       DEF CheckMigrations, Moved, IInv, StateFits, RecordedFits, Fits
  <2>6. DeployFits'
    BY <1>4, <1>0, <2>1, <2>2, SMTT(20)
       DEF CheckMigrations, Moved, IInv, DeployFits, Ahead, Fits
  <2>7. RestartFits'
    BY <1>4, <1>0, <2>1, <2>2, SMTT(20)
       DEF CheckMigrations, Moved, IInv, TypeOK, RestartFits, Ahead,
           Fits
  <2> QED
    BY <2>3, <2>4, <2>5, <2>6, <2>7 DEF IInv
<1>5. CASE Maintenance
  <2>1. Moved("trap") \/ Moved("stopWeb")
    BY <1>5, <1>0, Movement, MoveFacts DEF Maintenance
  <2>2. Candidate' = Candidate /\ Former' = Former
    BY <2>1, SameCandidate
  <2>3. TypeOK'
    <3>1. script' \in Script
      BY <2>1 DEF Moved
    <3>2. head' \in Release /\ bridge' \in Release \cup {Down} /\ route' \in Slot \cup {"maintenance"}
      BY <1>5, <1>0, <1>b, <1>c, SMTT(20)
         DEF Maintenance, FailLate, IInv, TypeOK
    <3>3. broken' \in BOOLEAN /\ shaken' \in BOOLEAN
      BY <1>5, Zenon DEF Maintenance, FailLate, IInv, TypeOK
    <3>4. UNCHANGED <<web, ready, celery, schema, unfinished, backup, state>>
      BY <1>5 DEF Maintenance, FailLate
    <3> QED
      BY <3>1, <3>2, <3>3, <3>4 DEF IInv, TypeOK
  <2>4. SchemaFits' /\ Ahead(head)'
    BY <1>5, <1>0, <1>a, <1>d, <2>1, SMTT(20)
       DEF Maintenance, FailLate, Moved, IInv, TypeOK, SchemaFits,
           DeployFits, RestartFits, Fits, Ahead
  <2>5. StateFits'
    BY <1>5, <1>0, <2>1, SMTT(20)
       DEF Maintenance, FailLate, Moved, IInv, StateFits, RecordedFits,
           Fits
  <2>6. DeployFits'
    BY <1>5, <1>0, <2>1, <2>2, SMTT(20)
       DEF Maintenance, FailLate, Moved, IInv, DeployFits, Ahead, Fits
  <2>7. RestartFits'
    BY <1>5, <1>0, <2>1, <2>2, SMTT(20)
       DEF Maintenance, FailLate, Moved, IInv, TypeOK, RestartFits,
           Ahead, Fits
  <2> QED
    BY <2>3, <2>4, <2>5, <2>6, <2>7 DEF IInv
<1>6. CASE StopWeb
  <2>1. Moved("trap") \/ Moved("stopCelery")
    BY <1>6, <1>0, Movement, MoveFacts DEF StopWeb
  <2>2. Candidate' = Candidate /\ Former' = Former
    BY <2>1, SameCandidate
  <2>3. TypeOK'
    BY <1>6, <1>0, <1>a, <1>b, <1>c, <2>1, SMTT(20)
       DEF StopWeb, StopWebs, Moved, IInv, TypeOK
  <2>4. SchemaFits' /\ Ahead(head)'
    BY <1>6, <1>0, <1>a, <1>d, <2>1, SMTT(20)
       DEF StopWeb, StopWebs, Moved, IInv, TypeOK, SchemaFits,
           DeployFits, RestartFits, Fits, Ahead
  <2>5. StateFits'
    BY <1>6, <1>0, <2>1, SMTT(20)
       DEF StopWeb, StopWebs, Moved, IInv, StateFits, RecordedFits, Fits
  <2>6. DeployFits'
    BY <1>6, <1>0, <2>1, <2>2, SMTT(20)
       DEF StopWeb, StopWebs, Moved, IInv, DeployFits, Ahead, Fits
  <2>7. RestartFits'
    BY <1>6, <1>0, <2>1, <2>2, SMTT(20)
       DEF StopWeb, StopWebs, Moved, IInv, TypeOK, RestartFits, Ahead,
           Fits
  <2> QED
    BY <2>3, <2>4, <2>5, <2>6, <2>7 DEF IInv
<1>7. CASE StopCelery
  <2>1. Moved("trap") \/ Moved("drain")
    BY <1>7, <1>0, Movement, MoveFacts DEF StopCelery
  <2>2. Candidate' = Candidate /\ Former' = Former
    BY <2>1, SameCandidate
  <2>3. TypeOK'
    BY <1>7, <1>0, <1>a, <1>b, <1>c, <2>1, SMTT(20)
       DEF StopCelery, StopCeleries, Moved, IInv, TypeOK
  <2>4. SchemaFits' /\ Ahead(head)'
    BY <1>7, <1>0, <1>a, <1>d, <2>1, SMTT(20)
       DEF StopCelery, StopCeleries, Moved, IInv, TypeOK, SchemaFits,
           DeployFits, RestartFits, Fits, Ahead
  <2>5. StateFits'
    BY <1>7, <1>0, <2>1, SMTT(20)
       DEF StopCelery, StopCeleries, Moved, IInv, StateFits,
           RecordedFits, Fits
  <2>6. DeployFits'
    BY <1>7, <1>0, <2>1, <2>2, SMTT(20)
       DEF StopCelery, StopCeleries, Moved, IInv, DeployFits, Ahead,
           Fits
  <2>7. RestartFits'
    BY <1>7, <1>0, <2>1, <2>2, SMTT(20)
       DEF StopCelery, StopCeleries, Moved, IInv, TypeOK, RestartFits,
           Ahead, Fits
  <2> QED
    BY <2>3, <2>4, <2>5, <2>6, <2>7 DEF IInv
<1>8. CASE Drain
  <2>1. Moved("stopBridge")
    BY <1>8, <1>0, Movement, MoveFacts DEF Drain
  <2>2. Candidate' = Candidate /\ Former' = Former
    BY <2>1, SameCandidate
  <2>3. TypeOK'
    BY <1>8, <1>0, <1>a, <1>b, <1>c, <2>1, SMTT(20)
       DEF Drain, Moved, IInv, TypeOK
  <2>4. SchemaFits' /\ Ahead(head)'
    BY <1>8, <1>0, <1>a, <1>d, <2>1, SMTT(20)
       DEF Drain, Moved, IInv, TypeOK, SchemaFits, DeployFits,
           RestartFits, Fits, Ahead
  <2>5. StateFits'
    BY <1>8, <1>0, <2>1, SMTT(20)
       DEF Drain, Moved, IInv, StateFits, RecordedFits, Fits
  <2>6. DeployFits'
    BY <1>8, <1>0, <2>1, <2>2, SMTT(20)
       DEF Drain, Moved, IInv, DeployFits, Ahead, Fits
  <2>7. RestartFits'
    BY <1>8, <1>0, <2>1, <2>2, SMTT(20)
       DEF Drain, Moved, IInv, TypeOK, RestartFits, Ahead, Fits
  <2> QED
    BY <2>3, <2>4, <2>5, <2>6, <2>7 DEF IInv
<1>9. CASE StopBridge
  <2>1. Moved("trap") \/ Moved("backup")
    BY <1>9, <1>0, Movement, MoveFacts DEF StopBridge
  <2>2. Candidate' = Candidate /\ Former' = Former
    BY <2>1, SameCandidate
  <2>3. TypeOK'
    BY <1>9, <1>0, <1>a, <1>b, <1>c, <2>1, SMTT(20)
       DEF StopBridge, Moved, IInv, TypeOK
  <2>4. SchemaFits' /\ Ahead(head)'
    BY <1>9, <1>0, <1>a, <1>d, <2>1, SMTT(20)
       DEF StopBridge, Moved, IInv, TypeOK, SchemaFits, DeployFits,
           RestartFits, Fits, Ahead
  <2>5. StateFits'
    BY <1>9, <1>0, <2>1, SMTT(20)
       DEF StopBridge, Moved, IInv, StateFits, RecordedFits, Fits
  <2>6. DeployFits'
    BY <1>9, <1>0, <2>1, <2>2, SMTT(20)
       DEF StopBridge, Moved, IInv, DeployFits, Ahead, Fits
  <2>7. RestartFits'
    BY <1>9, <1>0, <2>1, <2>2, SMTT(20)
       DEF StopBridge, Moved, IInv, TypeOK, RestartFits, Ahead, Fits
  <2> QED
    BY <2>3, <2>4, <2>5, <2>6, <2>7 DEF IInv
<1>10. CASE Backup
  <2>1. Moved("trap") \/ Moved("init")
    BY <1>10, <1>0, Movement, MoveFacts DEF Backup
  <2>2. Candidate' = Candidate /\ Former' = Former
    BY <2>1, SameCandidate
  <2>3. TypeOK'
    BY <1>10, <1>0, <1>a, <1>b, <1>c, <2>1, SMTT(20)
       DEF Backup, Moved, IInv, TypeOK
  <2>4. SchemaFits' /\ Ahead(head)'
    BY <1>10, <1>0, <1>a, <1>d, <2>1, SMTT(20)
       DEF Backup, Moved, IInv, TypeOK, SchemaFits, DeployFits,
           RestartFits, Fits, Ahead
  <2>5. StateFits'
    BY <1>10, <1>0, <2>1, SMTT(20)
       DEF Backup, Moved, IInv, StateFits, RecordedFits, Fits
  <2>6. DeployFits'
    BY <1>10, <1>0, <2>1, <2>2, SMTT(20)
       DEF Backup, Moved, IInv, DeployFits, Ahead, Fits
  <2>7. RestartFits'
    BY <1>10, <1>0, <2>1, <2>2, SMTT(20)
       DEF Backup, Moved, IInv, TypeOK, RestartFits, Ahead, Fits
  <2> QED
    BY <2>3, <2>4, <2>5, <2>6, <2>7 DEF IInv
<1>11. CASE Migrate
  <2>1. Moved("trap") \/ Moved("bridge")
    BY <1>11, <1>0, Movement, MoveFacts DEF Migrate
  <2>2. Candidate' = Candidate /\ Former' = Former
    BY <2>1, SameCandidate
  <2>3. TypeOK'
    <3>1. script' \in Script
      BY <2>1 DEF Moved
    <3>2. schema' \in {SchemaOf[r] : r \in Release}
      <4>1. Candidate \in Release /\ schema' = SchemaOf[Candidate]
        BY <1>11, <1>a DEF Migrate
      <4> QED
        BY <4>1
    <3>3. UNCHANGED <<web, ready, celery, head, bridge, route, unfinished, backup, broken, shaken, state>>
      BY <1>11 DEF Migrate
    <3> QED
      BY <3>1, <3>2, <3>3 DEF IInv, TypeOK
  <2>4. SchemaFits' /\ Ahead(head)'
    BY <1>11, <1>0, <1>a, <1>d, <2>1, SMTT(20)
       DEF Migrate, Moved, IInv, TypeOK, SchemaFits, DeployFits,
           RestartFits, Fits, Ahead
  <2>5. StateFits'
    BY <1>11, <1>0, <2>1, SMTT(20)
       DEF Migrate, Moved, IInv, StateFits, RecordedFits, Fits
  <2>6. DeployFits'
    BY <1>11, <1>0, <2>1, <2>2, SMTT(20)
       DEF Migrate, Moved, IInv, DeployFits, Ahead, Fits
  <2>7. RestartFits'
    BY <1>11, <1>0, <2>1, <2>2, SMTT(20)
       DEF Migrate, Moved, IInv, TypeOK, RestartFits, Ahead, Fits
  <2> QED
    BY <2>3, <2>4, <2>5, <2>6, <2>7 DEF IInv
<1>12. CASE StartBridge
  <2>1. Moved("trap") \/ Moved("up")
    BY <1>12, <1>0, Movement, MoveFacts DEF StartBridge
  <2>2. Candidate' = Candidate /\ Former' = Former
    BY <2>1, SameCandidate
  <2>3. TypeOK'
    BY <1>12, <1>0, <1>a, <1>b, <1>c, <2>1, SMTT(20)
       DEF StartBridge, Moved, IInv, TypeOK
  <2>4. SchemaFits' /\ Ahead(head)'
    BY <1>12, <1>0, <1>a, <1>d, <2>1, SMTT(20)
       DEF StartBridge, Moved, IInv, TypeOK, SchemaFits, DeployFits,
           RestartFits, Fits, Ahead
  <2>5. StateFits'
    BY <1>12, <1>0, <2>1, SMTT(20)
       DEF StartBridge, Moved, IInv, StateFits, RecordedFits, Fits
  <2>6. DeployFits'
    BY <1>12, <1>0, <2>1, <2>2, SMTT(20)
       DEF StartBridge, Moved, IInv, DeployFits, Ahead, Fits
  <2>7. RestartFits'
    BY <1>12, <1>0, <2>1, <2>2, SMTT(20)
       DEF StartBridge, Moved, IInv, TypeOK, RestartFits, Ahead, Fits
  <2> QED
    BY <2>3, <2>4, <2>5, <2>6, <2>7 DEF IInv
<1>13. CASE Up
  <2>1. Moved("trap") \/ Moved("check")
    BY <1>13, <1>0, Movement, MoveFacts DEF Up
  <2>2. Candidate' = Candidate /\ Former' = Former
    BY <2>1, SameCandidate
  <2>3. TypeOK'
    <3>1. script' \in Script
      BY <2>1 DEF Moved
    <3>2. web' \in [Slot -> Release \cup {Down}] /\ ready' \subseteq Slot
      <4>1. web' \in [Slot -> Release \cup {Down}]
        BY <1>13, <1>0, <1>a DEF Up, UpWeb, IInv, TypeOK
      <4>2. ready' = ready \/ ready' = ready \ {script.target}
        BY <1>13, Zenon DEF Up, UpWeb
      <4> QED
        BY <4>1, <4>2, <1>0 DEF IInv, TypeOK
    <3>3. celery' \in [Slot -> Release \cup {Down}]
      BY <1>13, <1>0, <1>a, <1>b, SMTT(20)
         DEF Up, UpWeb, UpCelery, IInv, TypeOK
    <3>4. UNCHANGED <<head, bridge, route, schema, unfinished, backup, broken, shaken, state>>
      BY <1>13 DEF Up, UpWeb, UpCelery
    <3> QED
      BY <3>1, <3>2, <3>3, <3>4 DEF IInv, TypeOK
  <2>4. SchemaFits' /\ Ahead(head)'
    BY <1>13, <1>0, <1>a, <1>d, <2>1, SMTT(20)
       DEF Up, UpWeb, UpCelery, Moved, IInv, TypeOK, SchemaFits,
           DeployFits, RestartFits, Fits, Ahead
  <2>5. StateFits'
    BY <1>13, <1>0, <2>1, SMTT(20)
       DEF Up, UpWeb, UpCelery, Moved, IInv, StateFits, RecordedFits,
           Fits
  <2>6. DeployFits'
    BY <1>13, <1>0, <2>1, <2>2, SMTT(20)
       DEF Up, UpWeb, UpCelery, Moved, IInv, DeployFits, Ahead, Fits
  <2>7. RestartFits'
    BY <1>13, <1>0, <2>1, <2>2, SMTT(20)
       DEF Up, UpWeb, UpCelery, Moved, IInv, TypeOK, RestartFits, Ahead,
           Fits
  <2> QED
    BY <2>3, <2>4, <2>5, <2>6, <2>7 DEF IInv
<1>14. CASE Check
  <2>1. Moved("switch")
    BY <1>14, <1>0, Movement, MoveFacts DEF Check
  <2>2. Candidate' = Candidate /\ Former' = Former
    BY <2>1, SameCandidate
  <2>3. TypeOK'
    <3>1. script' \in Script
      BY <2>1 DEF Moved
    <3>2. web' \in [Slot -> Release \cup {Down}] /\ ready' \subseteq Slot
      BY <1>14, <1>0, Zenon DEF Check, IInv, TypeOK
    <3>3. UNCHANGED <<celery, head, bridge, route, schema, unfinished, backup, broken, shaken, state>>
      BY <1>14 DEF Check
    <3> QED
      BY <3>1, <3>2, <3>3 DEF IInv, TypeOK
  <2>4. SchemaFits' /\ Ahead(head)'
    BY <1>14, <1>0, <1>a, <1>d, <2>1, SMTT(20)
       DEF Check, Moved, IInv, TypeOK, SchemaFits, DeployFits,
           RestartFits, Fits, Ahead
  <2>5. StateFits'
    BY <1>14, <1>0, <2>1, SMTT(20)
       DEF Check, Moved, IInv, StateFits, RecordedFits, Fits
  <2>6. DeployFits'
    BY <1>14, <1>0, <2>1, <2>2, SMTT(20)
       DEF Check, Moved, IInv, DeployFits, Ahead, Fits
  <2>7. RestartFits'
    BY <1>14, <1>0, <2>1, <2>2, SMTT(20)
       DEF Check, Moved, IInv, TypeOK, RestartFits, Ahead, Fits
  <2> QED
    BY <2>3, <2>4, <2>5, <2>6, <2>7 DEF IInv
<1>15. CASE Switch
  <2>1. \/ Moved("trap")
        \/ script.cmd = "deploy" /\ Moved("celery")
        \/ script.cmd = "rollback" /\ Moved("stopOld")
        \/ script.cmd = "restart" /\ Moved("persist")
    <3>1. CASE script.cmd = "deploy"
      BY <1>15, <1>0, <3>1, Movement, MoveFacts DEF Switch
    <3>2. CASE script.cmd = "rollback"
      BY <1>15, <1>0, <3>2, Movement, MoveFacts DEF Switch
    <3>3. CASE script.cmd = "restart"
      BY <1>15, <1>0, <3>3, Movement, MoveFacts DEF Switch
    <3> QED
      BY <1>0, <3>1, <3>2, <3>3
  <2>2. Candidate' = Candidate /\ Former' = Former
    BY <2>1, SameCandidate
  <2>3. TypeOK'
    <3>1. script' \in Script
      BY <2>1 DEF Moved
    <3>2. head' \in Release /\ bridge' \in Release \cup {Down} /\ route' \in Slot \cup {"maintenance"}
      BY <1>15, <1>0, <1>b, <1>c, SMTT(20) DEF Switch, FailLate, IInv, TypeOK
    <3>3. broken' \in BOOLEAN /\ shaken' \in BOOLEAN
      BY <1>15, Zenon DEF Switch, FailLate, IInv, TypeOK
    <3>4. UNCHANGED <<web, ready, celery, schema, unfinished, backup, state>>
      BY <1>15 DEF Switch, FailLate
    <3> QED
      BY <3>1, <3>2, <3>3, <3>4 DEF IInv, TypeOK
  <2>4. SchemaFits' /\ Ahead(head)'
    BY <1>15, <1>0, <1>a, <1>d, <2>1, SMTT(20)
       DEF Switch, FailLate, Moved, IInv, TypeOK, SchemaFits,
           DeployFits, RestartFits, Fits, Ahead
  <2>5. StateFits'
    BY <1>15, <1>0, <2>1, SMTT(20)
       DEF Switch, FailLate, Moved, IInv, StateFits, RecordedFits, Fits
  <2>6. DeployFits'
    BY <1>15, <1>0, <2>1, <2>2, SMTT(20)
       DEF Switch, FailLate, Moved, IInv, DeployFits, Ahead, Fits
  <2>7. RestartFits'
    BY <1>15, <1>0, <2>1, <2>2, SMTT(20)
       DEF Switch, FailLate, Moved, IInv, TypeOK, RestartFits, Ahead,
           Fits
  <2> QED
    BY <2>3, <2>4, <2>5, <2>6, <2>7 DEF IInv
<1>16. CASE StartCelery
  <2>1. Moved("trap") \/ Moved("stopOld")
    BY <1>16, <1>0, Movement, MoveFacts DEF StartCelery
  <2>2. Candidate' = Candidate /\ Former' = Former
    BY <2>1, SameCandidate
  <2>3. TypeOK'
    BY <1>16, <1>0, <1>a, <1>b, <1>c, <2>1, SMTT(20)
       DEF StartCelery, UpCelery, Moved, IInv, TypeOK
  <2>4. SchemaFits' /\ Ahead(head)'
    BY <1>16, <1>0, <1>a, <1>d, <2>1, SMTT(20)
       DEF StartCelery, UpCelery, Moved, IInv, TypeOK, SchemaFits,
           DeployFits, RestartFits, Fits, Ahead
  <2>5. StateFits'
    BY <1>16, <1>0, <2>1, SMTT(20)
       DEF StartCelery, UpCelery, Moved, IInv, StateFits, RecordedFits,
           Fits
  <2>6. DeployFits'
    BY <1>16, <1>0, <2>1, <2>2, SMTT(20)
       DEF StartCelery, UpCelery, Moved, IInv, DeployFits, Ahead, Fits
  <2>7. RestartFits'
    BY <1>16, <1>0, <2>1, <2>2, SMTT(20)
       DEF StartCelery, UpCelery, Moved, IInv, TypeOK, RestartFits,
           Ahead, Fits
  <2> QED
    BY <2>3, <2>4, <2>5, <2>6, <2>7 DEF IInv
<1>17. CASE StopOldCelery
  <2>1. Moved("trap") \/ Moved("persist")
    BY <1>17, <1>0, Movement, MoveFacts DEF StopOldCelery
  <2>2. Candidate' = Candidate /\ Former' = Former
    BY <2>1, SameCandidate
  <2>3. TypeOK'
    BY <1>17, <1>0, <1>a, <1>b, <1>c, <2>1, SMTT(20)
       DEF StopOldCelery, StopCeleries, Moved, IInv, TypeOK
  <2>4. SchemaFits' /\ Ahead(head)'
    BY <1>17, <1>0, <1>a, <1>d, <2>1, SMTT(20)
       DEF StopOldCelery, StopCeleries, Moved, IInv, TypeOK, SchemaFits,
           DeployFits, RestartFits, Fits, Ahead
  <2>5. StateFits'
    BY <1>17, <1>0, <2>1, SMTT(20)
       DEF StopOldCelery, StopCeleries, Moved, IInv, StateFits,
           RecordedFits, Fits
  <2>6. DeployFits'
    BY <1>17, <1>0, <2>1, <2>2, SMTT(20)
       DEF StopOldCelery, StopCeleries, Moved, IInv, DeployFits, Ahead,
           Fits
  <2>7. RestartFits'
    BY <1>17, <1>0, <2>1, <2>2, SMTT(20)
       DEF StopOldCelery, StopCeleries, Moved, IInv, TypeOK,
           RestartFits, Ahead, Fits
  <2> QED
    BY <2>3, <2>4, <2>5, <2>6, <2>7 DEF IInv
<1>18. CASE Persist
  <2>1. Moved("end")
    BY <1>18, <1>0, Movement, MoveFacts DEF Persist
  <2>2. Candidate' = Candidate /\ Former' = Former
    BY <2>1, SameCandidate
  <2>3. TypeOK'
    <3>1. script' \in Script
      BY <2>1 DEF Moved
    <3>2. state' \in State
      BY <1>18, <1>0, StateTyped DEF Persist
    <3>3. UNCHANGED <<web, ready, celery, head, bridge, route, schema, unfinished, backup, broken, shaken>>
      BY <1>18 DEF Persist
    <3> QED
      BY <3>1, <3>2, <3>3 DEF IInv, TypeOK
  <2>4. SchemaFits' /\ Ahead(head)'
    BY <1>18, <1>0, <1>a, <1>d, <2>1, SMTT(20)
       DEF Persist, Moved, IInv, TypeOK, SchemaFits, DeployFits,
           RestartFits, Fits, Ahead
  <2>5. StateFits'
    BY <1>18, <1>0, <2>1, <2>2, SMTT(20)
       DEF Persist, Moved, IInv, TypeOK, State, Script, StateFits,
           DeployFits, RestartFits, RecordedFits, Candidate, Former,
           Fits
  <2>6. DeployFits'
    BY <1>18, <1>0, <2>1, <2>2, SMTT(20)
       DEF Persist, Moved, IInv, DeployFits, Ahead, Fits
  <2>7. RestartFits'
    BY <1>18, <1>0, <2>1, <2>2, SMTT(20)
       DEF Persist, Moved, IInv, TypeOK, RestartFits, Ahead, Fits
  <2> QED
    BY <2>3, <2>4, <2>5, <2>6, <2>7 DEF IInv
<1>19. CASE End
  <2>1. script' = Idle \/ Moved("trap")
    BY <1>19, <1>0, Movement DEF End
  <2>2. Moved("trap") => Candidate' = Candidate /\ Former' = Former
    BY SameCandidate
  <2>3. TypeOK'
    <3>1. script' \in Script
      BY <2>1, IdleTyped DEF Moved
    <3>2. broken' \in BOOLEAN /\ shaken' \in BOOLEAN
      BY <1>19, Zenon DEF End, FailLate, IInv, TypeOK
    <3>3. UNCHANGED <<web, ready, celery, head, bridge, route, schema, unfinished, backup, state>>
      BY <1>19 DEF End, FailLate
    <3> QED
      BY <3>1, <3>2, <3>3 DEF IInv, TypeOK
  <2>4. SchemaFits' /\ Ahead(head)'
    BY <1>19, <1>0, <1>a, <1>d, IdleTyped, SMTT(20)
       DEF End, FailLate, IInv, TypeOK, SchemaFits, DeployFits,
           RestartFits, Fits, Ahead
  <2>5. StateFits'
    BY <1>19, <1>0, IdleTyped, SMTT(20)
       DEF End, FailLate, IInv, StateFits, RecordedFits, Fits, State,
           RestartFits, DeployFits, Candidate, Former
  <2>6. DeployFits'
    BY <1>19, <2>1, <2>2, IdleTyped, SMTT(20)
       DEF End, FailLate, IInv, StateFits, DeployFits, Fits, Ahead,
           Moved
  <2>7. RestartFits'
    BY <1>19, <2>1, <2>2, IdleTyped, SMTT(20)
       DEF End, FailLate, Moved, IInv, RestartFits
  <2> QED
    BY <2>3, <2>4, <2>5, <2>6, <2>7 DEF IInv
<1>20. CASE Fail
  <2>1. Moved("trap")
    BY <1>20, <1>0, Movement, MoveFacts DEF Fail
  <2>2. Candidate' = Candidate /\ Former' = Former
    BY <2>1, SameCandidate
  <2>3. TypeOK'
    BY <1>20, <1>0, <1>a, <1>b, <1>c, <2>1, SMTT(20)
       DEF Fail, Moved, IInv, TypeOK
  <2>4. SchemaFits' /\ Ahead(head)'
    BY <1>20, <1>0, <1>a, <1>d, <2>1, SMTT(20)
       DEF Fail, Moved, IInv, TypeOK, SchemaFits, DeployFits,
           RestartFits, Fits, Ahead
  <2>5. StateFits'
    BY <1>20, <1>0, <2>1, SMTT(20)
       DEF Fail, Moved, IInv, StateFits, RecordedFits, Fits
  <2>6. DeployFits'
    BY <1>20, <1>0, <2>1, <2>2, SMTT(20)
       DEF Fail, Moved, IInv, DeployFits, Ahead, Fits
  <2>7. RestartFits'
    BY <1>20, <1>0, <2>1, <2>2, SMTT(20)
       DEF Fail, Moved, IInv, TypeOK, RestartFits, Ahead, Fits
  <2> QED
    BY <2>3, <2>4, <2>5, <2>6, <2>7 DEF IInv
<1>21. CASE ReportFailure
  <2>3. TypeOK'
    <3>1. script' \in Script
      BY <1>21, <1>0, IdleTyped, SMTT(20)
         DEF ReportFailure, IInv, TypeOK, State, Script
    <3>2. head' \in Release /\ bridge' \in Release \cup {Down} /\ route' \in Slot \cup {"maintenance"}
      BY <1>21, <1>0, <1>b, <1>c, SMTT(20) DEF ReportFailure, IInv, TypeOK
    <3>3. broken' \in BOOLEAN /\ shaken' \in BOOLEAN
      BY <1>21, Zenon DEF ReportFailure, IInv, TypeOK
    <3>4. UNCHANGED <<web, ready, celery, schema, unfinished, backup, state>>
      BY <1>21 DEF ReportFailure
    <3> QED
      BY <3>1, <3>2, <3>3, <3>4 DEF IInv, TypeOK
  <2>4. SchemaFits' /\ Ahead(head)'
    BY <1>21, <1>0, <1>a, <1>d, IdleTyped, SMTT(20)
       DEF ReportFailure, IInv, TypeOK, SchemaFits, DeployFits,
           RestartFits, Fits, Ahead
  <2>5. StateFits'
    BY <1>21, <1>0, IdleTyped, SMTT(20)
       DEF ReportFailure, IInv, StateFits, RecordedFits, Fits, State,
           RestartFits, DeployFits, Candidate, Former
  <2>6. DeployFits'
    BY <1>21, <1>0, IdleTyped, SMTT(20)
       DEF ReportFailure, IInv, DeployFits, Ahead, Fits, TypeOK,
           StateFits, RecordedFits, State, Candidate, Former,
           OnlyRestartMends
  <2>7. RestartFits'
    BY <1>21, <1>0, IdleTyped, SMTT(20)
       DEF ReportFailure, IInv, TypeOK, RestartFits, Ahead, Fits, State,
           Candidate, Former
  <2> QED
    BY <2>3, <2>4, <2>5, <2>6, <2>7 DEF IInv
<1>22. CASE RestoreCelery
  <2>1. Moved("restore") \/ Moved("undo")
    BY <1>22, <1>0, Movement, MoveFacts DEF RestoreCelery
  <2>2. Candidate' = Candidate /\ Former' = Former
    BY <2>1, SameCandidate
  <2>3. TypeOK'
    <3>1. script' \in Script
      BY <2>1 DEF Moved
    <3>2. celery' \in [Slot -> Release \cup {Down}]
      BY <1>22, <1>0, <1>a, <1>b, SMTT(20)
         DEF RestoreCelery, UpCelery, TrapFails, IInv, TypeOK
    <3>3. broken' \in BOOLEAN /\ shaken' \in BOOLEAN
      BY <1>22, Zenon DEF RestoreCelery, UpCelery, TrapFails, IInv, TypeOK
    <3>4. UNCHANGED <<web, ready, head, bridge, route, schema, unfinished, backup, state>>
      BY <1>22 DEF RestoreCelery, UpCelery, TrapFails
    <3> QED
      BY <3>1, <3>2, <3>3, <3>4 DEF IInv, TypeOK
  <2>4. SchemaFits' /\ Ahead(head)'
    BY <1>22, <1>0, <1>a, <1>d, <2>1, SMTT(20)
       DEF RestoreCelery, UpCelery, TrapFails, Moved, IInv, TypeOK,
           SchemaFits, DeployFits, RestartFits, Fits, Ahead
  <2>5. StateFits'
    BY <1>22, <1>0, <2>1, SMTT(20)
       DEF RestoreCelery, UpCelery, TrapFails, Moved, IInv, StateFits,
           RecordedFits, Fits
  <2>6. DeployFits'
    BY <1>22, <1>0, <2>1, <2>2, SMTT(20)
       DEF RestoreCelery, UpCelery, TrapFails, Moved, IInv, DeployFits,
           Ahead, Fits
  <2>7. RestartFits'
    BY <1>22, <1>0, <2>1, <2>2, SMTT(20)
       DEF RestoreCelery, UpCelery, TrapFails, Moved, IInv, TypeOK,
           RestartFits, Ahead, Fits
  <2> QED
    BY <2>3, <2>4, <2>5, <2>6, <2>7 DEF IInv
<1>23. CASE RestoreRoute
  <2>1. Moved("undo")
    BY <1>23, <1>0, Movement, MoveFacts DEF RestoreRoute
  <2>2. Candidate' = Candidate /\ Former' = Former
    BY <2>1, SameCandidate
  <2>3. TypeOK'
    <3>1. script' \in Script
      BY <2>1 DEF Moved
    <3>2. head' \in Release /\ bridge' \in Release \cup {Down} /\ route' \in Slot \cup {"maintenance"}
      BY <1>23, <1>0, <1>b, <1>c, SMTT(20)
         DEF RestoreRoute, TrapFails, IInv, TypeOK
    <3>3. broken' \in BOOLEAN /\ shaken' \in BOOLEAN
      BY <1>23, Zenon DEF RestoreRoute, TrapFails, IInv, TypeOK
    <3>4. UNCHANGED <<web, ready, celery, schema, unfinished, backup, state>>
      BY <1>23 DEF RestoreRoute, TrapFails
    <3> QED
      BY <3>1, <3>2, <3>3, <3>4 DEF IInv, TypeOK
  <2>4. SchemaFits' /\ Ahead(head)'
    BY <1>23, <1>0, <1>a, <1>d, <2>1, SMTT(20)
       DEF RestoreRoute, TrapFails, Moved, IInv, TypeOK, SchemaFits,
           DeployFits, RestartFits, Fits, Ahead
  <2>5. StateFits'
    BY <1>23, <1>0, <2>1, SMTT(20)
       DEF RestoreRoute, TrapFails, Moved, IInv, StateFits,
           RecordedFits, Fits
  <2>6. DeployFits'
    BY <1>23, <1>0, <2>1, <2>2, SMTT(20)
       DEF RestoreRoute, TrapFails, Moved, IInv, DeployFits, Ahead, Fits
  <2>7. RestartFits'
    BY <1>23, <1>0, <2>1, <2>2, SMTT(20)
       DEF RestoreRoute, TrapFails, Moved, IInv, TypeOK, RestartFits,
           Ahead, Fits
  <2> QED
    BY <2>3, <2>4, <2>5, <2>6, <2>7 DEF IInv
<1>24. CASE StopCandidate
  <2>3. TypeOK'
    <3>1. script' \in Script
      BY <1>24, <1>0, IdleTyped, SMTT(20)
         DEF StopCandidate, StopWebs, StopCeleries, TrapFails, IInv,
             TypeOK, State, Script
    <3>2. web' \in [Slot -> Release \cup {Down}] /\ ready' \subseteq Slot
      <4>1. CASE StopWebs({script.target})
        BY <4>1, <1>0 DEF StopWebs, IInv, TypeOK
      <4>2. CASE UNCHANGED <<web, ready>>
        BY <4>2 DEF IInv, TypeOK
      <4> QED
        BY <1>24, <4>1, <4>2 DEF StopCandidate
    <3>3. celery' \in [Slot -> Release \cup {Down}]
      BY <1>24, <1>0, <1>a, <1>b, SMTT(20)
         DEF StopCandidate, StopWebs, StopCeleries, TrapFails, IInv,
             TypeOK
    <3>4. broken' \in BOOLEAN /\ shaken' \in BOOLEAN
      BY <1>24, Zenon
         DEF StopCandidate, StopWebs, StopCeleries, TrapFails, IInv,
             TypeOK
    <3>5. UNCHANGED <<head, bridge, route, schema, unfinished, backup, state>>
      BY <1>24 DEF StopCandidate, StopWebs, StopCeleries, TrapFails
    <3> QED
      BY <3>1, <3>2, <3>3, <3>4, <3>5 DEF IInv, TypeOK
  <2>4. SchemaFits' /\ Ahead(head)'
    BY <1>24, <1>0, <1>a, <1>d, IdleTyped, SMTT(20)
       DEF StopCandidate, StopWebs, StopCeleries, TrapFails, IInv,
           TypeOK, SchemaFits, DeployFits, RestartFits, Fits, Ahead
  <2>5. StateFits'
    BY <1>24, <1>0, IdleTyped, SMTT(20)
       DEF StopCandidate, StopWebs, StopCeleries, TrapFails, IInv,
           StateFits, RecordedFits, Fits, State, RestartFits,
           DeployFits, Candidate, Former
  <2>6. DeployFits'
    BY <1>24, <1>0, IdleTyped, SMTT(20)
       DEF StopCandidate, StopWebs, StopCeleries, TrapFails, IInv,
           DeployFits, Ahead, Fits, TypeOK, StateFits, RecordedFits,
           State, Candidate, Former, OnlyRestartMends
  <2>7. RestartFits'
    BY <1>24, <1>0, IdleTyped, SMTT(20)
       DEF StopCandidate, StopWebs, StopCeleries, TrapFails, IInv,
           TypeOK, RestartFits, Ahead, Fits, State, Candidate, Former
  <2> QED
    BY <2>3, <2>4, <2>5, <2>6, <2>7 DEF IInv
<1>25. CASE Crash
  <2>3. TypeOK'
    BY <1>25, <1>0, <1>a, <1>b, <1>c, IdleTyped, SMTT(20)
       DEF Crash, IInv, TypeOK, State, Script
  <2>4. SchemaFits' /\ Ahead(head)'
    BY <1>25, <1>0, <1>a, <1>d, IdleTyped, SMTT(20)
       DEF Crash, IInv, TypeOK, SchemaFits, DeployFits, RestartFits,
           Fits, Ahead
  <2>5. StateFits'
    <3>1. ~broken' => ~broken /\ script.cmd # "restart"
      BY <1>25, Zenon DEF Crash
    <3>2. UNCHANGED <<state, schema>> /\ script' = Idle
      BY <1>25 DEF Crash
    <3> QED
      BY <3>1, <3>2, IdleTyped DEF IInv, StateFits, RecordedFits, Fits
  <2>6. DeployFits'
    BY <1>25, <1>0, IdleTyped, SMTT(20)
       DEF Crash, IInv, DeployFits, Ahead, Fits, TypeOK, StateFits,
           RecordedFits, State, Candidate, Former, OnlyRestartMends
  <2>7. RestartFits'
    BY <1>25, <1>0, IdleTyped, SMTT(20)
       DEF Crash, IInv, TypeOK, RestartFits, Ahead, Fits, State,
           Candidate, Former
  <2> QED
    BY <2>3, <2>4, <2>5, <2>6, <2>7 DEF IInv
<1>26. CASE \E r \in Release : Commit(r)
  <2>3. TypeOK'
    BY <1>26, <1>0, <1>a, <1>b, <1>c, SMTT(20)
       DEF Commit, IInv, TypeOK, State, Script
  <2>4. SchemaFits' /\ Ahead(head)'
    BY <1>26, <1>0, <1>a, <1>d, SMTT(20)
       DEF Commit, IInv, TypeOK, SchemaFits, DeployFits, RestartFits,
           Fits, Ahead
  <2>5. StateFits'
    BY <1>26, <1>0, SMTT(20) DEF Commit, IInv, StateFits, RecordedFits, Fits
  <2>6. DeployFits'
    BY <1>26, <1>0, SMTT(20)
       DEF Commit, IInv, DeployFits, Ahead, Fits, Candidate, Former
  <2>7. RestartFits'
    BY <1>26, <1>0, SMTT(20)
       DEF Commit, IInv, TypeOK, RestartFits, Ahead, Fits, Candidate,
           Former
  <2> QED
    BY <2>3, <2>4, <2>5, <2>6, <2>7 DEF IInv
<1>27. CASE Submit
  <2>3. TypeOK'
    <3>1. unfinished' \in BOOLEAN /\ backup' \in BOOLEAN
      BY <1>27, Zenon DEF Submit, IInv, TypeOK
    <3>2. UNCHANGED <<script, web, ready, celery, head, bridge, route, schema, broken, shaken, state>>
      BY <1>27 DEF Submit
    <3> QED
      BY <3>1, <3>2 DEF IInv, TypeOK
  <2>4. SchemaFits' /\ Ahead(head)'
    BY <1>27, <1>0, <1>a, <1>d, SMTT(20)
       DEF Submit, IInv, TypeOK, SchemaFits, DeployFits, RestartFits,
           Fits, Ahead
  <2>5. StateFits'
    BY <1>27, <1>0, SMTT(20) DEF Submit, IInv, StateFits, RecordedFits, Fits
  <2>6. DeployFits'
    BY <1>27, <1>0, SMTT(20)
       DEF Submit, IInv, DeployFits, Ahead, Fits, Candidate, Former
  <2>7. RestartFits'
    BY <1>27, <1>0, SMTT(20)
       DEF Submit, Writing, IInv, TypeOK, RestartFits, Ahead, Fits, Candidate,
           Former
  <2> QED
    BY <2>3, <2>4, <2>5, <2>6, <2>7 DEF IInv
<1>29. CASE Write
  <2>1. TypeOK'
    <3>1. backup' \in BOOLEAN
      BY <1>29, Zenon DEF Write
    <3>2. UNCHANGED <<script, web, ready, celery, head, bridge, route, schema, unfinished,
                      broken, shaken, state>>
      BY <1>29 DEF Write
    <3> QED
      BY <3>1, <3>2 DEF IInv, TypeOK
  <2>2. /\ UNCHANGED <<script, web, celery, bridge, head, schema, unfinished, broken, shaken, state>>
        /\ \E s \in Slot : web[s] # Down \/ celery[s] # Down
    BY <1>29 DEF Write, Writing
  <2>3. SchemaFits' /\ Ahead(head)' /\ StateFits' /\ DeployFits'
    BY <2>2, SMTT(20) DEF IInv, SchemaFits, StateFits, RecordedFits, DeployFits, Ahead, Fits,
       Candidate, Former
  <2>4. RestartFits'
    BY <2>2, SMTT(20) DEF IInv, RestartFits, Fits, Candidate
  <2> QED
    BY <2>1, <2>3, <2>4 DEF IInv
<1>28. CASE Judge
  <2>3. TypeOK'
    <3>1. unfinished' \in BOOLEAN /\ backup' \in BOOLEAN
      BY <1>28, Zenon DEF Judge, IInv, TypeOK
    <3>2. UNCHANGED <<script, web, ready, celery, head, bridge, route, schema, broken, shaken, state>>
      BY <1>28 DEF Judge
    <3> QED
      BY <3>1, <3>2 DEF IInv, TypeOK
  <2>4. SchemaFits' /\ Ahead(head)'
    BY <1>28, <1>0, <1>a, <1>d, SMTT(20)
       DEF Judge, IInv, TypeOK, SchemaFits, DeployFits, RestartFits,
           Fits, Ahead
  <2>5. StateFits'
    BY <1>28, <1>0, SMTT(20) DEF Judge, IInv, StateFits, RecordedFits, Fits
  <2>6. DeployFits'
    BY <1>28, <1>0, SMTT(20)
       DEF Judge, IInv, DeployFits, Ahead, Fits, Candidate, Former
  <2>7. RestartFits'
    <3>1. ~unfinished => ~unfinished'
      BY <1>28, Zenon DEF Judge, IInv, TypeOK
    <3>2. UNCHANGED <<script, head, web, celery, bridge, schema>> /\ bridge # Down
      BY <1>28 DEF Judge
    <3> QED
      BY <3>1, <3>2, SMTT(20) DEF IInv, RestartFits, Candidate, Fits
  <2> QED
    BY <2>3, <2>4, <2>5, <2>6, <2>7 DEF IInv
<1> QED
  BY <1>1, <1>2, <1>3, <1>4, <1>5, <1>6, <1>7, <1>8, <1>9, <1>10, <1>11, <1>12, <1>13, <1>14, <1>15, <1>16, <1>17, <1>18, <1>19, <1>20, <1>21, <1>22, <1>23, <1>24, <1>25, <1>26, <1>27, <1>28, <1>29
     DEF Next

-----------------------------------------------------------------------------
LEMMA StartsSound == Init => IInv
<1> SUFFICES ASSUME Init PROVE IInv
  OBVIOUS
<1> USE DeploymentAssumption
<1>1. PICK first \in Release : Init!(first)
  BY DEF Init
<1>2. NoState \in State /\ NoState.active = Nobody /\ NoState.previous = Nobody
  BY DEF NoState, State
<1>3. TypeOK
  BY <1>1, <1>2, IdleTyped DEF TypeOK
<1>4. SchemaFits /\ Ahead(head)
  BY <1>1 DEF SchemaFits, Ahead
<1>5. StateFits /\ DeployFits /\ RestartFits
  BY <1>1, <1>2, IdleTyped DEF StateFits, RecordedFits, DeployFits, RestartFits
<1> QED
  BY <1>3, <1>4, <1>5 DEF IInv

LEMMA StutterSound == IInv /\ UNCHANGED vars => IInv'
<1> SUFFICES ASSUME IInv, UNCHANGED vars PROVE IInv'
  OBVIOUS
<1>1. TypeOK'
  BY DEF IInv, TypeOK, vars
<1>2. SchemaFits' /\ Ahead(head)'
  BY DEF IInv, SchemaFits, Ahead, vars
<1>3. StateFits' /\ DeployFits' /\ RestartFits'
  BY DEF IInv, StateFits, RecordedFits, DeployFits, RestartFits, Fits, Ahead,
         Candidate, Former, vars
<1> QED
  BY <1>1, <1>2, <1>3 DEF IInv

(***************************************************************************)
(* The invariant is inductive, whatever the faults.                        *)
(***************************************************************************)
THEOREM Inductive == ASSUME OnlyRestartMends PROVE Spec => []IInv
<1>1. IInv /\ [Next]_vars => IInv'
  BY StepSound, StutterSound
<1> QED
  BY <1>1, StartsSound, PTL DEF Spec

(***************************************************************************)
(* The variables have their types; the scripts index their tables of       *)
(* releases by a colour that has one.                                      *)
(***************************************************************************)
THEOREM TypeCorrect == ASSUME OnlyRestartMends PROVE Spec => []TypeOK
<1>1. IInv => TypeOK
  BY DEF IInv
<1> QED
  BY <1>1, Inductive, PTL

(***************************************************************************)
(* No service ever runs code that the database's schema is not made for,   *)
(* for any history of releases and schemas.                                *)
(***************************************************************************)
THEOREM SchemaAlwaysFits == ASSUME OnlyRestartMends PROVE Spec => []SchemaFits
<1>1. IInv => SchemaFits
  BY DEF IInv
<1> QED
  BY <1>1, Inductive, PTL

(***************************************************************************)
(* restart.sh replaces the bridge only when nothing is queued or graded.   *)
(***************************************************************************)
THEOREM NoneWrittenOff == ASSUME OnlyRestartMends PROVE Spec => NothingWrittenOff
<1>1. IInv /\ [Next]_vars => [bridge' # bridge => ~unfinished]_vars
  <2> SUFFICES ASSUME IInv, Next, bridge' # bridge PROVE ~unfinished
    BY DEF vars
  <2>1. StopBridge \/ StartBridge
    BY DEF Next, Deploy, Rollback, Restart, Start, CheckMigrations, Maintenance,
           StopWeb, StopCelery, Drain, Backup, Migrate, Up, Check, Switch,
           StartCelery, StopOldCelery, Persist, End, Fail, ReportFailure,
           RestoreCelery, RestoreRoute, StopCandidate, Crash, Commit, Submit,
           Write, Judge
  <2> QED
    BY <2>1 DEF IInv, RestartFits, StopBridge, StartBridge
<1> QED
  BY <1>1, Inductive, PTL DEF Spec, NothingWrittenOff

(***************************************************************************)
(* Nothing is written between the dump and the migration, although Web and *)
(* Celery write whenever they run and need no bridge for it.               *)
(***************************************************************************)
THEOREM DumpComplete == ASSUME OnlyRestartMends PROVE Spec => BackupComplete
<1>1. IInv /\ [Next]_vars => [schema' # schema => backup]_vars
  <2> SUFFICES ASSUME IInv, Next, schema' # schema PROVE backup
    BY DEF vars
  <2>1. Migrate
    BY DEF Next, Deploy, Rollback, Restart, Start, CheckMigrations, Maintenance,
           StopWeb, StopCelery, Drain, StopBridge, Backup, StartBridge, Up,
           Check, Switch, StartCelery, StopOldCelery, Persist, End, Fail,
           ReportFailure, RestoreCelery, RestoreRoute, StopCandidate, Crash,
           Commit, Submit, Write, Judge
  <2> QED
    BY <2>1 DEF IInv, RestartFits, Migrate
<1> QED
  BY <1>1, Inductive, PTL DEF Spec, BackupComplete
=============================================================================
