------------------------- MODULE DeploymentServing -------------------------
(***************************************************************************)
(* What visitors reach, and what state.env says, proved for any releases,  *)
(* schemas and faults, as long as the operator answers a failed restart.sh *)
(* with restart.sh.                                                        *)
(***************************************************************************)
EXTENDS DeploymentProofs

\* The Web of c runs release r and has passed its checks.
Served(c, r) == web[c] = r /\ r # Down /\ c \in ready

\* The only Celery is that of c, and it runs release r.
OneCelery(c, r) == \A s \in Slot : celery[s] = IF s = c THEN r ELSE Down

\* state.env tells the truth between scripts.
Truth ==
    At("idle") /\ ~broken /\ ~shaken /\ state.active # Nobody =>
        /\ state.previous # state.active
        /\ route = state.active
        /\ Served(state.active, state.release[state.active])
        /\ OneCelery(state.active, state.release[state.active])
        /\ bridge = state.bridge

\* Where deploy.sh has not switched Nginx, and where it has.
Before == {"migrations", "up", "check", "switch"}
After == {"celery", "stopOld", "persist"}
Undoing == {"trap", "restore", "undo"}

\* What deploy.sh and its rollback know at a command, and what their trap
\* relies on: the former colour's Web is left alone until the end.
DeployServes ==
    (Busy("deploy") \/ Busy("rollback")) /\ ~shaken =>
        /\ script.at \in Before \cup After \cup Undoing \cup {"end"}
        /\ script.target # script.original
        /\ bridge = script.plan.bridge
        /\ celery["legacy"] = Down
        /\ script.at # "end" =>
             /\ Served(script.original, Former)
             /\ state.active = script.original /\ state.previous # script.original
             /\ state.release[script.original] = Former /\ state.bridge = bridge
        /\ script.at \in Before => ~script.armed
        /\ script.at \in After \cup {"restore"} => script.armed
        /\ script.at \in Before \cup {"undo"} \/ (At("trap") /\ ~script.armed) =>
             route = script.original /\ celery[script.original] = Former
        /\ script.at \in {"celery", "restore"} => celery[script.original] = Former
        /\ script.at \in After \cup {"end", "restore"} \/ (At("trap") /\ script.armed) =>
             route = script.target /\ Served(script.target, Candidate)
        /\ script.at \in {"stopOld", "persist", "end"}
              \/ (script.cmd = "rollback" /\ script.at \in {"check", "switch"}) =>
             celery[script.target] = Candidate
        /\ script.at \in {"check", "switch"} => web[script.target] = Candidate
        /\ At("switch") => script.target \in ready
        /\ script.at \in {"persist", "end"} => celery[script.original] = Down
        /\ At("end") => /\ state.active = script.target /\ state.previous = script.original
                        /\ state.release[script.target] = Candidate /\ state.bridge = bridge

\* Where restart.sh has the maintenance page up, and from where on a service
\* is what it has started.
Closed == {"stopWeb", "stopCelery", "drain", "stopBridge", "backup", "init", "bridge",
           "up", "check", "switch"}
BridgeUp == {"up", "check", "switch", "persist", "end"}
WebUp == {"check", "switch", "persist", "end"}

RestartServes ==
    Busy("restart") =>
        /\ script.at \in Closed => route = "maintenance"
        /\ script.at \in BridgeUp => bridge = script.plan.bridge
        /\ script.at \in WebUp =>
             web[script.target] = Candidate /\ OneCelery(script.target, Candidate)
        /\ script.at \in {"switch", "persist", "end"} => script.target \in ready
        /\ script.at \in {"persist", "end"} => route = script.target
        /\ At("end") => /\ state.active = script.target /\ state.previous = Nobody
                        /\ state.release[script.target] = Candidate /\ state.bridge = bridge

SInv == Serving /\ Truth /\ DeployServes /\ RestartServes

-----------------------------------------------------------------------------
USE DEF Colour, Slot, Nobody, Down, Command, Step, services, data, memory,
        Running, At, Busy, WebsDown, CeleriesDown, Migrated,
        Before, After, Undoing, Closed, BridgeUp, WebUp

\* The script has gone on to l, its flag is b, and it is otherwise what it was.
Went(l, b) ==
    /\ script'.at = l
    /\ script'.armed = b
    /\ script'.cmd = script.cmd
    /\ script'.plan = script.plan
    /\ script'.original = script.original
    /\ script'.target = script.target

LEMMA WentFacts ==
    ASSUME script \in Script, NEW l \in Step, NEW k \in {0, 1, 20}, NEW b \in BOOLEAN
    PROVE  /\ script' = [script EXCEPT !.at = l] => Went(l, script.armed)
           /\ script' = [script EXCEPT !.at = l, !.code = k] => Went(l, script.armed)
           /\ script' = [script EXCEPT !.at = l, !.armed = b] => Went(l, b)
           /\ script' = [script EXCEPT !.armed = b, !.at = l] => Went(l, b)
<1>1. script' = [script EXCEPT !.at = l] => Went(l, script.armed)
  BY DEF Script, Went
<1>2. script' = [script EXCEPT !.at = l, !.code = k] => Went(l, script.armed)
  BY DEF Script, Went
<1>3. script' = [script EXCEPT !.at = l, !.armed = b] => Went(l, b)
  BY DEF Script, Went
<1>4. script' = [script EXCEPT !.armed = b, !.at = l] => Went(l, b)
  BY DEF Script, Went
<1> QED
  BY <1>1, <1>2, <1>3, <1>4

LEMMA Went1 ==
    ASSUME script \in Script, NEW l \in Step
    PROVE  /\ Goto(l) => Went(l, script.armed)
           /\ Exit(1) => Went("trap", script.armed)
           /\ Exit(20) => Went("trap", script.armed)
           /\ FailLate => Went("trap", script.armed) /\ shaken'
           /\ Then(l) => Went(l, script.armed) \/ Went("trap", script.armed)
BY WentFacts DEF Goto, Exit, FailLate, Then

\* What the first invariant says of the script, in the words needed here.
LEMMA Known ==
    ASSUME IInv
    PROVE  /\ script \in Script /\ script.cmd \in Command /\ script.at \in Step
           /\ script.target \in Colour /\ script.plan \in State /\ state \in State
           /\ script.original \in Colour \cup {Nobody} /\ script.armed \in BOOLEAN
           /\ web \in [Slot -> Release \cup {Down}] /\ celery \in [Slot -> Release \cup {Down}]
           /\ ready \subseteq Slot
           /\ script.at # "idle" => Candidate # Down
           /\ Busy("deploy") \/ Busy("rollback") =>
                 ~broken /\ script.original \in Colour /\ Former # Down
           /\ Busy("restart") =>
                 /\ script.at \notin {"stopOld", "restore", "undo"} /\ script.original = Nobody
                 /\ script.at \in CeleriesDown => \A s \in Slot : celery[s] = Down
<1> USE DeploymentAssumption
<1>1. /\ script \in Script /\ state \in State /\ ready \subseteq Slot
      /\ web \in [Slot -> Release \cup {Down}] /\ celery \in [Slot -> Release \cup {Down}]
  BY DEF IInv, TypeOK
<1>2. /\ script.cmd \in Command /\ script.at \in Step /\ script.target \in Colour
      /\ script.plan \in State /\ script.original \in Colour \cup {Nobody}
      /\ script.armed \in BOOLEAN
  BY <1>1 DEF Script
<1>3. \A r \in Release : r # Down
  OBVIOUS
<1>4. script.at # "idle" => Candidate \in Release
  BY <1>2 DEF IInv, DeployFits, RestartFits, TypeOK, Ahead
<1>5. Busy("deploy") \/ Busy("rollback") =>
         ~broken /\ script.original \in Colour /\ Former \in Release
  BY DEF IInv, DeployFits, Fits
<1>6. Busy("restart") =>
         /\ script.at \notin {"stopOld", "restore", "undo"} /\ script.original = Nobody
         /\ script.at \in CeleriesDown => \A s \in Slot : celery[s] = Down
  BY DEF IInv, RestartFits
<1> QED
  BY <1>1, <1>2, <1>3, <1>4, <1>5, <1>6

LEMMA ServingStep ==
    ASSUME IInv, SInv, OnlyRestartMends, Next, IInv'
    PROVE  SInv'
<1>0. /\ script \in Script /\ script.cmd \in Command /\ script.at \in Step
      /\ script.target \in Colour /\ script.plan \in State /\ state \in State
      /\ script.original \in Colour \cup {Nobody} /\ script.armed \in BOOLEAN
      /\ web \in [Slot -> Release \cup {Down}] /\ celery \in [Slot -> Release \cup {Down}]
      /\ ready \subseteq Slot
  BY Known
<1>a. script.at # "idle" => Candidate # Down
  BY Known
<1>b. Busy("deploy") \/ Busy("rollback") => ~broken /\ script.original \in Colour /\ Former # Down
  BY Known
<1>c. Busy("restart") =>
         /\ script.at \notin {"stopOld", "restore", "undo"} /\ script.original = Nobody
         /\ script.at \in CeleriesDown => \A s \in Slot : celery[s] = Down
  BY Known
<1>1. CASE Deploy
  <2>1. script'.cmd = "deploy" /\ script'.at = "migrations" /\ ~script'.armed
        /\ script'.original = state.active /\ script'.target = Other(state.active)
        /\ ~broken /\ At("idle")
        /\ script'.plan.release[state.active] = state.release[state.active]
        /\ script'.plan.bridge = state.bridge
        /\ state.active \in Colour /\ Other(state.active) # state.active
        /\ UNCHANGED <<services, state, memory>>
    BY <1>1, <1>0 DEF Deploy, Start, Begin, WithRelease, Other, May, State, OnlyRestartMends
  <2>2. Serving'
    BY <1>1, <1>0, <1>a, <1>b, <1>c, <2>1, SMTT(30)
       DEF Other, SInv, Candidate, Former, Serving, Served, DeployServes, RestartServes
  <2>3. Truth'
    BY <1>1, <1>0, <1>a, <1>b, <1>c, <2>1, SMTT(30)
       DEF Other, SInv, Candidate, Former, Truth, DeployServes, RestartServes, Served,
           OneCelery
  <2>4. DeployServes'
    BY <1>1, <1>0, <1>a, <1>b, <1>c, <2>1, SMTT(30)
       DEF Other, SInv, Candidate, Former, Truth, DeployServes, Served, OneCelery
  <2>5. RestartServes'
    BY <1>1, <1>0, <1>a, <1>b, <1>c, <2>1, SMTT(30)
       DEF Other, SInv, Candidate, Former, RestartServes, OneCelery
  <2> QED
    BY <2>2, <2>3, <2>4, <2>5 DEF SInv
<1>2. CASE Rollback
  <2>1. script'.cmd = "rollback" /\ script'.at = "up" /\ ~script'.armed
        /\ script'.original = state.active /\ script'.target = state.previous
        /\ ~broken /\ At("idle")
        /\ script'.plan.release[state.active] = state.release[state.active]
        /\ script'.plan.bridge = state.bridge
        /\ state.active \in Colour /\ state.previous # Nobody
        /\ UNCHANGED <<services, state, memory>>
    BY <1>2, <1>0 DEF Rollback, Start, Begin, May, State, OnlyRestartMends
  <2>2. Serving'
    BY <1>2, <1>0, <1>a, <1>b, <1>c, <2>1, SMTT(30)
       DEF SInv, Candidate, Former, Serving, Served, DeployServes, RestartServes
  <2>3. Truth'
    BY <1>2, <1>0, <1>a, <1>b, <1>c, <2>1, SMTT(30)
       DEF SInv, Candidate, Former, Truth, DeployServes, RestartServes, Served,
           OneCelery
  <2>4. DeployServes'
    BY <1>2, <1>0, <1>a, <1>b, <1>c, <2>1, SMTT(30)
       DEF SInv, Candidate, Former, Truth, DeployServes, Served, OneCelery
  <2>5. RestartServes'
    BY <1>2, <1>0, <1>a, <1>b, <1>c, <2>1, SMTT(30)
       DEF SInv, Candidate, Former, RestartServes, OneCelery
  <2> QED
    BY <2>2, <2>3, <2>4, <2>5 DEF SInv
<1>3. CASE Restart
  <2>2. Serving'
    BY <1>3, <1>0, <1>a, <1>b, <1>c, SMTT(30)
       DEF Restart, Start, Begin, WithRelease, Other, FirstState, May, SInv, Candidate,
           Former, Serving, Served, DeployServes, RestartServes
  <2>3. Truth'
    BY <1>3, <1>0, <1>a, <1>b, <1>c, SMTT(30)
       DEF Restart, Start, Begin, WithRelease, Other, FirstState, May, SInv, Candidate,
           Former, Truth, DeployServes, RestartServes, Served, OneCelery
  <2>4. DeployServes'
    BY <1>3, <1>0, <1>a, <1>b, <1>c, SMTT(30)
       DEF Restart, Start, Begin, WithRelease, Other, FirstState, May, SInv, Candidate,
           Former, Truth, DeployServes, Served, OneCelery
  <2>5. RestartServes'
    BY <1>3, <1>0, <1>a, <1>b, <1>c, SMTT(30)
       DEF Restart, Start, Begin, WithRelease, Other, FirstState, May, SInv, Candidate,
           Former, RestartServes, OneCelery
  <2> QED
    BY <2>2, <2>3, <2>4, <2>5 DEF SInv
<1>4. CASE CheckMigrations
  <2>1. Went("trap", script.armed) \/ Went("up", script.armed)
    BY <1>4, <1>0, Went1, WentFacts DEF CheckMigrations
  <2>2. Serving'
    BY <1>4, <1>0, <1>a, <1>b, <1>c, <2>1, SMTT(30)
       DEF CheckMigrations, Went, SInv, Candidate, Former, Serving, Served,
           DeployServes, RestartServes
  <2>3. Truth'
    BY <1>4, <1>0, <1>a, <1>b, <1>c, <2>1, SMTT(30)
       DEF CheckMigrations, Went, SInv, Candidate, Former, Truth, DeployServes,
           RestartServes, Served, OneCelery
  <2>4. DeployServes'
    BY <1>4, <1>0, <1>a, <1>b, <1>c, <2>1, SMTT(30)
       DEF CheckMigrations, Went, SInv, Candidate, Former, Truth, DeployServes, Served,
           OneCelery
  <2>5. RestartServes'
    BY <1>4, <1>0, <1>a, <1>b, <1>c, <2>1, SMTT(30)
       DEF CheckMigrations, Went, SInv, Candidate, Former, RestartServes, OneCelery
  <2> QED
    BY <2>2, <2>3, <2>4, <2>5 DEF SInv
<1>5. CASE Maintenance
  <2>1. (Went("stopWeb", TRUE) /\ UNCHANGED memory) \/ (Went("trap", script.armed) /\ shaken')
    BY <1>5, <1>0, Went1, WentFacts DEF Maintenance, FailLate
  <2>2. Serving'
    BY <1>5, <1>0, <1>a, <1>b, <1>c, <2>1, SMTT(30)
       DEF Maintenance, FailLate, Went, SInv, Candidate, Former, Serving, Served,
           DeployServes, RestartServes
  <2>3. Truth'
    BY <1>5, <1>0, <1>a, <1>b, <1>c, <2>1, SMTT(30)
       DEF Maintenance, FailLate, Went, SInv, Candidate, Former, Truth, DeployServes,
           RestartServes, Served, OneCelery
  <2>4. DeployServes'
    BY <1>5, <1>0, <1>a, <1>b, <1>c, <2>1, SMTT(30)
       DEF Maintenance, FailLate, Went, SInv, Candidate, Former, Truth, DeployServes,
           Served, OneCelery
  <2>5. RestartServes'
    BY <1>5, <1>0, <1>a, <1>b, <1>c, <2>1, SMTT(30)
       DEF Maintenance, FailLate, Went, SInv, Candidate, Former, RestartServes,
           OneCelery
  <2> QED
    BY <2>2, <2>3, <2>4, <2>5 DEF SInv
<1>6. CASE StopWeb
  <2>1. Went("stopCelery", script.armed) \/ Went("trap", script.armed)
    BY <1>6, <1>0, Went1, WentFacts DEF StopWeb
  <2>2. Serving'
    BY <1>6, <1>0, <1>a, <1>b, <1>c, <2>1, SMTT(30)
       DEF StopWeb, StopWebs, Went, SInv, Candidate, Former, Serving, Served,
           DeployServes, RestartServes
  <2>3. Truth'
    BY <1>6, <1>0, <1>a, <1>b, <1>c, <2>1, SMTT(30)
       DEF StopWeb, StopWebs, Went, SInv, Candidate, Former, Truth, DeployServes,
           RestartServes, Served, OneCelery
  <2>4. DeployServes'
    BY <1>6, <1>0, <1>a, <1>b, <1>c, <2>1, SMTT(30)
       DEF StopWeb, StopWebs, Went, SInv, Candidate, Former, Truth, DeployServes,
           Served, OneCelery
  <2>5. RestartServes'
    BY <1>6, <1>0, <1>a, <1>b, <1>c, <2>1, SMTT(30)
       DEF StopWeb, StopWebs, Went, SInv, Candidate, Former, RestartServes, OneCelery
  <2> QED
    BY <2>2, <2>3, <2>4, <2>5 DEF SInv
<1>7. CASE StopCelery
  <2>1. Went("drain", script.armed) \/ Went("trap", script.armed)
    BY <1>7, <1>0, Went1, WentFacts DEF StopCelery
  <2>2. Serving'
    BY <1>7, <1>0, <1>a, <1>b, <1>c, <2>1, SMTT(30)
       DEF StopCelery, StopCeleries, Went, SInv, Candidate, Former, Serving, Served,
           DeployServes, RestartServes
  <2>3. Truth'
    BY <1>7, <1>0, <1>a, <1>b, <1>c, <2>1, SMTT(30)
       DEF StopCelery, StopCeleries, Went, SInv, Candidate, Former, Truth,
           DeployServes, RestartServes, Served, OneCelery
  <2>4. DeployServes'
    BY <1>7, <1>0, <1>a, <1>b, <1>c, <2>1, SMTT(30)
       DEF StopCelery, StopCeleries, Went, SInv, Candidate, Former, Truth,
           DeployServes, Served, OneCelery
  <2>5. RestartServes'
    BY <1>7, <1>0, <1>a, <1>b, <1>c, <2>1, SMTT(30)
       DEF StopCelery, StopCeleries, Went, SInv, Candidate, Former, RestartServes,
           OneCelery
  <2> QED
    BY <2>2, <2>3, <2>4, <2>5 DEF SInv
<1>8. CASE Drain
  <2>1. Went("stopBridge", script.armed)
    BY <1>8, <1>0, Went1, WentFacts DEF Drain
  <2>2. Serving'
    BY <1>8, <1>0, <1>a, <1>b, <1>c, <2>1, SMTT(30)
       DEF Drain, Went, SInv, Candidate, Former, Serving, Served, DeployServes,
           RestartServes
  <2>3. Truth'
    BY <1>8, <1>0, <1>a, <1>b, <1>c, <2>1, SMTT(30)
       DEF Drain, Went, SInv, Candidate, Former, Truth, DeployServes, RestartServes,
           Served, OneCelery
  <2>4. DeployServes'
    BY <1>8, <1>0, <1>a, <1>b, <1>c, <2>1, SMTT(30)
       DEF Drain, Went, SInv, Candidate, Former, Truth, DeployServes, Served, OneCelery
  <2>5. RestartServes'
    BY <1>8, <1>0, <1>a, <1>b, <1>c, <2>1, SMTT(30)
       DEF Drain, Went, SInv, Candidate, Former, RestartServes, OneCelery
  <2> QED
    BY <2>2, <2>3, <2>4, <2>5 DEF SInv
<1>9. CASE StopBridge
  <2>1. Went("backup", script.armed) \/ Went("trap", script.armed)
    BY <1>9, <1>0, Went1, WentFacts DEF StopBridge
  <2>2. Serving'
    BY <1>9, <1>0, <1>a, <1>b, <1>c, <2>1, SMTT(30)
       DEF StopBridge, Went, SInv, Candidate, Former, Serving, Served, DeployServes,
           RestartServes
  <2>3. Truth'
    BY <1>9, <1>0, <1>a, <1>b, <1>c, <2>1, SMTT(30)
       DEF StopBridge, Went, SInv, Candidate, Former, Truth, DeployServes,
           RestartServes, Served, OneCelery
  <2>4. DeployServes'
    BY <1>9, <1>0, <1>a, <1>b, <1>c, <2>1, SMTT(30)
       DEF StopBridge, Went, SInv, Candidate, Former, Truth, DeployServes, Served,
           OneCelery
  <2>5. RestartServes'
    BY <1>9, <1>0, <1>a, <1>b, <1>c, <2>1, SMTT(30)
       DEF StopBridge, Went, SInv, Candidate, Former, RestartServes, OneCelery
  <2> QED
    BY <2>2, <2>3, <2>4, <2>5 DEF SInv
<1>10. CASE Backup
  <2>1. Went("init", script.armed) \/ Went("trap", script.armed)
    BY <1>10, <1>0, Went1, WentFacts DEF Backup
  <2>2. Serving'
    BY <1>10, <1>0, <1>a, <1>b, <1>c, <2>1, SMTT(30)
       DEF Backup, Went, SInv, Candidate, Former, Serving, Served, DeployServes,
           RestartServes
  <2>3. Truth'
    BY <1>10, <1>0, <1>a, <1>b, <1>c, <2>1, SMTT(30)
       DEF Backup, Went, SInv, Candidate, Former, Truth, DeployServes, RestartServes,
           Served, OneCelery
  <2>4. DeployServes'
    BY <1>10, <1>0, <1>a, <1>b, <1>c, <2>1, SMTT(30)
       DEF Backup, Went, SInv, Candidate, Former, Truth, DeployServes, Served,
           OneCelery
  <2>5. RestartServes'
    BY <1>10, <1>0, <1>a, <1>b, <1>c, <2>1, SMTT(30)
       DEF Backup, Went, SInv, Candidate, Former, RestartServes, OneCelery
  <2> QED
    BY <2>2, <2>3, <2>4, <2>5 DEF SInv
<1>11. CASE Migrate
  <2>1. Went("bridge", script.armed) \/ Went("trap", script.armed)
    BY <1>11, <1>0, Went1, WentFacts DEF Migrate
  <2>2. Serving'
    BY <1>11, <1>0, <1>a, <1>b, <1>c, <2>1, SMTT(30)
       DEF Migrate, Went, SInv, Candidate, Former, Serving, Served, DeployServes,
           RestartServes
  <2>3. Truth'
    BY <1>11, <1>0, <1>a, <1>b, <1>c, <2>1, SMTT(30)
       DEF Migrate, Went, SInv, Candidate, Former, Truth, DeployServes, RestartServes,
           Served, OneCelery
  <2>4. DeployServes'
    BY <1>11, <1>0, <1>a, <1>b, <1>c, <2>1, SMTT(30)
       DEF Migrate, Went, SInv, Candidate, Former, Truth, DeployServes, Served,
           OneCelery
  <2>5. RestartServes'
    BY <1>11, <1>0, <1>a, <1>b, <1>c, <2>1, SMTT(30)
       DEF Migrate, Went, SInv, Candidate, Former, RestartServes, OneCelery
  <2> QED
    BY <2>2, <2>3, <2>4, <2>5 DEF SInv
<1>12. CASE StartBridge
  <2>1. Went("up", script.armed) \/ Went("trap", script.armed)
    BY <1>12, <1>0, Went1, WentFacts DEF StartBridge
  <2>2. Serving'
    BY <1>12, <1>0, <1>a, <1>b, <1>c, <2>1, SMTT(30)
       DEF StartBridge, Went, SInv, Candidate, Former, Serving, Served, DeployServes,
           RestartServes
  <2>3. Truth'
    BY <1>12, <1>0, <1>a, <1>b, <1>c, <2>1, SMTT(30)
       DEF StartBridge, Went, SInv, Candidate, Former, Truth, DeployServes,
           RestartServes, Served, OneCelery
  <2>4. DeployServes'
    BY <1>12, <1>0, <1>a, <1>b, <1>c, <2>1, SMTT(30)
       DEF StartBridge, Went, SInv, Candidate, Former, Truth, DeployServes, Served,
           OneCelery
  <2>5. RestartServes'
    BY <1>12, <1>0, <1>a, <1>b, <1>c, <2>1, SMTT(30)
       DEF StartBridge, Went, SInv, Candidate, Former, RestartServes, OneCelery
  <2> QED
    BY <2>2, <2>3, <2>4, <2>5 DEF SInv
<1>13. CASE Up
  <2>1. Went("check", script.armed) \/ Went("trap", script.armed)
    BY <1>13, <1>0, Went1, WentFacts DEF Up
  <2>2. Serving'
    BY <1>13, <1>0, <1>a, <1>b, <1>c, <2>1, SMTT(30)
       DEF Up, UpWeb, UpCelery, Went, SInv, Candidate, Former, Serving, Served,
           DeployServes, RestartServes
  <2>3. Truth'
    BY <1>13, <1>0, <1>a, <1>b, <1>c, <2>1, SMTT(30)
       DEF Up, UpWeb, UpCelery, Went, SInv, Candidate, Former, Truth, DeployServes,
           RestartServes, Served, OneCelery
  <2>4. DeployServes'
    BY <1>13, <1>0, <1>a, <1>b, <1>c, <2>1, SMTT(30)
       DEF Up, UpWeb, UpCelery, Went, SInv, Candidate, Former, Truth, DeployServes,
           Served, OneCelery
  <2>5. RestartServes'
    BY <1>13, <1>0, <1>a, <1>b, <1>c, <2>1, SMTT(30)
       DEF Up, UpWeb, UpCelery, Went, SInv, Candidate, Former, RestartServes, OneCelery
  <2> QED
    BY <2>2, <2>3, <2>4, <2>5 DEF SInv
<1>14. CASE Check
  <2>1. Went("switch", script.armed)
    BY <1>14, <1>0, Went1, WentFacts DEF Check
  <2>2. Serving'
    BY <1>14, <1>0, <1>a, <1>b, <1>c, <2>1, SMTT(30)
       DEF Check, Went, SInv, Candidate, Former, Serving, Served, DeployServes,
           RestartServes
  <2>3. Truth'
    BY <1>14, <1>0, <1>a, <1>b, <1>c, <2>1, SMTT(30)
       DEF Check, Went, SInv, Candidate, Former, Truth, DeployServes, RestartServes,
           Served, OneCelery
  <2>4. DeployServes'
    BY <1>14, <1>0, <1>a, <1>b, <1>c, <2>1, SMTT(30)
       DEF Check, Went, SInv, Candidate, Former, Truth, DeployServes, Served, OneCelery
  <2>5. RestartServes'
    BY <1>14, <1>0, <1>a, <1>b, <1>c, <2>1, SMTT(30)
       DEF Check, Went, SInv, Candidate, Former, RestartServes, OneCelery
  <2> QED
    BY <2>2, <2>3, <2>4, <2>5 DEF SInv
<1>15. CASE Switch
  <2>1. \/ /\ UNCHANGED memory
           /\ \/ script.cmd = "deploy" /\ Went("celery", TRUE)
              \/ script.cmd = "rollback" /\ Went("stopOld", TRUE)
              \/ script.cmd = "restart" /\ Went("persist", TRUE)
        \/ Went("trap", script.armed) /\ shaken'
    BY <1>15, <1>0, Went1, WentFacts DEF Switch
  <2>2. Serving'
    BY <1>15, <1>0, <1>a, <1>b, <1>c, <2>1, SMTT(30)
       DEF Switch, Went, SInv, Candidate, Former, Serving, Served, DeployServes,
           RestartServes
  <2>3. Truth'
    BY <1>15, <1>0, <1>a, <1>b, <1>c, <2>1, SMTT(30)
       DEF Switch, Went, SInv, Candidate, Former, Truth, DeployServes, RestartServes,
           Served, OneCelery
  <2>4. DeployServes'
    BY <1>15, <1>0, <1>a, <1>b, <1>c, <2>1, SMTT(30)
       DEF Switch, Went, SInv, Candidate, Former, Truth, DeployServes, Served,
           OneCelery
  <2>5. RestartServes'
    BY <1>15, <1>0, <1>a, <1>b, <1>c, <2>1, SMTT(30)
       DEF Switch, Went, SInv, Candidate, Former, RestartServes, OneCelery
  <2> QED
    BY <2>2, <2>3, <2>4, <2>5 DEF SInv
<1>16. CASE StartCelery
  <2>1. Went("stopOld", script.armed) \/ Went("trap", script.armed)
    BY <1>16, <1>0, Went1, WentFacts DEF StartCelery
  <2>2. Serving'
    BY <1>16, <1>0, <1>a, <1>b, <1>c, <2>1, SMTT(30)
       DEF StartCelery, UpCelery, Went, SInv, Candidate, Former, Serving, Served,
           DeployServes, RestartServes
  <2>3. Truth'
    BY <1>16, <1>0, <1>a, <1>b, <1>c, <2>1, SMTT(30)
       DEF StartCelery, UpCelery, Went, SInv, Candidate, Former, Truth, DeployServes,
           RestartServes, Served, OneCelery
  <2>4. DeployServes'
    BY <1>16, <1>0, <1>a, <1>b, <1>c, <2>1, SMTT(30)
       DEF StartCelery, UpCelery, Went, SInv, Candidate, Former, Truth, DeployServes,
           Served, OneCelery
  <2>5. RestartServes'
    BY <1>16, <1>0, <1>a, <1>b, <1>c, <2>1, SMTT(30)
       DEF StartCelery, UpCelery, Went, SInv, Candidate, Former, RestartServes,
           OneCelery
  <2> QED
    BY <2>2, <2>3, <2>4, <2>5 DEF SInv
<1>17. CASE StopOldCelery
  <2>1. Went("persist", script.armed) \/ Went("trap", script.armed)
    BY <1>17, <1>0, Went1, WentFacts DEF StopOldCelery
  <2>2. Serving'
    BY <1>17, <1>0, <1>a, <1>b, <1>c, <2>1, SMTT(30)
       DEF StopOldCelery, StopCeleries, Went, SInv, Candidate, Former, Serving, Served,
           DeployServes, RestartServes
  <2>3. Truth'
    BY <1>17, <1>0, <1>a, <1>b, <1>c, <2>1, SMTT(30)
       DEF StopOldCelery, StopCeleries, Went, SInv, Candidate, Former, Truth,
           DeployServes, RestartServes, Served, OneCelery
  <2>4. DeployServes'
    BY <1>17, <1>0, <1>a, <1>b, <1>c, <2>1, SMTT(30)
       DEF StopOldCelery, StopCeleries, Went, SInv, Candidate, Former, Truth,
           DeployServes, Served, OneCelery
  <2>5. RestartServes'
    BY <1>17, <1>0, <1>a, <1>b, <1>c, <2>1, SMTT(30)
       DEF StopOldCelery, StopCeleries, Went, SInv, Candidate, Former, RestartServes,
           OneCelery
  <2> QED
    BY <2>2, <2>3, <2>4, <2>5 DEF SInv
<1>18. CASE Persist
  <2>1. Went("end", FALSE)
    BY <1>18, <1>0, Went1, WentFacts DEF Persist
  <2>2. Serving'
    BY <1>18, <1>0, <1>a, <1>b, <1>c, <2>1, SMTT(30)
       DEF Persist, Went, SInv, Candidate, Former, Serving, Served, DeployServes,
           RestartServes
  <2>3. Truth'
    BY <1>18, <1>0, <1>a, <1>b, <1>c, <2>1, SMTT(30)
       DEF Persist, Went, SInv, Candidate, Former, Truth, DeployServes, RestartServes,
           Served, OneCelery
  <2>4. DeployServes'
    BY <1>18, <1>0, <1>a, <1>b, <1>c, <2>1, SMTT(30)
       DEF Persist, Went, SInv, Candidate, Former, Truth, DeployServes, Served,
           OneCelery
  <2>5. RestartServes'
    BY <1>18, <1>0, <1>a, <1>b, <1>c, <2>1, SMTT(30)
       DEF Persist, Went, SInv, Candidate, Former, RestartServes, OneCelery
  <2> QED
    BY <2>2, <2>3, <2>4, <2>5 DEF SInv
<1>19. CASE End
  <2>1. At("end") /\ UNCHANGED <<services, state>>
        /\ \/ script'.at = "idle" /\ (~shaken' => ~shaken \/ script.cmd = "restart")
           \/ Went("trap", script.armed) /\ shaken'
    BY <1>19, <1>0, Went1, IdleTyped DEF End
  <2>2. Serving'
    BY <1>19, <1>0, <1>a, <1>b, <1>c, <2>1, SMTT(30)
       DEF Went, SInv, Candidate, Former, Serving, Served, DeployServes, RestartServes
  <2>3. Truth'
    BY <1>19, <1>0, <1>a, <1>b, <1>c, <2>1, SMTT(30)
       DEF Went, SInv, Candidate, Former, Truth, DeployServes, RestartServes, Served,
           OneCelery
  <2>4. DeployServes'
    BY <1>19, <1>0, <1>a, <1>b, <1>c, <2>1, SMTT(30)
       DEF Went, SInv, Candidate, Former, Truth, DeployServes, Served, OneCelery
  <2>5. RestartServes'
    BY <1>19, <1>0, <1>a, <1>b, <1>c, <2>1, SMTT(30)
       DEF Went, SInv, Candidate, Former, RestartServes, OneCelery
  <2> QED
    BY <2>2, <2>3, <2>4, <2>5 DEF SInv
<1>20. CASE Fail
  <2>1. Went("trap", script.armed)
    BY <1>20, <1>0, Went1, WentFacts DEF Fail
  <2>2. Serving'
    BY <1>20, <1>0, <1>a, <1>b, <1>c, <2>1, SMTT(30)
       DEF Fail, Went, SInv, Candidate, Former, Serving, Served, DeployServes,
           RestartServes
  <2>3. Truth'
    BY <1>20, <1>0, <1>a, <1>b, <1>c, <2>1, SMTT(30)
       DEF Fail, Went, SInv, Candidate, Former, Truth, DeployServes, RestartServes,
           Served, OneCelery
  <2>4. DeployServes'
    BY <1>20, <1>0, <1>a, <1>b, <1>c, <2>1, SMTT(30)
       DEF Fail, Went, SInv, Candidate, Former, Truth, DeployServes, Served, OneCelery
  <2>5. RestartServes'
    BY <1>20, <1>0, <1>a, <1>b, <1>c, <2>1, SMTT(30)
       DEF Fail, Went, SInv, Candidate, Former, RestartServes, OneCelery
  <2> QED
    BY <2>2, <2>3, <2>4, <2>5 DEF SInv
<1>21. CASE ReportFailure
  <2>1. script'.at = "idle"
    BY <1>21, <1>0, IdleTyped DEF ReportFailure
  <2>2. Serving'
    BY <1>21, <1>0, <1>a, <1>b, <1>c, <2>1, SMTT(30)
       DEF ReportFailure, SInv, Candidate, Former, Serving, Served, DeployServes,
           RestartServes
  <2>3. Truth'
    BY <1>21, <1>0, <1>a, <1>b, <1>c, <2>1, SMTT(30)
       DEF ReportFailure, SInv, Candidate, Former, Truth, DeployServes, RestartServes,
           Served, OneCelery
  <2>4. DeployServes'
    BY <1>21, <1>0, <1>a, <1>b, <1>c, <2>1, SMTT(30)
       DEF ReportFailure, SInv, Candidate, Former, Truth, DeployServes, Served,
           OneCelery
  <2>5. RestartServes'
    BY <1>21, <1>0, <1>a, <1>b, <1>c, <2>1, SMTT(30)
       DEF ReportFailure, SInv, Candidate, Former, RestartServes, OneCelery
  <2> QED
    BY <2>2, <2>3, <2>4, <2>5 DEF SInv
<1>22. CASE RestoreCelery
  <2>1. \/ script.armed /\ Went("restore", script.armed) /\ UNCHANGED memory
           /\ UpCelery(script.original, Former)
        \/ Went("restore", script.armed) /\ shaken'
        \/ ~script.armed /\ Went("undo", script.armed) /\ UNCHANGED <<celery, memory>>
    BY <1>22, <1>0, Went1 DEF RestoreCelery, TrapFails
  <2>2. Serving'
    BY <1>22, <1>0, <1>a, <1>b, <1>c, <2>1, SMTT(30)
       DEF RestoreCelery, UpCelery, TrapFails, Went, SInv, Candidate, Former, Serving,
           Served, DeployServes, RestartServes
  <2>3. Truth'
    BY <1>22, <1>0, <1>a, <1>b, <1>c, <2>1, SMTT(30)
       DEF RestoreCelery, UpCelery, TrapFails, Went, SInv, Candidate, Former, Truth,
           DeployServes, RestartServes, Served, OneCelery
  <2>4. DeployServes'
    BY <1>22, <1>0, <1>a, <1>b, <1>c, <2>1, SMTT(30)
       DEF RestoreCelery, UpCelery, TrapFails, Went, SInv, Candidate, Former, Truth,
           DeployServes, Served, OneCelery
  <2>5. RestartServes'
    BY <1>22, <1>0, <1>a, <1>b, <1>c, <2>1, SMTT(30)
       DEF RestoreCelery, UpCelery, TrapFails, Went, SInv, Candidate, Former,
           RestartServes, OneCelery
  <2> QED
    BY <2>2, <2>3, <2>4, <2>5 DEF SInv
<1>23. CASE RestoreRoute
  <2>1. Went("undo", script.armed)
    BY <1>23, <1>0, Went1, WentFacts DEF RestoreRoute
  <2>2. Serving'
    BY <1>23, <1>0, <1>a, <1>b, <1>c, <2>1, SMTT(30)
       DEF RestoreRoute, TrapFails, Went, SInv, Candidate, Former, Serving, Served,
           DeployServes, RestartServes
  <2>3. Truth'
    BY <1>23, <1>0, <1>a, <1>b, <1>c, <2>1, SMTT(30)
       DEF RestoreRoute, TrapFails, Went, SInv, Candidate, Former, Truth, DeployServes,
           RestartServes, Served, OneCelery
  <2>4. DeployServes'
    BY <1>23, <1>0, <1>a, <1>b, <1>c, <2>1, SMTT(30)
       DEF RestoreRoute, TrapFails, Went, SInv, Candidate, Former, Truth, DeployServes,
           Served, OneCelery
  <2>5. RestartServes'
    BY <1>23, <1>0, <1>a, <1>b, <1>c, <2>1, SMTT(30)
       DEF RestoreRoute, TrapFails, Went, SInv, Candidate, Former, RestartServes,
           OneCelery
  <2> QED
    BY <2>2, <2>3, <2>4, <2>5 DEF SInv
<1>24. CASE StopCandidate
  <2>1. script'.at = "idle"
    BY <1>24, <1>0, IdleTyped DEF StopCandidate
  <2>2. Serving'
    BY <1>24, <1>0, <1>a, <1>b, <1>c, <2>1, SMTT(30)
       DEF StopCandidate, StopWebs, StopCeleries, TrapFails, SInv, Candidate, Former,
           Serving, Served, DeployServes, RestartServes
  <2>3. Truth'
    BY <1>24, <1>0, <1>a, <1>b, <1>c, <2>1, SMTT(30)
       DEF StopCandidate, StopWebs, StopCeleries, TrapFails, SInv, Candidate, Former,
           Truth, DeployServes, RestartServes, Served, OneCelery
  <2>4. DeployServes'
    BY <1>24, <1>0, <1>a, <1>b, <1>c, <2>1, SMTT(30)
       DEF StopCandidate, StopWebs, StopCeleries, TrapFails, SInv, Candidate, Former,
           Truth, DeployServes, Served, OneCelery
  <2>5. RestartServes'
    BY <1>24, <1>0, <1>a, <1>b, <1>c, <2>1, SMTT(30)
       DEF StopCandidate, StopWebs, StopCeleries, TrapFails, SInv, Candidate, Former,
           RestartServes, OneCelery
  <2> QED
    BY <2>2, <2>3, <2>4, <2>5 DEF SInv
<1>25. CASE Crash
  <2>1. script'.at = "idle" /\ shaken'
    BY <1>25, <1>0, IdleTyped DEF Crash
  <2>2. Serving'
    BY <1>25, <1>0, <1>a, <1>b, <1>c, <2>1, SMTT(30)
       DEF Crash, SInv, Candidate, Former, Serving, Served, DeployServes, RestartServes
  <2>3. Truth'
    BY <1>25, <1>0, <1>a, <1>b, <1>c, <2>1, SMTT(30)
       DEF Crash, SInv, Candidate, Former, Truth, DeployServes, RestartServes, Served,
           OneCelery
  <2>4. DeployServes'
    BY <1>25, <1>0, <1>a, <1>b, <1>c, <2>1, SMTT(30)
       DEF Crash, SInv, Candidate, Former, Truth, DeployServes, Served, OneCelery
  <2>5. RestartServes'
    BY <1>25, <1>0, <1>a, <1>b, <1>c, <2>1, SMTT(30)
       DEF Crash, SInv, Candidate, Former, RestartServes, OneCelery
  <2> QED
    BY <2>2, <2>3, <2>4, <2>5 DEF SInv
<1>26. CASE (\E r \in Release : Commit(r)) \/ Submit \/ Write \/ Judge
  <2>1. UNCHANGED <<web, ready, celery, bridge, route, state, broken, shaken, script>>
    BY <1>26 DEF Commit, Submit, Write, Judge
  <2> QED
    BY <2>1 DEF SInv, Serving, Truth, DeployServes, RestartServes, Served, OneCelery,
           Candidate, Former
<1> QED
  BY <1>1, <1>2, <1>3, <1>4, <1>5, <1>6, <1>7, <1>8, <1>9, <1>10, <1>11, <1>12, <1>13,
     <1>14, <1>15, <1>16, <1>17, <1>18, <1>19, <1>20, <1>21, <1>22, <1>23, <1>24, <1>25,
     <1>26
     DEF Next

-----------------------------------------------------------------------------
LEMMA ServingStarts == Init => SInv
<1> SUFFICES ASSUME Init PROVE SInv
  OBVIOUS
<1> USE DeploymentAssumption
<1>1. PICK first \in Release : Init!(first)
  BY DEF Init
<1>2. state.active = Nobody /\ At("idle")
  BY <1>1, IdleTyped DEF NoState
<1>3. Serving
  BY <1>1 DEF Serving
<1> QED
  BY <1>2, <1>3 DEF SInv, Truth, DeployServes, RestartServes

LEMMA ServingStutters == SInv /\ UNCHANGED vars => SInv'
BY DEF SInv, Serving, Truth, DeployServes, RestartServes, Served, OneCelery,
       Candidate, Former, vars

(***************************************************************************)
(* What the scripts know at each command holds at each command.            *)
(***************************************************************************)
THEOREM ServingInductive == ASSUME OnlyRestartMends PROVE Spec => [](IInv /\ SInv)
<1>1. Init => IInv /\ SInv
  BY StartsSound, ServingStarts
<1>2. IInv /\ SInv /\ [Next]_vars => (IInv /\ SInv)'
  BY StepSound, StutterSound, ServingStep, ServingStutters
<1> QED
  BY <1>1, <1>2, PTL DEF Spec

(***************************************************************************)
(* Visitors reach the maintenance page or a Web that runs and has passed   *)
(* its checks, whichever command of a script fails and while it is undone, *)
(* until a script is killed, or fails where its trap does not expect it.   *)
(***************************************************************************)
THEOREM AlwaysServing == ASSUME OnlyRestartMends PROVE Spec => []Serving
<1>1. SInv => Serving
  BY DEF SInv
<1> QED
  BY <1>1, ServingInductive, PTL

(***************************************************************************)
(* Between scripts, state.env names the colour that serves, its release    *)
(* and that of the bridge: what the next script takes for its target is    *)
(* never the colour that visitors are on.                                  *)
(***************************************************************************)
THEOREM StateTold == ASSUME OnlyRestartMends PROVE Spec => []StateAgrees
<1>1. SInv => StateAgrees
  BY DEF SInv, Truth, Served, OneCelery, StateAgrees
<1> QED
  BY <1>1, ServingInductive, PTL
=============================================================================
