----------------------------- MODULE Deployment -----------------------------
(***************************************************************************)
(* The two deployment scripts of one server, command by command: deploy.sh *)
(* (blue/green, and its rollback) and restart.sh (maintenance, backup,     *)
(* migration), with deploy/lib.sh and deploy/skoj-nginx-switch.            *)
(*                                                                         *)
(* A command of a script may fail, with or without having had its effect;  *)
(* set -e then runs the script's EXIT trap.  The lock of prepare_runtime   *)
(* keeps two scripts apart, so one process is enough; what the operator    *)
(* runs next, and what users, Celery and the bridge do meanwhile, is free. *)
(***************************************************************************)
EXTENDS Naturals

CONSTANTS
    Release,    \* Git commits, numbered in the order they are committed
    SchemaOf,   \* the database schema that the code of a release is made for
    Faults,     \* "step": a command fails; "late": the log after the Nginx
                \* switch or after success fails, or a command of a trap;
                \* "crash": the script is killed
    Recovery    \* the commands an operator uses after restart.sh has failed

Command == {"deploy", "rollback", "restart"}

ASSUME DeploymentAssumption ==
    /\ Release \subseteq Nat \ {0} /\ Release # {}
    /\ SchemaOf \in [Release -> Nat]
    /\ \A r, q \in Release : r < q => SchemaOf[r] <= SchemaOf[q]
    /\ Faults \subseteq {"step", "late", "crash"}
    /\ Recovery \subseteq Command

Colour == {"blue", "green"}
Slot == Colour \cup {"legacy"}
Nobody == "none"            \* PREVIOUS_COLOR is empty; no state.env for ACTIVE_COLOR
Down == 0                   \* a service that is not running

VARIABLES
    head,       \* HEAD of the checkout
    web,        \* the release each Web container runs
    ready,      \* Web containers that have passed readiness and smoke test
    celery,     \* the release each Celery container runs
    bridge,     \* the release the bridge runs
    route,      \* the target of Nginx's active.conf
    schema,     \* the schema of the live database
    unfinished, \* submissions are QU, P or G
    backup,     \* the last dump holds all that the database holds
    state,      \* .deployment/state.env
    broken,     \* the last restart.sh failed
    shaken,     \* since restart.sh last succeeded, a script was killed or
                \* failed where its trap does not expect it
    script      \* the running script, see Script

services == <<web, ready, celery, bridge, route>>
data == <<schema, unfinished, backup>>
memory == <<broken, shaken>>
vars == <<head, services, data, state, memory, script>>

State == [active : Colour \cup {Nobody}, previous : Colour \cup {Nobody},
          release : [Colour -> Release \cup {Down}], bridge : Release \cup {Down}]

Step == {"idle", "migrations", "maintenance", "stopWeb", "stopCelery", "drain",
         "stopBridge", "backup", "init", "bridge", "up", "check", "switch",
         "celery", "stopOld", "persist", "end", "trap", "restore", "undo"}

(***************************************************************************)
(* plan is the shell's copy of state.env with what the script has changed  *)
(* in it, armed is traffic_switched or maintenance_enabled, code the exit  *)
(* code that the trap sees.                                                *)
(***************************************************************************)
Script == [cmd : Command, at : Step, code : {0, 1, 20}, plan : State,
           original : Colour \cup {Nobody}, target : Colour, armed : BOOLEAN]

TypeOK ==
    /\ head \in Release
    /\ web \in [Slot -> Release \cup {Down}]
    /\ ready \subseteq Slot
    /\ celery \in [Slot -> Release \cup {Down}]
    /\ bridge \in Release \cup {Down}
    /\ route \in Slot \cup {"maintenance"}
    /\ schema \in {SchemaOf[r] : r \in Release}
    /\ unfinished \in BOOLEAN /\ backup \in BOOLEAN
    /\ broken \in BOOLEAN /\ shaken \in BOOLEAN
    /\ state \in State
    /\ script \in Script

NoState == [active |-> Nobody, previous |-> Nobody,
            release |-> [c \in Colour |-> Down], bridge |-> Down]

Begin(cmd, l, original, target, plan) ==
    [cmd |-> cmd, at |-> l, code |-> 0, plan |-> plan,
     original |-> original, target |-> target, armed |-> FALSE]

Idle == Begin("deploy", "idle", Nobody, "blue", NoState)

\* The server before its first managed deployment: the legacy Web serves.
Init ==
    \E first \in Release :
        /\ \A r \in Release : first <= r
        /\ head = first /\ bridge = first
        /\ web = [s \in Slot |-> IF s = "legacy" THEN first ELSE Down]
        /\ celery = web
        /\ ready = {"legacy"} /\ route = "legacy"
        /\ schema = SchemaOf[first]
        /\ unfinished = FALSE /\ backup = FALSE
        /\ broken = FALSE /\ shaken = FALSE
        /\ state = NoState
        /\ script = Idle

-----------------------------------------------------------------------------
(***************************************************************************)
(* The operator starts a script.  What the scripts do before they choose a *)
(* target (lock, preflight, build) changes nothing that is modelled, and   *)
(* has no trap to run when it fails.                                       *)
(***************************************************************************)
May(cmd) == script.at = "idle" /\ (broken => cmd \in Recovery)

\* Mutant: the third slot is taken for a colour.
OtherSlot(c) == IF c = "blue" THEN "green" ELSE "legacy"

Other(c) == IF c = "blue" THEN "green" ELSE "blue"

\* set_colour_release
WithRelease(plan, c) == [plan EXCEPT !.release[c] = head]

Start(new) ==
    /\ script' = new
    /\ UNCHANGED <<head, services, data, state, memory>>

Deploy ==
    /\ May("deploy")
    /\ state.active # Nobody
    /\ LET target == Other(state.active)
       IN  Start(Begin("deploy", "migrations", state.active, target,
                       WithRelease(state, target)))

Rollback ==
    /\ May("rollback")
    /\ state.active # Nobody /\ state.previous # Nobody
    /\ Start(Begin("rollback", "up", state.active, state.previous, state))

\* initialize_state_for_first_deploy
FirstState == [active |-> "blue", previous |-> Nobody,
               release |-> [c \in Colour |-> head], bridge |-> head]

Restart ==
    /\ May("restart")
    /\ LET had == state.active # Nobody
           target == IF had THEN Other(state.active) ELSE "blue"
           plan == IF had THEN state ELSE FirstState
       IN  Start(Begin("restart", "maintenance", Nobody, target,
                       [WithRelease(plan, target) EXCEPT !.bridge = head]))

-----------------------------------------------------------------------------
(***************************************************************************)
(* One command of a script.                                                *)
(***************************************************************************)
At(l) == script.at = l
Running(cmd, l) == script.cmd = cmd /\ script.at = l
Goto(l) == script' = [script EXCEPT !.at = l]
Exit(code) == script' = [script EXCEPT !.at = "trap", !.code = code]

\* The command had its effect; it may report failure nevertheless.
Then(l) == Goto(l) \/ ("step" \in Faults /\ Exit(1))

\* It had its effect, and what reports it failed.
FailLate == "late" \in Faults /\ Exit(1) /\ shaken' = TRUE /\ UNCHANGED broken

\* The release of the target, and of the colour that was active.
Candidate == script.plan.release[script.target]
Former == script.plan.release[script.original]

\* The services in a command: those that run something else are recreated.
UpWeb(c, r) ==
    /\ web' = [web EXCEPT ![c] = r]
    /\ ready' = IF web[c] = r THEN ready ELSE ready \ {c}
UpCelery(c, r) == celery' = [celery EXCEPT ![c] = r]
StopWebs(S) ==
    /\ web' = [s \in Slot |-> IF s \in S THEN Down ELSE web[s]]
    /\ ready' = ready \ S
StopCeleries(S) == celery' = [s \in Slot |-> IF s \in S THEN Down ELSE celery[s]]

\* Mutant: pending migrations are not looked for.
MigrationsUnchecked ==
    /\ Running("deploy", "migrations")
    /\ Goto("up")
    /\ UNCHANGED <<head, services, data, state, memory>>

\* A release that needs migrations is refused.
CheckMigrations ==
    /\ Running("deploy", "migrations")
    /\ \/ SchemaOf[Candidate] > schema /\ Exit(20)
       \/ SchemaOf[Candidate] =< schema /\ Goto("up")
    /\ UNCHANGED <<head, services, data, state, memory>>

Maintenance ==
    /\ Running("restart", "maintenance")
    /\ route' = "maintenance"
    /\ \/ script' = [script EXCEPT !.at = "stopWeb", !.armed = TRUE] /\ UNCHANGED memory
       \/ FailLate
    /\ UNCHANGED <<head, web, ready, celery, bridge, data, state>>

\* Mutant: the requests in flight are not waited for.
LeaveWeb ==
    /\ Running("restart", "stopWeb")
    /\ Goto("stopCelery")
    /\ UNCHANGED <<head, services, data, state, memory>>

\* stop_legacy_application follows when there was no state.env; a slot that
\* is down already stays down.
StopWeb ==
    /\ Running("restart", "stopWeb")
    /\ StopWebs(Slot)
    /\ Then("stopCelery")
    /\ UNCHANGED <<head, celery, bridge, route, data, state, memory>>

\* Mutant: the Celery workers run on.
LeaveCelery ==
    /\ Running("restart", "stopCelery")
    /\ Goto("drain")
    /\ UNCHANGED <<head, services, data, state, memory>>

StopCelery ==
    /\ Running("restart", "stopCelery")
    /\ StopCeleries(Slot)
    /\ Then("drain")
    /\ UNCHANGED <<head, web, ready, bridge, route, data, state, memory>>

\* wait_for_judge_state drained; its timeout is a failure of the command.
Drain ==
    /\ Running("restart", "drain")
    /\ ~unfinished
    /\ Goto("stopBridge")
    /\ UNCHANGED <<head, services, data, state, memory>>

StopBridge ==
    /\ Running("restart", "stopBridge")
    /\ bridge' = Down
    /\ Then("backup")
    /\ UNCHANGED <<head, web, ready, celery, route, data, state, memory>>

\* backup_database
Backup ==
    /\ Running("restart", "backup")
    /\ backup' = TRUE
    /\ Then("init")
    /\ UNCHANGED <<head, services, schema, unfinished, state, memory>>

\* initialize_docker migrates the database.
Migrate ==
    /\ Running("restart", "init")
    /\ schema' = SchemaOf[Candidate]
    /\ Then("bridge")
    /\ UNCHANGED <<head, services, unfinished, backup, state, memory>>

StartBridge ==
    /\ Running("restart", "bridge")
    /\ bridge' = script.plan.bridge
    /\ Then("up")
    /\ UNCHANGED <<head, web, ready, celery, route, data, state, memory>>

\* deploy.sh starts Celery only after the switch.
Up ==
    /\ At("up")
    /\ UpWeb(script.target, Candidate)
    /\ IF script.cmd = "deploy" THEN UNCHANGED celery
                                ELSE UpCelery(script.target, Candidate)
    /\ Then("check")
    /\ UNCHANGED <<head, bridge, route, data, state, memory>>

\* wait_for_web, smoke_candidate, wait_for_service_health
Check ==
    /\ At("check")
    /\ ready' = ready \cup {script.target}
    /\ Goto("switch")
    /\ UNCHANGED <<head, web, celery, bridge, route, data, state, memory>>

\* switch_nginx: the helper puts the link back when it fails, unless it is
\* its last command, the log, that fails.
Switch ==
    /\ At("switch")
    /\ route' = script.target
    /\ \/ script' = [script EXCEPT !.armed = TRUE,
                        !.at = CASE script.cmd = "deploy" -> "celery"
                                 [] script.cmd = "rollback" -> "stopOld"
                                 [] script.cmd = "restart" -> "persist"]
          /\ UNCHANGED memory
       \/ FailLate
    /\ UNCHANGED <<head, web, ready, celery, bridge, data, state>>

StartCelery ==
    /\ Running("deploy", "celery")
    /\ UpCelery(script.target, Candidate)
    /\ Then("stopOld")
    /\ UNCHANGED <<head, web, ready, bridge, route, data, state, memory>>

\* Mutant: the former Celery runs on beside the new one.
LeaveOldCelery ==
    /\ At("stopOld")
    /\ Goto("persist")
    /\ UNCHANGED <<head, services, data, state, memory>>

StopOldCelery ==
    /\ At("stopOld")
    /\ StopCeleries({script.original})
    /\ Then("persist")
    /\ UNCHANGED <<head, web, ready, bridge, route, data, state, memory>>

\* persist_loaded_state; the new file is moved into place or there is none.
Persist ==
    /\ At("persist")
    /\ state' = [script.plan EXCEPT !.active = script.target,
                                    !.previous = script.original]
    /\ script' = [script EXCEPT !.at = "end", !.armed = FALSE]
    /\ UNCHANGED <<head, services, data, memory>>

\* The log of the success is the last command.
End ==
    /\ At("end")
    /\ \/ /\ script' = Idle
          /\ broken' = FALSE
          /\ shaken' = (shaken /\ script.cmd # "restart")
       \/ FailLate
    /\ UNCHANGED <<head, services, data, state>>

\* A command fails and has done nothing.
Fail ==
    /\ "step" \in Faults
    /\ script.at \notin {"idle", "end", "trap", "restore", "undo"}
    /\ Exit(1)
    /\ UNCHANGED <<head, services, data, state, memory>>

-----------------------------------------------------------------------------
(***************************************************************************)
(* The EXIT traps.  report_failure of restart.sh puts the maintenance page *)
(* back; cleanup_failed_deploy of deploy.sh goes back to the former colour *)
(* if traffic was switched, then stops the candidate.                      *)
(***************************************************************************)
\* A command of a trap fails, and the trap goes on.
TrapFails == "late" \in Faults /\ shaken' = TRUE /\ UNCHANGED broken

ReportFailure ==
    /\ Running("restart", "trap")
    /\ \/ /\ route' = IF script.armed THEN "maintenance" ELSE route
          /\ UNCHANGED shaken
       \/ "late" \in Faults /\ shaken' = TRUE /\ UNCHANGED route
    /\ broken' = TRUE
    /\ script' = Idle
    /\ UNCHANGED <<head, web, ready, celery, bridge, data, state>>

RestoreCelery ==
    /\ At("trap") /\ script.cmd # "restart"
    /\ \/ /\ script.armed
          /\ Goto("restore")
          /\ \/ UpCelery(script.original, Former) /\ UNCHANGED memory
             \/ TrapFails /\ UNCHANGED celery
       \/ ~script.armed /\ Goto("undo") /\ UNCHANGED <<celery, memory>>
    /\ UNCHANGED <<head, web, ready, bridge, route, data, state>>

\* Mutant: Nginx is left with the candidate.
LeaveRoute ==
    /\ At("restore")
    /\ Goto("undo")
    /\ UNCHANGED <<head, services, data, state, memory>>

RestoreRoute ==
    /\ At("restore")
    /\ Goto("undo")
    /\ \/ route' = script.original /\ UNCHANGED memory
       \/ TrapFails /\ UNCHANGED route
    /\ UNCHANGED <<head, web, ready, celery, bridge, data, state>>

StopCandidate ==
    /\ At("undo")
    /\ \/ /\ StopWebs({script.target}) /\ StopCeleries({script.target})
          /\ UNCHANGED memory
       \/ TrapFails /\ UNCHANGED <<web, ready, celery>>
    /\ script' = Idle
    /\ UNCHANGED <<head, bridge, route, data, state>>

\* The script is killed, or the server goes down: no trap runs.
Crash ==
    /\ "crash" \in Faults
    /\ ~At("idle")
    /\ script' = Idle
    /\ broken' = (broken \/ script.cmd = "restart")
    /\ shaken' = TRUE
    /\ UNCHANGED <<head, services, data, state>>

-----------------------------------------------------------------------------
\* The environment: commits, and the database being written to.  A commit made
\* while a script runs is one made after it: the script has read HEAD.
Commit(r) ==
    /\ At("idle")
    /\ r > head
    /\ head' = r
    /\ UNCHANGED <<services, data, state, memory, script>>

\* Web and Celery write as long as they run: a Web that Nginx has been switched
\* away from still has requests in flight, and Celery has tasks.  None of this
\* needs the bridge.
Writing == \E s \in Slot : web[s] # Down \/ celery[s] # Down

\* A submission is created or told to be judged again: the row is QU before the
\* bridge is asked.
Submit ==
    /\ Writing
    /\ unfinished' = TRUE
    /\ backup' = FALSE
    /\ UNCHANGED <<head, services, schema, state, memory, script>>

\* Anything else is written: a vote, an edit, a rescored result.
Write ==
    /\ Writing
    /\ backup' = FALSE
    /\ UNCHANGED <<head, services, schema, unfinished, state, memory, script>>

\* The bridge writes: results, and the pings of the judges.
Judge ==
    /\ bridge # Down
    /\ unfinished' \in {unfinished, FALSE}
    /\ backup' = FALSE
    /\ UNCHANGED <<head, services, schema, state, memory, script>>

Next ==
    \/ Deploy \/ Rollback \/ Restart
    \/ CheckMigrations \/ Maintenance \/ StopWeb \/ StopCelery \/ Drain
    \/ StopBridge \/ Backup \/ Migrate \/ StartBridge
    \/ Up \/ Check \/ Switch \/ StartCelery \/ StopOldCelery \/ Persist \/ End
    \/ Fail \/ ReportFailure \/ RestoreCelery \/ RestoreRoute \/ StopCandidate
    \/ Crash
    \/ \E r \in Release : Commit(r)
    \/ Submit \/ Write \/ Judge

Spec == Init /\ [][Next]_vars
-----------------------------------------------------------------------------
(***************************************************************************)
(* Visitors reach the maintenance page or a Web that has passed its        *)
(* checks, also while a failed deployment is being undone.  A script that  *)
(* was killed after the switch breaks it: the next one stops or replaces   *)
(* the colour that serves, as state.env still names the other.             *)
(***************************************************************************)
Serving == ~shaken /\ route \in Slot => web[route] # Down /\ route \in ready

(***************************************************************************)
(* Code only runs against the schema it is made for: no Web, no Celery     *)
(* worker and no bridge survives a migration, or is started again by a     *)
(* rollback to a release from before it.                                   *)
(***************************************************************************)
SchemaFits ==
    /\ \A s \in Slot :
         /\ web[s] # Down => SchemaOf[web[s]] = schema
         /\ celery[s] # Down => SchemaOf[celery[s]] = schema
    /\ bridge # Down => SchemaOf[bridge] = schema

(***************************************************************************)
(* The bridge writes off what is unfinished when it starts (judge_daemon), *)
(* so it is only stopped and replaced when there is nothing.               *)
(***************************************************************************)
NothingWrittenOff == [][bridge' # bridge => ~unfinished]_vars

(***************************************************************************)
(* The database is migrated only when the dump from which it would be      *)
(* restored by hand misses nothing: whatever writes has been stopped       *)
(* before it is made (Web, Celery, the bridge).                            *)
(***************************************************************************)
BackupComplete == [][schema' # schema => backup]_vars

(***************************************************************************)
(* Between scripts of which none was killed, state.env tells the truth:    *)
(* the site is served by the active colour in the recorded release, by one *)
(* Celery of the same release, and the bridge runs the recorded one.       *)
(***************************************************************************)
StateAgrees ==
    At("idle") /\ ~broken /\ ~shaken /\ state.active # Nobody =>
        /\ route = state.active
        /\ \A s \in Slot :
             celery[s] = IF s = route THEN state.release[s] ELSE Down
        /\ web[route] = state.release[route]
        /\ bridge = state.bridge
=============================================================================
