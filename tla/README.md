# SKOJ in TLA+

SKOJ is an online judge: a Django site (a fork of DMOJ), Celery workers, a
*bridge* process that hands submissions to judge processes, MariaDB, Redis and
Nginx, run with Docker Compose on one server. These modules model the parts of
it in which several actors change shared state: the dispatcher of the bridge,
the life of a submission between web, bridge and judges, the page that shows
it, the results it brings in a contest, votes on comments, and the deployment
of the server.

Line numbers without a file refer to the file named in the same sentence; files
are relative to `src/`, and `bridge/`, `models/`, `views/` to `src/site/judge/`.

## 1. Inventory

### The judging path

```
  user --> web worker --> Submission row (QU)
                 |             ^   ^
  judgeapi.py    | request     |   | status, test cases, points
                 v             |   |
  django_handler.py --> JudgeList --> JudgeHandler <==> judge process
                        (queue, map)  (one thread per connection)
```

| Part | State | Operations | What is hard, and what must hold |
|---|---|---|---|
| `bridge/judge_list.py` | linked queue with four priority markers, `node_map`, `submission_map`, `judges` | `judge`, `abort`, `register`, `remove`, `on_judge_free`, `update_problems`, `update_disable_judge`, `disconnect` | calls from every thread in any order; the four structures and each handler's `_working` agree; one grading at a time; order and reserve are kept; no entry waits beside a judge that should take it |
| `bridge/judge_handler.py` | `_working`, `problems`, `is_disabled`, the judge's protocol state | handshake, submit, acknowledgement, grading, outcomes, disconnection | frees the judge *before* it writes the result; database steps without a lock; disconnection in the middle |
| `judgeapi.py` | none of its own; the row | `judge_submission`, `abort_submission`, judge administration | checks and updates are separate queries; the bridge may be unreachable after the row changed |
| `bridge/django_handler.py`, `bridge/daemon.py` | none; the list is in memory | one request, one call of the list; write-off at start | the bridge dies with the queue; what it knew must end up final |
| `bridge/base_handler.py`, `bridge/server.py` | a socket buffer | framing, pings | byte handling; not modelled |

### The deployment

| Part | State | Operations | What is hard, and what must hold |
|---|---|---|---|
| `deploy.sh`, `restart.sh`, `deploy/lib.sh`, `deploy/skoj-nginx-switch` | `.deployment/state.env`, the containers, the Nginx link, the schema, the last dump | deploy, rollback, restart with migration, EXIT traps | any command may fail, a script may be killed; visitors always reach a checked Web, code always meets its schema, nothing is lost around a migration, `state.env` is true afterwards |

### What follows a grading, and votes

| Part | State | Operations | What is hard, and what must hold |
|---|---|---|---|
| `models/submission.py:157`, `models/contest.py:616-668`, `contest_format/default.py`, `tasks/` | `ContestSubmission.points`, the row of a participation, `banned_users` | `update_contest`, `recompute_results`, `set_disqualified`, `rescore_problem`, `rescore_contest`, the administrator's form | each works from a copy loaded before the lock; a grading, a rescoring and an editor at once; the results are those of the points, the points those of the last gradings, a disqualification stands |
| `event_poster_ws.py`, `resources/event.js`, `templates/submission/status.html`, `views/submission.py:189-230` | the messages the daemon keeps; in the browser `last_msg`, `blocked`, `request`, the list | posts and `last()`; WebSocket or polling; `update`; the reload every 3 s | messages are posted before or after what they tell is stored, and may be lost; three reads make a page; the list never goes back, and every page comes to show the end |
| `views/comment.py:25-77`, `dblock.py` | the votes, the score of the comment, the lock of the table | `vote_comment`, hide, edit, deletion | insert, locked lookup, delete and score are steps of their own; the score is the sum of the votes, nobody waits for ever while the comment is there |

### The rest of the site

| Part | State and hard behaviour | Status |
|---|---|---|
| joining a contest (`views/contests.py`) | live, virtual and late participations, current contest of a profile; look-up then create; the submission window | not modelled |
| formats other than the default, times and attempts, frozen scoreboards | functions of the submissions, written in SQL | not modelled |
| gamification (`gamification.py`) | clusters by tier, challenge attempts, recomputed score; read then update | not modelled |
| `signals.py`, `LatestSubmission` | best-so-far copy of a submission; read, compare, save | not modelled |
| login lockout, two-factor (`models/profile.py`) | counter and last used code, read then saved | not modelled |
| ratings, performance points | floating point over whole tables | not modelled |
| problem data, PDF, caching keys, Keycloak, tickets, admin, API, templates | file formats, I/O, forms and presentation | not modelled |

`PROJECT.json` lists every part with its files, and the hazards of this code at
the line where each bites, the uncovered ones with the reason.

## 2. Modules

| Module | Models |
|---|---|
| `Dispatch` | what the dispatcher promises its callers, with no priorities, capabilities or bookkeeping |
| `JudgeList` | the dispatcher in detail; states that it implements `Dispatch` (`KeepsPromise`) |
| `SubmissionLifecycle` | web workers, rows and handler threads around an instance of `JudgeList` |
| `Deployment` | the deployment scripts, one command per action |
| `ContestScore` | the results of one participation and everything that writes them |
| `StatusPage` | the page of one submission: the browser's script, the views, the posts of the bridge and the daemon |
| `CommentVotes` | the votes on one comment, with the table lock |
| `MCJudgeList`, `MCSubmissionLifecycle`, `MCDeployment`, `MCContestScore`, `MCStatusPage`, `MCCommentVotes` | the instances that TLC checks |
| `JudgeListProofs`, `DispatchProofs`, `LifecycleProofs`, `DeploymentProofs`, `DeploymentServing`, `ContestScoreProofs`, `StatusPageProofs`, `CommentVotesProofs` | theorems |

`SubmissionLifecycle` contains an instance of `JudgeList`, which implements
`Dispatch`. The others stand by themselves: what they share with the judging path is
one event each (`GradingEnd` in `ContestScore`, `TellCase` to `TellEnd` in
`StatusPage`), in the order of the handler that `SubmissionLifecycle` models.

### JudgeList

`JudgeList.lock` is re-entrant and is held by every public method for its whole
body, so a method is one action, the walk of the queue it ends with included
(`HandleFreeJudge`). What a connection thread does outside the lock is a step
of its own: `LoadDisabled` (reading the flag from the database after
`register`), `SupportedProblems`, `ReadWorking` and `UpdateProblems`.

* The linked list with markers is `queue`, a sequence for each priority: the
  nodes in front of its marker. `node_map` is the set of ids that have a node.
* `judge_priority.py`: contest 0, default 1, rejudge 2, batch rejudge 3.
* Judges are sorted by load and a random number before one is chosen, so any
  available judge may be chosen.
* A submission needs one pair of a problem and a language (`KindOf`), a judge
  announces a set of pairs (`Lists`).
* `handler[c].job` is not in the code: it is what the judge process really
  works on, so that the bookkeeping can be compared with the truth.
* `Faults` switches on what may raise: `"fetch"` the query for the submission's
  data, `"send"` the send (both inside `submit`), `"close"` forced
  disconnection. `LiveUpdates` lets connected judges announce new problem lists
  and `Enabling` lets disabled judges be enabled again.

### SubmissionLifecycle

Neither web workers nor handler threads lock the row, so every query is an
action, in the order of the code. `worker` is the program counter of a worker in
`judge_submission` or `abort_submission`; `todo` is the query a handler thread
makes next, and it reads its next packet only after that. `rows` are the
`SubmissionTestCase` rows by case number, `score` the cases that the saved
points were computed from. The judge process follows the protocol (external).
`End` is what every final report has in common: `on_judge_free` first, then the
outcome that the thread has to write. After a failed dispatch another judge's
`remove` may have deleted the entry of `submission_map`; `on_judge_free` then raises
(`bridge/judge_list.py:104`), `on_packet` swallows the error, and the report is lost
with the judge still marked as working. `Restart` is a bridge that dies and starts
again, with the write-off of
`bridge/daemon.py:23`.

### Deployment

`script` is the running script: which command, where it is, the exit code its
trap sees, its copy of `state.env` and the `traffic_switched` or
`maintenance_enabled` flag. Releases are numbered in the order in which they
are committed, and each has the schema its code is made for: an older commit
never needs a newer schema. Three kinds of failure: a command fails with or
without its effect (`"step"`, then the trap runs), a log after the last effect or
a command of a trap fails (`"late"`), the script is killed (`"crash"`, no trap).
The two memories `broken` and `shaken` are not in the code: they record what the
properties exclude.

Around the scripts the database is written to (`Submit`, `Write`, `Judge`). Web and
Celery write as long as they *run*: a Web that Nginx has been switched away from still
answers the requests in flight, Celery has its tasks, and neither needs the bridge for
creating a submission, a vote or a rescored result. The bridge writes as long as it
runs. So that nothing is written off, and nothing is missing in the dump, only
because `restart.sh` stops all three in its order.

### ContestScore

A process is a thread of the bridge, a worker or an editor; `proc[p].pc` says
what it does next and the rest of `proc[p]` are the copies it holds. One step is
one committed statement; `recompute_results` is a transaction that holds the
row's lock (`holder`) from `Lock` to `Save`, and the administrator's form is one
transaction, whose own write of the row shows only in what it commits.

* `row` is what the last grading gave a submission, `Ungraded` while there is
  none; `points` is `ContestSubmission.points`. Grades are in the points of the
  contest problem; the conversion from test cases and the rounding are left out.
* `Best(points)` stands for `format_data`: the best points of each problem.
  `part.score` is their sum, or -9999 for the disqualified.
* The administration loads participations with `only(...)`
  (`admin/contest.py:750-754`), which leaves out `is_disqualified` and `format_data`.
  `recalculate_results` therefore does not write the disqualification back (`deferred`),
  and the form (`OpenForm`, `SaveForm`) writes the score of its copy, and the
  disqualification, a field of the form, but no results.
* `Read` may fail: `update_participation` logs the error and saves empty results.
* `stale` and `torn` are not in the code. They remember what the code does not
  repair by itself: a writer that died, an older row written back, results that
  could not be read; and the submissions whose points two processes held copies of.

### StatusPage

`wrote` counts what the bridge has stored (test cases, then the final row),
`told` the messages it has posted; on a test case it posts first and stores
after, at the end it stores first. `kept` are the messages of the daemon
(external): it forgets them when it goes down. `page` is the page in the
browser; `asked`, `reading` and `answers` are its query for the list, which the view
answers by two reads, the row and then the test cases; `load` is the page on its way,
which takes three. `processing` and `grading-begin`
messages only call `update` like a test case and are left out; a test case of
which no message is posted is the rate limit, or a page that does not hear it.

### CommentVotes

One comment. `vote[v]` is the row of a voter (0 is none), `req[r]` a request,
`due` what it still has to add to the score. `LockModel` locks the table of the
votes, so a `vote.save()` of others waits too. The comment may be deleted at any time
(`Remove`), its votes with it. `except IntegrityError` (63) takes the error of the
foreign key for that of a vote given twice, so `Save` goes on to the lookup then, too,
which finds nothing and goes back. `drifted` is not in the code: a request died between
its vote and the score, an editor's form wrote an older score back (`form_valid` saves
the whole row), or the comment was deleted.

## 3. Runs

| Run | Instance | Shows |
|---|---|---|
| `same_judges` | 3 connections, 2 names, 3 submissions, equal judges | a rejudge waits beside a free judge only while that judge is the one reserve (`RejudgeWaitsForReserveOnly`), and starting a rejudge leaves an enabled judge free (`ReserveKept`) |
| `mixed_judges` | 2 connections, 3 submissions, one of which needs what only some judges have | `MapTracksWork`, `SingleGrading`, `HighPriorityNeverWaits`, `NeverOvertaken`, and the refinement `KeepsPromise` |
| `faulty_judges` | 2 connections of one name, all faults, live lists, enabling | types and `QueueWellFormed` under everything at once |
| `one_worker` | 2 connections, 2 submissions, a worker that submits and batch-rejudges | `ResultComplete`, `FinishedIsForgotten` |
| `outages` | 2 connections, 1 submission, 2 workers that submit, rejudge and abort; restarts; sends to judges fail | `NeverForgotten`; `RefusedIsWorkedOn`: a row that is refused has a connected handler that works on it, and is written when that judge disconnects; types |
| `ends` | 2 connections, 1 submission, 1 worker, aborts and restarts; no dispatch fails; fairness | `RefusedOnlyWhileJudged`, `EventuallyFinal` |
| `deployments` | 4 commits, 2 schemas, all failures; a failed `restart.sh` is answered with `restart.sh` | `Serving`, `SchemaFits`, `StateAgrees`, `NothingWrittenOff`, `BackupComplete`, types |
| `contest_scores` | 2 submissions to one problem, a bridge thread, a rescorer, an editor; every process may die anywhere, any query fail | `ScoreIsCurrent`, `PointsFollowGrades`, types and the lock |
| `votes` | 3 requests of one voter, an editor, deaths, deletion, fairness | `DeletesWhatItRead`, `ScoreCountsVotes`, `Answered`, types |
| `status_page` | 2 test cases, lost messages, a daemon that stops, failing queries | `NeverGoesBack`, `OverShowsAll`, `EndIsShown`, types |

Two more runs end in a violation; see Findings.

### Why the bounds are enough

* Two connections are the least for work to move from one judge to another, for
  a judge to leave while another is busy, and for one name to be connected
  twice. The reserve rule counts judges in *two or more*, and three connections
  distinguish "one free of several" from "one of one".
* Three submissions fill two judges and leave an entry in the queue, or one
  judge and leave two to be ordered; four priorities are all there are.
* A submission row has its own worker and handler threads; two submissions
  matter for a judge that is freed and takes the next one before the first
  result is saved. Two cases are the least for a proper part of a result.
* Two workers are the least for a request to race another.
* Four commits, a migration in the middle: a deployment and a rollback on each
  side of it, and one across. `Recovery = {"restart"}`: after a failed `restart.sh` the
  operator runs `restart.sh` again. With a rollback instead the code breaks
  `SchemaFits` (see Proofs), so the run says nothing of such histories.
* One case is enough in `outages` and `ends`, whose properties do not read the result.
  In `outages` only sends fail: it is the fault after `_working` was set. That of
  the query before it (`"fetch"`) is in `faulty_judges` and in the proofs.
* Three processes of `ContestScore` are one of each kind that starts a
  recomputation; two submissions to one problem are the least for a best result
  and for a rescoring with something left to write while a grading ends; `Full = 1`
  tells a point from none. What needs more processes is proved.
* Three requests of one voter are the least for one that finds a vote, one
  that takes it and one that puts it back in between. With one voter the run is about
  their interleaving; that the score is a sum over voters is proved.
* Two test cases and the final row are the least for two messages that are
  merged into one update with another still to come.
* No counter grows in any of these: all state spaces are finite without a
  constraint. Symmetry is used over connections, names, submissions and
  workers, never in the liveness run.

### Deadlock

It is checked in every run but `votes`: judges may always connect
or leave, the operator may always start a script, an administrator open the form and
the daemon stop or start. Of a comment that has been deleted nothing more may happen
once all requests are over, so `CommentVotes.cfg` switches the check off. Threads that wait for each other do
not show as a deadlock in such a model: `Answered` and `EventuallyFinal` are
the properties that would find them.

### Fairness

In `ends`: weak fairness of `WorkerStep` and `HandlerStep`: a thread
that has a query to make makes it, and a judge that has work reports (its grading
has a time limit). Weak fairness of `Register` and `SetDisabled`: judges that
are gone connect again (they retry for ever), and a connecting thread goes on to
read its flag. Nothing is assumed of users, aborts, outages or disconnections.
`Flags = {FALSE}` there: a site with every judge disabled ends nothing.

In `votes`: weak fairness of each request that has begun (`Proceed`), that
is, a worker runs and MySQL grants a lock that nobody holds. Requests may still be
killed at any step. `Answered` excuses a request whose comment is deleted: the code
does not answer it (see Findings).

In `status_page`: weak fairness of `Reload` and of the view that answers it
(`View`): the browser's interval fires and the page arrives. Nothing is assumed of
messages, queries for the list, the daemon or even the bridge. It is an
assumption about speed, too: a page that takes longer than the three seconds
to load is asked for again before it arrives.

## 4. Proofs

TLAPS proves, for every value of the constants:

* `JudgeListProofs!TypeCorrect`, `QueueAgrees` - under **all** faults, the
  dispatcher keeps its types and `node_map` agrees with the queue. `QueueWellFormed`
  counts nodes; the proof uses the equivalent `QueueForm` (positions are
  injective, and their ids are `node_map`), with lemmas about what removal and
  insertion do to the sequences. Its last part says what each operation may
  *forget*, again under all faults: `OneJob` (a handler has one submission at
  most) and `Remembers(S)` (whatever of `S` was queued or with a judge still is);
  only a disconnection, an end and an abort drop anything, and only their own
  submission.
* `DispatchProofs`, bookkeeping - under `FaultFree == Faults = {} /\ ~LiveUpdates`, the
  bookkeeping agrees: `MapTracksWork` and `SingleGrading` are invariants and
  `JudgeList` implements `Dispatch` (`PromiseKept`, initial states and every
  step). The invariant is `FaultFreeInv`, whose core `Agree(J, H, M, N)` is
  stated for *values* of the judges, handlers, map and ids, because methods
  change them and then walk the queue from the changed values in the same step.
  The assumption is needed: with faults both properties fail (see Findings).
  From the refinement, and not from the methods once more, follows what a step does to
  the places of submissions: `Moved(R, F)` says that only those of `R` appear, only
  those of `F` go, and the others stay with their judge, or leave the
  queue for one judge.
* `DispatchProofs`, order - under `FaultFree` and `~Enabling`,
  `HighPriorityNeverWaits` is an invariant: it is inductive in the form
  `HighServed`, with the lemma that a walk of the queue ends with nothing a
  judge could take, or a busy judge. `NeverOvertaken`
  follows: a walk takes the first entry the judge can take, and a direct
  dispatch finds a judge free, beside which nothing of that kind waits.
  `~Enabling` is needed because enabling a judge is not followed by a walk
  (`judge_list.py:79`): it may stay free beside work it can do.
* `DispatchProofs`, reserve - `ReserveKept` holds under **all** faults for any
  finite number of connections with one problem list (`OneList`), finite because the
  code counts judges. `RejudgeWaitsForReserveOnly` needs `SameWork`
  besides: no faults and no enabling, as above. With different lists neither holds:
  `judge()` counts the candidates for the submission, `_handle_free_judge` all judges.
* `LifecycleProofs`, under everything - types, `NeverForgotten` and
  `RefusedIsWorkedOn`, with failing dispatches, aborts, an unreachable bridge
  and restarts. The module speaks of the list through the instance `List` of the model
  and the instance `Queue` of its lemmas; the lemmas `Same...` show that their
  operations are equal. The invariant `SafeInv` says where every unfinished
  submission is: in the list, with a judge, in a request or in an outcome on the
  way. It is about each single submission (`Safe`), and `Remembers` is what carries
  it over the steps of others.
* `LifecycleProofs`, while no dispatch fails - `RefusedOnlyWhileJudged`, under
  `FaultFree`, with aborts, outages and restarts. It is stronger than
  `RefusedIsWorkedOn`: not only a handler works on what is refused, its judge really has
  it. That follows from the agreement of the list (`ListInv`), which a restart
  keeps because it empties all of it. With failing dispatches it is false: the judge
  may have reported the end, and the report be lost.
* `LifecycleProofs!ListIsJudgeList` - while the bridge stays up (`~Outages`), every
  behaviour of the lifecycle is one of `JudgeList`, so what is proved of the
  dispatcher holds there. A restart is not a step of `JudgeList`.
* `LifecycleProofs`, under `Calm` - `ResultComplete` and `FinishedIsForgotten` for any
  number of judges, submissions and cases. The invariant `OrderlyInv` gives every
  submission one stage (`Resting`, `Asking`, `Waiting`, `Judging`, `Ending`) and
  says, stage by stage, what its row, its test cases, the worker and the
  handler then hold. `Calm` is what keeps the stages apart, and each part
  of it excludes a way in which the code leaves them: dispatch faults (a submission
  may be graded twice), a rejudge of what is queued (the first finding), an abort
  (between a disconnection and its late IE), an outage (a restart forgets what a worker
  is asking for), and two workers with batch rejudges (both read a finished row
  before either changes it). Both a site with one
  worker that rejudges finished submissions and a site with any number of workers and
  no rejudges may be calm.
* `DeploymentProofs` - under `OnlyRestartMends == Recovery \subseteq {"restart"}`
  and all failures: types, `SchemaFits`, `NothingWrittenOff` and
  `BackupComplete`, for any number of releases and any schemas that grow with
  them. Web, Celery and the bridge write whenever they run, none of them needing
  another, so the last two rest on all three having been stopped, and in this order:
  `BackupComplete` on what is down at the dump and stays down until the
  migration, `NothingWrittenOff` on Web and Celery being down while the queue is
  drained. The inductive invariant `IInv` adds to `SchemaFits` what each script
  knows at each command: which services `restart.sh` has stopped by then, that
  the release in the plan is ahead of the schema, and that the colours recorded
  in `state.env` fit it unless `restart.sh` is running or has failed. That last
  part is why `OnlyRestartMends` is needed: a `restart.sh` that fails after its
  migration leaves the old previous colour in `state.env`, and a rollback would
  start old code on the new schema (TLC finds it with `Recovery = {"restart",
  "rollback"}`).
* `DeploymentServing` - under the same assumption and all failures: `Serving` and
  `StateAgrees`. The invariant adds to `IInv` what each script has done to the
  *other* colour: `DeployServes` says where `route` is before the switch, after it
  and in the trap (by the flag `armed`), that the former Web is left alone until
  the end, and which of the two Celeries runs; `RestartServes` says the same of
  `restart.sh`; `Truth` says what `state.env` promises between scripts, with
  `previous # active`, without which a rollback would replace the Web that serves.
  Each is only claimed while nothing is `shaken`, save `RestartServes`: what
  `restart.sh` puts right does not depend on what it found.

* `ContestScoreProofs` - with every process dying, and for any submissions,
  problems and processes: types and the lock, `ScoreIsCurrent` and
  `PointsFollowGrades`. The invariant adds what a process holds: whoever is about
  to save has the results of the points in the database unless somebody will
  read them later (`SaveCurrent`), and the copies of a graded submission are its
  row (`PointsCurrent`). `Best` is never unfolded in a step: the argument is about
  *when* results are computed, so it holds for every format.
* `StatusPageProofs` - for any number of test cases: types with `OneQuery`,
  `OverShowsAll`, `NeverGoesBack`. The invariant says what an answer on its way
  shows (no less than the list, no more than is stored) and that a page that says
  the grading is over and is not waiting has, fetches or will fetch the whole list.
* `CommentVotesProofs` - for any number of requests, voters and editors: types and
  `DeletesWhatItRead`, from the fact that whoever is between `LOCK TABLES` and
  `UNLOCK TABLES` is the holder; and for finitely many of them `ScoreCountsVotes`. The
  votes are 1 or -1, so the sum is stated as a difference of cardinalities, and a step
  changes each of the sets by at most one element. A deletion sets `drifted`.

The proofs rest on the ASSUMEs of the modules, which say what the constants are,
and on nothing else. TLC evaluates them in the runs.

Every invariant, action property and refinement of the passing runs is
stated by a theorem. Only model-checked is liveness: `EventuallyFinal`, `Answered` and
`EndIsShown`. The prover has no rule for fairness (`ENABLED` is out of its reach).
The constants of every passing run satisfy the hypotheses of the theorems about
its properties; those of `rejudge_while_queued` are not calm.

## 5. Findings

Two runs must end in a violation.

1. `rejudge_while_queued`: `judgeapi.py:73-75` says a rejudge while queued "does not
   lead to data corruption". Its delete of the test cases (79) can follow the
   beginning of the queued grading, which then computes its points from the
   cases that are left.
2. `undone_disqualification`: `models/contest.py:640` says the lock serialises
   concurrent recomputations to prevent races. What the locked query returns is
   thrown away, and the copy that was loaded *before* the lock is saved by
   `update_contest` (`models/submission.py:169`) and `rescore_contest`
   (`tasks/contest.py:20`): a disqualification done in between is undone, `banned_users`
   excepted. The administration's `recalculate_results` does not do so: its
   queryset defers `is_disqualified`.

Noticed while modelling, in behaviours the models have but no run is spent on:

* A direct dispatch that raises leaves the id in `submission_map`
  (`bridge/judge_list.py:148`); its own retry then returns at once as "Already
  judging" (130), and the submission is never judged. A dispatch from the queue
  that raises after `_working` was set leaves the node queued; another judge
  takes it, removing the first deletes the *other's* map entry (86), and a
  rejudge is then graded twice at once. This is why `MapTracksWork` and
  `SingleGrading` are stated without dispatch faults.
* The judge whose map entry was deleted so reports the end in vain: `on_judge_free`
  raises `KeyError` (104), the rest of the handler does not run, and the row stays P or G,
  which `judge_submission` refuses, until that judge disconnects
  (`RefusedIsWorkedOn`). `RefusedOnlyWhileJudged` is stated without dispatch faults.
* A vote on a comment that is deleted after the view has found it
  (`views/comment.py:47`) is never answered: the foreign key's error is taken for a vote
  given twice (63), there is none to find, and the request inserts and looks up
  again (60-69) until it is killed.
* `on_supported_problems` reads `working` outside the lock
  (`bridge/judge_handler.py:325`) and then walks the queue, which does not look at it: a
  dispatch in between gives the judge a second submission. `SingleGrading` and the
  properties of the queue's order are therefore stated without live problem lists
  (`LiveUpdates`); only types and `QueueWellFormed` are checked and proved with them.
* `abort_submission` checks a status read before (`judgeapi.py:115`): a submission
  that is graded in between is marked aborted, which the comment at 113 means to
  prevent.
* A deployment refused for pending migrations changes nothing, says
  `DEPLOYMENT.md:96`; the EXIT trap (`deploy.sh:61`) stops the target colour's
  containers, the Web that was kept for a rollback among them.
* The message of a test case is posted before the case is stored
  (`bridge/judge_handler.py:607,613`): a page that asks at once stays one case
  behind until the next message. The row is read before `event.last()`
  (`views/submission.py:197,203`), so the message of the end may be missed. An
  aborted submission's message is not in the switch of `status.html:106`. A query
  that fails leaves the list blocked. A WebSocket that is lost is not replaced
  (`event.js:60`). In all of these the reload every three seconds shows the end,
  and it alone (`EndIsShown` is proof against each of them). It also means that
  the automatic abort after 1000 s (`status.html:131`) never fires.
* `update_participation` swallows a failing query and saves empty results
  (`contest_format/default.py:136`).
* An editor's form saves the whole comment, and so undoes the votes counted since
  it was loaded, and un-hides a comment hidden since (`views/comment.py:136`).

And beside the models: registering a judge compares
names with a handler object, so an older connection of the name is never cut
(`bridge/judge_list.py:61,68`); a sole judge that is enabled again gets nothing
from the queue (79); after a bridge that knows nothing answers, an abort also
marks as aborted what is final for another reason (`judgeapi.py:118-121`); an
abort between a disconnection and its late IE lets a submission be final in the
database and known to the list, which is why `one_worker` has no aborts; a script
killed between the switch and `state.env` makes the next one replace the colour
that serves (`deploy.sh:155-168`), which is what `shaken` excludes from
`Serving` and `StateAgrees`.

Also: `problem.update_stats` and the counters of a contest save rows from copies,
so that an administrator's edit may be lost; a submission that ends with a
compile error after a rejudge keeps its old points in the contest
(`PointsFollowGrades` speaks of graded ones); the unique constraint of
`LatestSubmission` does not hold where `contest_object` is NULL;
`submission/list.html` uses two variables that are not defined, so its live
updates stop with an exception.

## 6. Not modelled, and limits

*In the modelled parts.* Bytes on the wire, wrong acknowledgements, silent judges,
compiler messages, batches of cases, database errors inside handler threads. The
formula for points: `score` is the set of cases it is computed from. A judge's
load. Preflight, build and static files of a deployment, and an operator who
checks out an older commit. Times and attempts of a contest's results. The
events of lists and contests, which only make pages reload.

*The JavaScript in the repository.* Nearly all of it is vendored: Chart.js,
moment.js, tablesorter, PageDown, clipboard, jquery-sortable, the JPlag viewer
and the like. It is third-party code that formats, draws or edits text in the
browser; the site only includes it, and it has no part in the site's state. The
program's own JavaScript with a protocol in it is `resources/event.js` and the
script of `submission/status.html`, which `StatusPage` models. The rest of the program
is Python, shell and templates: the models' sources are `src/site/judge/*.py`,
`src/deploy*` and those two files.

*The parts listed as not modelled* are either functions of rows with no state of
their own (formats, ratings, performance points, in SQL or floating point), file
formats and I/O (problem data, PDF, packets), or code outside the repository
(Keycloak, the daemon). Joining contests, the login lockout, `LatestSubmission` and
gamification have races that could be modelled in the same way; their hazards
are in `PROJECT.json` without a property.

## 7. Plan

1. The order of the queue with dispatch faults: what holds of entries that no failed
   dispatch has touched.
2. `ResultComplete` with aborts, restricted to submissions nobody has aborted.
3. Joining a contest (look-up then create, the submission window) and the login
   lockout.
