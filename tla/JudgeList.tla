----------------------------- MODULE JudgeList -----------------------------
(***************************************************************************)
(* The dispatcher of the judge bridge: site/judge/bridge/judge_list.py     *)
(* together with the steps of a JudgeHandler that run inside its lock or   *)
(* that change what the dispatcher reads of a handler                      *)
(* (site/judge/bridge/judge_handler.py: on_handshake, can_judge, submit,   *)
(* on_supported_problems, _free_self, on_disconnect).                      *)
(*                                                                         *)
(* JudgeList.lock is re-entrant and every public method takes it for its   *)
(* whole body, so one method is one action.  Everything a connection       *)
(* thread does outside the lock is a step of its own (see step).           *)
(***************************************************************************)
EXTENDS Integers, FiniteSets, SequencesExt

CONSTANTS
    Conn,        \* JudgeHandler objects, one for each connection of a judge
    NoConn,      \* submission_map has no entry
    Name,        \* the names judges authenticate with
    NoName,      \* no particular judge was asked for (judge_id is None)
    Sub,         \* submission ids
    NoSub,       \* JudgeHandler._working is False
    Kind,        \* pairs of a problem and a language
    KindOf,      \* the pair each submission needs
    Lists,       \* the sets of pairs that judges announce they can do
    Faults,      \* the faults of the environment, see JudgeListAssumption
    LiveUpdates, \* whether a connected judge announces new problem lists
    Enabling     \* whether a disabled judge may become enabled again

(***************************************************************************)
(* "fetch": get_related_submission_data raises (the database is away);     *)
(* "send": submit raises after _working was set (the peer is gone, or the  *)
(* submission row has vanished and data is None); "close": an              *)
(* administrator force-disconnects judges.                                 *)
(***************************************************************************)
ASSUME JudgeListAssumption ==
    /\ NoConn \notin Conn /\ NoName \notin Name /\ NoSub \notin Sub
    /\ Conn \cap (Name \cup {NoName}) = {}
    /\ KindOf \in [Sub -> Kind]
    /\ Lists \subseteq SUBSET Kind
    /\ Faults \subseteq {"fetch", "send", "close"}
    /\ LiveUpdates \in BOOLEAN /\ Enabling \in BOOLEAN

\* judge_priority.py: contest 0, default 1, rejudge 2, batch rejudge 3.
Priority == 0 .. 3
REJUDGE_PRIORITY == 2

VARIABLES
    judges,         \* JudgeList.judges
    handler,        \* the attributes of each JudgeHandler, see Handler
    step,           \* where the thread of each connection is
    closed,         \* connections the bridge has shut down itself
    queue,          \* the nodes that stand before each PriorityMarker
    node_map,       \* the ids that JudgeList.node_map has a node for
    submission_map  \* JudgeList.submission_map

vars == <<judges, handler, step, closed, queue, node_map, submission_map>>

Entry == [id : Sub, judge_id : Name \cup {NoName}]

(***************************************************************************)
(* name, problems, disabled and working are the handler's own attributes;  *)
(* job is what the judge process at the other end has been sent and has    *)
(* not reported the end of.                                                *)
(***************************************************************************)
Handler == [name : Name \cup {NoName}, problems : SUBSET Kind,
            disabled : BOOLEAN, working : Sub \cup {NoSub}, job : SUBSET Sub]

(***************************************************************************)
(* "gone": no thread, or it has run JudgeList.remove;  "loading":          *)
(* registered, in _connected;  "ready": reading packets;  "updated": in    *)
(* on_supported_problems, problems assigned;  "freeing": there too, having *)
(* read that it is not working, about to take the lock.                    *)
(***************************************************************************)
Step == {"gone", "loading", "ready", "updated", "freeing"}

TypeOK ==
    /\ judges \subseteq Conn
    /\ handler \in [Conn -> Handler]
    /\ step \in [Conn -> Step]
    /\ closed \subseteq Conn
    /\ queue \in [Priority -> Seq(Entry)]
    /\ node_map \subseteq Sub
    /\ submission_map \in [Sub -> Conn \cup {NoConn}]

NewHandler(n, P) ==
    [name |-> n, problems |-> P, disabled |-> FALSE, working |-> NoSub, job |-> {}]

Init ==
    /\ judges = {}
    /\ handler = [c \in Conn |-> NewHandler(NoName, {})]
    /\ step = [c \in Conn |-> "gone"]
    /\ closed = {}
    /\ queue = [p \in Priority |-> <<>>]
    /\ node_map = {}
    /\ submission_map = [s \in Sub |-> NoConn]

-----------------------------------------------------------------------------
\* h is a handler record, e an entry of the queue.
CanJudge(h, e) ==
    /\ KindOf[e.id] \in h.problems
    /\ \/ e.judge_id = NoName /\ ~h.disabled
       \/ e.judge_id = h.name

Idle(h) == h.working = NoSub /\ ~h.disabled

\* J is a value of judges and H of handler: the walk runs in the middle of
\* methods that have already changed them.
Reserved(J, H) ==
    /\ Cardinality({d \in J : ~H[d].disabled}) > 1
    /\ Cardinality({d \in J : Idle(H[d])}) =< 1

Positions == UNION {{p} \X DOMAIN queue[p] : p \in Priority}

EntryAt(pos) == queue[pos[1]][pos[2]]

\* Mutant: within a class the newest entry comes first.
BeforeNewest(a, b) == a[1] < b[1] \/ (a[1] = b[1] /\ a[2] > b[2])

Before(a, b) == a[1] < b[1] \/ (a[1] = b[1] /\ a[2] < b[2])

\* Mutant: the reserve is kept from default submissions too.
EligibleDefaultReserved(c, J, H) ==
    {pos \in Positions : /\ CanJudge(H[c], EntryAt(pos))
                         /\ pos[1] + 1 < REJUDGE_PRIORITY \/ ~Reserved(J, H)}

\* The nodes at which a walk of the queue for c would stop and dispatch.
Eligible(c, J, H) ==
    {pos \in Positions : /\ CanJudge(H[c], EntryAt(pos))
                         /\ pos[1] < REJUDGE_PRIORITY \/ ~Reserved(J, H)}

\* JudgeHandler.submit returned.
Submitted(c, s, J, H, M) ==
    /\ c \notin closed
    /\ judges' = J
    /\ handler' = [H EXCEPT ![c].working = s, ![c].job = @ \cup {s}]
    /\ submission_map' = [M EXCEPT ![s] = c]

\* JudgeHandler.submit raised, before or after it assigned _working.
SubmitFailed(c, s, J, H, M) ==
    /\ judges' = J \ {c}
    /\ \/ "fetch" \in Faults /\ handler' = H
       \/ /\ "send" \in Faults \/ c \in closed
          /\ handler' = [H EXCEPT ![c].working = s]
    /\ submission_map' = [M EXCEPT ![s] = c]

(***************************************************************************)
(* _handle_free_judge: the first node the judge may take is sent to it. A  *)
(* failed dispatch leaves the node where it is.                            *)
(***************************************************************************)
HandleFreeJudge(c, J, H, M) ==
    \/ /\ Eligible(c, J, H) = {}
       /\ judges' = J /\ handler' = H /\ submission_map' = M
       /\ UNCHANGED <<queue, node_map>>
    \/ \E pos \in Eligible(c, J, H) :
         /\ \A other \in Eligible(c, J, H) : ~Before(other, pos)
         /\ \/ /\ Submitted(c, EntryAt(pos).id, J, H, M)
               /\ queue' = [queue EXCEPT ![pos[1]] = RemoveAt(@, pos[2])]
               /\ node_map' = node_map \ {EntryAt(pos).id}
            \/ /\ SubmitFailed(c, EntryAt(pos).id, J, H, M)
               /\ UNCHANGED <<queue, node_map>>

-----------------------------------------------------------------------------
\* Mutant: only what is being judged is recognised.
KnownToJudges(s) == submission_map[s] # NoConn

Known(s) == submission_map[s] # NoConn \/ s \in node_map

Candidates(e) == {c \in judges : CanJudge(handler[c], e)}

\* Mutants: the last free candidate is not kept; busy judges are not excluded.
AvailableNoReserve(e, p) == {c \in Candidates(e) : Idle(handler[c])}
AvailableBusy(e, p) == {c \in Candidates(e) : ~handler[c].disabled}

\* The judges a new submission may be sent to at once: none when this would
\* take the last free candidate for a rejudge.
Available(e, p) ==
    LET free == {c \in Candidates(e) : Idle(handler[c])}
    IN  IF /\ Cardinality(Candidates(e)) > 1
           /\ Cardinality(free) = 1
           /\ p >= REJUDGE_PRIORITY
        THEN {} ELSE free

\* dllist.insert in front of the marker of the class.
Inserted(q, e) == Append(q, e)

(***************************************************************************)
(* JudgeList.judge.  The least loaded judge is chosen, ties at random, and *)
(* loads are whatever the judges report: any available judge.  After a     *)
(* failed dispatch the method calls itself, and that call returns at once, *)
(* the id being in submission_map.                                         *)
(***************************************************************************)
Judge(s, p, j) ==
    LET e == [id |-> s, judge_id |-> j] IN
    /\ ~Known(s)
    /\ \/ \E c \in Available(e, p) :
            /\ \/ Submitted(c, s, judges, handler, submission_map)
               \/ SubmitFailed(c, s, judges, handler, submission_map)
            /\ UNCHANGED <<queue, node_map>>
       \/ /\ Available(e, p) = {}
          /\ queue' = [queue EXCEPT ![p] = Inserted(@, e)]
          /\ node_map' = node_map \cup {s}
          /\ UNCHANGED <<judges, handler, submission_map>>
    /\ UNCHANGED <<step, closed>>

(***************************************************************************)
(* JudgeList.abort of a queued submission.  One that is being judged is    *)
(* only sent a terminate request, which changes nothing here.              *)
(***************************************************************************)
Abort(s) ==
    /\ submission_map[s] = NoConn
    /\ s \in node_map
    /\ \E pos \in Positions :
         /\ EntryAt(pos).id = s
         /\ queue' = [queue EXCEPT ![pos[1]] = RemoveAt(@, pos[2])]
    /\ node_map' = node_map \ {s}
    /\ UNCHANGED <<judges, handler, step, closed, submission_map>>

(***************************************************************************)
(* The handler's name is compared with the new handler itself, as          *)
(* register passes the judge and disconnect expects a name.                *)
(***************************************************************************)
SameName(c) == {d \in judges : handler[d].name = c}

(***************************************************************************)
(* on_handshake up to and including JudgeList.register.  The connection is *)
(* a new object: a slot of Conn is used again once nothing refers to it.   *)
(***************************************************************************)
Register(c, n, P) ==
    /\ step[c] = "gone"
    /\ \A s \in Sub : submission_map[s] # c
    /\ step' = [step EXCEPT ![c] = "loading"]
    /\ closed' = (closed \ {c}) \cup SameName(c)
    /\ HandleFreeJudge(c, judges \cup {c},
                       [handler EXCEPT ![c] = NewHandler(n, P)], submission_map)

\* _connected: is_disabled is copied from the judge's row.
LoadDisabled(c, b) ==
    /\ step[c] = "loading"
    /\ handler[c].disabled /\ ~b => Enabling
    /\ handler' = [handler EXCEPT ![c].disabled = b]
    /\ step' = [step EXCEPT ![c] = "ready"]
    /\ UNCHANGED <<judges, closed, queue, node_map, submission_map>>

\* JudgeList.update_disable_judge.
UpdateDisableJudge(n, b) ==
    /\ \E c \in judges : handler[c].name = n
    /\ ~b => Enabling
    /\ handler' = [c \in Conn |->
                     IF c \in judges /\ handler[c].name = n
                     THEN [handler[c] EXCEPT !.disabled = b] ELSE handler[c]]
    /\ UNCHANGED <<judges, step, closed, queue, node_map, submission_map>>

\* JudgeList.disconnect with force, as an administrator asks for it.
Disconnect(n) ==
    /\ "close" \in Faults
    /\ closed' = closed \cup {c \in judges : handler[c].name = n}
    /\ UNCHANGED <<judges, handler, step, queue, node_map, submission_map>>

\* Mutants: the entry stays; the entry gets the mark of an idle handler.
StillMapped(M, s) == M
UnmappedAsIdle(M, s) == [t \in Sub |-> IF t = s THEN NoSub ELSE M[t]]

\* del submission_map[s]; s is NoSub when there is nothing to delete.
Unmapped(M, s) == [t \in Sub |-> IF t = s THEN NoConn ELSE M[t]]

\* Mutant: the handler is marked as idle before the entry is looked up.
OnJudgeFreeIdleFirst(c, s) ==
    LET told == [handler EXCEPT ![c].job = @ \ {s}, ![c].working = NoSub] IN
    /\ step[c] = "ready"
    /\ s \in handler[c].job
    /\ \/ /\ submission_map[s] = NoConn
          /\ handler' = told
          /\ UNCHANGED <<judges, queue, node_map, submission_map>>
       \/ /\ submission_map[s] # NoConn
          /\ HandleFreeJudge(c, judges, told, Unmapped(submission_map, s))
    /\ UNCHANGED <<step, closed>>

(***************************************************************************)
(* JudgeList.on_judge_free, called by the connection's own thread when the *)
(* judge reports the end of s, whatever the verdict.  A missing entry of   *)
(* submission_map raises KeyError, which on_packet swallows.               *)
(***************************************************************************)
OnJudgeFree(c, s) ==
    LET told == [handler EXCEPT ![c].job = @ \ {s}] IN
    /\ step[c] = "ready"
    /\ s \in handler[c].job
    /\ \/ /\ submission_map[s] = NoConn
          /\ handler' = told
          /\ UNCHANGED <<judges, queue, node_map, submission_map>>
       \/ /\ submission_map[s] # NoConn
          /\ HandleFreeJudge(c, judges, [told EXCEPT ![c].working = NoSub],
                             Unmapped(submission_map, s))
    /\ UNCHANGED <<step, closed>>

\* Mutant: nobody is given work when a judge leaves.
NoSoleFree(J, H) == {}

\* The only judge that is left, if it is not working.
SoleFree(J, H) == {d \in J : J = {d} /\ H[d].working = NoSub}

(***************************************************************************)
(* JudgeList.remove, called by on_disconnect.  The entry of the submission *)
(* the handler works on is deleted, whoever it belongs to by now; when one *)
(* judge is left and it is not working it is given work.                   *)
(***************************************************************************)
RemoveJudge(c) ==
    LET J == judges \ {c}
        H == [handler EXCEPT ![c].job = {}]
        M == Unmapped(submission_map, handler[c].working)
    IN
    /\ step[c] = "ready"
    /\ step' = [step EXCEPT ![c] = "gone"]
    /\ \/ /\ SoleFree(J, H) = {}
          /\ judges' = J /\ handler' = H /\ submission_map' = M
          /\ UNCHANGED <<queue, node_map>>
       \/ \E d \in SoleFree(J, H) : HandleFreeJudge(d, J, H, M)
    /\ UNCHANGED closed

\* on_supported_problems: the list is replaced without the lock,
SupportedProblems(c, P) ==
    /\ LiveUpdates
    /\ step[c] = "ready"
    /\ handler' = [handler EXCEPT ![c].problems = P]
    /\ step' = [step EXCEPT ![c] = "updated"]
    /\ UNCHANGED <<judges, closed, queue, node_map, submission_map>>

\* working is read without the lock,
ReadWorking(c) ==
    /\ step[c] = "updated"
    /\ step' = [step EXCEPT ![c] = IF handler[c].working = NoSub THEN "freeing" ELSE "ready"]
    /\ UNCHANGED <<judges, handler, closed, queue, node_map, submission_map>>

\* and JudgeList.update_problems walks the queue, which reads it no more.
UpdateProblems(c) ==
    /\ step[c] = "freeing"
    /\ step' = [step EXCEPT ![c] = "ready"]
    /\ HandleFreeJudge(c, judges, handler, submission_map)
    /\ UNCHANGED closed

Next ==
    \/ \E s \in Sub, p \in Priority : Judge(s, p, NoName)
    \/ \E s \in Sub, p \in 0 .. REJUDGE_PRIORITY - 1, j \in Name : Judge(s, p, j)
    \/ \E s \in Sub : Abort(s)
    \/ \E c \in Conn, n \in Name, P \in Lists : Register(c, n, P)
    \/ \E c \in Conn, b \in BOOLEAN : LoadDisabled(c, b)
    \/ \E n \in Name, b \in BOOLEAN : UpdateDisableJudge(n, b)
    \/ \E n \in Name : Disconnect(n)
    \/ \E c \in Conn, s \in Sub : OnJudgeFree(c, s)
    \/ \E c \in Conn : RemoveJudge(c)
    \/ \E c \in Conn, P \in Lists : SupportedProblems(c, P)
    \/ \E c \in Conn : ReadWorking(c) \/ UpdateProblems(c)

Spec == Init /\ [][Next]_vars

-----------------------------------------------------------------------------
(***************************************************************************)
(* node_map and the queue agree: a node for every known id, no id queued   *)
(* twice.  abort removes a node through node_map and judge trusts it to    *)
(* refuse duplicates; failed dispatches leave both untouched.              *)
(***************************************************************************)
QueueWellFormed ==
    /\ \A s \in Sub : s \in node_map <=> \E pos \in Positions : EntryAt(pos).id = s
    /\ \A a, b \in Positions : EntryAt(a).id = EntryAt(b).id => a = b

(***************************************************************************)
(* submission_map is exactly the inverse of the handlers' _working, and    *)
(* what is being judged is not queued.  remove deletes map entries by      *)
(* _working and on_judge_free by the packet's id: both rely on it.  Holds  *)
(* as long as no dispatch fails and no problem list changes.               *)
(***************************************************************************)
MapTracksWork ==
    \A s \in Sub :
      /\ \A c \in Conn : submission_map[s] = c
                          <=> c \in judges /\ handler[c].working = s
      /\ submission_map[s] # NoConn => s \notin node_map

(***************************************************************************)
(* A submission is with one judge at a time and a judge has one at a time: *)
(* "rejudges should be idempotent" (judge) over every order of requests,   *)
(* reports, connections and removals.                                      *)
(***************************************************************************)
SingleGrading ==
    \A c, d \in Conn : \A s \in handler[c].job, t \in handler[d].job :
        (s = t) <=> (c = d)

(***************************************************************************)
(* A contest or default submission never waits while a free judge could    *)
(* take it: every way for a judge to become free walks the queue.          *)
(***************************************************************************)
HighPriorityNeverWaits ==
    \A c \in judges, pos \in Positions :
        pos[1] < REJUDGE_PRIORITY /\ Idle(handler[c]) /\ step[c] \in {"loading", "ready"}
            => ~CanJudge(handler[c], EntryAt(pos))

(***************************************************************************)
(* When all judges can do the same work, a rejudge waits beside a free     *)
(* judge only while that judge is the one reserve among several.           *)
(***************************************************************************)
RejudgeWaitsForReserveOnly ==
    \A c \in judges, pos \in Positions :
        Idle(handler[c]) /\ CanJudge(handler[c], EntryAt(pos))
            => /\ {d \in judges : Idle(handler[d])} = {c}
               /\ judges # {c}

Started(c, s) == s \in handler'[c].job \ handler[c].job

(***************************************************************************)
(* First come, first served, within and across the two high classes: no    *)
(* judge is given work while an entry it could take, contest or default,   *)
(* stays queued that came no later.  A new submission that goes straight   *)
(* to a judge passes nobody either.                                        *)
(***************************************************************************)
NeverOvertaken ==
    [][\A c \in Conn, s \in Sub : Started(c, s) =>
         \A pos \in Positions :
             pos[1] < REJUDGE_PRIORITY /\ EntryAt(pos).id # s
                                      /\ CanJudge(handler'[c], EntryAt(pos))
              => \E from \in Positions :
                   /\ EntryAt(from).id = s
                   /\ from[1] < pos[1] \/ (from[1] = pos[1] /\ from[2] < pos[2])]_vars

IsRejudge(s) ==
    \/ \E pos \in Positions : EntryAt(pos).id = s /\ pos[1] >= REJUDGE_PRIORITY
    \/ \E p \in REJUDGE_PRIORITY .. 3 : Judge(s, p, NoName)

(***************************************************************************)
(* With more than one enabled judge, starting a rejudge leaves one of them *)
(* free for contest submissions.  judge() decides this from the            *)
(* candidates, _handle_free_judge from all judges.                         *)
(***************************************************************************)
ReserveKept ==
    [][\A c \in Conn, s \in Sub :
         Started(c, s) /\ IsRejudge(s)
                       /\ Cardinality({d \in judges' : ~handler'[d].disabled}) > 1
           => \E d \in judges' : Idle(handler'[d])]_vars

(***************************************************************************)
(* The dispatcher keeps the bridge's promise when no dispatch fails and    *)
(* problem lists do not change: members are the judges of the list, held   *)
(* what the judge processes have been sent, waiting the ids of node_map.   *)
(***************************************************************************)
Promise == INSTANCE Dispatch WITH
    members <- judges,
    held    <- [c \in Conn |-> handler[c].job],
    waiting <- node_map

KeepsPromise == Promise!Spec
=============================================================================
