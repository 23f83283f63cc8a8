------------------------------ MODULE Dispatch ------------------------------
(***************************************************************************)
(* What the judge bridge promises its callers, without priorities,         *)
(* capabilities or bookkeeping: a submission that was requested waits or   *)
(* is with one judge, a judge has one at a time, a waiting submission      *)
(* leaves only to a judge or by an abort, and one that is with a judge     *)
(* leaves only when the judge reports its end or goes away.                *)
(***************************************************************************)
EXTENDS FiniteSets

CONSTANTS Conn, Sub

VARIABLES
    members,    \* the judges that may be given work
    held,       \* what each judge has been given
    waiting     \* the submissions that wait for a judge

dispatchVars == <<members, held, waiting>>

Init ==
    /\ members = {}
    /\ held = [c \in Conn |-> {}]
    /\ waiting = {}

\* A judge of D is given a waiting submission, or nobody is given anything.
Settle(h, D) ==
    \/ held' = h /\ UNCHANGED waiting
    \/ \E d \in D, s \in waiting :
         /\ h[d] = {}
         /\ held' = [h EXCEPT ![d] = {s}]
         /\ waiting' = waiting \ {s}

Request(s) ==
    /\ s \notin waiting
    /\ \A c \in Conn : s \notin held[c]
    /\ \/ waiting' = waiting \cup {s} /\ UNCHANGED held
       \/ \E c \in members :
            /\ held[c] = {}
            /\ held' = [held EXCEPT ![c] = {s}]
            /\ UNCHANGED waiting
    /\ UNCHANGED members

Cancel(s) ==
    /\ s \in waiting
    /\ waiting' = waiting \ {s}
    /\ UNCHANGED <<members, held>>

Join(c) ==
    /\ c \notin members
    /\ members' = members \cup {c}
    /\ Settle(held, {c})

Report(c) ==
    /\ c \in members
    /\ held[c] # {}
    /\ Settle([held EXCEPT ![c] = {}], {c})
    /\ UNCHANGED members

\* Whoever is left may be given a waiting submission.
Leave(c) ==
    /\ c \in members
    /\ members' = members \ {c}
    /\ Settle([held EXCEPT ![c] = {}], members')

Next ==
    \/ \E s \in Sub : Request(s) \/ Cancel(s)
    \/ \E c \in Conn : Join(c) \/ Report(c) \/ Leave(c)

Spec == Init /\ [][Next]_dispatchVars
=============================================================================
