----------------------------- MODULE StatusPage -----------------------------
(***************************************************************************)
(* The page of one submission while it is graded: what the bridge writes   *)
(* and posts, what the view renders, and the two scripts of the page, one  *)
(* that listens for events (EventReceiver) and fetches the test cases, one *)
(* that loads the page again every three seconds.  The event daemon is     *)
(* external: it keeps messages and hands them out in order, and loses them *)
(* when it goes down.  Browser callbacks are atomic; the network, the view *)
(* and the bridge run between them.                                        *)
(***************************************************************************)
EXTENDS Integers

CONSTANT Cases      \* how many test cases the submission has
ASSUME CasesType == Cases \in Nat

VARIABLES
    wrote,      \* what the database has of the grading: test cases, or Last
    told,       \* the events given out so far, numbered; the last is the end
    outcome,    \* how the grading ended
    up,         \* the event daemon runs
    kept,       \* the messages it keeps
    page,       \* the page the browser shows, see NewPage
    asked,      \* a query for the test cases is on its way to the server
    reading,    \* what the database had when the view read the row for a query
    answers,    \* what the answers show that are on their way back
    load        \* the view, while the page is loaded (again)

bridge == <<wrote, told, outcome>>
daemon == <<up, kept>>
client == <<page, asked, reading, answers, load>>
vars == <<wrote, told, outcome, up, kept, page, asked, reading, answers, load>>

-----------------------------------------------------------------------------
Last == Cases + 1   \* all test cases, and the row with the result

Outcome == {"graded", "aborted"}

Mode == {"none", "connecting", "open", "polling", "waiting", "closed"}

Page == [graded : BOOLEAN, over : BOOLEAN, shown : 0..Last,
         mode : Mode, last : 0..Last + 1,
         blocked : BOOLEAN, request : BOOLEAN, cooling : BOOLEAN]

Load == [pc : {"idle", "row", "last", "cases", "sent"},
         graded : BOOLEAN, last : 0..Last + 1, shown : 0..Last]

\* graded: rendered from a row that was final, with no script that reloads.
\* over: the label and the button of a running grading are gone.
\* shown: the state of the grading the list shows.
\* mode: the receiver ("none": the page came without it; "closed": its
\* socket was lost); last: last_msg; blocked, request: see update;
\* cooling: the timer of 500 ms runs.
NewPage(graded, last, shown) ==
    [graded |-> graded, over |-> graded, shown |-> shown,
     mode |-> IF graded \/ last = 0 THEN "none" ELSE "connecting", last |-> last,
     blocked |-> FALSE, request |-> FALSE, cooling |-> FALSE]

NewLoad(pc) == [pc |-> pc, graded |-> FALSE, last |-> 0, shown |-> 0]

NotLoading == NewLoad("idle")

\* Messages are numbered from 1, and 0 is what last() returns when it cannot
\* reach the daemon: the number of a message is one more than told before it.
Init ==
    /\ wrote = 0
    /\ told = 1
    /\ outcome = "none"
    /\ up = TRUE
    /\ kept = {}
    /\ page = NewPage(FALSE, 0, 0)
    /\ asked = FALSE
    /\ reading = {}
    /\ answers = {}
    /\ load = NotLoading

-----------------------------------------------------------------------------
(* The bridge: one thread, the judge's. *)

Post(heard) == kept' = IF up /\ heard THEN kept \cup {told'} ELSE kept

\* on_test_case: the event comes first, unless there have been too many ...
TellCase(heard) ==
    /\ told = wrote + 1
    /\ wrote < Cases
    /\ told' = told + 1
    /\ Post(heard)
    /\ UNCHANGED <<wrote, outcome, up, client>>

\* ... and the test case is stored after it (bulk_create).
StoreCase ==
    /\ told = wrote + 2
    /\ wrote < Cases
    /\ wrote' = wrote + 1
    /\ UNCHANGED <<told, outcome, daemon, client>>

\* on_grading_end, on_compile_error, on_internal_error, on_submission_terminated:
\* the row is saved ...
StoreEnd(o) ==
    /\ told = wrote + 1
    /\ wrote = Cases
    /\ wrote' = Last
    /\ outcome' = o
    /\ UNCHANGED <<told, daemon, client>>

\* ... and then the event is posted.
TellEnd ==
    /\ wrote = Last
    /\ told = Last
    /\ told' = told + 1
    /\ Post(TRUE)
    /\ UNCHANGED <<wrote, outcome, up, client>>

-----------------------------------------------------------------------------
(* The daemon (external). *)

Down ==
    /\ up
    /\ up' = FALSE
    /\ kept' = {}
    /\ page' = [page EXCEPT !.mode = CASE @ = "open" -> "closed"
                                       [] @ = "polling" -> "waiting"
                                       [] OTHER -> @]
    /\ UNCHANGED <<bridge, asked, reading, answers, load>>

Up ==
    /\ ~up
    /\ up' = TRUE
    /\ UNCHANGED <<bridge, kept, client>>

-----------------------------------------------------------------------------
(* EventReceiver *)

Move(from, to) ==
    /\ page.mode = from
    /\ page' = [page EXCEPT !.mode = to]
    /\ UNCHANGED <<bridge, daemon, asked, reading, answers, load>>

\* onopen: the socket asks for what follows last_msg.
Open == up /\ Move("connecting", "open")

\* The two seconds are over: init_poll.
GiveUp == Move("connecting", "polling")

\* The connection breaks: nothing follows onclose here.  A poll that fails is
\* repeated after two seconds.
Break == Move("open", "closed") \/ Move("polling", "waiting")
PollAgain == Move("waiting", "polling")

-----------------------------------------------------------------------------
(* The script of the page. *)

\* Mutant: an update that is asked for while another is under way is dropped.
Forgetful(pg) == IF pg.blocked THEN pg ELSE [pg EXCEPT !.request = FALSE, !.blocked = TRUE]

\* update: what it does to the page ...
Update(pg) ==
    IF pg.blocked THEN [pg EXCEPT !.request = TRUE]
    ELSE [pg EXCEPT !.request = FALSE, !.blocked = TRUE]

\* Mutant: an update does not wait for the one under way.
SendsAlways(pg) == TRUE

\* ... and whether it sends a query.
Sends(pg) == ~pg.blocked

\* onmessage: an aborted submission's message is not in the switch.
Receive ==
    /\ page.mode \in {"open", "polling"}
    /\ \E i \in kept :
        /\ i > page.last
        /\ \A j \in kept : j > page.last => i <= j
        /\ LET got == [page EXCEPT !.last = i]
               pg == [got EXCEPT !.over = @ \/ i > Last]
           IN  IF i > Last /\ outcome = "aborted"
                  THEN page' = got /\ UNCHANGED asked
                  ELSE /\ page' = Update(pg)
                       /\ asked' = (asked \/ Sends(pg))
    /\ UNCHANGED <<bridge, daemon, reading, answers, load>>

\* SubmissionTestCaseQuery reads the row ...
QueryRow ==
    /\ asked
    /\ asked' = FALSE
    /\ reading' = reading \cup {wrote}
    /\ UNCHANGED <<bridge, daemon, page, answers, load>>

\* The list is rendered from a row read before and the test cases read now.
Rendered(final) == IF final THEN Last ELSE IF wrote = Last THEN Cases ELSE wrote

\* ... and then the test cases.
QueryCases ==
    \E row \in reading :
        /\ reading' = reading \ {row}
        /\ answers' = answers \cup {Rendered(row = Last)}
        /\ UNCHANGED <<bridge, daemon, page, asked, load>>

\* Mutant: the list is unblocked at once, and by the timer.
ShowUnblocked ==
    \E n \in answers :
        /\ answers' = answers \ {n}
        /\ page' = [page EXCEPT !.shown = n, !.cooling = TRUE, !.blocked = FALSE]
        /\ UNCHANGED <<bridge, daemon, asked, reading, load>>

\* done: the list is replaced, and a timer is set.
Show ==
    \E n \in answers :
        /\ answers' = answers \ {n}
        /\ page' = [page EXCEPT !.shown = n, !.cooling = TRUE]
        /\ UNCHANGED <<bridge, daemon, asked, reading, load>>

\* The timer: the next update, if one was asked for meanwhile.
Unblock ==
    /\ page.cooling
    /\ LET pg == [page EXCEPT !.cooling = FALSE, !.blocked = FALSE]
       IN  page' = IF page.request THEN Update(pg) ELSE pg
    /\ asked' = (asked \/ page.request)
    /\ UNCHANGED <<bridge, daemon, reading, answers, load>>

\* fail: a line in the console; the list stays blocked.
Fail ==
    /\ asked \/ reading # {} \/ answers # {}
    /\ asked' = FALSE
    /\ reading' = {}
    /\ answers' = {}
    /\ UNCHANGED <<bridge, daemon, page, load>>

-----------------------------------------------------------------------------
(* Loading the page: what SubmissionStatus reads, in its order. *)

Loading(from, state) ==
    /\ load.pc = from
    /\ load' = state
    /\ UNCHANGED <<bridge, daemon, page, asked, reading, answers>>

\* Mutant: only a page with the first script loads itself again.
ReloadListeners == page.mode # "none" /\ Loading("idle", NewLoad("row"))

\* setInterval, 3 s, on every page of a submission that was not final.
Reload == ~page.graded /\ Loading("idle", NewLoad("row"))

\* get_object.
ReadRow == Loading("row", [load EXCEPT !.pc = "last", !.graded = (wrote = Last)])

\* event.last().
ReadLast == Loading("last", [load EXCEPT !.pc = "cases", !.last = IF up THEN told ELSE 0])

\* submission.test_cases; the row is the one read before.
ReadCases ==
    Loading("cases", [load EXCEPT !.pc = "sent", !.shown = Rendered(load.graded)])

\* The new page replaces the old one and what it was waiting for.
Display ==
    /\ load.pc = "sent"
    /\ page' = NewPage(load.graded, load.last, load.shown)
    /\ load' = NotLoading
    /\ asked' = FALSE
    /\ reading' = {}
    /\ answers' = {}
    /\ UNCHANGED <<bridge, daemon>>

-----------------------------------------------------------------------------
Bridge ==
    \/ \E heard \in BOOLEAN : TellCase(heard)
    \/ \E o \in Outcome : StoreEnd(o)
    \/ StoreCase \/ TellEnd

Receiver == Open \/ GiveUp \/ Break \/ PollAgain \/ Receive

List == QueryRow \/ QueryCases \/ Show \/ Unblock \/ Fail

View == ReadRow \/ ReadLast \/ ReadCases \/ Display

Next == Bridge \/ Down \/ Up \/ Receiver \/ List \/ Reload \/ View

Spec == Init /\ [][Next]_vars

\* The browser's interval fires and the page that is loading arrives.  Nothing
\* is asked of the events, of the test case queries or of the daemon.
FairSpec == Spec /\ WF_vars(Reload) /\ WF_vars(View)

-----------------------------------------------------------------------------
(* Properties *)

Types ==
    /\ wrote \in 0..Last
    /\ told \in 1..Last + 1
    /\ outcome \in Outcome \cup {"none"}
    /\ up \in BOOLEAN
    /\ kept \subseteq 2..Last + 1
    /\ page \in Page
    /\ asked \in BOOLEAN
    /\ reading \subseteq 0..Last
    /\ answers \subseteq 0..Last
    /\ load \in Load

OneQuery ==
    /\ asked \/ reading # {} \/ answers # {} \/ page.cooling => page.blocked
    /\ asked => reading = {} /\ answers = {} /\ ~page.cooling
    /\ reading # {} => answers = {} /\ ~page.cooling
    /\ answers # {} => ~page.cooling
    /\ \A m, n \in reading : m = n
    /\ \A m, n \in answers : m = n

\* Every variable keeps its type; a query is under way, or a timer runs, only
\* while the list is blocked, and one at a time.
TypeOK == Types /\ OneQuery

\* Until the page is loaded again its list never shows less than it did: the
\* answers to two queries do not overtake each other (blocked, in update).
NeverGoesBack ==
    [][Display \/ page'.shown >= page.shown]_vars

\* A page that says the grading is over, and is not about to fetch the list
\* once more, shows all of it: whichever event comes while a query is under
\* way, the list is fetched after it (request, in update).
OverShowsAll ==
    page.over /\ ~page.blocked => page.shown = Last

\* A grading that has ended is shown to have, and stays so, whatever is lost:
\* events, the connection, the daemon or a query for the list.
EndIsShown ==
    (wrote = Last) ~> [](page.over /\ page.shown = Last)
=============================================================================
