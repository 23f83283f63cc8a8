-------------------------- MODULE StatusPageProofs --------------------------
(***************************************************************************)
(* The list of the status page never goes back and is complete once the    *)
(* page says so, however many test cases there are and whatever is lost.   *)
(***************************************************************************)
EXTENDS StatusPage, TLAPS

\* Messages are posted as the bridge proceeds, the end after the result.
Told ==
    /\ told = Last + 1 => wrote = Last
    /\ \A i \in kept : i <= told

\* What is shown, on its way or being loaded has been stored, and an answer
\* shows no less than the list, nor does one that is being rendered.
Stored ==
    /\ page.shown <= wrote
    /\ load.shown <= wrote
    /\ \A n \in reading \cup answers : page.shown <= n /\ n <= wrote

\* Who says that the grading is over is right.
Ended ==
    /\ page.over => wrote = Last
    /\ load.graded => wrote = Last
    /\ load.pc = "sent" /\ load.graded => load.shown = Last

\* A page that says so has the whole list, or fetches it, or will, unless the
\* query has failed and it stays blocked.
Complete ==
    /\ page.request => page.blocked
    /\ page.over /\ ~page.request /\ ~asked =>
          /\ \A n \in reading \cup answers : n = Last
          /\ answers = {} /\ (page.cooling \/ ~page.blocked) => page.shown = Last

IInv == TypeOK /\ Told /\ Stored /\ Ended /\ Complete

USE CasesType DEF Last

LEMMA InitInv == Init => IInv
  <1> SUFFICES ASSUME Init PROVE IInv
    OBVIOUS
  <1>1. /\ page \in Page /\ page.shown = 0
        /\ ~page.over /\ ~page.blocked /\ ~page.request /\ ~page.cooling
    BY DEF Init, NewPage, Page, Mode
  <1>2. load \in Load /\ load.shown = 0 /\ ~load.graded
    BY DEF Init, NotLoading, NewLoad, Load
  <1>3. Types
    <2>1. up \in BOOLEAN /\ asked \in BOOLEAN
      BY Zenon DEF Init
    <2>2. /\ wrote \in 0..Last /\ told \in 1..Last + 1 /\ kept \subseteq 2..Last + 1
          /\ reading \subseteq 0..Last /\ answers \subseteq 0..Last
      BY DEF Init
    <2>3. outcome \in Outcome \cup {"none"}
      BY DEF Init, Outcome
    <2> QED BY <1>1, <1>2, <2>1, <2>2, <2>3, Zenon DEF Types
  <1>4. Told
    BY DEF Init, Told
  <1>5. OneQuery
    <2>1. ~asked /\ reading = {} /\ answers = {}
      BY Zenon DEF Init
    <2> QED BY <1>1, <2>1 DEF OneQuery
  <1>6. Stored
    <2>1. wrote = 0 /\ reading = {} /\ answers = {}
      BY DEF Init
    <2> QED BY <1>1, <1>2, <2>1 DEF Stored
  <1>7. Ended /\ Complete
    BY <1>1, <1>2, Zenon DEF Ended, Complete
  <1> QED BY <1>3, <1>4, <1>5, <1>6, <1>7 DEF IInv, TypeOK

-----------------------------------------------------------------------------
(* What each group of steps does to the invariant. *)

LEMMA BridgeStep == IInv /\ Bridge => IInv'
  <1> SUFFICES ASSUME IInv, Bridge PROVE IInv'
    OBVIOUS
  <1>1. UNCHANGED client
    BY DEF Bridge, TellCase, StoreCase, StoreEnd, TellEnd
  <1>4. wrote \in 0..Last /\ wrote' \in 0..Last /\ wrote <= wrote' /\ (wrote = Last => wrote' = Last)
    <2>1. \/ wrote' = wrote
          \/ wrote < Cases /\ wrote' = wrote + 1
          \/ wrote = Cases /\ wrote' = Last
      BY DEF Bridge, TellCase, StoreCase, StoreEnd, TellEnd
    <2> QED BY <2>1 DEF IInv, TypeOK, Types
  <1>9. \/ told' = told /\ kept' = kept
        \/ told' = told + 1 /\ told < Last + 1 /\ kept' \subseteq kept \cup {told'}
    <2>1. ASSUME NEW heard \in BOOLEAN, Post(heard) PROVE kept' \subseteq kept \cup {told'}
      BY <2>1, Zenon DEF Post
    <2>2. ASSUME NEW heard \in BOOLEAN, TellCase(heard)
          PROVE  told' = told + 1 /\ told < Last + 1 /\ kept' \subseteq kept \cup {told'}
      BY <1>4, <2>1, <2>2 DEF TellCase
    <2>3. ASSUME TellEnd
          PROVE  told' = told + 1 /\ told < Last + 1 /\ kept' \subseteq kept \cup {told'}
      <3>1. told = Last /\ told' = told + 1
        BY <2>3 DEF TellEnd
      <3>2. kept' \subseteq kept \cup {told'}
        BY <2>1, <2>3, Zenon DEF TellEnd
      <3> QED BY <3>1, <3>2
    <2> QED BY <2>2, <2>3, Zenon DEF Bridge, StoreCase, StoreEnd, daemon
  <1>10. told \in Int /\ told >= 1 /\ told <= Last + 1 /\ \A i \in kept : i \in Int /\ i >= 2 /\ i <= told
    BY DEF IInv, TypeOK, Types, Told
  <1>11. told' \in 1..Last + 1 /\ \A i \in kept' : i \in 2..Last + 1 /\ i <= told'
    BY <1>9, <1>10
  <1>2. Types'
    <2>1. up' \in BOOLEAN
      BY Zenon DEF IInv, TypeOK, Types, Bridge, TellCase, StoreCase, StoreEnd, TellEnd, daemon
    <2>2. outcome' \in Outcome \cup {"none"}
      BY DEF IInv, TypeOK, Types, Bridge, TellCase, StoreCase, StoreEnd, TellEnd
    <2>3. kept' \subseteq 2..Last + 1
      BY <1>11
    <2> QED BY <1>1, <1>4, <1>11, <2>1, <2>2, <2>3, Zenon DEF IInv, TypeOK, Types, client
  <1>3. Told'
    <2>1. told' = Last + 1 => wrote' = Last
      <3>1. wrote \in Int /\ told \in Int
        BY <1>4, <1>10
      <3>2. told = Last + 1 => wrote = Last
        BY DEF IInv, Told
      <3>3. ASSUME NEW heard \in BOOLEAN, TellCase(heard) PROVE told' < Last + 1
        BY <3>1, <3>3 DEF TellCase
      <3>4. CASE StoreCase
        BY <3>1, <3>4 DEF StoreCase
      <3>5. ASSUME NEW o \in Outcome, StoreEnd(o) PROVE wrote' = Last
        BY <3>5 DEF StoreEnd
      <3>6. CASE TellEnd
        BY <3>6 DEF TellEnd
      <3> QED BY <3>3, <3>4, <3>5, <3>6 DEF Bridge
    <2> QED BY <2>1, <1>11 DEF Told
  <1>8. OneQuery'
    BY <1>1 DEF IInv, TypeOK, OneQuery, client
  <1>5. Stored'
    <2>1. page.shown \in Int /\ load.shown \in Int /\ reading \cup answers \subseteq Int
      BY DEF IInv, TypeOK, Types, Page, Load
    <2> QED BY <1>1, <1>4, <2>1 DEF IInv, Stored, client
  <1>6. Ended'
    BY <1>1, <1>4 DEF IInv, Ended, client
  <1>7. Complete'
    BY <1>1 DEF IInv, Complete, client
  <1> QED BY <1>2, <1>3, <1>5, <1>6, <1>7, <1>8 DEF IInv, TypeOK

\* What is left to show of a step of the browser: the page is a page, it has
\* one query at most, and its list is as new and as complete as it must be.
LEMMA PageStep ==
    ASSUME IInv, UNCHANGED <<bridge, load>>, up' \in BOOLEAN, kept' \subseteq kept,
           page' \in Page, asked' \in BOOLEAN,
           reading' \subseteq 0..Last, answers' \subseteq 0..Last,
           OneQuery', page'.over => wrote = Last, Complete',
           page'.shown <= wrote,
           \A n \in reading' \cup answers' : page'.shown <= n /\ n <= wrote
    PROVE  IInv'
  <1>1. /\ wrote' = wrote /\ told' = told /\ outcome' = outcome /\ load' = load
    BY DEF bridge
  <1>2. Types'
    BY <1>1, Zenon DEF IInv, TypeOK, Types
  <1>3. Told' /\ Ended'
    BY <1>1 DEF IInv, Told, Ended
  <1>4. Stored'
    BY <1>1 DEF IInv, Stored
  <1> QED BY <1>2, <1>3, <1>4 DEF IInv, TypeOK

\* The receiver's mode is no part of the argument.
LEMMA ModeStep ==
    ASSUME IInv, NEW to \in Mode, page' = [page EXCEPT !.mode = to],
           UNCHANGED <<bridge, asked, reading, answers, load>>,
           up' \in BOOLEAN, kept' \subseteq kept
    PROVE  IInv'
  <1>1. page \in Page /\ asked \in BOOLEAN /\ reading \subseteq 0..Last /\ answers \subseteq 0..Last
    BY DEF IInv, TypeOK, Types
  <1>2. /\ page' \in Page
        /\ page'.shown = page.shown /\ page'.over = page.over
        /\ page'.blocked = page.blocked /\ page'.request = page.request
        /\ page'.cooling = page.cooling
    BY <1>1 DEF Page
  <1>3. OneQuery' /\ Complete'
    BY <1>2 DEF IInv, TypeOK, OneQuery, Complete
  <1>4. page'.over => wrote = Last
    BY <1>2 DEF IInv, Ended
  <1>5. page'.shown <= wrote /\ \A n \in reading' \cup answers' : page'.shown <= n /\ n <= wrote
    BY <1>2 DEF IInv, Stored
  <1> QED BY <1>1, <1>2, <1>3, <1>4, <1>5, PageStep

LEMMA DaemonStep == IInv /\ (Down \/ Up) => IInv'
  <1> SUFFICES ASSUME IInv, Down \/ Up PROVE IInv'
    OBVIOUS
  <1>1. CASE Down
    <2>1. PICK to \in Mode : page' = [page EXCEPT !.mode = to]
      BY <1>1 DEF Down, IInv, TypeOK, Types, Page, Mode
    <2>2. up' \in BOOLEAN /\ kept' \subseteq kept /\ UNCHANGED <<bridge, asked, reading, answers, load>>
      BY <1>1 DEF Down
    <2> QED BY <2>1, <2>2, ModeStep
  <1>2. CASE Up
    <2>1. up' \in BOOLEAN /\ UNCHANGED <<bridge, kept, client>>
      BY <1>2 DEF Up
    <2> QED BY <2>1, Zenon DEF IInv, TypeOK, Types, OneQuery, bridge, client, Told, Stored, Ended, Complete
  <1> QED BY <1>1, <1>2

LEMMA ReceiveStep == IInv /\ Receive => IInv'
  <1> SUFFICES ASSUME IInv, Receive PROVE IInv'
    OBVIOUS
  <1>1. PICK i \in kept :
          LET got == [page EXCEPT !.last = i]
              pg == [got EXCEPT !.over = @ \/ i > Last]
          IN  \/ page' = got /\ asked' = asked
              \/ page' = Update(pg) /\ asked' = (asked \/ Sends(pg))
    BY DEF Receive
  <1>2. UNCHANGED <<bridge, daemon, reading, answers, load>>
    BY DEF Receive
  <1>3. /\ page \in Page /\ asked \in BOOLEAN /\ up \in BOOLEAN
        /\ reading \subseteq 0..Last /\ answers \subseteq 0..Last
    BY DEF IInv, TypeOK, Types
  <1>4. i \in 2..Last + 1 /\ (i > Last => wrote = Last)
    BY DEF IInv, TypeOK, Types, Told
  <1>5. /\ page.over => wrote = Last
        /\ page.shown <= wrote /\ \A n \in reading \cup answers : page.shown <= n /\ n <= wrote
    BY DEF IInv, Ended, Stored
  <1> DEFINE got == [page EXCEPT !.last = i]
             pg == [got EXCEPT !.over = @ \/ i > Last]
  <1>6. /\ got \in Page
        /\ got.shown = page.shown /\ got.over = page.over
        /\ got.blocked = page.blocked /\ got.request = page.request
        /\ got.cooling = page.cooling
    BY <1>3, <1>4 DEF Page
  <1>7. CASE page' = got /\ asked' = asked
    <2>1. OneQuery' /\ Complete'
      BY <1>2, <1>6, <1>7 DEF IInv, TypeOK, OneQuery, Complete
    <2> QED BY <1>2, <1>3, <1>5, <1>6, <1>7, <2>1, PageStep DEF daemon
  <1>8. /\ pg \in Page
        /\ pg.shown = page.shown /\ pg.over = (page.over \/ i > Last)
        /\ pg.blocked = page.blocked /\ pg.request = page.request
        /\ pg.cooling = page.cooling
    BY <1>6 DEF Page
  <1>9. CASE page' = Update(pg) /\ asked' = (asked \/ Sends(pg))
    <2> HIDE DEF pg
    <2>1. /\ page' \in Page
          /\ page'.shown = page.shown
          /\ page'.over => page.over \/ i > Last
          /\ page'.cooling = page.cooling
          /\ page'.blocked
          /\ page'.request <=> page.blocked
      <3>1. CASE pg.blocked
        <4>1. page' = [pg EXCEPT !.request = TRUE]
          BY <1>9, <3>1 DEF Update
        <4> QED BY <1>8, <3>1, <4>1 DEF Page
      <3>2. CASE ~pg.blocked
        <4>1. page' = [pg EXCEPT !.request = FALSE, !.blocked = TRUE]
          BY <1>9, <3>2 DEF Update
        <4> QED BY <1>8, <3>2, <4>1 DEF Page
      <3> QED BY <3>1, <3>2
    <2>2. asked' \in BOOLEAN /\ (asked' <=> asked \/ ~page.blocked)
      BY <1>3, <1>8, <1>9, Zenon DEF Sends
    <2>3. reading' = reading /\ answers' = answers
      BY <1>2
    <2>4. OneQuery'
      BY <2>1, <2>2, <2>3 DEF IInv, TypeOK, OneQuery
    <2>5. Complete'
      BY <2>1, <2>2, <2>3 DEF Complete
    <2>6. page'.over => wrote = Last
      BY <1>4, <1>5, <2>1
    <2> QED BY <1>2, <1>3, <1>5, <2>1, <2>2, <2>3, <2>4, <2>5, <2>6, PageStep DEF daemon
  <1> QED BY <1>1, <1>7, <1>9

LEMMA ReceiverStep == IInv /\ Receiver => IInv'
  <1> SUFFICES ASSUME IInv, Receiver PROVE IInv'
    OBVIOUS
  <1>1. ASSUME NEW from \in Mode, NEW to \in Mode, Move(from, to) PROVE IInv'
    <2>1. up \in BOOLEAN
      BY DEF IInv, TypeOK, Types
    <2>2. /\ page' = [page EXCEPT !.mode = to]
          /\ UNCHANGED <<bridge, asked, reading, answers, load, up, kept>>
      BY <1>1 DEF Move, daemon
    <2> QED BY <2>1, <2>2, ModeStep
  <1>2. CASE Receive
    BY <1>2, ReceiveStep
  <1> QED BY <1>1, <1>2 DEF Receiver, Open, GiveUp, Break, PollAgain, Mode

LEMMA ListStep == IInv /\ List => IInv'
  <1> SUFFICES ASSUME IInv, List PROVE IInv'
    OBVIOUS
  <1>1. /\ page \in Page /\ asked \in BOOLEAN
        /\ reading \subseteq 0..Last /\ answers \subseteq 0..Last
        /\ up \in BOOLEAN /\ wrote \in 0..Last
    BY DEF IInv, TypeOK, Types
  <1>2. /\ page.over => wrote = Last
        /\ page.shown <= wrote /\ \A n \in reading \cup answers : page.shown <= n /\ n <= wrote
    BY DEF IInv, Ended, Stored
  <1>3. UNCHANGED <<bridge, load>> /\ up' \in BOOLEAN /\ kept' = kept
    BY <1>1 DEF List, QueryRow, QueryCases, Show, Unblock, Fail, daemon
  <1>4. OneQuery /\ Complete
    BY DEF IInv, TypeOK
  <1>5. CASE QueryRow
    <2>1. /\ asked /\ ~asked' /\ asked' \in BOOLEAN
          /\ reading' = reading \cup {wrote} /\ answers' = answers /\ page' = page
      BY <1>5, Zenon DEF QueryRow
    <2>2. /\ reading' = {wrote} /\ answers' = {}
          /\ page.blocked /\ ~page.cooling
      BY <1>4, <2>1 DEF OneQuery
    <2>3. OneQuery'
      BY <1>4, <2>1, <2>2 DEF OneQuery
    <2>4. Complete'
      BY <1>2, <1>4, <2>1, <2>2 DEF Complete
    <2> QED BY <1>1, <1>2, <1>3, <2>1, <2>2, <2>3, <2>4, PageStep
  <1>9. CASE QueryCases
    <2>1. PICK row \in reading : /\ reading' = reading \ {row}
                                 /\ answers' = answers \cup {Rendered(row = Last)}
                                 /\ asked' = asked /\ page' = page
      BY <1>9 DEF QueryCases
    <2>2. /\ reading' = {} /\ answers' = {Rendered(row = Last)}
          /\ ~asked /\ page.blocked /\ ~page.cooling
      BY <1>4, <2>1 DEF OneQuery
    <2>3. /\ Rendered(row = Last) \in row .. wrote
          /\ row = Last => Rendered(row = Last) = Last
      BY <1>1, <1>2 DEF Rendered
    <2>4. OneQuery'
      BY <1>4, <2>1, <2>2 DEF OneQuery
    <2>5. Complete'
      BY <1>4, <2>1, <2>2, <2>3 DEF Complete
    <2>6. \A n \in reading' \cup answers' : page'.shown <= n /\ n <= wrote
      BY <1>1, <1>2, <2>1, <2>2, <2>3 DEF Page
    <2>7. answers' \subseteq 0..Last /\ reading' \subseteq 0..Last
      BY <1>1, <2>2, <2>3
    <2> QED BY <1>1, <1>2, <1>3, <2>1, <2>4, <2>5, <2>6, <2>7, PageStep
  <1>6. CASE Show
    <2>1. PICK n \in answers : /\ answers' = answers \ {n}
                               /\ page' = [page EXCEPT !.shown = n, !.cooling = TRUE]
                               /\ asked' = asked /\ reading' = reading
      BY <1>6 DEF Show
    <2>2. /\ page' \in Page
          /\ page'.shown = n /\ page'.over = page.over
          /\ page'.blocked = page.blocked /\ page'.request = page.request
          /\ page'.cooling
      BY <1>1, <2>1 DEF Page
    <2>3. answers' = {} /\ reading = {} /\ ~asked /\ page.blocked
      BY <1>4, <2>1 DEF OneQuery
    <2>4. OneQuery' /\ Complete'
      BY <1>4, <2>1, <2>2, <2>3 DEF OneQuery, Complete
    <2> QED BY <1>1, <1>2, <1>3, <2>1, <2>2, <2>3, <2>4, PageStep
  <1>7. CASE Unblock
    <2> DEFINE pg == [page EXCEPT !.cooling = FALSE, !.blocked = FALSE]
    <2>1. page.cooling /\ page.blocked /\ ~asked /\ reading = {} /\ answers = {}
      BY <1>4, <1>7 DEF Unblock, OneQuery
    <2>2. /\ pg \in Page
          /\ pg.shown = page.shown /\ pg.over = page.over
          /\ ~pg.blocked /\ pg.request = page.request /\ ~pg.cooling
      BY <1>1 DEF Page
    <2>3. /\ page' = IF page.request THEN Update(pg) ELSE pg
          /\ asked' = (asked \/ page.request)
          /\ reading' = reading /\ answers' = answers
      BY <1>7 DEF Unblock
    <2> HIDE DEF pg
    <2>4. /\ page' \in Page
          /\ page'.shown = page.shown /\ page'.over = page.over
          /\ (page'.blocked <=> page.request) /\ ~page'.request /\ ~page'.cooling
      <3>1. CASE page.request
        <4>1. page' = [pg EXCEPT !.request = FALSE, !.blocked = TRUE]
          BY <2>2, <2>3, <3>1 DEF Update
        <4> QED BY <2>2, <3>1, <4>1 DEF Page
      <3>2. CASE ~page.request
        <4>1. page' = pg
          BY <2>3, <3>2
        <4> QED BY <2>2, <3>2, <4>1
      <3> QED BY <3>1, <3>2
    <2>5. asked' \in BOOLEAN /\ (asked' <=> page.request)
      BY <2>1, <2>3, Zenon
    <2>6. OneQuery' /\ Complete'
      BY <1>4, <2>1, <2>3, <2>4, <2>5 DEF OneQuery, Complete
    <2> QED BY <1>1, <1>2, <1>3, <2>1, <2>3, <2>4, <2>5, <2>6, PageStep
  <1>8. CASE Fail
    <2>1. /\ asked \/ reading # {} \/ answers # {}
          /\ ~asked' /\ asked' \in BOOLEAN /\ reading' = {} /\ answers' = {} /\ page' = page
      BY <1>8, Zenon DEF Fail
    <2>2. page.blocked /\ ~page.cooling
      BY <1>4, <2>1 DEF OneQuery
    <2>3. OneQuery' /\ Complete'
      BY <1>4, <2>1, <2>2 DEF OneQuery, Complete
    <2> QED BY <1>1, <1>2, <1>3, <2>1, <2>3, PageStep
  <1> QED BY <1>5, <1>6, <1>7, <1>8, <1>9 DEF List

LEMMA ViewStep == IInv /\ (Reload \/ View) => IInv'
  <1> SUFFICES ASSUME IInv, Reload \/ View PROVE IInv'
    OBVIOUS
  <1>1. ASSUME NEW state \in Load, UNCHANGED <<bridge, daemon, page, asked, reading, answers>>,
               load' = state, state.shown <= wrote, state.graded => wrote = Last,
               state.pc = "sent" /\ state.graded => state.shown = Last
        PROVE  IInv'
    <2>1. Types'
      BY <1>1, Zenon DEF IInv, TypeOK, Types, bridge, daemon
    <2>2. Told' /\ OneQuery' /\ Complete'
      BY <1>1, Zenon DEF IInv, TypeOK, Told, OneQuery, Complete, bridge, daemon
    <2>3. Stored' /\ Ended'
      BY <1>1 DEF IInv, Stored, Ended, bridge
    <2> QED BY <2>1, <2>2, <2>3 DEF IInv, TypeOK
  <1>2. load \in Load /\ wrote \in 0..Last /\ told \in 1..Last + 1
    BY DEF IInv, TypeOK, Types
  <1>3. /\ load.shown <= wrote /\ (load.graded => wrote = Last)
        /\ (load.pc = "sent" /\ load.graded => load.shown = Last)
    BY DEF IInv, Stored, Ended
  <1>4. CASE Reload
    <2> DEFINE state == NewLoad("row")
    <2>1. state = [pc |-> "row", graded |-> FALSE, last |-> 0, shown |-> 0]
      BY DEF NewLoad
    <2>2. load' = state /\ UNCHANGED <<bridge, daemon, page, asked, reading, answers>>
      BY <1>4 DEF Reload, Loading
    <2> HIDE DEF state
    <2>3. state \in Load /\ state.shown = 0 /\ ~state.graded
      BY <2>1 DEF Load
    <2>4. state.shown <= wrote
      BY <1>2, <2>3
    <2> QED BY <1>1, <2>2, <2>3, <2>4
  <1>5. CASE ReadRow
    <2> DEFINE state == [load EXCEPT !.pc = "last", !.graded = (wrote = Last)]
    <2>1. /\ state \in Load /\ state.shown = load.shown /\ state.pc = "last"
          /\ state.graded => wrote = Last
      BY <1>2 DEF Load
    <2>2. load' = state /\ UNCHANGED <<bridge, daemon, page, asked, reading, answers>>
      BY <1>5 DEF ReadRow, Loading
    <2> QED BY <1>1, <1>3, <2>1, <2>2
  <1>6. CASE ReadLast
    <2> DEFINE l == IF up THEN told ELSE 0
    <2>1. l \in 0..Last + 1 /\ load' = [load EXCEPT !.pc = "cases", !.last = l]
      <3>1. l \in 0..Last + 1
        BY <1>2
      <3> QED BY <1>6, <3>1 DEF ReadLast, Loading
    <2> HIDE DEF l
    <2> DEFINE state == [load EXCEPT !.pc = "cases", !.last = l]
    <2>2. /\ state \in Load /\ state.shown = load.shown /\ state.pc = "cases"
          /\ state.graded = load.graded
      BY <1>2, <2>1 DEF Load
    <2>3. load' = state /\ UNCHANGED <<bridge, daemon, page, asked, reading, answers>>
      BY <1>6, <2>1 DEF ReadLast, Loading
    <2> QED BY <1>1, <1>3, <2>2, <2>3
  <1>7. CASE ReadCases
    <2> DEFINE n == Rendered(load.graded)
    <2>1. /\ load' = [load EXCEPT !.pc = "sent", !.shown = n]
          /\ n \in 0..Last /\ n <= wrote
          /\ load.graded => n = Last
      <3>1. load' = [load EXCEPT !.pc = "sent", !.shown = n]
        BY <1>7 DEF ReadCases, Loading
      <3>2. n \in 0..Last /\ n <= wrote /\ (load.graded => n = Last)
        BY <1>2, <1>3 DEF Rendered
      <3> QED BY <3>1, <3>2
    <2> HIDE DEF n
    <2> DEFINE state == [load EXCEPT !.pc = "sent", !.shown = n]
    <2>2. /\ state \in Load /\ state.shown = n
          /\ state.graded = load.graded
      BY <1>2, <2>1 DEF Load
    <2>3. load' = state /\ UNCHANGED <<bridge, daemon, page, asked, reading, answers>>
      BY <1>7, <2>1 DEF ReadCases, Loading
    <2> QED BY <1>1, <1>3, <2>1, <2>2, <2>3
  <1>8. CASE Display
    <2>1. page' = NewPage(load.graded, load.last, load.shown) /\ load.pc = "sent"
      BY <1>8 DEF Display
    <2>2. /\ page' \in Page
          /\ page'.shown = load.shown /\ page'.over = load.graded
          /\ ~page'.blocked /\ ~page'.request /\ ~page'.cooling
      BY <1>2, <2>1 DEF NewPage, Page, Load, Mode
    <2>3. load' \in Load /\ load'.shown = 0 /\ ~load'.graded
      BY <1>8 DEF Display, NotLoading, NewLoad, Load
    <2>4. ~asked' /\ asked' \in BOOLEAN /\ reading' = {} /\ answers' = {} /\ UNCHANGED <<bridge, daemon>>
      BY <1>8, Zenon DEF Display
    <2>5. Types'
      BY <2>2, <2>3, <2>4, Zenon DEF IInv, TypeOK, Types, bridge, daemon
    <2>6. Told'
      BY <2>4 DEF IInv, Told, bridge, daemon
    <2>7. OneQuery' /\ Complete'
      BY <1>3, <2>1, <2>2, <2>4 DEF OneQuery, Complete
    <2>8. Stored' /\ Ended'
      BY <1>2, <1>3, <2>2, <2>3, <2>4 DEF Stored, Ended, bridge
    <2> QED BY <2>5, <2>6, <2>7, <2>8 DEF IInv, TypeOK
  <1> QED BY <1>4, <1>5, <1>6, <1>7, <1>8 DEF View

LEMMA StepInv == IInv /\ [Next]_vars => IInv'
  <1> SUFFICES ASSUME IInv, [Next]_vars PROVE IInv'
    OBVIOUS
  <1>1. CASE UNCHANGED vars
    BY <1>1 DEF vars, IInv, TypeOK, Types, OneQuery, Told, Stored, Ended, Complete
  <1> QED BY <1>1, BridgeStep, DaemonStep, ReceiverStep, ListStep, ViewStep DEF Next

THEOREM Invariance == Spec => []IInv
  BY InitInv, StepInv, PTL DEF Spec

-----------------------------------------------------------------------------
\* At most one query of the page is under way, and only while it is blocked.
THEOREM TypeCorrect == Spec => []TypeOK
  BY Invariance, PTL DEF IInv

\* A page that says the grading is over and fetches nothing shows all of it.
THEOREM OverShows == Spec => []OverShowsAll
  <1>1. IInv => OverShowsAll
    BY DEF IInv, TypeOK, Types, OneQuery, Complete, OverShowsAll, Page
  <1> QED BY <1>1, Invariance, PTL

\* The list of a page never shows less than it did.
THEOREM GoesForward == Spec => NeverGoesBack
  <1>1. IInv /\ [Next]_vars => [Display \/ page'.shown >= page.shown]_vars
    <2> SUFFICES ASSUME IInv, Next, ~Display PROVE page'.shown >= page.shown
      BY DEF vars
    <2>1. page \in Page /\ page.shown >= page.shown
      BY DEF IInv, TypeOK, Types, Page
    <2>2. CASE \/ Bridge \/ Up \/ Reload \/ ReadRow \/ ReadLast \/ ReadCases
               \/ QueryRow \/ QueryCases \/ Fail
      <3>1. page' = page
        BY <2>2 DEF Bridge, TellCase, StoreCase, StoreEnd, TellEnd, Up, Reload, ReadRow,
                    ReadLast, ReadCases, QueryRow, QueryCases, Fail, Loading, client
      <3> QED BY <2>1, <3>1
    <2>3. CASE Down \/ Open \/ GiveUp \/ Break \/ PollAgain
      <3>1. \E to : page' = [page EXCEPT !.mode = to]
        BY <2>3 DEF Down, Open, GiveUp, Break, PollAgain, Move
      <3> QED BY <2>1, <3>1 DEF Page
    <2>4. CASE Receive
      <3>1. PICK i : LET got == [page EXCEPT !.last = i]
                         pg == [got EXCEPT !.over = @ \/ i > Last]
                     IN  page' = got \/ page' = Update(pg)
        BY <2>4 DEF Receive
      <3> DEFINE got == [page EXCEPT !.last = i]
                 pg == [got EXCEPT !.over = @ \/ i > Last]
      <3>2. got.shown = page.shown /\ pg.shown = page.shown /\ Update(pg).shown = page.shown
        BY <2>1 DEF Page, Update
      <3> QED BY <2>1, <3>1, <3>2
    <2>5. CASE Show
      <3>1. PICK n \in answers : page' = [page EXCEPT !.shown = n, !.cooling = TRUE]
        BY <2>5 DEF Show
      <3>2. page'.shown = n /\ n >= page.shown
        BY <2>1, <3>1 DEF IInv, TypeOK, Types, Stored, Page
      <3> QED BY <3>2
    <2>6. CASE Unblock
      BY <2>1, <2>6 DEF Unblock, Update, Page
    <2> QED BY <2>2, <2>3, <2>4, <2>5, <2>6 DEF Next, Receiver, List, View
  <1> QED BY <1>1, Invariance, PTL DEF Spec, NeverGoesBack
=============================================================================
