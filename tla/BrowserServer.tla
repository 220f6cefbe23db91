--------------------------- MODULE BrowserServer ---------------------------
(* The running app's side of the browser path: one session for each browser, *)
(* told what it may read and which period its pages go to.  A session reads  *)
(* the pause without a lock and the period under custody's, and is told of   *)
(* changes by a broadcast that drops what a slow session did not take.  One  *)
(* session is followed; the others appear as what they announce.             *)
(* Receipts and pages are in BrowserCustody; the renewal that repeats the    *)
(* state every five seconds (STATE_RENEWAL_MS_INTERVAL) is RenewalDue.       *)
EXTENDS Integers, Sequences

CONSTANTS
  Capacity,    \* events a session may be behind; broadcast::channel(64)
  MaxHolds,    \* bound: changes of the pause
  MaxPeriods,  \* bound: periods that end
  MaxLinks     \* bound: changes of the journal the app is linked to

VARIABLES
  hold,        \* is reading held, by the owner's pause or because nobody is at the desktop?
  holds,       \* the changes of it so far
  pauser,      \* the task that announces them: what it saw last, and is there news it has not looked at?
  generation,  \* the generation of the linked journal; 0 is none linked
  period,      \* custody's open period
  clocked,     \* the period the clock has begun and not announced; 0 is none
  others,      \* periods that other sessions have begun and not announced, with the generation of each session
  browser,     \* the session that is followed
  server       \* "up", "bye" (said), or "down" (its tasks aborted, the endpoint removed)

ServerVars == <<hold, holds, pauser, generation, period, clocked, others, browser, server>>

NoSession == [at |-> "out", began |-> 0, read |-> FALSE, period |-> 0,
              inbox |-> <<>>, rotated |-> 0, missed |-> FALSE, behind |-> FALSE]

Publish == [what |-> "publish", generation |-> 0, period |-> 0]
Lagged == [Publish EXCEPT !.what = "lagged"]
Bye == [Publish EXCEPT !.what = "bye"]
Boundary(g, p) == [what |-> "boundary", generation |-> g, period |-> p]

Events == [what : {"publish", "lagged", "bye", "boundary"}, generation : 0..MaxLinks + 1, period : 0..MaxPeriods + 1]

TypeOK ==
  /\ hold \in BOOLEAN /\ holds \in 0..MaxHolds
  /\ pauser \in [begun : BOOLEAN, last : BOOLEAN, news : BOOLEAN]
  /\ generation \in 0..MaxLinks + 1 /\ period \in 1..MaxPeriods + 1 /\ clocked \in 0..MaxPeriods + 1
  /\ server \in {"up", "bye", "down"}
  /\ \A o \in others : o \in Events
  /\ browser.at \in {"out", "greeting", "telling", "on", "told", "batch"}
  /\ browser.read \in BOOLEAN /\ browser.period \in 0..MaxPeriods + 1
  /\ Len(browser.inbox) <= Capacity
  /\ \A i \in DOMAIN browser.inbox : browser.inbox[i] \in Events

\* The tasks have been spawned and have not run: the endpoint takes browsers already.
Init ==
  /\ hold = FALSE /\ holds = 0
  /\ pauser = [begun |-> FALSE, last |-> FALSE, news |-> FALSE]
  /\ generation \in {0, 1} /\ period = 1 /\ clocked = 0
  /\ others = {} /\ browser = NoSession
  /\ server = "up"

\* A session that is behind by the whole channel loses its oldest event and learns that it did.
Behind(inbox) == [i \in 1..Capacity |-> IF i = 1 THEN Lagged ELSE inbox[i + 1]]
Kept(inbox, event) ==
  LET all == Append(inbox, event) IN IF Len(all) <= Capacity THEN all ELSE Behind(all)

Sent(session, event) ==
  IF session.at = "out" THEN session ELSE [session EXCEPT !.inbox = Kept(@, event)]

\* A change nobody is told of: the session may have been told otherwise before.
Unheard(session) == [session EXCEPT !.behind = session.at = "on"]
Missed == [browser EXCEPT !.missed = browser.at \in {"telling", "on"} /\ (@ \/ browser.read # hold)]
-----------------------------------------------------------------------------
(* The owner, the desktop and the journal, followed until the app goes away. *)

HoldChanges ==
  /\ holds < MaxHolds /\ server = "up"
  /\ hold' = ~hold /\ holds' = holds + 1
  /\ pauser' = [pauser EXCEPT !.news = TRUE]
  /\ UNCHANGED <<generation, period, clocked, others, browser, server>>

\* Another journal is linked, or none.
LinkChanges ==
  /\ generation <= MaxLinks /\ server = "up"
  /\ \E g \in {0, generation + 1} : g # generation /\ generation' = g
  /\ UNCHANGED <<hold, holds, pauser, period, clocked, others, browser, server>>
-----------------------------------------------------------------------------
(* The tasks of the server.                                                  *)

\* The first look: what is held now is what was seen last.
PauserBegins ==
  /\ ~pauser.begun /\ server # "down"
  /\ pauser' = [pauser EXCEPT !.begun = TRUE, !.last = hold]
  /\ browser' = Missed
  /\ UNCHANGED <<hold, holds, generation, period, clocked, others, server>>

\* News is looked at: a hold that changed and changed back meanwhile is announced to nobody.
PauserLooks ==
  /\ pauser.begun /\ pauser.news /\ server # "down"
  /\ pauser' = [pauser EXCEPT !.last = hold, !.news = FALSE]
  /\ browser' = IF hold # pauser.last THEN Sent(browser, Publish) ELSE Missed
  /\ UNCHANGED <<hold, holds, generation, period, clocked, others, server>>

\* Once a second custody may end its period by the clock, under its lock.
ClockTicks ==
  /\ clocked = 0 /\ period <= MaxPeriods /\ server # "down"
  /\ period' = period + 1 /\ clocked' = period + 1
  /\ UNCHANGED <<hold, holds, pauser, generation, others, browser, server>>

\* The boundary is announced afterwards, if a journal is linked then.
ClockAnnounces ==
  /\ clocked # 0 /\ server # "down"
  /\ clocked' = 0
  /\ browser' = IF generation # 0 THEN Sent(browser, Boundary(generation, clocked)) ELSE Unheard(browser)
  /\ UNCHANGED <<hold, holds, pauser, generation, period, others, server>>

\* Every connected browser is told that the app goes away, and 200 ms later the tasks are aborted;
\* sessions under way are not.
SaysBye ==
  /\ server = "up" /\ server' = "bye"
  /\ browser' = Sent(browser, Bye)
  /\ UNCHANGED <<hold, holds, pauser, generation, period, clocked, others>>

GoesDown ==
  /\ server = "bye" /\ server' = "down"
  /\ UNCHANGED <<hold, holds, pauser, generation, period, clocked, others, browser>>
-----------------------------------------------------------------------------
(* A session.                                                                *)

\* It listens before it reads anything.
Connect ==
  /\ browser.at = "out" /\ server # "down"
  /\ browser' = [NoSession EXCEPT !.at = "greeting"]
  /\ UNCHANGED <<hold, holds, pauser, generation, period, clocked, others, server>>

\* The facts: the generation and the hold as they are ...
ReadHold ==
  /\ browser.at \in {"greeting", "told"}
  /\ browser' = [browser EXCEPT !.at = "telling", !.read = hold, !.began = IF browser.at = "greeting" THEN generation ELSE @]
  /\ UNCHANGED <<hold, holds, pauser, generation, period, clocked, others, server>>

\* ... and the period, once custody's lock is had; then the browser is told.
Tell ==
  /\ browser.at = "telling"
  /\ browser' = [browser EXCEPT !.at = "on", !.period = period]
  /\ UNCHANGED <<hold, holds, pauser, generation, period, clocked, others, server>>

\* The state is about to be read and told again.
ToldAgain(session) == [session EXCEPT !.at = "told", !.missed = FALSE, !.behind = FALSE]

\* The state is told again every five seconds.
RenewalDue ==
  /\ browser.at = "on"
  /\ browser' = ToldAgain(browser)
  /\ UNCHANGED <<hold, holds, pauser, generation, period, clocked, others, server>>

\* A boundary of the session's own generation is passed on.
PassedOn(event) ==
  IF event.what = "boundary" /\ event.generation = browser.began THEN event.period ELSE browser.period

\* Mutant: a boundary is not followed by the state.
TakeEventAlone ==
  /\ browser.at = "on" /\ browser.inbox # <<>>
  /\ browser' = IF Head(browser.inbox).what = "bye" THEN NoSession
                ELSE [browser EXCEPT !.at = IF Head(browser.inbox).what = "boundary" THEN "on" ELSE "told",
                                     !.inbox = Tail(@), !.period = PassedOn(Head(browser.inbox))]
  /\ UNCHANGED <<hold, holds, pauser, generation, period, clocked, others, server>>

\* An event is taken, and every event, a lag among them, is followed by the state.
TakeEvent ==
  /\ browser.at = "on" /\ browser.inbox # <<>>
  /\ browser' = IF Head(browser.inbox).what = "bye" THEN NoSession
                ELSE [ToldAgain(browser) EXCEPT !.inbox = Tail(@), !.period = PassedOn(Head(browser.inbox))]
  /\ UNCHANGED <<hold, holds, pauser, generation, period, clocked, others, server>>

\* A batch is taken under custody's lock, and may end the period by its size.
TakeBatch ==
  /\ browser.at = "on" /\ period <= MaxPeriods
  /\ period' = period + 1
  /\ browser' = [browser EXCEPT !.at = "batch", !.rotated = period + 1]
  /\ UNCHANGED <<hold, holds, pauser, generation, clocked, others, server>>

\* The boundary is announced in the name of the generation the session began with, and to nobody
\* if it began with none.
Announced(session, from, p) ==
  IF from # 0 THEN Sent(session, Boundary(from, p)) ELSE Unheard(session)

\* The receipt and the state follow.
BatchAnnounces ==
  /\ browser.at = "batch"
  /\ browser' = Announced([ToldAgain(browser) EXCEPT !.rotated = 0], browser.began, browser.rotated)
  /\ UNCHANGED <<hold, holds, pauser, generation, period, clocked, others, server>>

\* Another session does the same; it may have begun under any journal the app was linked to.
OtherBatch ==
  /\ period <= MaxPeriods /\ server = "up"
  /\ period' = period + 1
  /\ \E from \in 0..MaxLinks + 1 : from <= generation /\ others' = others \cup {Boundary(from, period + 1)}
  /\ UNCHANGED <<hold, holds, pauser, generation, clocked, browser, server>>

OtherAnnounces ==
  \E o \in others :
    /\ others' = others \ {o}
    /\ browser' = Announced(browser, o.generation, o.period)
    /\ UNCHANGED <<hold, holds, pauser, generation, period, clocked, server>>

\* The browser goes away, or something of it is not a valid batch.
Leave ==
  /\ browser.at = "on"
  /\ browser' = NoSession
  /\ UNCHANGED <<hold, holds, pauser, generation, period, clocked, others, server>>
-----------------------------------------------------------------------------
Next ==
  \/ HoldChanges
  \/ LinkChanges
  \/ PauserBegins
  \/ PauserLooks
  \/ ClockTicks
  \/ ClockAnnounces
  \/ SaysBye
  \/ GoesDown
  \/ Connect
  \/ ReadHold
  \/ Tell
  \/ RenewalDue
  \/ TakeEvent
  \/ TakeBatch
  \/ BatchAnnounces
  \/ OtherBatch
  \/ OtherAnnounces
  \/ Leave

Spec == Init /\ [][Next]_ServerVars
-----------------------------------------------------------------------------
\* Nothing is under way that will reach the session.
Settled ==
  /\ browser.at = "on" /\ browser.inbox = <<>> /\ server = "up"
  /\ pauser.begun /\ ~pauser.news /\ clocked = 0 /\ others = {}

\* A browser that has nothing more coming was told what holds: whether it may read, and the period
\* its pages go to, whatever it was told in between, in whatever order, and however far it was
\* behind.  The two changes that are announced to nobody are excepted until the next renewal: a hold
\* that changed back before it was looked at, and a period that ended with no journal to name.
ToldIsCurrent ==
  Settled =>
    /\ browser.missed \/ browser.read = hold
    /\ browser.behind \/ browser.period = period
=============================================================================
