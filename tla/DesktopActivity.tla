--------------------------- MODULE DesktopActivity ---------------------------
(* Desktop activity: which window was in front, and for how long              *)
(* (src/activity_source.rs, activity_prefs.rs, and the parts of observer.rs   *)
(* that drive them).                                                          *)
(*                                                                            *)
(* The capture loop reads the desktop in several calls, and keeps what it saw *)
(* as open intervals until something changes.  The owner changes the policy   *)
(* from another process at any moment of a read; the focus, the tab, the lock *)
(* and the session change as they like.                                       *)
EXTENDS Integers, FiniteSets

CONSTANTS
  Policies,    \* what the owner may choose: [source, titles, urls, apps, hidden, through]
  MaxTime,     \* bound: instants
  MaxPolicies, \* bound: changes of the policy
  MaxMoves,    \* bound: changes of the desktop and of the pause
  Nil

\* The desktop: an editor, and a browser with two tabs.
Windows == {"editor", "one", "two"}
App(w) == IF w = "editor" THEN "editor" ELSE "browser"

VARIABLES
  now,
  prefs,    \* [policy, gen, boundary]: ActivityPrefs
  paused,   \* the owner's pause
  held,     \* activity_held
  desk,     \* [front, locked, session]
  cached,   \* the session the loop last probed
  sampler,  \* [gen, epoch, slots, at]: ActivitySampler, and the instant of its last poll
  poll,     \* the read under way, or Nil
  closed,   \* the rows the last step closed
  past,     \* ghost: past[k]: the policy and the hold at the end of instant k
  changes,  \* policy changes
  moves

avars == <<now, prefs, paused, held, desk, cached, sampler, poll, closed, past, changes, moves>>

Kinds == {"foreground", "presence", "url"}
NoSlots == [k \in Kinds |-> Nil]

Init ==
  /\ now = 0 /\ \E p \in Policies : prefs = [policy |-> p, gen |-> 1, boundary |-> Nil]
  /\ paused = FALSE /\ held = FALSE /\ cached = 1
  /\ desk = [front |-> "one", locked |-> FALSE, session |-> 1]
  /\ sampler = [gen |-> 0, epoch |-> 0, slots |-> NoSlots, at |-> 0]
  /\ poll = Nil /\ closed = {} /\ past = [k \in 0..MaxTime |-> Nil] /\ changes = 0 /\ moves = 0

-----------------------------------------------------------------------------
(* The policy *)

Earlier(a, b) == IF a = Nil \/ b < a THEN b ELSE a

\* apply_policy: the earliest change not yet acted on is the boundary.
ApplyPolicy(p) ==
  /\ changes < MaxPolicies /\ changes' = changes + 1
  /\ prefs' = [policy |-> p, gen |-> prefs.gen + 1, boundary |-> Earlier(prefs.boundary, now)]
  /\ closed' = {}
  /\ UNCHANGED <<now, paused, held, desk, cached, sampler, poll, past, moves>>

Bumped(p) == [p EXCEPT !.gen = @ + 1]

\* take_policy_boundary_before: a change after `at` stays pending.
BoundaryBefore(at) ==
  IF prefs.boundary # Nil /\ prefs.boundary <= at THEN prefs.boundary ELSE Nil

Taken(at) == [prefs EXCEPT !.boundary = IF BoundaryBefore(at) = Nil THEN @ ELSE Nil]
Cutoff(at) == IF BoundaryBefore(at) = Nil THEN at ELSE BoundaryBefore(at)

-----------------------------------------------------------------------------
(* Intervals *)

\* push_span: the rows of the slots ks, closed at `at`.
Rows(slots, ks, at) ==
  {[slots[k] EXCEPT !.end = at] : k \in {l \in ks : slots[l] # Nil /\ slots[l].ts <= at}}

Without(slots, ks) == [k \in Kinds |-> IF k \in ks THEN Nil ELSE slots[k]]

Span(kind, what, title, url, ts) ==
  [kind |-> kind, what |-> what, title |-> title, url |-> url, ts |-> ts, end |-> ts]

SameSpan(a, b) == a # Nil /\ b # Nil /\ [a EXCEPT !.ts = 0, !.end = 0] = [b EXCEPT !.ts = 0, !.end = 0]

\* continue_or_replace: [slots, rows] after the slot k is to hold `next`.
Replaced(slots, k, next, at) ==
  IF SameSpan(slots[k], next) THEN [slots |-> slots, rows |-> {}]
  ELSE [slots |-> [slots EXCEPT ![k] = next], rows |-> Rows(slots, {k}, at)]

Stamped(slots, at) ==
  [k \in Kinds |-> IF slots[k] = Nil THEN Nil ELSE [slots[k] EXCEPT !.ts = at, !.end = at]]

HasOpen == \E k \in Kinds : sampler.slots[k] # Nil

\* seal: everything open is closed at `at`.
SealAt(at) ==
  /\ closed' = Rows(sampler.slots, Kinds, at)
  /\ sampler' = [sampler EXCEPT !.slots = NoSlots]

-----------------------------------------------------------------------------
(* A poll *)

\* still_ok: asked before and after every read.
StillOk(p) == prefs.gen = p.gen /\ ~p.held /\ desk.session = p.epoch /\ ~desk.locked

\* The presence, and whether an address can be had: written as the rest is.
Presence(p) == IF p.policy.source /\ ~p.held
               THEN Span("presence", IF p.locked THEN "locked" ELSE "active", Nil, Nil, p.at) ELSE Nil
NoAddress(p, slots) ==
  IF p.policy.source /\ p.policy.urls /\ ~p.held
     /\ (slots["foreground"] = Nil \/ slots["foreground"].url = Nil)
  THEN Span("url", "unavailable", Nil, Nil, p.at) ELSE Nil

\* The poll p ends with `next` in front.
Finish(p, next) ==
  LET f == Replaced(sampler.slots, "foreground", next, p.at)
      u == Replaced(f.slots, "url", NoAddress(p, f.slots), p.at)
  IN /\ sampler' = [sampler EXCEPT !.slots = u.slots]
     /\ closed' = f.rows \cup u.rows /\ poll' = Nil

\* note_activity: the policy is taken, with the boundary it brings; a new
\* policy or session closes what is open there.
BeginPoll ==
  /\ poll = Nil
  /\ LET pr  == IF desk.session = cached THEN prefs ELSE Bumped(prefs)
         p   == [policy |-> pr.policy, gen |-> pr.gen, epoch |-> desk.session, held |-> held,
                 at |-> now, locked |-> desk.locked, read |-> Nil, window |-> Nil, title |-> Nil,
                 url |-> Nil, flips |-> 0]
         ok  == ~held /\ ~desk.locked
         new == ~ok \/ pr.gen # sampler.gen \/ desk.session # sampler.epoch
         cut == IF pr.boundary = Nil \/ pr.boundary > now THEN now ELSE pr.boundary
         old == IF new THEN NoSlots ELSE sampler.slots
         pre == Replaced(old, "presence", Presence(p), now)
     IN /\ cached' = desk.session /\ prefs' = [pr EXCEPT !.boundary = Nil]
        /\ IF ~pr.policy.source /\ ~HasOpen
           THEN UNCHANGED <<sampler, poll>> /\ closed' = {}
           ELSE /\ sampler' = [gen |-> p.gen, epoch |-> p.epoch, at |-> now,
                               slots |-> IF ok /\ p.policy.source THEN pre.slots
                                         ELSE Without(pre.slots, {"foreground", "url"})]
                /\ closed' = pre.rows \cup
                             (IF new THEN Rows(sampler.slots, Kinds, cut)
                              ELSE IF ok /\ p.policy.source THEN {}
                              ELSE Rows(sampler.slots, {"foreground", "url"}, now))
                /\ poll' = IF ok /\ p.policy.source THEN [p EXCEPT !.read = "identity"] ELSE Nil
  /\ UNCHANGED <<now, paused, held, desk, past, changes, moves>>

Reading(r) == poll # Nil /\ poll.read = r
Rest == UNCHANGED <<now, prefs, paused, held, desk, cached, past, changes, moves>>
Goes(p) == poll' = p /\ closed' = {} /\ UNCHANGED sampler
NextRead(p) == IF p.policy.titles \/ p.policy.hidden # {} THEN "title" ELSE "address"

\* The window in front, or no answer.
ReadIdentity ==
  /\ Reading("identity") /\ Rest
  /\ \/ StillOk(poll) /\ App(desk.front) \notin poll.policy.apps
        /\ Goes([poll EXCEPT !.window = desk.front, !.read = NextRead(poll)])
     \/ StillOk(poll) /\ App(desk.front) \in poll.policy.apps /\ Finish(poll, Nil)
     \/ StillOk(poll) /\ Finish(poll, Span("foreground", "unavailable", Nil, Nil, poll.at))
     \/ ~StillOk(poll) /\ Finish(poll, Nil)

SameWindow == App(desk.front) = App(poll.window)

\* The title, if it is still the same window and not a hidden one.
ReadTitle ==
  /\ Reading("title") /\ Rest
  /\ IF StillOk(poll) /\ SameWindow /\ desk.front \notin poll.policy.hidden
     THEN Goes([poll EXCEPT !.title = IF poll.policy.titles THEN desk.front ELSE Nil, !.read = "address"])
     ELSE Finish(poll, Nil)

\* The address of the tab, and a look whether the window moved meanwhile.
ReadAddress ==
  /\ Reading("address") /\ Rest
  /\ \/ Goes([poll EXCEPT !.read = "again"])
     \/ /\ poll.policy.urls /\ StillOk(poll) /\ App(poll.window) = "browser"
        /\ IF SameWindow THEN Goes([poll EXCEPT !.url = desk.front, !.read = "again"])
           ELSE Finish(poll, Nil)

\* Mutant of Again: hidden titles are looked at once.
AgainOnce == TRUE

\* The title once more: the tab may have changed under the address.
Again == poll.policy.hidden = {} \/ (SameWindow /\ desk.front \notin poll.policy.hidden)

ReadAgain ==
  /\ Reading("again") /\ Rest
  /\ IF StillOk(poll) /\ Again
     THEN Finish(poll, Span("foreground", App(poll.window),
                            IF poll.policy.titles /\ poll.policy.hidden # {} THEN desk.front ELSE poll.title,
                            IF poll.url = Nil THEN Nil ELSE <<poll.url, poll.flips>>, poll.at))
     ELSE Finish(poll, Nil)

-----------------------------------------------------------------------------
(* The pause and the segments *)

ActivityPaused(p, pol) == p /\ ~(pol.source /\ pol.through)

\* set_activity_hold, when the hold changes.
Pause(p) ==
  /\ poll = Nil /\ paused' = p /\ held' = ActivityPaused(p, prefs.policy) /\ (p # paused \/ held' # held)
  /\ IF held' /\ ~held
     THEN SealAt(Cutoff(now)) /\ prefs' = Bumped(Taken(now))
     ELSE closed' = {} /\ UNCHANGED <<sampler, prefs>>
  /\ IF p = paused THEN UNCHANGED moves ELSE moves < MaxMoves /\ moves' = moves + 1
  /\ UNCHANGED <<now, desk, cached, poll, past, changes>>

\* Mutant of Continued: what is open goes on whatever the policy became.
ContinuedAlways(at) == Stamped(sampler.slots, at)

\* continuation_for_generation: only what the policy of now was read under.
Continued(at) ==
  IF sampler.gen = prefs.gen THEN Stamped(sampler.slots, at) ELSE NoSlots

\* A boundary of segments, at `at`: intervals close there and go on from there,
\* if there is a next segment.  The wall clock keeps step with the monotonic
\* one, by which boundaries come, so that no poll was later than `at`.
Boundary(at, next) ==
  /\ poll = Nil /\ ~held /\ at \in {now - 1, now} /\ at >= sampler.at
  /\ closed' = Rows(sampler.slots, Kinds, Cutoff(at))
  /\ sampler' = [sampler EXCEPT !.slots =
                   IF next /\ (at = now \/ BoundaryBefore(at) = Nil) THEN Continued(at) ELSE NoSlots]
  /\ prefs' = Taken(at)
  /\ UNCHANGED <<now, paused, held, desk, cached, poll, past, changes, moves>>

-----------------------------------------------------------------------------
(* The desktop and the clock *)

DeskMoves ==
  /\ moves < MaxMoves /\ moves' = moves + 1
  /\ \/ \E w \in Windows : w # desk.front /\ desk' = [desk EXCEPT !.front = w]
     \/ desk' = [desk EXCEPT !.locked = ~@]
     \/ desk' = [desk EXCEPT !.session = @ + 1]
  /\ poll' = IF poll = Nil THEN Nil ELSE [poll EXCEPT !.flips = @ + 1]
  /\ closed' = {}
  /\ UNCHANGED <<now, prefs, paused, held, cached, sampler, past, changes>>

Tick ==
  /\ now < MaxTime /\ now' = now + 1 /\ closed' = {}
  /\ past' = [past EXCEPT ![now] = [policy |-> prefs.policy, held |-> held]]
  /\ UNCHANGED <<prefs, paused, held, desk, cached, sampler, poll, changes, moves>>

Next ==
  \/ \E p \in Policies : ApplyPolicy(p)
  \/ BeginPoll \/ ReadIdentity \/ ReadTitle \/ ReadAddress \/ ReadAgain
  \/ \E p \in BOOLEAN : Pause(p)
  \/ \E at \in 0..MaxTime, next \in BOOLEAN : Boundary(at, next)
  \/ DeskMoves \/ Tick

Spec == Init /\ [][Next]_avars

-----------------------------------------------------------------------------
(* What must hold *)

TypeOK ==
  /\ now \in 0..MaxTime /\ prefs.policy \in Policies /\ prefs.boundary \in 0..MaxTime \cup {Nil}
  /\ \A k \in Kinds : sampler.slots[k] = Nil \/ sampler.slots[k].kind \in {k, "foreground"}
  /\ \A r \in closed : r.ts \in 0..r.end /\ r.end <= now

\* What the policy p says may not be kept.
Forbidden(p, r) ==
  \/ ~p.policy.source \/ p.held
  \/ r.kind = "foreground" /\
       (r.what \in p.policy.apps \/ (r.title # Nil /\ (~p.policy.titles \/ r.title \in p.policy.hidden))
        \/ (r.url # Nil /\ ~p.policy.urls))

\* No row tells of an instant what the policy of that instant forbade, whenever
\* the policy changed; and no row holds the address of a tab whose title is
\* hidden, if the desktop moved at most once while it was read.
RowsKeepToThePolicy ==
  \A r \in closed :
    /\ \A k \in r.ts..r.end - 1 : ~Forbidden(past[k], r)
    /\ r.kind = "foreground" /\ r.url # Nil /\ r.url[2] <= 1 /\ r.end > r.ts
         => r.url[1] \notin past[r.ts].policy.hidden
=============================================================================
