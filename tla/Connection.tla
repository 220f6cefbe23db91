----------------------------- MODULE Connection -----------------------------
(* What the app says of its connection to the journal                         *)
(* (src/sync_health.rs, sync.rs, network_watch.rs, shell.rs, tray_model.rs).  *)
(*                                                                            *)
(* The worker asks the journal when it has heard nothing for a while; a       *)
(* sampler derives a state from the facts and a presenter smooths it for the  *)
(* panel.  Times are ages: of the wall clock for what the facts hold, of the  *)
(* clock that stops in sleep for holds and dwells.  An age stops where it  *)
(* tells nothing more.                                                        *)
EXTENDS Integers, FiniteSets

CONSTANTS
  Interval,   \* STATUS_CHECK_INTERVAL
  Timeout,    \* SYSTEM_STATUS_TIMEOUT
  Slack,      \* what CONNECTED_LEASE adds to both
  OfflineAfter, Dwell, Grace, Linger,
  WakeGap,    \* the wall clock runs ahead by more: the machine slept
  Links,      \* what the link may report
  MaxMoves,   \* bound: changes of link, network, clock and pairing, refusals
  Nil

VARIABLES
  heard,     \* age of last_successful_contact, or Nil
  episode,   \* age of episode_started
  facts,     \* [failed, noNetwork, waiting, error]
  link,      \* the link facts
  net,       \* what NetworkManager said last
  check,     \* the status check under way: its age, or Nil
  failing,   \* a check has failed and its failure is not written yet
  checked,   \* age of last_check
  fresh,     \* check_requested
  shown,     \* the state on the panel, or Nil
  timers,    \* the presenter's [dropped, seen, hold, drift]
  sampled,   \* the sampler has run in this unit of time
  misses,    \* ghost: checks failed since the last answer, 2 for more or if anything else went wrong
  moves

cvars == <<heard, episode, facts, link, net, check, failing, checked, fresh,
           shown, timers, sampled, misses, moves>>

Lease == Interval + Timeout + Slack
Cap == Lease + 1
Older(age, d, most) == IF age = Nil THEN Nil ELSE IF age + d > most THEN most ELSE age + d

\* Mutant of Within: an answer counts only for as long as a check may take.
WithinTimeout(age) == age # Nil /\ age >= 0 /\ age <= Interval + Slack

\* An answer recorded ahead of a clock that was set back does not count.
Within(age) == age # Nil /\ age >= 0 /\ age <= Lease

Move == moves < MaxMoves /\ moves' = moves + 1

Init ==
  /\ heard \in {Nil, 0} /\ episode = 0 /\ link \in Links /\ net = "unknown"
  /\ facts = [failed |-> FALSE, noNetwork |-> FALSE, waiting |-> TRUE, error |-> "none"]
  /\ check = Nil /\ failing = FALSE /\ checked = Interval /\ fresh = FALSE
  /\ shown = Nil /\ timers = [dropped |-> Nil, seen |-> Nil, hold |-> 0, drift |-> 0]
  /\ sampled = FALSE /\ misses = (IF heard = Nil THEN 2 ELSE 0) /\ moves = 0

-----------------------------------------------------------------------------
(* Deriving and presenting *)

\* since: the age of the attempt to reach the journal.
Unreached(since) == IF heard = Nil \/ heard > since THEN since ELSE heard

LinkUp == link.carrier /\ link.registered /\ facts.error # "auth"

\* What can be said, the most pressing first.
Verdicts(since) ==
  << <<"private state" \in link.troubles, "UnsafeLinkState">>,
     <<"mark held" \in link.troubles, "JournalMarkHeld">>,
     <<"revoked" \in link.troubles \/ facts.error = "refused", "RePairRequired">>,
     <<"tokens" \in link.troubles, "TokenPersistenceFailed">>,
     <<"unpaired" \in link.troubles, "PairingRequired">>,
     <<facts.error = "incompatible", "UpdateRequired">>,
     <<"transport" \in link.troubles, "TransportUnavailable">>,
     <<facts.noNetwork /\ (~link.carrier \/ facts.failed), "Offline">>,
     <<LinkUp /\ Within(heard) /\ facts.waiting, "Syncing">>,
     <<LinkUp /\ Within(heard), "Connected">>,
     <<Unreached(since) >= OfflineAfter, "Offline">>,
     <<link.listener /\ ~link.registered, "ListenerReady">>,
     <<TRUE, "Connecting">> >>

Derived(since) ==
  LET v == Verdicts(since)
  IN v[CHOOSE i \in DOMAIN v : v[i][1] /\ \A j \in 1..i - 1 : ~v[j][1]][2]

IsUp(s) == s \in {"Connected", "Syncing"}
IsDown(s) == s \in {"Connecting", "Offline"}

\* t: the presenter's timers; d: the state derived.
Presented(t, d) ==
  LET held     == t.hold > 0 /\ IsUp(shown) /\ IsDown(d)
      dwelling == IsUp(d) /\ t.dropped # Nil /\ t.dropped < Dwell
      s        == IF shown # Nil /\ (held \/ dwelling) THEN shown ELSE d
  IN IF s = "Connected" /\ shown = "Syncing" /\ t.seen # Nil /\ t.seen < Linger
     THEN "Syncing" ELSE s

Sample ==
  LET woke == shown # Nil /\ timers.drift > WakeGap
      t    == IF woke THEN [timers EXCEPT !.hold = Grace] ELSE timers
      d    == Derived(IF woke THEN 0 ELSE episode)
  IN /\ episode' = IF woke THEN 0 ELSE episode
     /\ shown' = Presented(t, d)
     /\ timers' = [t EXCEPT !.drift = 0,
                     !.seen = IF d = "Syncing" THEN 0 ELSE @,
                     !.dropped = IF ~IsDown(shown') THEN Nil ELSE IF IsUp(shown) THEN 0 ELSE @]
     /\ fresh' = (fresh \/ woke) /\ sampled' = TRUE
     /\ UNCHANGED <<heard, facts, link, net, check, failing, checked, misses, moves>>

\* The icon and the attention the panel gives to a state, by itself...
Icon(s) ==
  CASE IsUp(s) -> "healthy"
    [] s \in {"Connecting", "ListenerReady"} -> "connecting"
    [] s \in {"Offline", "TransportUnavailable", "NotReported"} -> "offline"
    [] s = "TokenPersistenceFailed" -> "error"
    [] OTHER -> "attention"

Attention(s) == ~IsUp(s) /\ s \notin {"Connecting", "ListenerReady", "Offline", "NotReported"}

\* ... and with what the capture loop is doing.
NeedsAttention(status) == status \in {"unreachable", "login unavailable"}

IconName(status, s) ==
  IF NeedsAttention(status) THEN "attention"
  ELSE IF Icon(s) \in {"healthy", "connecting"} /\ status \notin {"recording", "idle"}
       THEN "paused" ELSE Icon(s)

Panel(status, s) ==
  [icon |-> IconName(status, s),
   attention |-> status = "stopped" \/ NeedsAttention(status) \/ Attention(s)]

-----------------------------------------------------------------------------
(* The worker's status checks *)

CheckDue == heard \notin 0..Interval - 1 /\ checked >= Interval

Idle == check = Nil /\ ~failing

StartCheck ==
  /\ Idle /\ (fresh \/ CheckDue)
  /\ check' = 0 /\ checked' = 0 /\ fresh' = FALSE
  /\ UNCHANGED <<heard, episode, facts, link, net, failing, shown, timers, sampled, misses, moves>>

\* record_contact
Heard == heard' = 0 /\ misses' = 0

CheckAnswered ==
  /\ check # Nil /\ check' = Nil /\ Heard
  /\ facts' = [facts EXCEPT !.failed = FALSE]
  /\ UNCHANGED <<episode, link, net, failing, checked, fresh, shown, timers, sampled, moves>>

\* Mutant of CheckFails: the wait for the next check begins when this one ends.
CheckFailsLate ==
  /\ check # Nil /\ check' = Nil /\ failing' = TRUE /\ checked' = 0
  /\ misses' = IF misses < 2 THEN misses + 1 ELSE 2
  /\ UNCHANGED <<heard, episode, facts, link, net, fresh, shown, timers, sampled, moves>>

CheckFails ==
  /\ check # Nil /\ check' = Nil /\ failing' = TRUE
  /\ misses' = IF misses < 2 THEN misses + 1 ELSE 2
  /\ UNCHANGED <<heard, episode, facts, link, net, checked, fresh, shown, timers, sampled, moves>>

\* Written with no second look at the pairing: a reset in between is overwritten.
FailureWritten ==
  /\ failing /\ failing' = FALSE
  /\ facts' = [facts EXCEPT !.failed = TRUE]
  /\ UNCHANGED <<heard, episode, link, net, check, checked, fresh, shown, timers, sampled, misses, moves>>

\* The journal refuses the check, or the pass that follows it.
Refused(e) ==
  /\ check # Nil /\ check' = Nil /\ Move
  /\ facts' = [facts EXCEPT !.error = e, !.waiting = TRUE] /\ misses' = 2
  /\ UNCHANGED <<heard, episode, link, net, failing, checked, fresh, shown, timers, sampled>>

\* A pass: its answers are heard, its result is written at its end.
PassHears ==
  /\ Idle /\ facts.waiting /\ heard # 0 /\ Heard
  /\ facts' = [facts EXCEPT !.failed = FALSE]
  /\ UNCHANGED <<episode, link, net, check, failing, checked, fresh, shown, timers, sampled, moves>>

PassSucceeds ==
  /\ Idle /\ facts.waiting
  /\ heard' = IF heard = Nil THEN 0 ELSE heard
  /\ misses' = IF heard = Nil THEN 0 ELSE misses
  /\ facts' = [facts EXCEPT !.waiting = FALSE, !.error = "none"]
  /\ UNCHANGED <<episode, link, net, check, failing, checked, fresh, shown, timers, sampled, moves>>

-----------------------------------------------------------------------------
(* What happens around it *)

\* The sampler runs in every unit of time, a check that is due is started, and
\* one that is under way ends by its timeout.
Tick ==
  /\ sampled /\ sampled' = FALSE
  /\ ~(Idle /\ (fresh \/ CheckDue)) /\ ~failing /\ check # Timeout
  /\ heard' = Older(heard, 1, Cap) /\ episode' = Older(episode, 1, Cap)
  /\ checked' = Older(checked, 1, Interval) /\ check' = Older(check, 1, Timeout)
  /\ timers' = [timers EXCEPT !.dropped = Older(@, 1, Dwell), !.seen = Older(@, 1, Linger),
                              !.hold = IF @ > 0 THEN @ - 1 ELSE 0]
  /\ misses' = IF misses = 1 /\ check # Nil /\ check' > Slack THEN 2 ELSE misses
  /\ UNCHANGED <<facts, link, net, failing, fresh, shown, moves>>

\* The machine sleeps, or its clock is set: only the wall clock moves.
ClockMoves(d) ==
  /\ Move /\ heard' = Older(heard, d, Cap) /\ episode' = Older(episode, d, Cap)
  /\ timers' = [timers EXCEPT !.drift = Older(@, d, WakeGap + 1)] /\ misses' = 2
  /\ UNCHANGED <<facts, link, net, check, failing, checked, fresh, shown, sampled>>

LinkChanges ==
  /\ Move /\ link' \in Links \ {link} /\ misses' = 2
  /\ UNCHANGED <<heard, episode, facts, net, check, failing, checked, fresh, shown, timers, sampled>>

\* The network came back: a new attempt, a moment of grace, a check at once.
NetworkReturns ==
  /\ Move /\ net # "connected" /\ net' = "connected"
  /\ timers' = [timers EXCEPT !.hold = Grace] /\ episode' = 0
  /\ facts' = [facts EXCEPT !.noNetwork = FALSE] /\ fresh' = TRUE
  /\ UNCHANGED <<heard, link, check, failing, checked, shown, sampled, misses>>

NetworkLost ==
  /\ Move /\ net # "none" /\ net' = "none"
  /\ facts' = [facts EXCEPT !.noNetwork = TRUE] /\ fresh' = TRUE /\ misses' = 2
  /\ UNCHANGED <<heard, episode, link, check, failing, checked, shown, timers, sampled>>

NetworkUnknown ==
  /\ Move /\ net = "connected" /\ net' = "unknown"
  /\ UNCHANGED <<heard, episode, facts, link, check, failing, checked, fresh, shown, timers, sampled, misses>>

\* Another pairing: what is known is of the old one, and so is a check under way.
ResetAssociation ==
  /\ Move /\ heard' = Nil /\ episode' = 0 /\ misses' = 2 /\ check' = Nil
  /\ facts' = [facts EXCEPT !.failed = FALSE, !.waiting = TRUE, !.error = "none"]
  /\ link' = [link EXCEPT !.troubles = @ \ {"revoked"}]
  /\ UNCHANGED <<net, failing, checked, fresh, shown, timers, sampled>>

Next ==
  \/ Sample \/ StartCheck \/ CheckAnswered \/ CheckFails \/ FailureWritten
  \/ \E e \in {"auth", "refused", "incompatible"} : Refused(e)
  \/ PassHears \/ PassSucceeds \/ Tick
  \/ \E d \in {-Slack - 1, WakeGap, WakeGap + 1, OfflineAfter} : ClockMoves(d)
  \/ LinkChanges \/ NetworkReturns \/ NetworkLost \/ NetworkUnknown \/ ResetAssociation

Spec == Init /\ [][Next]_cvars

-----------------------------------------------------------------------------
(* What must hold *)

\* As far as the clock may have been set back.
Back == (Slack + 1) * MaxMoves

TypeOK ==
  /\ heard \in -Back..Cap \cup {Nil} /\ episode \in -Back..Cap
  /\ check \in 0..Timeout \cup {Nil} /\ checked \in 0..Interval /\ misses \in 0..2
  /\ timers.hold \in 0..Grace /\ timers.dropped \in 0..Dwell \cup {Nil}
  /\ (timers.dropped # Nil => IsDown(shown))

\* One slow or failed check does not read as a drop: with the link up and the
\* clock left alone, the panel shows nothing of it as long as no two checks fail
\* in a row and the one after a failed one is answered within the slack.
OneMissIsNoDrop ==
  (misses' <= 1 /\ LinkUp' /\ link.troubles = {} /\ IsUp(shown)
     /\ facts'.error \notin {"refused", "incompatible"} /\ ~facts'.noNetwork)
    => \A status \in {"recording", "paused", "unreachable", "stopped"} :
         Panel(status, shown') = Panel(status, shown)
=============================================================================
