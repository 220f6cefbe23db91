------------------------------ MODULE Runtime ------------------------------
(* The running app, from its start to its end: the capture loop, the walker   *)
(* that delivers, the supervisor of the link, and the order in which a stop   *)
(* takes them down (src/run.rs, shell.rs, window_control.rs, private_link.rs, *)
(* sync.rs).  The journal's page is opened by the capture loop for the panel, *)
(* and by the supervisor for the window; each holds the gate of the owner     *)
(* while it does.  The journal answers: failing passes are in SyncWorker.     *)
EXTENDS Naturals

CONSTANTS
  MaxOwners,     \* bound: owners of the link started
  MaxCommands    \* bound: commands given

VARIABLES
  main,      \* the capture loop's thread: where it is, and the owner whose gate it closes
  stopped,   \* the app was told to end
  waiting,   \* a finished segment is not delivered yet
  walker,    \* the sync worker: where it is, the trigger it took, what its pass saw
  trigger,   \* pending_trigger
  running,   \* the flag that keeps the walker going
  link,      \* the supervisor: [at, owner, then, blocked]
  commands,  \* the window's commands in the supervisor's channel, by kind
  handlers,  \* who can still send it one
  told,      \* the permit of linked_shutdown_notify
  gate,      \* [current, open]: the owner that is installed, those whose gate is open
  page,      \* an opening of the page, by who opens it
  armed,     \* the owner whose capability the upload client has
  carried,   \* the owner whose session runs
  asked, owners,
  notes      \* ghost: [fresh: owners installed since the stop took the gate's owner,
             \* excused: the last segment could not be sent]

rvars == <<main, stopped, waiting, walker, trigger, running, link, commands, handlers, told, gate, page,
           armed, carried, asked, owners, notes>>

Owners == 1..MaxOwners
Openers == {"main", "link"}
Shut == [at |-> "no", of |-> 0]

TypeOK ==
  /\ main \in [at : {"starting", "loop", "gate", "closing", "desktop", "observer", "sync", "drain",
                     "notify", "join", "ended"}, of : {0} \cup Owners]
  /\ walker \in [at : {"waits", "looks", "passing", "last", "ended"}, got : BOOLEAN, saw : BOOLEAN]
  /\ link \in [at : {"starting", "idle", "opening", "closing", "stopping", "launching", "installing", "arming",
                     "ended"}, owner : {0} \cup Owners, then : {"end", "replace"}, blocked : BOOLEAN]
  /\ page \in [Openers -> [at : {"no", "cloned", "opening"}, of : {0} \cup Owners]]
  /\ commands \in [{"open", "pair"} -> 0..MaxCommands] /\ handlers \subseteq {"shell", "kept"}
  /\ gate.open \subseteq Owners /\ {gate.current, armed, carried} \subseteq {0} \cup Owners

Init ==
  /\ main = [at |-> "starting", of |-> 0] /\ stopped = FALSE /\ waiting = FALSE
  /\ walker = [at |-> "waits", got |-> FALSE, saw |-> FALSE] /\ trigger = TRUE /\ running = TRUE
  /\ link = [at |-> "starting", owner |-> 0, then |-> "end", blocked |-> FALSE]
  /\ commands = [kind \in {"open", "pair"} |-> 0] /\ handlers = {"shell", "kept"} /\ told = FALSE
  /\ gate = [current |-> 0, open |-> {}] /\ page = [who \in Openers |-> Shut]
  /\ armed = 0 /\ carried = 0 /\ asked = 0 /\ owners = 0
  /\ notes = [fresh |-> {}, excused |-> FALSE]

\* Someone is opening the page of owner i, and holds its gate.
Held(i) == \E who \in Openers : page[who] = [at |-> "opening", of |-> i]

\* The stop has not read whose gate to close; has not closed it.
Before == {"starting", "loop", "gate"}
GateStands == main.at \in Before \cup {"closing"}

At(place) == main' = [main EXCEPT !.at = place]
LinkAt(place) == link' = [link EXCEPT !.at = place]
Excuse == notes' = [notes EXCEPT !.excused = TRUE]

-----------------------------------------------------------------------------
(* The capture loop's thread *)

\* The signal task.
Signalled == /\ ~stopped /\ stopped' = TRUE
             /\ UNCHANGED <<main, waiting, walker, trigger, running, link, commands, handlers, told, gate, page,
                            armed, carried, asked, owners, notes>>

Others == <<stopped, waiting, walker, trigger, running, link, commands, handlers, told, gate, page, armed, carried,
            asked, owners, notes>>

Initialized == main.at = "starting" /\ At("loop") /\ UNCHANGED Others

\* The loop is left; the browser's server is ended first (BrowserServer).
Leaving == main.at \in {"starting", "loop"} /\ page["main"] = Shut /\ At("gate") /\ UNCHANGED Others
Leaves == stopped /\ Leaving
\* The start or a tick fails.
LoopFails == ~stopped /\ Leaving

\* close_current: the capability is read, its gate is closed when nobody holds it, and what
\* was read is taken away unless another was installed meanwhile.
ReadCurrent ==
  /\ main.at = "gate"
  /\ main' = [at |-> IF gate.current = 0 THEN "desktop" ELSE "closing", of |-> gate.current]
  /\ UNCHANGED Others
\* Mutant of CloseGate: only taken away, as the access's clear does.
ClearsCurrent ==
  /\ main.at = "closing" /\ At("desktop")
  /\ gate' = [gate EXCEPT !.current = IF @ = main.of THEN 0 ELSE @]
  /\ UNCHANGED <<stopped, waiting, walker, trigger, running, link, commands, handlers, told, page, armed, carried,
                 asked, owners, notes>>
CloseGate ==
  /\ main.at = "closing" /\ ~Held(main.of) /\ At("desktop")
  /\ gate' = [current |-> IF gate.current = main.of THEN 0 ELSE gate.current, open |-> gate.open \ {main.of}]
  /\ UNCHANGED <<stopped, waiting, walker, trigger, running, link, commands, handlers, told, page, armed, carried,
                 asked, owners, notes>>

\* Mutant of DesktopDown: the handler kept for the link's turn goes with the shell's.
DropsLastHandler ==
  /\ main.at = "desktop" /\ At("observer")
  /\ handlers' \in {{}, handlers}
  /\ UNCHANGED <<stopped, waiting, walker, trigger, running, link, commands, told, gate, page, armed, carried,
                 asked, owners, notes>>
\* The shell's tasks end or are aborted, and the interface is removed with its handler,
\* or is not within the time-out.
DesktopDown ==
  /\ main.at = "desktop" /\ At("observer")
  /\ handlers' \in {handlers \ {"shell"}, handlers}
  /\ UNCHANGED <<stopped, waiting, walker, trigger, running, link, commands, told, gate, page, armed, carried,
                 asked, owners, notes>>

\* Observer::shutdown finishes the open segment and triggers the walker.  Excused: there is no
\* link now or it is being replaced, the segment could not be finished, or the walker has
\* read its trigger and not yet whether to go on.
LinkIsUp == armed # 0 /\ armed = carried /\ link.owner = armed /\ link.at \in {"idle", "opening"}
ObserverDown ==
  /\ main.at = "observer" /\ At("sync")
  /\ \/ waiting' = TRUE /\ trigger' = TRUE
        /\ IF LinkIsUp /\ walker.at # "looks" THEN UNCHANGED notes ELSE Excuse
     \/ Excuse /\ UNCHANGED <<waiting, trigger>>
  /\ UNCHANGED <<stopped, walker, running, link, commands, handlers, told, gate, page, armed, carried, asked, owners>>

\* SyncService::shutdown: the walker is told, and waited for, or aborted after the time-out.
SyncTold ==
  /\ main.at = "sync" /\ At("drain") /\ running' = FALSE
  /\ UNCHANGED <<stopped, waiting, walker, trigger, link, commands, handlers, told, gate, page, armed, carried,
                 asked, owners, notes>>
Drained == main.at = "drain" /\ walker.at = "ended" /\ At("notify") /\ UNCHANGED Others
CutsWalker ==
  /\ main.at = "drain" /\ walker.at # "ended" /\ At("notify")
  /\ walker' = [walker EXCEPT !.at = "ended"] /\ Excuse
  /\ UNCHANGED <<stopped, waiting, trigger, running, link, commands, handlers, told, gate, page, armed, carried,
                 asked, owners>>

\* Mutant of TellsLink: notify_waiters, which leaves no permit to a supervisor at work.
TellsLinkIfIdle ==
  /\ main.at = "notify" /\ At("join")
  /\ told' = (link.at = "idle") /\ handlers' = handlers \ {"kept"}
  /\ UNCHANGED <<stopped, waiting, walker, trigger, running, link, commands, gate, page, armed, carried, asked,
                 owners, notes>>
TellsLink ==
  /\ main.at = "notify" /\ At("join")
  /\ told' = TRUE /\ handlers' = handlers \ {"kept"}
  /\ UNCHANGED <<stopped, waiting, walker, trigger, running, link, commands, gate, page, armed, carried, asked,
                 owners, notes>>
Joined == main.at = "join" /\ link.at = "ended" /\ At("ended") /\ UNCHANGED Others

Main == Initialized \/ Leaves \/ ReadCurrent \/ CloseGate \/ DesktopDown \/ ObserverDown
        \/ SyncTold \/ Drained \/ CutsWalker \/ TellsLink \/ Joined

-----------------------------------------------------------------------------
(* The walker *)

Elsewhere == <<main, stopped, link, commands, handlers, told, gate, page, armed, carried, asked, owners, notes>>

\* A notification or the end of its wait wakes the walker.
TakesTrigger ==
  /\ walker.at = "waits"
  /\ walker' = [at |-> "looks", got |-> trigger, saw |-> FALSE] /\ trigger' = FALSE
  /\ UNCHANGED <<waiting, running, Elsewhere>>

\* A pass is made for a trigger or when one is due.  Without a capability a trigger is put
\* back; told to end, the walker makes one more pass if it took a trigger.
Looks ==
  /\ walker.at = "looks"
  /\ \E next \in (IF walker.got /\ armed # 0 THEN {IF running THEN "passing" ELSE "last"}
                  ELSE IF ~running THEN {"ended"} ELSE IF armed = 0 THEN {"waits"} ELSE {"waits", "passing"}) :
       walker' = [walker EXCEPT !.saw = waiting, !.at = next]
  /\ trigger' = (trigger \/ (running /\ walker.got /\ armed = 0))
  /\ UNCHANGED <<waiting, running, Elsewhere>>

\* A pass delivers what it found, over a session that runs.
Passes ==
  /\ walker.at \in {"passing", "last"}
  /\ waiting' = (waiting /\ ~(walker.saw /\ armed # 0 /\ armed = carried))
  /\ walker' = [walker EXCEPT !.at = IF @ = "last" THEN "ended" ELSE "waits"]
  /\ UNCHANGED <<trigger, running, Elsewhere>>

Walk == TakesTrigger \/ Looks \/ Passes

-----------------------------------------------------------------------------
(* The supervisor *)

Outside == <<main, stopped, waiting, walker, running, asked>>

\* A confirmed pairing is taken up, or there is none, or the supervisor returns an error.
LinkStarts ==
  /\ link.at = "starting"
  /\ \E place \in {"launching", "idle", "ended"} : LinkAt(place)
  /\ UNCHANGED <<Outside, trigger, commands, handlers, told, gate, page, armed, carried, owners, notes>>

\* The recheck finds a pairing confirmed on the command line.
Rechecks ==
  /\ link.at = "idle" /\ link.owner = 0 /\ ~link.blocked /\ owners < MaxOwners
  /\ LinkAt("launching") /\ armed' = 0
  /\ UNCHANGED <<Outside, trigger, commands, handlers, told, gate, page, carried, owners, notes>>

Launched ==
  /\ link.at = "launching" /\ owners < MaxOwners
  /\ owners' = owners + 1 /\ carried' = owners' /\ gate' = [gate EXCEPT !.open = @ \cup {owners'}]
  /\ link' = [link EXCEPT !.at = "installing", !.owner = owners']
  /\ UNCHANGED <<Outside, trigger, commands, handlers, told, page, armed, notes>>
\* The pairing is not written, or its owner does not start: that pairing is not tried again.
LaunchFails ==
  /\ link.at = "launching" /\ LinkAt("idle")
  /\ owners' = IF owners < MaxOwners THEN owners + 1 ELSE owners
  /\ UNCHANGED <<Outside, trigger, commands, handlers, told, gate, page, armed, carried, notes>>

\* install_journal.  An owner installed after the stop has read the current one stays openable.
Installs ==
  /\ link.at = "installing" /\ LinkAt("arming")
  /\ gate' = [gate EXCEPT !.current = link.owner]
  /\ notes' = IF main.at \in Before THEN notes ELSE [notes EXCEPT !.fresh = @ \cup {link.owner}]
  /\ UNCHANGED <<Outside, trigger, commands, handlers, told, page, armed, carried, owners>>
Arms ==
  /\ link.at = "arming" /\ LinkAt("idle")
  /\ armed' = link.owner /\ trigger' = TRUE
  /\ UNCHANGED <<Outside, commands, handlers, told, gate, page, carried, owners, notes>>

\* The window asks for the page, or confirms a pairing; the old owner is stopped first.
TakesOpen ==
  /\ link.at = "idle" /\ commands["open"] > 0
  /\ commands' = [commands EXCEPT !["open"] = @ - 1]
  /\ IF gate.current = 0 THEN UNCHANGED <<link, page>>
     ELSE LinkAt("opening") /\ page' = [page EXCEPT !["link"] = [at |-> "cloned", of |-> gate.current]]
  /\ UNCHANGED <<Outside, trigger, handlers, told, gate, armed, carried, owners, notes>>
TakesPair ==
  /\ link.at = "idle" /\ commands["pair"] > 0
  /\ commands' = [commands EXCEPT !["pair"] = @ - 1]
  /\ \/ link.blocked /\ UNCHANGED <<link, armed>>
     \/ ~link.blocked /\ link.owner = 0 /\ LinkAt("launching") /\ armed' = 0
     \/ /\ ~link.blocked /\ link.owner # 0 /\ UNCHANGED armed
        /\ link' = [link EXCEPT !.at = "closing", !.then = "replace"]
  /\ IF main.at \in {"sync", "drain"} THEN Excuse ELSE UNCHANGED notes
  /\ UNCHANGED <<Outside, trigger, handlers, told, gate, page, carried, owners>>
Opened ==
  /\ link.at = "opening" /\ page["link"] = Shut /\ LinkAt("idle")
  /\ UNCHANGED <<Outside, trigger, commands, handlers, told, gate, page, armed, carried, owners, notes>>

\* Told to end, or no handler is left and no command.
LinkEnds ==
  /\ link.at = "idle" /\ (told \/ (handlers = {} /\ \A kind \in DOMAIN commands : commands[kind] = 0))
  /\ link' = [link EXCEPT !.at = IF link.owner = 0 THEN "ended" ELSE "closing", !.then = "end"]
  /\ told' = FALSE
  /\ UNCHANGED <<Outside, trigger, commands, handlers, gate, page, armed, carried, owners, notes>>

\* PrivateLinkOwner::shutdown: its gate is closed, then its session is ended and joined.
CloseOwner ==
  /\ link.at = "closing" /\ ~Held(link.owner) /\ LinkAt("stopping")
  /\ gate' = [gate EXCEPT !.open = @ \ {link.owner}]
  /\ UNCHANGED <<Outside, trigger, commands, handlers, told, page, armed, carried, owners, notes>>
StopOwner ==
  /\ link.at = "stopping" /\ carried' = 0
  /\ IF link.then = "end" THEN LinkAt("ended") /\ UNCHANGED armed
     ELSE \/ link' = [link EXCEPT !.at = "launching", !.owner = 0] /\ armed' = 0
          \/ link' = [link EXCEPT !.at = "idle", !.owner = 0, !.blocked = TRUE] /\ UNCHANGED armed
  /\ UNCHANGED <<Outside, trigger, commands, handlers, told, gate, page, owners, notes>>

Link == LinkStarts \/ Rechecks \/ Launched \/ LaunchFails \/ Installs \/ Arms \/ TakesOpen \/ TakesPair \/ Opened
        \/ LinkEnds \/ CloseOwner \/ StopOwner

-----------------------------------------------------------------------------
(* The page, and the commands *)

Beyond == <<main, stopped, waiting, walker, trigger, running, link, handlers, told, gate, armed, carried, owners>>

\* open_inner: the capability is a copy; the gate is taken, and held until the browser is started.
Enters(who) ==
  LET i == page[who].of IN
  /\ page[who].at = "cloned" /\ ~Held(i)
  /\ page' = [page EXCEPT ![who] = IF i \in gate.open THEN [at |-> "opening", of |-> i] ELSE Shut]
  /\ UNCHANGED <<Beyond, commands, asked, notes>>
Opens(who) ==
  /\ page[who].at = "opening" /\ page' = [page EXCEPT ![who] = Shut]
  /\ UNCHANGED <<Beyond, commands, asked, notes>>
Pages == \E who \in Openers : Enters(who) \/ Opens(who)

\* TrayCommand::OpenJournal, on the capture loop's thread.
PanelOpens ==
  /\ main.at = "loop" /\ page["main"] = Shut /\ gate.current # 0 /\ asked < MaxCommands
  /\ asked' = asked + 1 /\ page' = [page EXCEPT !["main"] = [at |-> "cloned", of |-> gate.current]]
  /\ UNCHANGED <<Beyond, commands, notes>>
\* Observer1 passes the window's command on as long as it is served.
WindowAsks(kind) ==
  /\ main.at # "starting" /\ "shell" \in handlers /\ asked < MaxCommands /\ link.at # "ended"
  /\ asked' = asked + 1 /\ commands' = [commands EXCEPT ![kind] = @ + 1]
  /\ UNCHANGED <<Beyond, page, notes>>

Next == Main \/ Walk \/ Link \/ Pages \/ Signalled \/ LoopFails \/ PanelOpens
        \/ \E kind \in {"open", "pair"} : WindowAsks(kind)

Spec == Init /\ [][Next]_rvars

\* Each thread and task goes on when it can; every wait has its bound in the code.
Fairness == WF_rvars(Main) /\ WF_rvars(Walk) /\ WF_rvars(Link) /\ WF_rvars(Pages)

-----------------------------------------------------------------------------
(* What must hold *)

\* The segment that a stop finishes is delivered before the app has ended, if the link was up
\* and the walker was not cut short: the link outlives the walker, whoever drops the
\* window's handlers first, and the walker outlives the capture loop's last segment.
LastSegmentIsSent == main.at = "ended" /\ waiting => notes.excused

\* Once a stop has closed the gate no page is opened, also not by who had the capability in
\* hand; an owner that is installed later is the exception.
NothingOpensLate ==
  ~GateStands => \A who \in Openers : page[who].at = "opening" => page[who].of \in notes.fresh

\* The app has been told to end and has not ended.
Unended == stopped /\ main.at # "ended"
=============================================================================
