--------------------------- MODULE DesktopSession --------------------------
(* Which desktop session capture follows: read from logind at every tick,    *)
(* with a grace when logind does not answer, with the kind of a desktop      *)
(* begun from a text login and the proven display and credential kept for a  *)
(* minute, and with a private file of credentials that outlives the files    *)
(* they were found in.  Session "desk" is a graphical login, "text" a text   *)
(* login that may run a desktop; time is counted in ages.                    *)
EXTENDS Integers, FiniteSets

CONSTANTS
  Displays,   \* X displays
  Grace,      \* LOGIND_GRACE
  Recheck,    \* RECHECK_INTERVAL
  MaxMoves,   \* bound: what happens to the sessions, the servers, logind and the app
  MaxCookies  \* bound: credentials that X servers make up

VARIABLES
  seat,       \* the sessions of this user: which are listed, which is in front, what each runs where
  servers,    \* the X server of each display: the credential it takes; 0 is no server
  authority,  \* the credential of each display in the files of the sessions; 0 is none
  logind,     \* does logind answer?
  target,     \* what capture is pointed at
  proven,     \* the last session that was proven, with its display, its credential and the age of the proof
  texts,      \* what the text login was found to run, and the age of that
  answered,   \* the age of logind's last answer
  managed,    \* the private file: the credential of each display; 0 is none
  since,      \* how long ago was each session in front, and had each display
  proofs,     \* the credentials once written to the private file, by display
  resolved,   \* is the last thing that happened a resolution?
  happened    \* what has happened so far

SessionVars == <<seat, servers, authority, logind, target, proven, texts, answered, managed, since, proofs,
                 resolved, happened>>

Sessions == {"desk", "text"}
None == -1
Old == Recheck + Grace          \* ages are counted up to here
Ages == 0..Old
Older(age) == IF age < Old THEN age + 1 ELSE age

Nothing == [session |-> "none", display |-> None, cookie |-> 0, age |-> Old]
Absent(why) == [presence |-> why, session |-> "none", kind |-> "none", display |-> None]

TypeOK ==
  /\ seat \in [listed : SUBSET Sessions, front : Sessions \cup {"none"}, runs : {"none", "x11", "wayland"},
               display : [Sessions -> Displays \cup {None}]]
  /\ servers \in [Displays -> 0..MaxCookies] /\ authority \in [Displays -> 0..MaxCookies]
  /\ managed \in [Displays -> 0..MaxCookies] /\ proofs \in [Displays -> SUBSET (1..MaxCookies)]
  /\ logind \in BOOLEAN /\ resolved \in BOOLEAN /\ answered \in Ages /\ happened \in 0..MaxMoves
  /\ target \in [presence : {"live", "not_active", "no_desktop", "unreachable", "login_unavailable"},
                 session : Sessions \cup {"none"}, kind : {"none", "x11", "wayland"}, display : Displays \cup {None}]
  /\ proven \in [session : Sessions \cup {"none"}, display : Displays \cup {None}, cookie : 0..MaxCookies, age : Ages]
  /\ texts \in [runs : {"none", "x11", "wayland"}, age : Ages]
  /\ since \in [front : [Sessions -> Ages], display : [Sessions -> [Displays -> Ages]]]

Cookies == {c \in 1..MaxCookies : \A d \in Displays :
              c \notin {servers[d], authority[d], managed[d], proven.cookie} \cup proofs[d]}

\* The graphical login runs an X server of its own; nothing has been read yet.
Init ==
  LET home == CHOOSE d \in Displays : \A e \in Displays : d <= e IN
  /\ seat = [listed |-> Sessions, front |-> "desk", runs |-> "none",
             display |-> [s \in Sessions |-> IF s = "desk" THEN home ELSE None]]
  /\ servers = [d \in Displays |-> IF d = home THEN 1 ELSE 0] /\ authority = servers
  /\ logind = TRUE /\ answered = Old /\ resolved = FALSE /\ happened = 0
  /\ target = Absent("login_unavailable") /\ proven = Nothing /\ texts = [runs |-> "none", age |-> Old]
  /\ managed = [d \in Displays |-> 0] /\ proofs = [d \in Displays |-> {}]
  /\ since = [front |-> [s \in Sessions |-> IF s = "desk" THEN 0 ELSE Old],
              display |-> [s \in Sessions |-> [d \in Displays |-> IF s = "desk" /\ d = home THEN 0 ELSE Old]]]
-----------------------------------------------------------------------------
(* The resolver.                                                             *)

\* What the text login runs: looked up when it is in front and what was found is a minute old.
Fresh == texts.age < Recheck
TextLooked == seat.front = "text" /\ ~Fresh
Runs == IF TextLooked THEN seat.runs ELSE texts.runs

\* with_text_launched_desktops: only a text login in front is taken for a desktop.
Kind(s) == IF s = "desk" THEN "x11" ELSE IF seat.front = "text" THEN Runs ELSE "none"

Graphical == {s \in seat.listed : Kind(s) # "none"}

\* The display of a session, from logind or from the environment of its processes.
DisplayOf(s) == seat.display[s]

\* The credentials that are tried: the proven one of this display, the session's own files, the
\* private file.
Candidates(d) ==
  {authority[d], managed[d]} \cup IF proven.display = d THEN {proven.cookie} ELSE {}

Reached(d) == d # None /\ servers[d] # 0 /\ servers[d] \in Candidates(d)

Remembered(s, d, cookie) == [session |-> s, display |-> d, cookie |-> cookie, age |-> 0]

\* Mutant: the private file holds the proven credential alone.
WriteManagedAlone(d, cookie) == managed' = [e \in Displays |-> IF e = d THEN cookie ELSE 0]

\* The proven credential goes first into the private file, and the other displays' stay.  Left out:
\* a private file that is there but cannot be read, which would be begun again from the startup file.
WriteManaged(d, cookie) == managed' = [managed EXCEPT ![d] = cookie]

Live(s, d) == [presence |-> "live", session |-> s, kind |-> Kind(s), display |-> d]

\* The session in front is pointed at as it was proven less than a minute ago ...
Reuse(s) ==
  /\ proven.session = s /\ proven.age < Recheck
  /\ target' = Live(s, proven.display)
  /\ UNCHANGED <<proven, managed, proofs>>

\* ... or its display is looked up and its credential proven, and kept if the file can be written;
\* a Wayland session does not need either.
Prove(s) ==
  /\ ~(proven.session = s /\ proven.age < Recheck)
  /\ LET d == DisplayOf(s) IN
     \/ /\ Reached(d)
        /\ target' = Live(s, d) /\ proven' = Remembered(s, d, servers[d])
        /\ \/ WriteManaged(d, servers[d]) /\ proofs' = [proofs EXCEPT ![d] = @ \cup {servers[d]}]
           \/ UNCHANGED <<managed, proofs>>
     \/ /\ ~Reached(d)
        /\ IF Kind(s) = "x11"
             THEN target' = [Live(s, d) EXCEPT !.presence = "unreachable"] /\ UNCHANGED proven
             ELSE target' = Live(s, d) /\ proven' = Remembered(s, d, 0)
        /\ UNCHANGED <<managed, proofs>>

TargetFor ==
  \/ /\ seat.front \in Graphical
     /\ Reuse(seat.front) \/ Prove(seat.front)
  \/ /\ seat.front \notin Graphical
     /\ target' = Absent(IF Graphical # {} THEN "not_active" ELSE "no_desktop")
     /\ UNCHANGED <<proven, managed, proofs>>

\* logind answers: its word is taken.
Resolve ==
  /\ logind
  /\ answered' = 0 /\ resolved' = TRUE
  /\ texts' = IF TextLooked THEN [runs |-> seat.runs, age |-> 0] ELSE texts
  /\ TargetFor
  /\ UNCHANGED <<seat, servers, authority, logind, since, happened>>

\* Mutant: the last word stands for as long as logind is silent.
ResolveUnansweredKeeps ==
  /\ ~logind
  /\ target' = target /\ resolved' = TRUE
  /\ UNCHANGED <<seat, servers, authority, logind, proven, texts, answered, managed, since, proofs, happened>>

\* It does not: within the grace the last word stands, after it nothing is in front.
ResolveUnanswered ==
  /\ ~logind
  /\ target' = IF answered < Grace THEN target ELSE Absent("login_unavailable")
  /\ resolved' = TRUE
  /\ UNCHANGED <<seat, servers, authority, logind, proven, texts, answered, managed, since, proofs, happened>>
-----------------------------------------------------------------------------
(* The computer.                                                             *)

Happens == happened < MaxMoves /\ happened' = happened + 1 /\ resolved' = FALSE

Seen(state) ==
  [front |-> [s \in Sessions |-> IF state.front = s THEN 0 ELSE since.front[s]],
   display |-> [s \in Sessions |-> [d \in Displays |-> IF state.display[s] = d THEN 0 ELSE since.display[s][d]]]]

\* Another session comes to the front of the seat, or another user's.
Switch ==
  /\ Happens
  /\ \E s \in seat.listed \cup {"none"} :
       /\ s # seat.front
       /\ seat' = [seat EXCEPT !.front = s] /\ since' = Seen(seat')
  /\ UNCHANGED <<servers, authority, logind, target, proven, texts, answered, managed, proofs>>

\* The text login begins a desktop: on a free X display, with a credential in a file, or on Wayland.
Begins ==
  /\ Happens /\ "text" \in seat.listed /\ seat.runs = "none"
  /\ \/ \E d \in Displays, c \in Cookies :
          /\ servers[d] = 0
          /\ \A e \in Cookies : c <= e
          /\ seat' = [seat EXCEPT !.runs = "x11", !.display["text"] = d]
          /\ servers' = [servers EXCEPT ![d] = c] /\ authority' = [authority EXCEPT ![d] = c]
     \/ seat' = [seat EXCEPT !.runs = "wayland"] /\ UNCHANGED <<servers, authority>>
  /\ since' = Seen(seat')
  /\ UNCHANGED <<logind, target, proven, texts, answered, managed, proofs>>

Stopped(s) ==
  /\ servers' = [d \in Displays |-> IF d = seat.display[s] THEN 0 ELSE servers[d]]
  /\ authority' = [d \in Displays |-> IF d = seat.display[s] THEN 0 ELSE authority[d]]

\* It ends it.
Ends ==
  /\ Happens /\ seat.runs # "none"
  /\ Stopped("text")
  /\ seat' = [seat EXCEPT !.runs = "none", !.display["text"] = None]
  /\ UNCHANGED <<logind, target, proven, texts, answered, managed, since, proofs>>

\* The owner logs out of the graphical login.
LogsOut ==
  /\ Happens /\ "desk" \in seat.listed
  /\ Stopped("desk")
  /\ seat' = [seat EXCEPT !.listed = @ \ {"desk"}, !.display["desk"] = None,
                          !.front = IF @ = "desk" THEN "none" ELSE @]
  /\ UNCHANGED <<logind, target, proven, texts, answered, managed, since, proofs>>

\* A credential's file goes under a live session.
FileGoes ==
  /\ Happens
  /\ \E d \in Displays : authority[d] # 0 /\ authority' = [authority EXCEPT ![d] = 0]
  /\ UNCHANGED <<seat, servers, logind, target, proven, texts, answered, managed, since, proofs>>

LogindFalters ==
  /\ Happens /\ logind' = ~logind
  /\ UNCHANGED <<seat, servers, authority, target, proven, texts, answered, managed, since, proofs>>

\* The app is started again: what it knew is gone, the private file stays.
Restart ==
  /\ Happens
  /\ target' = Absent("login_unavailable") /\ proven' = Nothing /\ texts' = [runs |-> "none", age |-> Old]
  /\ answered' = Old
  /\ UNCHANGED <<seat, servers, authority, logind, managed, since, proofs>>

\* Time passes.
Passes ==
  /\ answered' = Older(answered) /\ resolved' = FALSE
  /\ proven' = [proven EXCEPT !.age = Older(@)] /\ texts' = [texts EXCEPT !.age = Older(@)]
  /\ since' = [front |-> [s \in Sessions |-> IF seat.front = s THEN 0 ELSE Older(since.front[s])],
               display |-> [s \in Sessions |-> [d \in Displays |->
                              IF seat.display[s] = d THEN 0 ELSE Older(since.display[s][d])]]]
  /\ UNCHANGED <<seat, servers, authority, logind, target, managed, proofs, happened>>
-----------------------------------------------------------------------------
Next ==
  \/ Resolve
  \/ ResolveUnanswered
  \/ Switch
  \/ Begins
  \/ Ends
  \/ LogsOut
  \/ FileGoes
  \/ LogindFalters
  \/ Restart
  \/ Passes

Spec == Init /\ [][Next]_SessionVars
-----------------------------------------------------------------------------
\* What capture is pointed at once it has resolved was so a moment ago: the session was in front
\* within the grace, and had its display within the grace and the minute a proof lasts, however
\* logind falters, sessions are switched, and desktops are begun and ended meanwhile.
TargetIsRecent ==
  resolved /\ target.presence = "live" =>
    /\ since.front[target.session] < Grace
    /\ target.kind = "x11" /\ target.display # None =>
         since.display[target.session][target.display] < Recheck + Grace

\* A credential that was proven and kept is not lost with the file it came from: a display is
\* unreachable only if its server takes a credential that was never kept.
ProvenStaysReachable ==
  resolved /\ target.presence = "unreachable" /\ target.display # None =>
    servers[target.display] \notin proofs[target.display]
=============================================================================
