---------------------------- MODULE PartsProofs ----------------------------
(***************************************************************************)
(* What the components of Parts keep to, for any constants.  A step of     *)
(* Parts is one of a component and leaves the others as they are, so the   *)
(* invariant is the conjunction of the components' own.  Those of the      *)
(* folders, the window, the settings and the release are in PartsLemmas.   *)
(*                                                                         *)
(* The activity: the policy stands still up to the change that is not yet  *)
(* acted on (PolicyLimit), and a row is closed there at the latest; so     *)
(* what an open interval may hold under the policy of now (SlotRight), and *)
(* a read may keep under the policy it began with (PollKeeps), may be told *)
(* of every instant of the row.                                            *)
(*                                                                         *)
(* The video: commands are numbered and wait in order (QueueInOrder), the  *)
(* answer to a command comes when the portal thread is done with it        *)
(* (AnswersComeLast); so the stored grant is the one the portal honours    *)
(* but while it is being exchanged (GrantStands), and streams run for a    *)
(* film the capture loop knows of, or asked for and may still learn of     *)
(* (FilmsAreKnown, KnownFilmsRun).                                         *)
(*                                                                         *)
(* The browser's server: a session that was told otherwise than things are *)
(* has a message to come (HoldIsHeard, PeriodIsHeard).                     *)
(*                                                                         *)
(* The session: what is live was in front at logind's last answer, and had *)
(* its display at most a minute before (TargetStands); a credential once   *)
(* written to the private file is still there (KeptIsThere).               *)
(***************************************************************************)
EXTENDS Parts, PartsLemmas

-----------------------------------------------------------------------------
(* The activity *)

\* What the owner excludes are apps.
ActivityAssumed ==
  MaxTime \in Nat /\ Nil \notin 0..MaxTime /\ \A p \in Policies : p.apps \subseteq {"editor", "browser"}

OpenSlot == [kind : A!Kinds, what : {"editor", "browser", "unavailable", "active", "locked"},
             title : A!Windows \cup {Nil},
         url : (A!Windows \X Nat) \cup {Nil}, ts : 0..MaxTime, end : 0..MaxTime]
OpenSlots == [A!Kinds -> OpenSlot \cup {Nil}]
PollReads == {"identity", "title", "address", "again"}
PollRecord == [policy : Policies, gen : Nat, epoch : Nat, held : BOOLEAN, at : 0..MaxTime, locked : BOOLEAN,
               read : PollReads \cup {Nil}, window : A!Windows \cup {Nil}, title : A!Windows \cup {Nil},
               url : A!Windows \cup {Nil}, flips : Nat]

\* What may be told of an instant, and does not hold a hidden tab by a late look.
KeptUnder(p, s) ==
  /\ ~A!Forbidden(p, s)
  /\ ~(s.kind = "foreground" /\ s.url # Nil /\ s.url[2] <= 1 /\ s.url[1] \in p.policy.hidden)

\* Until Limit the policy was the one the open intervals were read under.
PolicySettled == prefs.boundary = Nil
PolicyLimit == IF PolicySettled THEN now ELSE prefs.boundary
CurrentPolicy == [policy |-> prefs.policy, held |-> held]

SlotRight(k, s) ==
  s # Nil =>
    /\ s.kind = k /\ s.ts <= now
    /\ \A i \in 0..MaxTime : i < PolicyLimit /\ (s.ts <= i \/ sampler.at <= i) => KeptUnder(past[i], s)
    /\ PolicySettled => KeptUnder(CurrentPolicy, s)
SlotsRight == \A k \in A!Kinds : SlotRight(k, sampler.slots[k])

\* The poll was begun under the policy that stands up to Limit.
PollStands ==
  poll # Nil =>
    /\ poll \in PollRecord
    /\ poll.policy.source /\ ~poll.held /\ poll.gen = sampler.gen /\ poll.at = sampler.at /\ poll.at <= PolicyLimit
    /\ \A i \in 0..MaxTime : i < PolicyLimit /\ poll.at <= i => past[i] = [policy |-> poll.policy, held |-> poll.held]
    /\ PolicySettled => CurrentPolicy = [policy |-> poll.policy, held |-> poll.held]

\* What the poll has read, the policy it was begun under lets it keep.
PollKeeps ==
  poll # Nil =>
    /\ poll.read \in PollReads
    /\ poll.read # "identity" => poll.window \in A!Windows /\ A!App(poll.window) \notin poll.policy.apps
    /\ poll.title # Nil => poll.policy.titles /\ poll.title \notin poll.policy.hidden
    /\ poll.url # Nil => poll.policy.urls /\ poll.read = "again"
    /\ poll.read \in {"address", "again"} /\ desk.front \in poll.policy.hidden => poll.flips >= 1
    /\ poll.url # Nil /\ poll.url \in poll.policy.hidden =>
         poll.flips >= 1 /\ (desk.front \in poll.policy.hidden \/ poll.flips >= 2)

ActivityTyped ==
  /\ now \in 0..MaxTime
  /\ prefs \in [policy : Policies, gen : Nat, boundary : 0..MaxTime \cup {Nil}]
  /\ held \in BOOLEAN
  /\ desk \in [front : A!Windows, locked : BOOLEAN, session : Nat]
  /\ sampler \in [gen : Nat, epoch : Nat, slots : OpenSlots, at : 0..MaxTime]
  /\ past \in [0..MaxTime -> [policy : Policies, held : BOOLEAN] \cup {Nil}]

ActivityInTime ==
  /\ PolicyLimit <= now /\ sampler.at <= now
  /\ sampler.gen <= prefs.gen /\ (~PolicySettled => sampler.gen # prefs.gen)

RowRight(r) ==
  /\ r.ts \in 0..r.end /\ r.end <= now
  /\ \A k \in r.ts..r.end - 1 : ~A!Forbidden(past[k], r)
  /\ r.kind = "foreground" /\ r.url # Nil /\ r.url[2] <= 1 /\ r.end > r.ts => r.url[1] \notin past[r.ts].policy.hidden

ActivityInv ==
  ActivityTyped /\ ActivityInTime /\ SlotsRight /\ PollStands /\ PollKeeps /\ \A r \in closed : RowRight(r)

LEMMA ActivityInvShares == ASSUME ActivityInv  PROVE A!TypeOK /\ A!RowsKeepToThePolicy
<1>1. A!RowsKeepToThePolicy
  BY DEF ActivityInv, RowRight, A!RowsKeepToThePolicy
<1>2. \A k \in A!Kinds : sampler.slots[k] = Nil \/ sampler.slots[k].kind \in {k, "foreground"}
  BY DEF ActivityInv, SlotsRight, SlotRight
<1>3. \A r \in closed : r.ts \in 0..r.end /\ r.end <= now
  BY DEF ActivityInv, RowRight
<1>4. now \in 0..MaxTime /\ prefs.policy \in Policies /\ prefs.boundary \in 0..MaxTime \cup {Nil}
  BY DEF ActivityInv, ActivityTyped
<1> QED  BY <1>1, <1>2, <1>3, <1>4 DEF A!TypeOK

LEMMA LimitTyped == ASSUME ActivityAssumed, ActivityTyped  PROVE PolicyLimit \in 0..MaxTime
BY DEF ActivityAssumed, ActivityTyped, PolicyLimit, PolicySettled

LEMMA KeptAsWell ==
  ASSUME NEW p, NEW s, NEW r, KeptUnder(p, s), r.kind = s.kind, r.what = s.what, r.title = s.title, r.url = s.url
  PROVE  KeptUnder(p, r)
BY DEF KeptUnder, A!Forbidden

LEMMA OthersAreKept ==
  ASSUME NEW pol, NEW h, NEW s, pol.source, ~h, s.kind # "foreground"
  PROVE  KeptUnder([policy |-> pol, held |-> h], s)
BY DEF KeptUnder, A!Forbidden

LEMMA SlotEnds ==
  ASSUME ActivityAssumed, NEW s \in OpenSlot, NEW at \in 0..MaxTime
  PROVE  LET r == [s EXCEPT !.end = at]
         IN /\ r \in OpenSlot /\ r.kind = s.kind /\ r.what = s.what /\ r.title = s.title /\ r.url = s.url
            /\ r.ts = s.ts /\ r.end = at
BY DEF OpenSlot

LEMMA SlotStamped ==
  ASSUME ActivityAssumed, NEW s \in OpenSlot, NEW at \in 0..MaxTime
  PROVE  LET r == [s EXCEPT !.ts = at, !.end = at]
         IN /\ r \in OpenSlot /\ r.kind = s.kind /\ r.what = s.what /\ r.title = s.title /\ r.url = s.url
            /\ r.ts = at /\ r.end = at
BY DEF OpenSlot

\* What was open until then, and is closed at an instant of the policy it was
\* read under, is right.
LEMMA ClosedRight ==
  ASSUME ActivityAssumed, ActivityTyped, ActivityInTime, NEW slots \in OpenSlots, NEW ks \in SUBSET A!Kinds,
         \A k \in ks : SlotRight(k, slots[k]), NEW at \in 0..MaxTime, at <= PolicyLimit
  PROVE  \A r \in A!Rows(slots, ks, at) : RowRight(r)
<1> SUFFICES ASSUME NEW r \in A!Rows(slots, ks, at)  PROVE RowRight(r)
  OBVIOUS
<1>1. PICK k \in ks : slots[k] # Nil /\ slots[k].ts <= at /\ r = [slots[k] EXCEPT !.end = at]
  BY DEF A!Rows
<1> DEFINE s == slots[k]
<1>2. s \in OpenSlot
  BY <1>1 DEF OpenSlots
<1>3. SlotRight(k, s) /\ s # Nil /\ s.ts <= at
  BY <1>1
<1>4. r = [s EXCEPT !.end = at]
  BY <1>1
<1> HIDE DEF s
<1>5. r.kind = s.kind /\ r.what = s.what /\ r.title = s.title /\ r.url = s.url /\ r.ts = s.ts /\ r.end = at
  BY <1>2, <1>4, SlotEnds
<1>6. s.ts \in 0..MaxTime
  BY <1>2 DEF OpenSlot
<1>7. PolicyLimit \in 0..MaxTime /\ PolicyLimit <= now /\ now \in 0..MaxTime /\ MaxTime \in Nat
  BY LimitTyped DEF ActivityInTime, ActivityTyped, ActivityAssumed
<1>8. \A i \in 0..MaxTime : i < PolicyLimit /\ s.ts <= i => KeptUnder(past[i], s)
  BY <1>3 DEF SlotRight
<1>9. \A i \in s.ts..at - 1 : KeptUnder(past[i], r)
  <2> TAKE i \in s.ts..at - 1
  <2>1. i \in 0..MaxTime /\ i < PolicyLimit /\ s.ts <= i
    BY <1>6, <1>7
  <2>2. KeptUnder(past[i], s)
    BY <2>1, <1>8
  <2> QED  BY <2>2, <1>5, KeptAsWell
<1>10. \A i \in r.ts..r.end - 1 : KeptUnder(past[i], r)
  BY <1>9, <1>5
<1>11. r.ts \in 0..r.end /\ r.end <= now
  BY <1>3, <1>5, <1>6, <1>7
<1>12. \A i \in r.ts..r.end - 1 : ~A!Forbidden(past[i], r)
  BY <1>10 DEF KeptUnder
<1>13. r.end > r.ts => r.ts \in r.ts..r.end - 1
  BY <1>5, <1>6
<1>14. r.kind = "foreground" /\ r.url # Nil /\ r.url[2] <= 1 /\ r.end > r.ts => r.url[1] \notin past[r.ts].policy.hidden
  BY <1>10, <1>13 DEF KeptUnder
<1> QED  BY <1>11, <1>12, <1>14 DEF RowRight

\* f is what became of the slots when next was put in k.
OneReplaced(slots, k, next, at, f) ==
  /\ f.slots \in OpenSlots
  /\ f.slots[k] = slots[k] \/ f.slots[k] = next
  /\ \A j \in A!Kinds : j # k => f.slots[j] = slots[j]
  /\ f.rows = {} \/ f.rows = A!Rows(slots, {k}, at)

LEMMA ReplacedIs ==
  ASSUME NEW slots \in OpenSlots, NEW k \in A!Kinds, NEW next \in OpenSlot \cup {Nil}, NEW at
  PROVE  OneReplaced(slots, k, next, at, A!Replaced(slots, k, next, at))
<1>1. CASE A!SameSpan(slots[k], next)
  BY <1>1 DEF A!Replaced, OneReplaced
<1>2. CASE ~A!SameSpan(slots[k], next)
  <2>1. [slots EXCEPT ![k] = next] \in OpenSlots
    BY DEF OpenSlots
  <2> QED  BY <1>2, <2>1 DEF A!Replaced, OpenSlots, OneReplaced
<1> QED  BY <1>1, <1>2

LEMMA NoSlotsTyped == A!NoSlots \in OpenSlots /\ \A k \in A!Kinds : A!NoSlots[k] = Nil
BY DEF A!NoSlots, OpenSlots

LEMMA WithoutTyped ==
  ASSUME NEW slots \in OpenSlots, NEW ks
  PROVE  /\ A!Without(slots, ks) \in OpenSlots
         /\ \A k \in A!Kinds : A!Without(slots, ks)[k] = Nil \/ A!Without(slots, ks)[k] = slots[k]
BY DEF A!Without, OpenSlots

LEMMA StampedTyped ==
  ASSUME ActivityAssumed, NEW slots \in OpenSlots, NEW at \in 0..MaxTime
  PROVE  /\ A!Stamped(slots, at) \in OpenSlots
         /\ \A k \in A!Kinds : slots[k] = Nil => A!Stamped(slots, at)[k] = Nil
         /\ \A k \in A!Kinds : slots[k] # Nil =>
              LET r == A!Stamped(slots, at)[k] s == slots[k]
              IN r.kind = s.kind /\ r.what = s.what /\ r.title = s.title /\ r.url = s.url /\ r.ts = at
<1>1. \A k \in A!Kinds : slots[k] # Nil => slots[k] \in OpenSlot
  BY DEF OpenSlots
<1>2. \A k \in A!Kinds : A!Stamped(slots, at)[k] = IF slots[k] = Nil THEN Nil ELSE [slots[k] EXCEPT !.ts = at, !.end = at]
  BY DEF A!Stamped
<1>3. \A k \in A!Kinds : slots[k] # Nil =>
        LET r == A!Stamped(slots, at)[k] s == slots[k]
        IN r \in OpenSlot /\ r.kind = s.kind /\ r.what = s.what /\ r.title = s.title /\ r.url = s.url /\ r.ts = at
  <2> TAKE k \in A!Kinds
  <2> DEFINE s == slots[k]
  <2> HAVE s # Nil
  <2>1. s \in OpenSlot
    BY <1>1
  <2>2. A!Stamped(slots, at)[k] = [s EXCEPT !.ts = at, !.end = at]
    BY <1>2
  <2> HIDE DEF s
  <2>3. LET r == [s EXCEPT !.ts = at, !.end = at]
        IN r \in OpenSlot /\ r.kind = s.kind /\ r.what = s.what /\ r.title = s.title /\ r.url = s.url /\ r.ts = at
    BY <2>1, SlotStamped
  <2> QED  BY <2>2, <2>3 DEF s
<1>4. A!Stamped(slots, at) = [k \in A!Kinds |-> A!Stamped(slots, at)[k]]
  BY DEF A!Stamped
<1>5. \A k \in A!Kinds : A!Stamped(slots, at)[k] \in OpenSlot \cup {Nil}
  BY <1>2, <1>3
<1>6. A!Stamped(slots, at) \in OpenSlots
  BY <1>4, <1>5 DEF OpenSlots
<1> QED  BY <1>2, <1>3, <1>6

LEMMA SamplerSet ==
  ASSUME NEW x \in [gen : Nat, epoch : Nat, slots : OpenSlots, at : 0..MaxTime], NEW v \in OpenSlots
  PROVE  LET y == [x EXCEPT !.slots = v]
         IN y \in [gen : Nat, epoch : Nat, slots : OpenSlots, at : 0..MaxTime] /\ y.slots = v /\ y.gen = x.gen
           /\ y.at = x.at
OBVIOUS

LEMMA InitActivity == ASSUME ActivityAssumed, A!Init  PROVE ActivityInv
<1>1. ActivityTyped
  <2>1. sampler \in [gen : Nat, epoch : Nat, slots : OpenSlots, at : 0..MaxTime]
    <3>1. 0 \in 0..MaxTime
      BY DEF ActivityAssumed
    <3> QED  BY <3>1, NoSlotsTyped DEF A!Init
  <2>2. desk \in [front : A!Windows, locked : BOOLEAN, session : Nat] /\ held \in BOOLEAN
    BY DEF A!Init, A!Windows
  <2>3. now \in 0..MaxTime /\ prefs \in [policy : Policies, gen : Nat, boundary : 0..MaxTime \cup {Nil}]
    BY DEF A!Init, ActivityAssumed
  <2>4. past \in [0..MaxTime -> [policy : Policies, held : BOOLEAN] \cup {Nil}]
    BY DEF A!Init
  <2> QED  BY <2>1, <2>2, <2>3, <2>4 DEF ActivityTyped
<1>2. ActivityInTime
  BY DEF A!Init, ActivityInTime, PolicyLimit, PolicySettled
<1>3. SlotsRight
  BY NoSlotsTyped DEF A!Init, SlotsRight, SlotRight
<1>4. PollStands /\ PollKeeps /\ closed = {}
  BY DEF A!Init, PollStands, PollKeeps
<1> QED  BY <1>1, <1>2, <1>3, <1>4 DEF ActivityInv

(* The policy, the desktop and the clock *)

LEMMA ApplyPolicyKeepsActivity ==
  ASSUME ActivityAssumed, ActivityInv, NEW p \in Policies, A!ApplyPolicy(p)
  PROVE  ActivityInv'
<1> DEFINE b == A!Earlier(prefs.boundary, now)
<1>0. ActivityTyped /\ ActivityInTime /\ SlotsRight /\ PollStands /\ PollKeeps
  BY DEF ActivityInv
<1>1. prefs' = [policy |-> p, gen |-> prefs.gen + 1, boundary |-> b]
  BY DEF A!ApplyPolicy
<1>2. /\ UNCHANGED <<now, held, desk, sampler, poll, past>> /\ closed' = {}
  BY DEF A!ApplyPolicy
<1>3. b = PolicyLimit
  BY <1>0 DEF A!Earlier, PolicyLimit, PolicySettled, ActivityInTime, ActivityTyped, ActivityAssumed
<1>4. PolicyLimit \in 0..MaxTime /\ PolicyLimit # Nil
  BY <1>0, LimitTyped DEF ActivityAssumed
<1> HIDE DEF b
<1>5. PolicyLimit' = PolicyLimit /\ ~PolicySettled' /\ prefs'.gen = prefs.gen + 1
  BY <1>1, <1>3, <1>4 DEF PolicyLimit, PolicySettled
<1>6. ActivityTyped'
  BY <1>0, <1>1, <1>2, <1>3, <1>4 DEF ActivityTyped
<1>7. ActivityInTime'
  BY <1>0, <1>2, <1>5 DEF ActivityInTime, ActivityTyped
<1>8. SlotsRight'
  BY <1>0, <1>2, <1>5 DEF SlotsRight, SlotRight
<1>9. PollStands'
  BY <1>0, <1>2, <1>5 DEF PollStands
<1>10. PollKeeps'
  BY <1>0, <1>2 DEF PollKeeps
<1> QED  BY <1>2, <1>6, <1>7, <1>8, <1>9, <1>10 DEF ActivityInv

LEMMA TickKeepsActivity == ASSUME ActivityAssumed, ActivityInv, A!Tick  PROVE ActivityInv'
<1>0. ActivityTyped /\ ActivityInTime /\ SlotsRight /\ PollStands /\ PollKeeps
  BY DEF ActivityInv
<1>1. now < MaxTime /\ now' = now + 1 /\ closed' = {} /\ past' = [past EXCEPT ![now] = CurrentPolicy]
  BY DEF A!Tick, CurrentPolicy
<1>2. UNCHANGED <<prefs, held, desk, sampler, poll>>
  BY DEF A!Tick
<1>3. now \in 0..MaxTime /\ PolicyLimit \in 0..MaxTime /\ PolicyLimit <= now /\ MaxTime \in Nat
  BY <1>0, LimitTyped DEF ActivityTyped, ActivityAssumed, ActivityInTime
<1>4. PolicySettled' = PolicySettled /\ CurrentPolicy' = CurrentPolicy
  BY <1>2 DEF PolicySettled, CurrentPolicy
<1>5. past'[now] = CurrentPolicy /\ \A i \in 0..MaxTime : i # now => past'[i] = past[i]
  BY <1>0, <1>1, <1>3 DEF ActivityTyped
<1>6. CurrentPolicy \in [policy : Policies, held : BOOLEAN]
  BY <1>0 DEF CurrentPolicy, ActivityTyped
<1>7. ActivityTyped'
  <2>1. now' \in 0..MaxTime
    BY <1>1, <1>3
  <2>2. past' \in [0..MaxTime -> [policy : Policies, held : BOOLEAN] \cup {Nil}]
    BY <1>0, <1>1, <1>6 DEF ActivityTyped
  <2> QED  BY <1>0, <1>2, <2>1, <2>2 DEF ActivityTyped
<1>8. PolicySettled => PolicyLimit = now /\ PolicyLimit' = now + 1
  BY <1>1, <1>4 DEF PolicyLimit
<1>9. ~PolicySettled => PolicyLimit' = PolicyLimit
  BY <1>2, <1>4 DEF PolicyLimit
<1>10. ActivityInTime'
  BY <1>0, <1>1, <1>2, <1>3, <1>4, <1>8, <1>9 DEF ActivityInTime, ActivityTyped
<1>11. SlotsRight'
  <2> SUFFICES ASSUME NEW k \in A!Kinds, sampler.slots[k] # Nil  PROVE SlotRight(k, sampler.slots[k])'
    BY <1>2 DEF SlotsRight, SlotRight
  <2> DEFINE s == sampler.slots[k]
  <2>1. /\ s.kind = k /\ s.ts <= now
        /\ \A i \in 0..MaxTime : i < PolicyLimit /\ (s.ts <= i \/ sampler.at <= i) => KeptUnder(past[i], s)
        /\ PolicySettled => KeptUnder(CurrentPolicy, s)
    BY <1>0 DEF SlotsRight, SlotRight
  <2>2. s.ts \in 0..MaxTime
    BY <1>0 DEF ActivityTyped, OpenSlots, OpenSlot
  <2>3. \A i \in 0..MaxTime : i < PolicyLimit' /\ (s.ts <= i \/ sampler.at <= i) => KeptUnder(past'[i], s)
    <3> TAKE i \in 0..MaxTime
    <3> HAVE i < PolicyLimit' /\ (s.ts <= i \/ sampler.at <= i)
    <3>1. CASE i = now
      <4>1. PolicySettled
        BY <3>1, <1>9, <1>3
      <4> QED  BY <4>1, <3>1, <2>1, <1>5
    <3>2. CASE i # now
      <4>1. i < PolicyLimit
        BY <3>2, <1>8, <1>9, <1>3
      <4> QED  BY <4>1, <3>2, <2>1, <1>5
    <3> QED  BY <3>1, <3>2
  <2>4. s' = s
    BY <1>2
  <2> HIDE DEF s
  <2>5. s.ts <= now'
    BY <1>1, <1>3, <2>1, <2>2
  <2>6. SlotRight(k, s)'
    BY <1>2, <1>4, <2>1, <2>3, <2>4, <2>5 DEF SlotRight
  <2> QED  BY <2>6 DEF s
<1>12. PollStands'
  <2> SUFFICES ASSUME poll # Nil  PROVE PollStands'
    BY <1>2 DEF PollStands
  <2>1. /\ poll \in PollRecord
        /\ poll.policy.source /\ ~poll.held /\ poll.gen = sampler.gen /\ poll.at = sampler.at
           /\ poll.at <= PolicyLimit
        /\ \A i \in 0..MaxTime : i < PolicyLimit /\ poll.at <= i => past[i] = [policy |-> poll.policy, held |-> poll.held]
        /\ PolicySettled => CurrentPolicy = [policy |-> poll.policy, held |-> poll.held]
    BY <1>0 DEF PollStands
  <2>2. poll.at <= PolicyLimit'
    BY <1>3, <1>8, <1>9, <2>1 DEF PollRecord
  <2>3. \A i \in 0..MaxTime : i < PolicyLimit' /\ poll.at <= i => past'[i] = [policy |-> poll.policy, held |-> poll.held]
    <3> TAKE i \in 0..MaxTime
    <3> HAVE i < PolicyLimit' /\ poll.at <= i
    <3>1. CASE i = now
      <4>1. PolicySettled
        BY <3>1, <1>9, <1>3
      <4> QED  BY <4>1, <3>1, <2>1, <1>5
    <3>2. CASE i # now
      <4>1. i < PolicyLimit
        BY <3>2, <1>8, <1>9, <1>3
      <4> QED  BY <4>1, <3>2, <2>1, <1>5
    <3> QED  BY <3>1, <3>2
  <2> QED  BY <1>2, <1>4, <2>1, <2>2, <2>3 DEF PollStands
<1>13. PollKeeps'
  BY <1>0, <1>2 DEF PollKeeps
<1> QED  BY <1>1, <1>7, <1>10, <1>11, <1>12, <1>13 DEF ActivityInv

LEMMA DeskMovesKeepsActivity == ASSUME ActivityAssumed, ActivityInv, A!DeskMoves  PROVE ActivityInv'
<1>0. ActivityTyped /\ ActivityInTime /\ SlotsRight /\ PollStands /\ PollKeeps
  BY DEF ActivityInv
<1>1. UNCHANGED <<now, prefs, held, sampler, past>> /\ closed' = {}
  BY DEF A!DeskMoves
<1>2. poll' = IF poll = Nil THEN Nil ELSE [poll EXCEPT !.flips = @ + 1]
  BY DEF A!DeskMoves
<1>3. desk' \in [front : A!Windows, locked : BOOLEAN, session : Nat]
  <2>1. desk \in [front : A!Windows, locked : BOOLEAN, session : Nat]
    BY <1>0 DEF ActivityTyped
  <2>2. CASE \E w \in A!Windows : w # desk.front /\ desk' = [desk EXCEPT !.front = w]
    BY <2>1, <2>2
  <2>3. CASE desk' = [desk EXCEPT !.locked = ~@]
    BY <2>1, <2>3
  <2>4. CASE desk' = [desk EXCEPT !.session = @ + 1]
    BY <2>1, <2>4
  <2> QED  BY <2>2, <2>3, <2>4 DEF A!DeskMoves
<1> HIDE DEF A!DeskMoves
<1>4. ActivityTyped'
  BY <1>0, <1>1, <1>3 DEF ActivityTyped
<1>5. PolicySettled' = PolicySettled /\ CurrentPolicy' = CurrentPolicy /\ PolicyLimit' = PolicyLimit
  BY <1>1 DEF PolicySettled, CurrentPolicy, PolicyLimit
<1>6. ActivityInTime'
  BY <1>0, <1>1, <1>5 DEF ActivityInTime
<1>7. SlotsRight'
  BY <1>0, <1>1, <1>5 DEF SlotsRight, SlotRight
<1>8. poll # Nil => /\ poll \in PollRecord /\ poll' \in PollRecord /\ poll'.flips = poll.flips + 1
                    /\ poll'.policy = poll.policy /\ poll'.held = poll.held /\ poll'.gen = poll.gen
                    /\ poll'.at = poll.at /\ poll'.read = poll.read /\ poll'.window = poll.window
                    /\ poll'.title = poll.title /\ poll'.url = poll.url /\ poll.flips \in Nat
  BY <1>0, <1>2 DEF PollStands, PollRecord
<1>9. PollStands'
  <2>1. CASE poll = Nil
    BY <2>1, <1>2 DEF PollStands
  <2>2. CASE poll # Nil
    BY <2>2, <1>0, <1>1, <1>5, <1>8 DEF PollStands
  <2> QED  BY <2>1, <2>2
<1>10. PollKeeps'
  <2>1. CASE poll = Nil
    BY <2>1, <1>2 DEF PollKeeps
  <2>2. CASE poll # Nil
    <3>1. poll'.flips >= 1 /\ (poll.flips >= 1 => poll'.flips >= 2)
      BY <2>2, <1>8
    <3> QED  BY <2>2, <1>0, <1>8, <3>1 DEF PollKeeps
  <2> QED  BY <2>1, <2>2
<1> QED  BY <1>1, <1>4, <1>6, <1>7, <1>9, <1>10 DEF ActivityInv

(* The pause and the segments *)

\* Where intervals are closed: never after the boundary that is pending.
LEMMA CutoffIs ==
  ASSUME ActivityAssumed, ActivityInv, NEW at \in 0..MaxTime, at <= now
  PROVE  /\ A!Cutoff(at) \in 0..MaxTime /\ A!Cutoff(at) <= PolicyLimit
         /\ A!Taken(at) \in [policy : Policies, gen : Nat, boundary : 0..MaxTime \cup {Nil}]
         /\ A!Taken(at).policy = prefs.policy /\ A!Taken(at).gen = prefs.gen
         /\ A!Taken(at).boundary = Nil \/ (~PolicySettled /\ A!Taken(at).boundary = prefs.boundary)
         /\ at = now => A!Taken(at).boundary = Nil
<1>1. ActivityTyped /\ ActivityInTime
  BY DEF ActivityInv
<1>2. prefs \in [policy : Policies, gen : Nat, boundary : 0..MaxTime \cup {Nil}] /\ now \in 0..MaxTime
      /\ PolicyLimit <= now
  BY <1>1 DEF ActivityTyped, ActivityInTime
<1>3. A!Cutoff(at) \in 0..MaxTime /\ A!Cutoff(at) <= PolicyLimit
  BY <1>2 DEF A!Cutoff, A!BoundaryBefore, PolicyLimit, PolicySettled, ActivityAssumed
<1> DEFINE b == IF A!BoundaryBefore(at) = Nil THEN prefs.boundary ELSE Nil
<1>4. A!Taken(at) = [prefs EXCEPT !.boundary = b]
  BY DEF A!Taken
<1>5. b \in 0..MaxTime \cup {Nil} /\ (b = Nil \/ (~PolicySettled /\ b = prefs.boundary)) /\ (at = now => b = Nil)
  BY <1>2 DEF A!BoundaryBefore, PolicyLimit, PolicySettled, ActivityAssumed
<1> HIDE DEF b
<1>6. /\ A!Taken(at) \in [policy : Policies, gen : Nat, boundary : 0..MaxTime \cup {Nil}]
      /\ A!Taken(at).policy = prefs.policy /\ A!Taken(at).gen = prefs.gen /\ A!Taken(at).boundary = b
  BY <1>2, <1>4, <1>5
<1> QED  BY <1>3, <1>5, <1>6

LEMMA PauseKeepsActivity ==
  ASSUME ActivityAssumed, ActivityInv, NEW p \in BOOLEAN, A!Pause(p)
  PROVE  ActivityInv'
<1>0. ActivityTyped /\ ActivityInTime /\ SlotsRight
  BY DEF ActivityInv
<1>1. poll = Nil /\ UNCHANGED <<now, desk, poll, past>> /\ held' \in BOOLEAN
  BY DEF A!Pause, A!ActivityPaused
<1>2. IF held' /\ ~held
      THEN A!SealAt(A!Cutoff(now)) /\ prefs' = A!Bumped(A!Taken(now))
      ELSE closed' = {} /\ UNCHANGED <<sampler, prefs>>
  BY DEF A!Pause
<1> HIDE DEF A!Pause
<1>3. PollStands' /\ PollKeeps'
  BY <1>1 DEF PollStands, PollKeeps
<1>4. now \in 0..MaxTime /\ now <= now
  BY <1>0 DEF ActivityTyped, ActivityAssumed
<1>5. CASE held' /\ ~held
  <2>1. closed' = A!Rows(sampler.slots, A!Kinds, A!Cutoff(now)) /\ sampler' = [sampler EXCEPT !.slots = A!NoSlots]
    BY <1>2, <1>5 DEF A!SealAt
  <2>2. prefs' = A!Bumped(A!Taken(now))
    BY <1>2, <1>5
  <2>3. /\ prefs' \in [policy : Policies, gen : Nat, boundary : 0..MaxTime \cup {Nil}]
        /\ prefs'.boundary = Nil /\ prefs'.gen = prefs.gen + 1
    <3> DEFINE t == A!Taken(now)
    <3>1. t \in [policy : Policies, gen : Nat, boundary : 0..MaxTime \cup {Nil}] /\ t.boundary = Nil
          /\ t.gen = prefs.gen
      BY <1>4, CutoffIs
    <3>2. prefs' = [t EXCEPT !.gen = @ + 1]
      BY <2>2 DEF A!Bumped
    <3> HIDE DEF t
    <3> QED  BY <3>1, <3>2
  <2>4. sampler' \in [gen : Nat, epoch : Nat, slots : OpenSlots, at : 0..MaxTime] /\ sampler'.slots = A!NoSlots
        /\ sampler'.gen = sampler.gen /\ sampler'.at = sampler.at
    BY <1>0, <2>1, NoSlotsTyped, SamplerSet DEF ActivityTyped
  <2>5. ActivityTyped'
    BY <1>0, <1>1, <2>3, <2>4 DEF ActivityTyped
  <2>6. PolicySettled' /\ PolicyLimit' = now
    BY <1>1, <2>3 DEF PolicySettled, PolicyLimit
  <2>7. ActivityInTime'
    BY <1>0, <1>1, <1>4, <2>3, <2>4, <2>6 DEF ActivityInTime, ActivityTyped
  <2>8. SlotsRight'
    BY <2>4, NoSlotsTyped DEF SlotsRight, SlotRight
  <2>9. \A r \in closed' : RowRight(r)
    <3>1. sampler.slots \in OpenSlots
      BY <1>0 DEF ActivityTyped
    <3> QED  BY <1>0, <1>4, <2>1, <3>1, CutoffIs, ClosedRight DEF SlotsRight
  <2>10. \A r \in closed' : RowRight(r)'
    BY <2>9, <1>1 DEF RowRight
  <2> QED  BY <1>3, <2>5, <2>7, <2>8, <2>10 DEF ActivityInv
<1>6. CASE ~(held' /\ ~held)
  <2>1. closed' = {} /\ UNCHANGED <<sampler, prefs>>
    BY <1>2, <1>6
  <2>2. ActivityTyped'
    BY <1>0, <1>1, <2>1 DEF ActivityTyped
  <2>3. PolicySettled' = PolicySettled /\ PolicyLimit' = PolicyLimit
    BY <1>1, <2>1 DEF PolicySettled, PolicyLimit
  <2>4. ActivityInTime'
    BY <1>0, <1>1, <2>1, <2>3 DEF ActivityInTime
  <2>5. SlotsRight'
    <3>1. CASE held' = held
      <4>1. CurrentPolicy' = CurrentPolicy
        BY <3>1, <2>1 DEF CurrentPolicy
      <4> QED  BY <4>1, <1>0, <1>1, <2>1, <2>3 DEF SlotsRight, SlotRight
    <3>2. CASE held' # held
      <4>1. held
        BY <3>2, <1>1, <1>6, <1>0 DEF ActivityTyped
      <4>2. \A s : ~KeptUnder(CurrentPolicy, s)
        BY <4>1 DEF KeptUnder, A!Forbidden, CurrentPolicy
      <4>3. PolicySettled => \A k \in A!Kinds : sampler.slots[k] = Nil
        BY <1>0, <4>2 DEF SlotsRight, SlotRight
      <4> QED  BY <4>3, <1>0, <1>1, <2>1, <2>3 DEF SlotsRight, SlotRight
    <3> QED  BY <3>1, <3>2
  <2> QED  BY <1>3, <2>1, <2>2, <2>4, <2>5 DEF ActivityInv
<1> QED  BY <1>5, <1>6

LEMMA BoundaryKeepsActivity ==
  ASSUME ActivityAssumed, ActivityInv, NEW at \in 0..MaxTime, NEW next \in BOOLEAN, A!Boundary(at, next)
  PROVE  ActivityInv'
<1>0. ActivityTyped /\ ActivityInTime /\ SlotsRight
  BY DEF ActivityInv
<1>1. poll = Nil /\ UNCHANGED <<now, held, desk, poll, past>> /\ at \in {now - 1, now} /\ at >= sampler.at
  BY DEF A!Boundary
<1>2. closed' = A!Rows(sampler.slots, A!Kinds, A!Cutoff(at)) /\ prefs' = A!Taken(at)
  BY DEF A!Boundary
<1> DEFINE slots == sampler'.slots
<1>3. /\ sampler' \in [gen : Nat, epoch : Nat, slots : OpenSlots, at : 0..MaxTime]
      /\ sampler'.gen = sampler.gen /\ sampler'.at = sampler.at
      /\ slots = A!NoSlots \/ (sampler.gen = prefs.gen /\ slots = A!Stamped(sampler.slots, at))
  <2> DEFINE v == IF next /\ (at = now \/ A!BoundaryBefore(at) = Nil) THEN A!Continued(at) ELSE A!NoSlots
  <2>1. sampler' = [sampler EXCEPT !.slots = v]
    BY DEF A!Boundary
  <2>2. v = A!NoSlots \/ (sampler.gen = prefs.gen /\ v = A!Stamped(sampler.slots, at))
    BY DEF A!Continued
  <2>3. sampler.slots \in OpenSlots
    BY <1>0 DEF ActivityTyped
  <2>4. v \in OpenSlots
    BY <2>2, <2>3, NoSlotsTyped, StampedTyped
  <2> HIDE DEF v
  <2> QED  BY <1>0, <2>1, <2>2, <2>4, SamplerSet DEF ActivityTyped
<1> HIDE DEF A!Boundary
<1>4. now \in 0..MaxTime /\ at <= now
  BY <1>0, <1>1 DEF ActivityTyped, ActivityAssumed
<1>5. /\ A!Cutoff(at) \in 0..MaxTime /\ A!Cutoff(at) <= PolicyLimit
      /\ prefs' \in [policy : Policies, gen : Nat, boundary : 0..MaxTime \cup {Nil}]
      /\ prefs'.policy = prefs.policy /\ prefs'.gen = prefs.gen
      /\ prefs'.boundary = Nil \/ (~PolicySettled /\ prefs'.boundary = prefs.boundary)
  BY <1>2, <1>4, CutoffIs
<1>6. ActivityTyped'
  BY <1>0, <1>1, <1>3, <1>5 DEF ActivityTyped
<1>7. PolicyLimit' = PolicyLimit \/ PolicyLimit' = now
  BY <1>1, <1>5 DEF PolicyLimit, PolicySettled
<1>8. ActivityInTime'
  BY <1>0, <1>1, <1>3, <1>4, <1>5, <1>7 DEF ActivityInTime, PolicySettled, ActivityTyped
<1>9. SlotsRight'
  <2>1. CASE slots = A!NoSlots
    BY <2>1, NoSlotsTyped DEF SlotsRight, SlotRight
  <2>2. CASE sampler.gen = prefs.gen /\ slots = A!Stamped(sampler.slots, at)
    <3>1. PolicySettled
      BY <2>2, <1>0 DEF ActivityInTime
    <3>2. PolicySettled' /\ PolicyLimit = now /\ PolicyLimit' = now /\ CurrentPolicy' = CurrentPolicy
      BY <3>1, <1>1, <1>5 DEF PolicySettled, PolicyLimit, CurrentPolicy
    <3> SUFFICES ASSUME NEW k \in A!Kinds, slots[k] # Nil  PROVE SlotRight(k, sampler.slots[k])'
      BY DEF SlotsRight, SlotRight
    <3> DEFINE s == sampler.slots[k]
               r == slots[k]
    <3>3. sampler.slots \in OpenSlots
      BY <1>0 DEF ActivityTyped
    <3>4. s # Nil /\ r.kind = s.kind /\ r.what = s.what /\ r.title = s.title /\ r.url = s.url /\ r.ts = at
      BY <2>2, <3>3, StampedTyped
    <3>5. /\ s.kind = k
          /\ \A i \in 0..MaxTime : i < PolicyLimit /\ sampler.at <= i => KeptUnder(past[i], s)
          /\ KeptUnder(CurrentPolicy, s)
      BY <1>0, <3>1, <3>4 DEF SlotsRight, SlotRight
    <3>6. sampler.at \in 0..MaxTime
      BY <1>0 DEF ActivityTyped
    <3>7. r = sampler'.slots[k]
      OBVIOUS
    <3> HIDE DEF s, r, slots
    <3>8. \A i \in 0..MaxTime : i < now /\ (at <= i \/ sampler.at <= i) => KeptUnder(past[i], r)
      <4> TAKE i \in 0..MaxTime
      <4> HAVE i < now /\ (at <= i \/ sampler.at <= i)
      <4>1. sampler.at <= i
        BY <1>1, <3>6
      <4>2. KeptUnder(past[i], s)
        BY <4>1, <3>2, <3>5
      <4> QED  BY <4>2, <3>4, KeptAsWell
    <3>9. KeptUnder(CurrentPolicy, r)
      BY <3>4, <3>5, KeptAsWell
    <3> QED  BY <1>1, <1>3, <1>4, <3>2, <3>4, <3>5, <3>7, <3>8, <3>9 DEF SlotRight
  <2> QED  BY <1>3, <2>1, <2>2
<1>10. PollStands' /\ PollKeeps'
  BY <1>1 DEF PollStands, PollKeeps
<1>11. \A r \in closed' : RowRight(r)
  <2>1. sampler.slots \in OpenSlots
    BY <1>0 DEF ActivityTyped
  <2> QED  BY <1>0, <1>2, <1>5, <2>1, ClosedRight DEF SlotsRight
<1>12. \A r \in closed' : RowRight(r)'
  BY <1>11, <1>1 DEF RowRight
<1> QED  BY <1>6, <1>8, <1>9, <1>10, <1>12 DEF ActivityInv

(* A poll *)

LEMMA SpanIs ==
  ASSUME NEW kind, NEW what, NEW title, NEW url, NEW ts
  PROVE  LET s == A!Span(kind, what, title, url, ts)
         IN s.kind = kind /\ s.what = what /\ s.title = title /\ s.url = url /\ s.ts = ts /\ s.end = ts
BY DEF A!Span

LEMMA NoAddressIs ==
  ASSUME ActivityAssumed, NEW p, p.at \in 0..MaxTime, NEW slots, NEW u, u = A!NoAddress(p, slots), u # Nil
  PROVE  u \in OpenSlot /\ u.kind = "url" /\ u.ts = p.at /\ p.policy.source /\ ~p.held
<1>1. u = A!Span("url", "unavailable", Nil, Nil, p.at) /\ p.policy.source /\ ~p.held
  BY DEF A!NoAddress
<1>2. u \in OpenSlot
  BY <1>1 DEF A!Span, OpenSlot, A!Kinds
<1> QED  BY <1>1, <1>2, SpanIs

LEMMA PresenceIs ==
  ASSUME ActivityAssumed, NEW p, p.at \in 0..MaxTime, NEW u, u = A!Presence(p), u # Nil
  PROVE  u \in OpenSlot /\ u.kind = "presence" /\ u.ts = p.at /\ p.policy.source /\ ~p.held
<1>1. p.policy.source /\ ~p.held
  BY DEF A!Presence
<1>2. \E w \in {"locked", "active"} : u = A!Span("presence", w, Nil, Nil, p.at)
  BY DEF A!Presence
<1>3. PICK w \in {"locked", "active"} : u = A!Span("presence", w, Nil, Nil, p.at)
  BY <1>2
<1>4. u \in OpenSlot
  BY <1>3 DEF A!Span, OpenSlot, A!Kinds
<1> QED  BY <1>1, <1>3, <1>4, SpanIs

\* What a poll may end with.
Keepable(next) ==
  next # Nil => /\ next \in OpenSlot /\ next.kind = "foreground" /\ next.ts = poll.at
                /\ KeptUnder([policy |-> poll.policy, held |-> poll.held], next)

LEMMA FinishKeepsActivity ==
  ASSUME ActivityAssumed, ActivityInv, poll # Nil, A!Rest, NEW next, Keepable(next), A!Finish(poll, next)
  PROVE  ActivityInv'
<1> DEFINE f == A!Replaced(sampler.slots, "foreground", next, poll.at)
           n == A!NoAddress(poll, f.slots)
           u == A!Replaced(f.slots, "url", n, poll.at)
           b == [policy |-> poll.policy, held |-> poll.held]
<1>0. ActivityTyped /\ ActivityInTime /\ SlotsRight
  BY DEF ActivityInv
<1>1. sampler' = [sampler EXCEPT !.slots = u.slots] /\ closed' = f.rows \cup u.rows /\ poll' = Nil
  BY DEF A!Finish
<1>2. UNCHANGED <<now, prefs, held, desk, past>>
  BY DEF A!Rest
<1>3. /\ poll.policy.source /\ ~poll.held /\ poll.at = sampler.at /\ poll.at <= PolicyLimit /\ poll.at \in 0..MaxTime
      /\ \A i \in 0..MaxTime : i < PolicyLimit /\ poll.at <= i => past[i] = b
      /\ PolicySettled => CurrentPolicy = b
  BY DEF ActivityInv, PollStands, PollRecord
<1>4. next \in OpenSlot \cup {Nil} /\ n \in OpenSlot \cup {Nil}
  <2>1. n \in OpenSlot \cup {Nil}
    BY <1>3, NoAddressIs
  <2> QED  BY <2>1 DEF Keepable
<1>5. sampler.slots \in OpenSlots /\ "foreground" \in A!Kinds /\ "url" \in A!Kinds
  BY <1>0 DEF ActivityTyped, A!Kinds
<1>6. /\ f.slots \in OpenSlots
      /\ f.slots["foreground"] = sampler.slots["foreground"] \/ f.slots["foreground"] = next
      /\ \A j \in A!Kinds : j # "foreground" => f.slots[j] = sampler.slots[j]
      /\ f.rows = {} \/ f.rows = A!Rows(sampler.slots, {"foreground"}, poll.at)
  <2>1. OneReplaced(sampler.slots, "foreground", next, poll.at, f)
    BY <1>4, <1>5, ReplacedIs
  <2> HIDE DEF f
  <2> QED  BY <2>1 DEF OneReplaced
<1>7. n # Nil => n.kind = "url" /\ n.ts = poll.at /\ KeptUnder(b, n)
  <2> HAVE n # Nil
  <2>1. n.kind = "url" /\ n.ts = poll.at
    BY <1>3, NoAddressIs
  <2>2. KeptUnder(b, n)
    BY <2>1, <1>3, OthersAreKept
  <2> QED  BY <2>1, <2>2
<1>8. next # Nil => next.kind = "foreground" /\ next.ts = poll.at /\ KeptUnder(b, next)
  BY DEF Keepable
<1> HIDE DEF n, f, b
<1>9. /\ u.slots \in OpenSlots
      /\ u.slots["url"] = f.slots["url"] \/ u.slots["url"] = n
      /\ \A j \in A!Kinds : j # "url" => u.slots[j] = f.slots[j]
      /\ u.rows = {} \/ u.rows = A!Rows(f.slots, {"url"}, poll.at)
  <2>1. OneReplaced(f.slots, "url", n, poll.at, u)
    BY <1>4, <1>5, <1>6, ReplacedIs
  <2> HIDE DEF u
  <2> QED  BY <2>1 DEF OneReplaced
<1> HIDE DEF u
<1>10. /\ sampler' \in [gen : Nat, epoch : Nat, slots : OpenSlots, at : 0..MaxTime]
       /\ sampler'.slots = u.slots /\ sampler'.gen = sampler.gen /\ sampler'.at = sampler.at
  BY <1>0, <1>1, <1>9, SamplerSet DEF ActivityTyped
<1>11. ActivityTyped'
  BY <1>0, <1>2, <1>10 DEF ActivityTyped
<1>12. PolicySettled' = PolicySettled /\ PolicyLimit' = PolicyLimit /\ CurrentPolicy' = CurrentPolicy
  BY <1>2 DEF PolicySettled, PolicyLimit, CurrentPolicy
<1>13. ActivityInTime'
  BY <1>0, <1>2, <1>10, <1>12 DEF ActivityInTime
<1>14. \A k \in A!Kinds : SlotRight(k, sampler.slots[k])
  BY <1>0 DEF SlotsRight
<1>15. now \in 0..MaxTime /\ PolicyLimit \in 0..MaxTime /\ PolicyLimit <= now
  BY <1>0, LimitTyped DEF ActivityTyped, ActivityInTime
<1>16. \A s : s # Nil /\ s.ts = poll.at /\ KeptUnder(b, s) => SlotRight(s.kind, s)
  BY <1>3, <1>15 DEF SlotRight
<1>17. \A k \in A!Kinds : SlotRight(k, u.slots[k])
  <2> TAKE k \in A!Kinds
  <2>1. \/ u.slots[k] = sampler.slots[k]
        \/ k = "foreground" /\ u.slots[k] = next
        \/ k = "url" /\ u.slots[k] = n
    BY <1>6, <1>9
  <2>2. SlotRight("foreground", next)
    BY <1>8, <1>16 DEF SlotRight
  <2>3. SlotRight("url", n)
    BY <1>7, <1>16 DEF SlotRight
  <2> QED  BY <2>1, <2>2, <2>3, <1>14
<1>18. SlotsRight'
  BY <1>2, <1>10, <1>12, <1>17 DEF SlotsRight, SlotRight
<1>19. \A r \in closed' : RowRight(r)
  <2>1. \A r \in f.rows : RowRight(r)
    BY <1>0, <1>3, <1>5, <1>6, <1>14, ClosedRight
  <2>2. SlotRight("url", f.slots["url"])
    BY <1>5, <1>6, <1>14
  <2>3. \A r \in u.rows : RowRight(r)
    BY <1>0, <1>3, <1>5, <1>6, <1>9, <2>2, ClosedRight
  <2> QED  BY <1>1, <2>1, <2>3
<1>20. \A r \in closed' : RowRight(r)'
  BY <1>19, <1>2 DEF RowRight
<1>21. PollStands' /\ PollKeeps'
  BY <1>1 DEF PollStands, PollKeeps
<1> QED  BY <1>11, <1>13, <1>18, <1>20, <1>21 DEF ActivityInv

LEMMA NilIsKeepable == Keepable(Nil)
BY DEF Keepable

LEMMA PollFacts ==
  ASSUME ActivityAssumed, ActivityInv, poll # Nil
  PROVE  /\ poll \in PollRecord /\ poll.policy.source /\ ~poll.held /\ poll.at \in 0..MaxTime /\ poll.flips \in Nat
         /\ desk.front \in A!Windows /\ PollKeeps
         /\ poll.policy \in Policies /\ poll.title \in A!Windows \cup {Nil} /\ poll.url \in A!Windows \cup {Nil}
BY DEF ActivityInv, ActivityTyped, PollStands, PollRecord

LEMMA SpanKeepable ==
  ASSUME ActivityAssumed, ActivityInv, poll # Nil,
         NEW what \in {"editor", "browser", "unavailable"}, NEW title \in A!Windows \cup {Nil},
         NEW url \in (A!Windows \X Nat) \cup {Nil},
         what \notin poll.policy.apps,
         title # Nil => poll.policy.titles /\ title \notin poll.policy.hidden,
         url # Nil => poll.policy.urls,
         ~(url # Nil /\ url[2] <= 1 /\ url[1] \in poll.policy.hidden)
  PROVE  Keepable(A!Span("foreground", what, title, url, poll.at))
<1> DEFINE s == A!Span("foreground", what, title, url, poll.at)
<1>1. s.kind = "foreground" /\ s.what = what /\ s.title = title /\ s.url = url /\ s.ts = poll.at
  BY SpanIs
<1>2. s \in OpenSlot
  <2>1. poll.at \in 0..MaxTime
    BY PollFacts
  <2> QED  BY <2>1 DEF A!Span, OpenSlot, A!Kinds
<1> HIDE DEF s
<1>3. KeptUnder([policy |-> poll.policy, held |-> poll.held], s)
  BY <1>1, PollFacts DEF KeptUnder, A!Forbidden
<1> QED  BY <1>1, <1>2, <1>3 DEF Keepable, s

\* A poll that goes on, with what the policy lets it keep.
LEMMA GoesKeepsActivity ==
  ASSUME ActivityAssumed, ActivityInv, poll # Nil, A!Rest, NEW p \in PollRecord, A!Goes(p), PollKeeps',
         p.policy = poll.policy, p.held = poll.held, p.gen = poll.gen, p.at = poll.at
  PROVE  ActivityInv'
<1>0. ActivityTyped /\ ActivityInTime /\ SlotsRight /\ PollStands
  BY DEF ActivityInv
<1>1. poll' = p /\ closed' = {} /\ UNCHANGED <<now, prefs, held, desk, past, sampler>>
  BY DEF A!Goes, A!Rest
<1>2. PolicySettled' = PolicySettled /\ PolicyLimit' = PolicyLimit /\ CurrentPolicy' = CurrentPolicy
  BY <1>1 DEF PolicySettled, PolicyLimit, CurrentPolicy
<1>3. ActivityTyped' /\ ActivityInTime'
  BY <1>0, <1>1, <1>2 DEF ActivityTyped, ActivityInTime
<1>4. SlotsRight'
  BY <1>0, <1>1, <1>2 DEF SlotsRight, SlotRight
<1>5. PollStands'
  BY <1>0, <1>1, <1>2 DEF PollStands
<1> QED  BY <1>1, <1>3, <1>4, <1>5 DEF ActivityInv

LEMMA ReadIdentityKeepsActivity == ASSUME ActivityAssumed, ActivityInv, A!ReadIdentity  PROVE ActivityInv'
<1>1. poll # Nil /\ poll.read = "identity" /\ A!Rest
  BY DEF A!ReadIdentity, A!Reading
<1>2. poll \in PollRecord /\ PollKeeps /\ desk.front \in A!Windows
  BY <1>1, PollFacts
<1>3. CASE /\ A!StillOk(poll) /\ A!App(desk.front) \notin poll.policy.apps
           /\ A!Goes([poll EXCEPT !.window = desk.front, !.read = A!NextRead(poll)])
  <2> DEFINE n == A!NextRead(poll)
             a == [poll EXCEPT !.window = desk.front]
             p == [a EXCEPT !.read = n]
  <2>1. n \in PollReads /\ n \in {"title", "address"} /\ (n = "address" => poll.policy.hidden = {})
    BY DEF A!NextRead, PollReads
  <2>2. p = [poll EXCEPT !.window = desk.front, !.read = n]
    OBVIOUS
  <2>3. A!Goes(p)
    BY <1>3, <2>2
  <2> HIDE DEF n
  <2>4. /\ a \in PollRecord /\ a.window = desk.front /\ a.policy = poll.policy /\ a.held = poll.held
           /\ a.gen = poll.gen
        /\ a.at = poll.at /\ a.title = poll.title /\ a.url = poll.url /\ a.flips = poll.flips
    BY <1>2 DEF PollRecord
  <2> HIDE DEF a
  <2>5. /\ p \in PollRecord /\ p.read = n /\ p.window = desk.front /\ p.policy = poll.policy /\ p.held = poll.held
        /\ p.gen = poll.gen /\ p.at = poll.at /\ p.title = poll.title /\ p.url = poll.url /\ p.flips = poll.flips
    BY <2>1, <2>4 DEF PollRecord
  <2> HIDE DEF p
  <2>6. poll' = p /\ desk' = desk
    BY <1>1, <2>3 DEF A!Goes, A!Rest
  <2>7. PollKeeps'
    BY <1>1, <1>2, <1>3, <2>1, <2>5, <2>6 DEF PollKeeps
  <2> QED  BY <1>1, <2>3, <2>5, <2>7, GoesKeepsActivity
<1>4. CASE A!Finish(poll, Nil)
  BY <1>1, <1>4, NilIsKeepable, FinishKeepsActivity
<1>5. CASE A!Finish(poll, A!Span("foreground", "unavailable", Nil, Nil, poll.at))
  <2>1. "unavailable" \notin poll.policy.apps
    BY <1>2 DEF PollRecord, ActivityAssumed
  <2>2. Keepable(A!Span("foreground", "unavailable", Nil, Nil, poll.at))
    BY <1>1, <2>1, SpanKeepable
  <2> QED  BY <1>1, <1>5, <2>2, FinishKeepsActivity
<1> QED  BY <1>3, <1>4, <1>5 DEF A!ReadIdentity

LEMMA ReadTitleKeepsActivity == ASSUME ActivityAssumed, ActivityInv, A!ReadTitle  PROVE ActivityInv'
<1>1. poll # Nil /\ poll.read = "title" /\ A!Rest
  BY DEF A!ReadTitle, A!Reading
<1>2. poll \in PollRecord /\ PollKeeps /\ desk.front \in A!Windows
  BY <1>1, PollFacts
<1>3. CASE desk.front \notin poll.policy.hidden
             /\ A!Goes([poll EXCEPT !.title = IF poll.policy.titles THEN desk.front ELSE Nil, !.read = "address"])
  <2> DEFINE t == IF poll.policy.titles THEN desk.front ELSE Nil
             a == [poll EXCEPT !.title = t]
             p == [a EXCEPT !.read = "address"]
  <2>1. t \in A!Windows \cup {Nil} /\ (t # Nil => poll.policy.titles /\ t \notin poll.policy.hidden)
    BY <1>2, <1>3
  <2>2. p = [poll EXCEPT !.title = t, !.read = "address"]
    OBVIOUS
  <2>3. A!Goes(p)
    BY <1>3, <2>2
  <2> HIDE DEF t
  <2>4. /\ a \in PollRecord /\ a.title = t /\ a.policy = poll.policy /\ a.held = poll.held /\ a.gen = poll.gen
        /\ a.at = poll.at /\ a.window = poll.window /\ a.url = poll.url /\ a.flips = poll.flips
    BY <1>2, <2>1 DEF PollRecord
  <2> HIDE DEF a
  <2>5. /\ p \in PollRecord /\ p.read = "address" /\ p.window = poll.window /\ p.policy = poll.policy
           /\ p.held = poll.held
        /\ p.gen = poll.gen /\ p.at = poll.at /\ p.title = t /\ p.url = poll.url /\ p.flips = poll.flips
    BY <2>1, <2>4 DEF PollRecord, PollReads
  <2> HIDE DEF p
  <2>6. poll' = p /\ desk' = desk
    BY <1>1, <2>3 DEF A!Goes, A!Rest
  <2>7. PollKeeps'
    BY <1>1, <1>2, <1>3, <2>1, <2>5, <2>6 DEF PollKeeps, PollReads
  <2> QED  BY <1>1, <2>3, <2>5, <2>7, GoesKeepsActivity
<1>4. CASE A!Finish(poll, Nil)
  BY <1>1, <1>4, NilIsKeepable, FinishKeepsActivity
<1> QED  BY <1>3, <1>4 DEF A!ReadTitle

LEMMA ReadAddressKeepsActivity == ASSUME ActivityAssumed, ActivityInv, A!ReadAddress  PROVE ActivityInv'
<1>1. poll # Nil /\ poll.read = "address" /\ A!Rest
  BY DEF A!ReadAddress, A!Reading
<1>2. poll \in PollRecord /\ PollKeeps /\ desk.front \in A!Windows
  BY <1>1, PollFacts
<1>3. ASSUME NEW u \in A!Windows \cup {Nil}, u = poll.url \/ (u = desk.front /\ poll.policy.urls),
             A!Goes([[poll EXCEPT !.url = u] EXCEPT !.read = "again"])
      PROVE  ActivityInv'
  <2> DEFINE a == [poll EXCEPT !.url = u]
             p == [a EXCEPT !.read = "again"]
  <2>4. /\ a \in PollRecord /\ a.title = poll.title /\ a.policy = poll.policy /\ a.held = poll.held
           /\ a.gen = poll.gen
        /\ a.at = poll.at /\ a.window = poll.window /\ a.url = u /\ a.flips = poll.flips
    BY <1>2, <1>3 DEF PollRecord
  <2>3. A!Goes(p)
    BY <1>3
  <2> HIDE DEF a
  <2>5. /\ p \in PollRecord /\ p.read = "again" /\ p.window = poll.window /\ p.policy = poll.policy
           /\ p.held = poll.held
        /\ p.gen = poll.gen /\ p.at = poll.at /\ p.title = poll.title /\ p.url = u /\ p.flips = poll.flips
    BY <2>4 DEF PollRecord, PollReads
  <2> HIDE DEF p
  <2>6. poll' = p /\ desk' = desk
    BY <1>1, <2>3 DEF A!Goes, A!Rest
  <2>7. poll.url = Nil
    BY <1>1, <1>2 DEF PollKeeps
  <2>8. PollKeeps'
    BY <1>1, <1>2, <1>3, <2>5, <2>6, <2>7 DEF PollKeeps, PollReads
  <2> QED  BY <1>1, <2>3, <2>5, <2>8, GoesKeepsActivity
<1>4. CASE A!Goes([poll EXCEPT !.read = "again"])
  <2>1. [poll EXCEPT !.url = poll.url] = poll /\ poll.url \in A!Windows \cup {Nil}
    BY <1>2 DEF PollRecord
  <2> QED  BY <1>3, <1>4, <2>1
<1>5. CASE poll.policy.urls /\ A!Goes([poll EXCEPT !.url = desk.front, !.read = "again"])
  <2>1. [[poll EXCEPT !.url = desk.front] EXCEPT !.read = "again"] = [poll EXCEPT !.url = desk.front, !.read = "again"]
    OBVIOUS
  <2> QED  BY <1>2, <1>3, <1>5, <2>1
<1>6. CASE A!Finish(poll, Nil)
  BY <1>1, <1>6, NilIsKeepable, FinishKeepsActivity
<1> QED  BY <1>4, <1>5, <1>6 DEF A!ReadAddress

LEMMA ReadAgainKeepsActivity == ASSUME ActivityAssumed, ActivityInv, A!ReadAgain  PROVE ActivityInv'
<1>1. poll # Nil /\ poll.read = "again" /\ A!Rest
  BY DEF A!ReadAgain, A!Reading
<1>2. poll \in PollRecord /\ PollKeeps /\ desk.front \in A!Windows /\ poll.flips \in Nat
  BY <1>1, PollFacts
<1> DEFINE t == IF poll.policy.titles /\ poll.policy.hidden # {} THEN desk.front ELSE poll.title
           u == IF poll.url = Nil THEN Nil ELSE <<poll.url, poll.flips>>
<1>3. CASE A!Again /\ A!Finish(poll, A!Span("foreground", A!App(poll.window), t, u, poll.at))
  <2>1. A!App(poll.window) \in {"editor", "browser", "unavailable"} /\ A!App(poll.window) \notin poll.policy.apps
    BY <1>1, <1>2 DEF PollKeeps, A!App
  <2>2. t \in A!Windows \cup {Nil} /\ (t # Nil => poll.policy.titles /\ t \notin poll.policy.hidden)
    BY <1>1, <1>2, <1>3 DEF PollKeeps, PollRecord, A!Again
  <2>3. u \in (A!Windows \X Nat) \cup {Nil} /\ (u # Nil => poll.policy.urls)
    BY <1>1, <1>2 DEF PollKeeps, PollRecord
  <2>4. poll.url # Nil /\ poll.url \in poll.policy.hidden => poll.flips >= 2
    BY <1>1, <1>2, <1>3 DEF PollKeeps, A!Again
  <2>5. ~(u # Nil /\ u[2] <= 1 /\ u[1] \in poll.policy.hidden)
    BY <1>2, <2>4
  <2> HIDE DEF t, u
  <2>6. Keepable(A!Span("foreground", A!App(poll.window), t, u, poll.at))
    BY <1>1, <2>1, <2>2, <2>3, <2>5, SpanKeepable
  <2> QED  BY <1>1, <1>3, <2>6, FinishKeepsActivity
<1>4. CASE A!Finish(poll, Nil)
  BY <1>1, <1>4, NilIsKeepable, FinishKeepsActivity
<1> QED  BY <1>3, <1>4 DEF A!ReadAgain

LEMMA BeginPollKeepsActivity == ASSUME ActivityAssumed, ActivityInv, A!BeginPoll  PROVE ActivityInv'
<1> DEFINE pr  == IF desk.session = cached THEN prefs ELSE A!Bumped(prefs)
           p   == [policy |-> pr.policy, gen |-> pr.gen, epoch |-> desk.session, held |-> held,
                   at |-> now, locked |-> desk.locked, read |-> Nil, window |-> Nil, title |-> Nil,
                   url |-> Nil, flips |-> 0]
           ok  == ~held /\ ~desk.locked
           new == ~ok \/ pr.gen # sampler.gen \/ desk.session # sampler.epoch
           cut == IF pr.boundary = Nil \/ pr.boundary > now THEN now ELSE pr.boundary
           before == IF new THEN A!NoSlots ELSE sampler.slots
           pre == A!Replaced(before, "presence", A!Presence(p), now)
           kept == IF ok /\ p.policy.source THEN pre.slots ELSE A!Without(pre.slots, {"foreground", "url"})
           b   == [policy |-> pr.policy, held |-> held]
<1>0. ActivityTyped /\ ActivityInTime /\ SlotsRight
  BY DEF ActivityInv
<1>1. poll = Nil /\ UNCHANGED <<now, held, desk, past>> /\ prefs' = [pr EXCEPT !.boundary = Nil]
  BY DEF A!BeginPoll
<1>2. IF ~pr.policy.source /\ ~A!HasOpen
      THEN UNCHANGED <<sampler, poll>> /\ closed' = {}
      ELSE /\ sampler' = [gen |-> p.gen, epoch |-> p.epoch, at |-> now, slots |-> kept]
           /\ closed' = pre.rows \cup
                        (IF new THEN A!Rows(sampler.slots, A!Kinds, cut)
                         ELSE IF ok /\ p.policy.source THEN {}
                         ELSE A!Rows(sampler.slots, {"foreground", "url"}, now))
           /\ poll' = IF ok /\ p.policy.source THEN [p EXCEPT !.read = "identity"] ELSE Nil
  BY DEF A!BeginPoll
<1> HIDE DEF A!BeginPoll
<1>3. /\ prefs \in [policy : Policies, gen : Nat, boundary : 0..MaxTime \cup {Nil}] /\ now \in 0..MaxTime
      /\ held \in BOOLEAN /\ desk \in [front : A!Windows, locked : BOOLEAN, session : Nat]
      /\ sampler \in [gen : Nat, epoch : Nat, slots : OpenSlots, at : 0..MaxTime] /\ MaxTime \in Nat
  BY <1>0 DEF ActivityTyped, ActivityAssumed
<1>4. /\ pr \in [policy : Policies, gen : Nat, boundary : 0..MaxTime \cup {Nil}]
      /\ pr.policy = prefs.policy /\ pr.boundary = prefs.boundary
      /\ pr.gen >= sampler.gen /\ (pr.gen = sampler.gen => PolicySettled)
  <2>1. sampler.gen \in Nat /\ sampler.gen <= prefs.gen /\ (~PolicySettled => sampler.gen # prefs.gen)
    BY <1>0, <1>3 DEF ActivityInTime
  <2>2. CASE desk.session = cached
    BY <2>1, <2>2, <1>3
  <2>3. CASE desk.session # cached
    <3>1. pr = [prefs EXCEPT !.gen = @ + 1]
      BY <2>3 DEF A!Bumped
    <3> QED  BY <2>1, <3>1, <1>3
  <2> QED  BY <2>2, <2>3
<1>5. p.policy = pr.policy /\ p.gen = pr.gen /\ p.epoch = desk.session /\ p.held = held /\ p.at = now
  OBVIOUS
<1>6. [p EXCEPT !.read = "identity"] \in PollRecord
  BY <1>3, <1>4 DEF PollRecord, PollReads
<1>7. LET q == [p EXCEPT !.read = "identity"]
      IN /\ q.policy = pr.policy /\ q.gen = pr.gen /\ q.held = held /\ q.at = now /\ q.read = "identity"
         /\ q.title = Nil /\ q.url = Nil
  OBVIOUS
<1>8. cut = PolicyLimit /\ PolicyLimit \in 0..MaxTime
  <2>1. PolicyLimit <= now
    BY <1>0 DEF ActivityInTime
  <2> QED  BY <2>1, <1>3, <1>4, <1>0, LimitTyped DEF PolicyLimit, PolicySettled, ActivityAssumed
<1>9. ~new => PolicySettled /\ PolicyLimit = now
  BY <1>4 DEF PolicyLimit
<1>10. /\ prefs' \in [policy : Policies, gen : Nat, boundary : 0..MaxTime \cup {Nil}]
       /\ prefs'.policy = prefs.policy /\ prefs'.gen = pr.gen /\ prefs'.boundary = Nil
  <2> HIDE DEF pr
  <2> QED  BY <1>1, <1>4
<1>11. PolicySettled' /\ PolicyLimit' = now /\ CurrentPolicy' = b /\ CurrentPolicy = b
  BY <1>1, <1>4, <1>10 DEF PolicySettled, PolicyLimit, CurrentPolicy
<1> HIDE DEF cut, pr
<1>12. A!Presence(p) # Nil =>
         A!Presence(p) \in OpenSlot /\ A!Presence(p).kind = "presence" /\ A!Presence(p).ts = now /\ pr.policy.source
           /\ ~held
  BY <1>3, <1>5, PresenceIs
<1>13. before \in OpenSlots /\ \A k \in A!Kinds : before[k] = Nil \/ (~new /\ before[k] = sampler.slots[k])
  BY <1>3, NoSlotsTyped
<1>14. OneReplaced(before, "presence", A!Presence(p), now, pre)
  <2>1. "presence" \in A!Kinds /\ A!Presence(p) \in OpenSlot \cup {Nil}
    BY <1>12 DEF A!Kinds
  <2> QED  BY <1>13, <2>1, ReplacedIs
<1> DEFINE w == A!Presence(p)
<1>15. w # Nil => w \in OpenSlot /\ w.kind = "presence" /\ w.ts = now /\ KeptUnder(b, w)
  <2> HAVE w # Nil
  <2>1. w \in OpenSlot /\ w.kind = "presence" /\ w.ts = now /\ pr.policy.source /\ ~held
    BY <1>12
  <2> HIDE DEF w
  <2>2. KeptUnder(b, w)
    BY <2>1, OthersAreKept
  <2> QED  BY <2>1, <2>2
<1>16. /\ pre.slots \in OpenSlots
       /\ \A k \in A!Kinds : pre.slots[k] = before[k] \/ (k = "presence" /\ pre.slots[k] = w)
       /\ pre.rows = {} \/ pre.rows = A!Rows(before, {"presence"}, now)
  <2> HIDE DEF pre, before, w
  <2> QED  BY <1>14 DEF OneReplaced, w
<1>17. kept \in OpenSlots /\ \A k \in A!Kinds : kept[k] = Nil \/ kept[k] = pre.slots[k]
  <2> HIDE DEF pre
  <2> QED  BY <1>16, WithoutTyped
<1> HIDE DEF pre, before, w, p, kept
<1>18. ActivityTyped'
  <2>1. sampler' \in [gen : Nat, epoch : Nat, slots : OpenSlots, at : 0..MaxTime]
    BY <1>2, <1>3, <1>4, <1>5, <1>17
  <2> QED  BY <1>0, <1>1, <1>3, <1>10, <2>1 DEF ActivityTyped
<1>19. ActivityInTime'
  BY <1>0, <1>1, <1>2, <1>3, <1>4, <1>5, <1>10, <1>11 DEF ActivityInTime
<1>20. SlotsRight'
  <2>1. CASE ~pr.policy.source /\ ~A!HasOpen
    BY <2>1, <1>2 DEF A!HasOpen, SlotsRight, SlotRight
  <2>2. CASE ~(~pr.policy.source /\ ~A!HasOpen)
    <3>1. sampler'.slots = kept /\ sampler'.at = now
      BY <1>2, <2>2
    <3> SUFFICES ASSUME NEW k \in A!Kinds, kept[k] # Nil  PROVE SlotRight(k, sampler.slots[k])'
      BY <3>1 DEF SlotsRight, SlotRight
    <3>2. CASE ~new /\ kept[k] = sampler.slots[k]
      <4>1. PolicySettled /\ PolicyLimit = now
        BY <3>2, <1>9
      <4>2. SlotRight(k, sampler.slots[k]) /\ sampler.at \in 0..MaxTime /\ sampler.at <= now
        BY <1>0, <1>3 DEF SlotsRight, ActivityInTime
      <4> DEFINE s == sampler.slots[k]
      <4>3. /\ s.kind = k /\ s.ts <= now
            /\ \A i \in 0..MaxTime : i < now /\ (s.ts <= i \/ sampler.at <= i) => KeptUnder(past[i], s)
            /\ KeptUnder(b, s)
        BY <4>1, <4>2, <3>2, <1>11 DEF SlotRight
      <4>4. sampler'.slots[k] = s
        BY <3>1, <3>2
      <4> HIDE DEF s
      <4>5. \A i \in 0..MaxTime : i < now /\ (s.ts <= i \/ now <= i) => KeptUnder(past[i], s)
        BY <4>3, <1>3
      <4> QED  BY <1>1, <1>11, <3>1, <4>3, <4>4, <4>5 DEF SlotRight
    <3>3. CASE k = "presence" /\ kept[k] = w
      <4>1. w.kind = k /\ w.ts = now /\ KeptUnder(b, w)
        BY <1>15, <3>3
      <4> QED  BY <1>1, <1>3, <1>11, <3>1, <3>3, <4>1 DEF SlotRight
    <3> QED  BY <3>2, <3>3, <1>13, <1>16, <1>17
  <2> QED  BY <2>1, <2>2
<1>21. PollStands' /\ PollKeeps'
  <2>1. CASE poll' = Nil
    BY <2>1 DEF PollStands, PollKeeps
  <2>2. CASE poll' # Nil
    <3>1. /\ sampler'.gen = pr.gen /\ sampler'.at = now /\ pr.policy.source /\ ~held
          /\ poll' = [p EXCEPT !.read = "identity"]
      BY <2>2, <1>1, <1>2, <1>5
    <3>2. /\ poll' \in PollRecord /\ poll'.policy = pr.policy /\ poll'.gen = pr.gen /\ poll'.held = held
             /\ poll'.at = now
          /\ poll'.read = "identity" /\ poll'.title = Nil /\ poll'.url = Nil
      BY <3>1, <1>6, <1>7 DEF p
    <3>3. PollStands'
      BY <1>1, <1>3, <1>11, <3>1, <3>2 DEF PollStands
    <3>4. PollKeeps'
      BY <3>2 DEF PollKeeps, PollReads
    <3> QED  BY <3>3, <3>4
  <2> QED  BY <2>1, <2>2
<1>22. \A r \in closed' : RowRight(r)
  <2>1. sampler.slots \in OpenSlots /\ \A k \in A!Kinds : SlotRight(k, sampler.slots[k])
    BY <1>0, <1>3 DEF SlotsRight
  <2>2. \A r \in A!Rows(sampler.slots, A!Kinds, cut) : RowRight(r)
    BY <1>0, <1>3, <1>8, <2>1, ClosedRight
  <2>3. ~new => \A r \in A!Rows(sampler.slots, {"foreground", "url"}, now) : RowRight(r)
    <3> HAVE ~new
    <3>1. now <= PolicyLimit /\ {"foreground", "url"} \in SUBSET A!Kinds
      BY <1>3, <1>9 DEF A!Kinds
    <3> QED  BY <1>0, <1>3, <2>1, <3>1, ClosedRight
  <2>4. \A r \in pre.rows : RowRight(r)
    <3>1. CASE ~new
      <4>1. now <= PolicyLimit /\ {"presence"} \in SUBSET A!Kinds /\ PolicyLimit = now
        BY <3>1, <1>3, <1>9 DEF A!Kinds
      <4>2. SlotRight("presence", before["presence"])
        BY <1>13, <2>1, <4>1 DEF SlotRight
      <4> QED  BY <1>0, <1>3, <1>13, <1>16, <4>1, <4>2, ClosedRight
    <3>2. CASE new
      <4>1. before["presence"] = Nil
        BY <3>2, <1>13 DEF A!Kinds
      <4>2. A!Rows(before, {"presence"}, now) = {}
        BY <4>1 DEF A!Rows
      <4> QED  BY <1>16, <4>2
    <3> QED  BY <3>1, <3>2
  <2> QED  BY <1>2, <2>2, <2>3, <2>4
<1>23. \A r \in closed' : RowRight(r)'
  BY <1>22, <1>1 DEF RowRight
<1> QED  BY <1>18, <1>19, <1>20, <1>21, <1>23 DEF ActivityInv

LEMMA ActivityStep == ASSUME ActivityAssumed, ActivityInv, [A!Next]_(A!avars)  PROVE ActivityInv'
<1>1. CASE \E p \in Policies : A!ApplyPolicy(p)
  BY <1>1, ApplyPolicyKeepsActivity
<1>2. CASE A!BeginPoll
  BY <1>2, BeginPollKeepsActivity
<1>3. CASE A!ReadIdentity
  BY <1>3, ReadIdentityKeepsActivity
<1>4. CASE A!ReadTitle
  BY <1>4, ReadTitleKeepsActivity
<1>5. CASE A!ReadAddress
  BY <1>5, ReadAddressKeepsActivity
<1>6. CASE A!ReadAgain
  BY <1>6, ReadAgainKeepsActivity
<1>7. CASE \E p \in BOOLEAN : A!Pause(p)
  BY <1>7, PauseKeepsActivity
<1>8. CASE \E at \in 0..MaxTime, next \in BOOLEAN : A!Boundary(at, next)
  BY <1>8, BoundaryKeepsActivity
<1>9. CASE A!DeskMoves
  BY <1>9, DeskMovesKeepsActivity
<1>10. CASE A!Tick
  BY <1>10, TickKeepsActivity
<1>11. CASE UNCHANGED A!avars
  BY <1>11 DEF A!avars, ActivityInv, ActivityTyped, ActivityInTime, SlotsRight, SlotRight, PollStands, PollKeeps,
     RowRight, PolicyLimit,
               PolicySettled, CurrentPolicy
<1> QED  BY <1>1, <1>2, <1>3, <1>4, <1>5, <1>6, <1>7, <1>8, <1>9, <1>10, <1>11 DEF A!Next

-----------------------------------------------------------------------------
(* The video *)

VideoAssumed == MaxAsks \in Nat /\ MaxFaults \in Nat

VideoAnswers == {"none", "films", "failed", "stopped"}
CallerRecord == [at : {"free", "waiting", "late", "done"}, id : 0..MaxAsks, wants : {"start", "stop"},
                 answer : VideoAnswers, films : BOOLEAN, sound : BOOLEAN]
CommandRecord == [what : {"start", "stop", "shutdown"}, id : 0..MaxAsks]
CameraRecord == [at : {"idle", "creating", "selecting", "starting", "opening", "replying", "gone"}, id : 0..MaxAsks,
                 carried : Nat, session : BOOLEAN, todo : SUBSET Videos, answer : VideoAnswers]
PortalRecord == [open : BOOLEAN, honours : Nat, given : Nat]
TallyRecord == [faults : 0..MaxFaults, lost : BOOLEAN, missed : BOOLEAN]

VideoTyped ==
  /\ caller \in CallerRecord /\ commands \in Seq(CommandRecord) /\ camera \in CameraRecord
  /\ ended \subseteq tracked /\ tracked \subseteq Videos
  /\ healthy \in BOOLEAN /\ signal \in {"none", "given", "over"}
  /\ portal \in PortalRecord /\ grant \in 0..portal.given /\ tally \in TallyRecord

LEMMA CommandsTyped ==
  ASSUME VideoTyped, NEW i \in 1..Len(commands)
  PROVE  commands[i] \in CommandRecord /\ commands[i].id \in 0..MaxAsks /\ i \in DOMAIN commands
<1>1. commands[i] \in CommandRecord /\ i \in DOMAIN commands
  BY ElementOfSeq, LenProperties DEF VideoTyped
<1> QED  BY <1>1 DEF CommandRecord

LEMMA VideoTypedIsTyped == VideoTyped => V!TypeOK
<1> SUFFICES ASSUME VideoTyped  PROVE V!TypeOK
  OBVIOUS
<1>1. \A i \in DOMAIN commands : commands[i] \in [what : {"start", "stop", "shutdown"}, id : 0..MaxAsks]
  BY CommandsTyped, LenProperties DEF VideoTyped, CommandRecord
<1>2. /\ caller \in [at : {"free", "waiting", "late", "done"}, id : 0..MaxAsks, wants : {"start", "stop"},
                     answer : {"none", "films", "failed", "stopped"}, films : BOOLEAN, sound : BOOLEAN]
      /\ camera \in [at : {"idle", "creating", "selecting", "starting", "opening", "replying", "gone"},
                     id : 0..MaxAsks,
                     carried : Nat, session : BOOLEAN, todo : SUBSET Videos,
                     answer : {"none", "films", "failed", "stopped"}]
  BY DEF VideoTyped, CallerRecord, CameraRecord, VideoAnswers
<1>3. portal \in [open : BOOLEAN, honours : Nat, given : Nat]
      /\ tally \in [faults : 0..MaxFaults, lost : BOOLEAN, missed : BOOLEAN]
  BY DEF VideoTyped, PortalRecord, TallyRecord
<1> QED  BY <1>1, <1>2, <1>3 DEF VideoTyped, V!TypeOK

IsAsking == caller.at \in {"waiting", "late"}

\* The calls the thread has not taken come after the one it has, in the order they were asked in,
\* and once the loop has dropped the capture the last command is the one that says so.
QueueInOrder ==
  /\ caller.at # "done" => camera.id <= caller.id
  /\ \A i \in 1..Len(commands) : caller.at # "done" =>
       /\ commands[i].what # "shutdown"
       /\ camera.id < commands[i].id /\ commands[i].id <= caller.id
       /\ \A j \in 1..Len(commands) : i < j => commands[i].id < commands[j].id
  /\ caller.at = "done" /\ camera.at # "gone" => commands # <<>> /\ commands[Len(commands)].what = "shutdown"

\* An answer waits for the loop only when the thread has nothing left to do.
AnswersComeLast ==
  /\ ~IsAsking => caller.answer = "none"
  /\ IsAsking /\ caller.answer # "none" => commands = <<>> /\ camera.at = "idle"
  /\ IsAsking /\ caller.answer = "stopped" => tracked = {}
  /\ IsAsking /\ caller.wants = "start" => ~caller.films

\* What the thread has open at each of its places.
CameraStands ==
  /\ camera.at = "idle" => camera.id = 0
  /\ camera.at \in {"idle", "creating", "replying", "gone"} =>
       camera.session = portal.open /\ (portal.open <=> tracked # {})
  /\ camera.at \in {"creating", "selecting", "starting", "gone"} => tracked = {}
  /\ camera.at \in {"selecting", "starting", "opening"} => camera.session /\ portal.open
  /\ camera.at = "replying" /\ camera.answer = "films" => tracked # {} /\ (healthy \/ ended # {})
  /\ camera.at = "replying" /\ camera.answer = "stopped" => tracked = {}
  /\ camera.at = "replying" => camera.answer # "none"

\* The grant that is carried is the one that is stored, and no grant is one the desktop has not given.
GrantStands ==
  /\ portal.honours <= portal.given
  /\ camera.at \in {"selecting", "starting"} => camera.carried = grant
  /\ V!GrantIsKept

\* A film that runs is one the loop knows of, or is about to hear of.
FilmsAreTold == caller.films \/ (caller.at = "waiting" /\ caller.answer = "films")
FilmsAreKnown ==
  ~tally.missed /\ caller.at # "done" /\ tracked # {}
  /\ (camera.at = "idle" \/ (camera.at = "replying" /\ camera.answer = "failed"))
  => FilmsAreTold

\* A film the loop knows of runs, or the thread is gone.
KnownFilmsRun ==
  (caller.films /\ caller.sound /\ caller.at = "free") \/ (caller.at = "waiting" /\ caller.answer = "films") =>
  /\ commands = <<>>
  /\ camera.at = "gone" \/ (camera.at = "idle" /\ tracked # {} /\ (healthy \/ ended # {}))

VideoInv ==
  VideoTyped /\ QueueInOrder /\ AnswersComeLast /\ CameraStands /\ GrantStands /\ FilmsAreKnown /\ KnownFilmsRun

LEMMA CommandsHeadAndTail ==
  ASSUME VideoTyped, commands # <<>>
  PROVE  /\ Head(commands) \in CommandRecord /\ Head(commands) = commands[1]
         /\ Tail(commands) \in Seq(CommandRecord) /\ Len(Tail(commands)) = Len(commands) - 1
            /\ Len(commands) \in Nat \ {0}
         /\ \A i \in 1..Len(Tail(commands)) : Tail(commands)[i] = commands[i + 1]
         /\ Tail(commands) = <<>> => Len(commands) = 1
<1>1. /\ Head(commands) = commands[1] /\ Len(commands) \in Nat \ {0} /\ Len(Tail(commands)) = Len(commands) - 1
      /\ Tail(commands) \in Seq(CommandRecord)
         /\ \A i \in 1..Len(Tail(commands)) : Tail(commands)[i] = commands[i + 1]
  BY HeadTailProperties, EmptySeq DEF VideoTyped
<1>2. Head(commands) \in CommandRecord
  BY <1>1, ElementOfSeq DEF VideoTyped
<1>3. Tail(commands) = <<>> => Len(commands) = 1
  BY <1>1
<1> QED  BY <1>1, <1>2, <1>3

\* What follows the first command follows it in order.
LEMMA TailInOrder ==
  ASSUME Len(commands) \in Nat, Len(commands') = Len(commands) - 1,
         \A i \in 1..Len(commands') : commands'[i] = commands[i + 1],
         \A i \in 1..Len(commands) : commands[i].what # "shutdown" /\ commands[i].id <= caller.id,
         \A i, j \in 1..Len(commands) : i < j => commands[i].id < commands[j].id
  PROVE  \A i \in 1..Len(commands') :
           /\ commands'[i].what # "shutdown" /\ commands[1].id < commands'[i].id /\ commands'[i].id <= caller.id
           /\ \A j \in 1..Len(commands') : i < j => commands'[i].id < commands'[j].id
<1> TAKE i \in 1..Len(commands')
<1>1. commands'[i] = commands[i + 1] /\ i + 1 \in 1..Len(commands) /\ 1 \in 1..Len(commands) /\ 1 < i + 1
  OBVIOUS
<1>2. commands'[i].what # "shutdown" /\ commands[1].id < commands'[i].id /\ commands'[i].id <= caller.id
  BY <1>1
<1>3. ASSUME NEW j \in 1..Len(commands'), i < j  PROVE commands'[i].id < commands'[j].id
  <2>1. commands'[j] = commands[j + 1] /\ j + 1 \in 1..Len(commands) /\ i + 1 < j + 1
    BY <1>3
  <2> QED  BY <1>1, <2>1
<1> QED  BY <1>2, <1>3

LEMMA CommandAppended ==
  ASSUME VideoTyped, NEW c \in CommandRecord, commands' = Append(commands, c)
  PROVE  /\ commands' \in Seq(CommandRecord) /\ Len(commands) \in Nat /\ Len(commands') = Len(commands) + 1
         /\ commands' # <<>> /\ commands'[Len(commands) + 1] = c
         /\ \A i \in 1..Len(commands) : commands'[i] = commands[i]
BY AppendProperties, LenProperties DEF VideoTyped

LEMMA GivenUpTo ==
  ASSUME VideoTyped, NEW h \in Nat, V!GivenUp(h)
  PROVE  /\ portal' \in PortalRecord /\ ~portal'.open /\ portal'.honours = h
         /\ portal'.given >= portal.given /\ portal'.given >= h
<1>1. portal' = [open |-> FALSE, honours |-> h, given |-> IF h > portal.given THEN h ELSE portal.given]
  BY DEF V!GivenUp, VideoTyped, PortalRecord
<1> QED  BY <1>1 DEF VideoTyped, PortalRecord

LEMMA AskKeepsVideo == ASSUME VideoAssumed, VideoInv, NEW what \in {"start", "stop"}, V!Ask(what)  PROVE VideoInv'
<1> USE DEF V!Ask
<1>0. /\ caller' = [at |-> "waiting", id |-> caller.id + 1, wants |-> what, answer |-> "none",
                   films |-> caller.films, sound |-> caller.sound]
      /\ caller.id + 1 \in 0..MaxAsks
  <2>1. caller.id + 1 \in 0..MaxAsks
    BY DEF VideoAssumed, VideoInv, VideoTyped, CallerRecord
  <2>2. caller' = [at |-> "waiting", id |-> caller.id + 1, wants |-> what, answer |-> "none",
                   films |-> caller.films, sound |-> caller.sound]
    BY DEF VideoInv, VideoTyped, CallerRecord
  <2> QED  BY <2>1, <2>2
<1>a. PICK c \in CommandRecord : c = [what |-> what, id |-> caller.id + 1] /\ commands' = Append(commands, c)
  BY <1>0 DEF CommandRecord
<1>1. VideoTyped'
  <2>1. caller' \in CallerRecord
    BY <1>0 DEF VideoInv, VideoTyped, CallerRecord, VideoAnswers
  <2>2. commands' \in Seq(CommandRecord)
    BY <1>a, CommandAppended DEF VideoInv
  <2>3. camera' \in CameraRecord
    BY <1>0, <1>a, CommandsHeadAndTail DEF VideoAssumed, VideoInv, VideoTyped, CameraRecord, CommandRecord,
       PortalRecord, VideoAnswers, V!Idle
  <2>4. portal' \in PortalRecord /\ grant' \in 0..portal.given' /\ tally' \in TallyRecord
    BY <1>0, <1>a DEF VideoAssumed, VideoInv, VideoTyped, PortalRecord, TallyRecord
  <2>5. ended' \subseteq tracked' /\ tracked' \subseteq Videos /\ healthy' \in BOOLEAN
        /\ signal' \in {"none", "given", "over"}
    BY DEF VideoInv, VideoTyped
  <2> QED  BY <2>1, <2>2, <2>3, <2>4, <2>5 DEF VideoTyped
<1>2. QueueInOrder'
  <2>1. /\ commands' # <<>> /\ Len(commands) \in Nat /\ Len(commands') = Len(commands) + 1
        /\ commands'[Len(commands) + 1].what = what /\ commands'[Len(commands) + 1].id = caller.id + 1
        /\ \A i \in 1..Len(commands) : commands'[i] = commands[i]
    BY <1>a, CommandAppended DEF VideoInv
  <2>2. /\ caller'.id = caller.id + 1 /\ caller.id \in Nat /\ camera.id \in Nat /\ caller'.at # "done"
           /\ camera.at # "gone"
        /\ \A i \in 1..Len(commands) : commands[i].id \in Nat
    <3>1. caller.id \in 0..MaxAsks /\ camera.id \in 0..MaxAsks /\ caller'.id = caller.id + 1 /\ caller'.at = "waiting"
      BY <1>0 DEF VideoInv, VideoTyped, CallerRecord, CameraRecord
    <3> QED  BY <3>1, CommandsTyped DEF VideoInv
  <2> HIDE DEF V!Ask
  <2>3. caller.at # "done" /\ camera' = camera
    BY DEF V!Ask
  <2>4. \A i \in 1..Len(commands') : i \in 1..Len(commands) \/ i = Len(commands) + 1
    BY <2>1
  <2>5. /\ camera.id <= caller.id
        /\ \A i \in 1..Len(commands) :
             /\ commands[i].what # "shutdown" /\ camera.id < commands[i].id /\ commands[i].id <= caller.id
             /\ \A j \in 1..Len(commands) : i < j => commands[i].id < commands[j].id
    BY <2>3 DEF VideoInv, QueueInOrder
  <2>6. \A i \in 1..Len(commands') :
          /\ commands'[i].what # "shutdown" /\ camera.id < commands'[i].id /\ commands'[i].id <= caller'.id
          /\ \A j \in 1..Len(commands') : i < j => commands'[i].id < commands'[j].id
    <3> TAKE i \in 1..Len(commands')
    <3>1. CASE i \in 1..Len(commands)
      <4>1. commands'[i] = commands[i] /\ commands[i].id <= caller.id + 1 /\ commands[i].id < caller.id + 1
        BY <2>1, <2>2, <2>5, <3>1
      <4>2. \A j \in 1..Len(commands') : i < j => commands[i].id < commands'[j].id
        BY <2>1, <2>4, <2>5, <3>1, <4>1
      <4> QED  BY <2>2, <2>5, <3>1, <4>1, <4>2
    <3>2. CASE i = Len(commands) + 1
      BY <2>1, <2>2, <2>5, <3>2
    <3> QED  BY <2>4, <3>1, <3>2
  <2> QED  BY <2>2, <2>3, <2>5, <2>6 DEF QueueInOrder
<1>3. AnswersComeLast'
  BY DEF VideoInv, VideoTyped, VideoAnswers, CallerRecord, CameraRecord, PortalRecord, TallyRecord,
     CommandRecord, QueueInOrder, AnswersComeLast, IsAsking, V!Idle, KnownFilmsRun, CameraStands
<1>4. CameraStands'
  BY <1>0, <1>a DEF VideoInv, VideoTyped, VideoAnswers, CallerRecord, CameraRecord, PortalRecord, TallyRecord,
     CommandRecord, CameraStands, V!Idle
<1>5. GrantStands'
  BY <1>0, <1>a DEF VideoInv, VideoTyped, VideoAnswers, CallerRecord, CameraRecord, PortalRecord, TallyRecord,
     CommandRecord, CameraStands, GrantStands, V!GrantIsKept, V!Idle
<1>6. FilmsAreKnown' /\ KnownFilmsRun'
  BY <1>0, <1>a DEF VideoInv, VideoTyped, VideoAnswers, CallerRecord, CameraRecord, PortalRecord, TallyRecord,
     CommandRecord, QueueInOrder, AnswersComeLast, IsAsking, CameraStands, FilmsAreKnown, FilmsAreTold,
     KnownFilmsRun, V!Idle
<1> QED  BY <1>1, <1>2, <1>3, <1>4, <1>5, <1>6 DEF VideoInv

LEMMA ReceiveKeepsVideo == ASSUME VideoAssumed, VideoInv, V!Receive  PROVE VideoInv'
<1> USE DEF V!Receive, V!Answered
<1>1. VideoTyped'
  <2>1. caller' \in CallerRecord
    BY DEF VideoAssumed, VideoInv, VideoTyped, CallerRecord, CameraRecord, VideoAnswers
  <2>2. commands' \in Seq(CommandRecord)
    BY CommandsHeadAndTail DEF VideoAssumed, VideoInv, VideoTyped, CommandRecord, CallerRecord
  <2>3. camera' \in CameraRecord
    BY CommandsHeadAndTail DEF VideoAssumed, VideoInv, VideoTyped, CameraRecord, CommandRecord, PortalRecord,
       VideoAnswers, V!Idle
  <2>4. portal' \in PortalRecord /\ grant' \in 0..portal.given' /\ tally' \in TallyRecord
    BY DEF VideoAssumed, VideoInv, VideoTyped, PortalRecord, TallyRecord
  <2>5. ended' \subseteq tracked' /\ tracked' \subseteq Videos /\ healthy' \in BOOLEAN
        /\ signal' \in {"none", "given", "over"}
    BY DEF VideoInv, VideoTyped
  <2> QED  BY <2>1, <2>2, <2>3, <2>4, <2>5 DEF VideoTyped
<1>2. QueueInOrder'
  BY CommandsHeadAndTail DEF VideoInv, VideoTyped, VideoAnswers, CallerRecord, CameraRecord, PortalRecord,
     TallyRecord, CommandRecord, QueueInOrder, V!Idle
<1>3. AnswersComeLast'
  BY DEF VideoInv, VideoTyped, VideoAnswers, CallerRecord, CameraRecord, PortalRecord, TallyRecord,
     CommandRecord, QueueInOrder, AnswersComeLast, IsAsking, V!Idle, KnownFilmsRun, CameraStands
<1>4. CameraStands'
  BY DEF VideoInv, VideoTyped, VideoAnswers, CallerRecord, CameraRecord, PortalRecord, TallyRecord,
     CommandRecord, CameraStands, V!Idle
<1>5. GrantStands'
  BY DEF VideoInv, VideoTyped, VideoAnswers, CallerRecord, CameraRecord, PortalRecord, TallyRecord,
     CommandRecord, CameraStands, GrantStands, V!GrantIsKept, V!Idle
<1>6. FilmsAreKnown' /\ KnownFilmsRun'
  <2>1. /\ caller'.at = "free" /\ caller'.sound \in {caller.sound, FALSE} /\ caller'.answer = "none"
        /\ caller'.films = ((caller.answer = "films") \/ (caller.films /\ caller.answer = "failed"))
        /\ caller.at = "waiting" /\ caller.answer \in {"films", "failed", "stopped"}
    BY DEF VideoInv, VideoTyped, CallerRecord, VideoAnswers
  <2>2. /\ commands = <<>> /\ camera.at = "idle" /\ (caller'.sound => caller.wants = "start" \/ caller.answer = "stopped")
        /\ caller.wants = "start" => ~caller.films
        /\ caller.answer = "stopped" => tracked = {}
    BY DEF VideoInv, VideoTyped, AnswersComeLast, IsAsking, CallerRecord
  <2>3. FilmsAreKnown'
    BY <2>1, <2>2 DEF VideoInv, FilmsAreKnown, FilmsAreTold
  <2> QED  BY <2>1, <2>2, <2>3 DEF VideoInv, KnownFilmsRun
<1> QED  BY <1>1, <1>2, <1>3, <1>4, <1>5, <1>6 DEF VideoInv

LEMMA DisconnectedKeepsVideo == ASSUME VideoAssumed, VideoInv, V!Disconnected  PROVE VideoInv'
<1> USE DEF V!Disconnected, V!Answered
<1>1. VideoTyped'
  <2>1. caller' \in CallerRecord
    BY DEF VideoAssumed, VideoInv, VideoTyped, CallerRecord, CameraRecord, VideoAnswers
  <2>2. commands' \in Seq(CommandRecord)
    BY CommandsHeadAndTail DEF VideoAssumed, VideoInv, VideoTyped, CommandRecord, CallerRecord
  <2>3. camera' \in CameraRecord
    BY CommandsHeadAndTail DEF VideoAssumed, VideoInv, VideoTyped, CameraRecord, CommandRecord, PortalRecord,
       VideoAnswers, V!Idle
  <2>4. portal' \in PortalRecord /\ grant' \in 0..portal.given' /\ tally' \in TallyRecord
    BY DEF VideoAssumed, VideoInv, VideoTyped, PortalRecord, TallyRecord
  <2>5. ended' \subseteq tracked' /\ tracked' \subseteq Videos /\ healthy' \in BOOLEAN
        /\ signal' \in {"none", "given", "over"}
    BY DEF VideoInv, VideoTyped
  <2> QED  BY <2>1, <2>2, <2>3, <2>4, <2>5 DEF VideoTyped
<1>2. QueueInOrder'
  BY CommandsHeadAndTail DEF VideoInv, VideoTyped, VideoAnswers, CallerRecord, CameraRecord, PortalRecord,
     TallyRecord, CommandRecord, QueueInOrder, V!Idle
<1>3. AnswersComeLast'
  BY DEF VideoInv, VideoTyped, VideoAnswers, CallerRecord, CameraRecord, PortalRecord, TallyRecord,
     CommandRecord, QueueInOrder, AnswersComeLast, IsAsking, V!Idle, KnownFilmsRun, CameraStands
<1>4. CameraStands'
  BY DEF VideoInv, VideoTyped, VideoAnswers, CallerRecord, CameraRecord, PortalRecord, TallyRecord,
     CommandRecord, CameraStands, V!Idle
<1>5. GrantStands'
  BY DEF VideoInv, VideoTyped, VideoAnswers, CallerRecord, CameraRecord, PortalRecord, TallyRecord,
     CommandRecord, CameraStands, GrantStands, V!GrantIsKept, V!Idle
<1>6. FilmsAreKnown' /\ KnownFilmsRun'
  BY DEF VideoInv, VideoTyped, VideoAnswers, CallerRecord, CameraRecord, PortalRecord, TallyRecord,
     CommandRecord, QueueInOrder, AnswersComeLast, IsAsking, CameraStands, FilmsAreKnown, FilmsAreTold,
     KnownFilmsRun, V!Idle
<1> QED  BY <1>1, <1>2, <1>3, <1>4, <1>5, <1>6 DEF VideoInv

LEMMA RunOutKeepsVideo == ASSUME VideoAssumed, VideoInv, V!RunOut  PROVE VideoInv'
<1> USE DEF V!RunOut, V!Faulted, V!Fault
<1>1. VideoTyped'
  <2>1. caller' \in CallerRecord
    BY DEF VideoAssumed, VideoInv, VideoTyped, CallerRecord, CameraRecord, VideoAnswers
  <2>2. commands' \in Seq(CommandRecord)
    BY CommandsHeadAndTail DEF VideoAssumed, VideoInv, VideoTyped, CommandRecord, CallerRecord
  <2>3. camera' \in CameraRecord
    BY CommandsHeadAndTail DEF VideoAssumed, VideoInv, VideoTyped, CameraRecord, CommandRecord, PortalRecord,
       VideoAnswers, V!Idle
  <2>4. portal' \in PortalRecord /\ grant' \in 0..portal.given' /\ tally' \in TallyRecord
    BY DEF VideoAssumed, VideoInv, VideoTyped, PortalRecord, TallyRecord
  <2>5. ended' \subseteq tracked' /\ tracked' \subseteq Videos /\ healthy' \in BOOLEAN
        /\ signal' \in {"none", "given", "over"}
    BY DEF VideoInv, VideoTyped
  <2> QED  BY <2>1, <2>2, <2>3, <2>4, <2>5 DEF VideoTyped
<1>2. QueueInOrder'
  BY CommandsHeadAndTail DEF VideoInv, VideoTyped, VideoAnswers, CallerRecord, CameraRecord, PortalRecord,
     TallyRecord, CommandRecord, QueueInOrder, V!Idle
<1>3. AnswersComeLast'
  BY DEF VideoInv, VideoTyped, VideoAnswers, CallerRecord, CameraRecord, PortalRecord, TallyRecord,
     CommandRecord, QueueInOrder, AnswersComeLast, IsAsking, V!Idle, KnownFilmsRun, CameraStands
<1>4. CameraStands'
  BY DEF VideoInv, VideoTyped, VideoAnswers, CallerRecord, CameraRecord, PortalRecord, TallyRecord,
     CommandRecord, CameraStands, V!Idle
<1>5. GrantStands'
  BY DEF VideoInv, VideoTyped, VideoAnswers, CallerRecord, CameraRecord, PortalRecord, TallyRecord,
     CommandRecord, CameraStands, GrantStands, V!GrantIsKept, V!Idle
<1>6. FilmsAreKnown' /\ KnownFilmsRun'
  BY DEF VideoInv, VideoTyped, VideoAnswers, CallerRecord, CameraRecord, PortalRecord, TallyRecord,
     CommandRecord, QueueInOrder, AnswersComeLast, IsAsking, CameraStands, FilmsAreKnown, FilmsAreTold,
     KnownFilmsRun, V!Idle
<1> QED  BY <1>1, <1>2, <1>3, <1>4, <1>5, <1>6 DEF VideoInv

LEMMA GiveUpKeepsVideo == ASSUME VideoAssumed, VideoInv, V!GiveUp  PROVE VideoInv'
<1> USE DEF V!GiveUp, V!Answered
<1>1. VideoTyped'
  <2>1. caller' \in CallerRecord
    BY DEF VideoAssumed, VideoInv, VideoTyped, CallerRecord, CameraRecord, VideoAnswers
  <2>2. commands' \in Seq(CommandRecord)
    BY CommandsHeadAndTail DEF VideoAssumed, VideoInv, VideoTyped, CommandRecord, CallerRecord
  <2>3. camera' \in CameraRecord
    BY CommandsHeadAndTail DEF VideoAssumed, VideoInv, VideoTyped, CameraRecord, CommandRecord, PortalRecord,
       VideoAnswers, V!Idle
  <2>4. portal' \in PortalRecord /\ grant' \in 0..portal.given' /\ tally' \in TallyRecord
    BY DEF VideoAssumed, VideoInv, VideoTyped, PortalRecord, TallyRecord
  <2>5. ended' \subseteq tracked' /\ tracked' \subseteq Videos /\ healthy' \in BOOLEAN
        /\ signal' \in {"none", "given", "over"}
    BY DEF VideoInv, VideoTyped
  <2> QED  BY <2>1, <2>2, <2>3, <2>4, <2>5 DEF VideoTyped
<1>2. QueueInOrder'
  BY CommandsHeadAndTail DEF VideoInv, VideoTyped, VideoAnswers, CallerRecord, CameraRecord, PortalRecord,
     TallyRecord, CommandRecord, QueueInOrder, V!Idle
<1>3. AnswersComeLast'
  BY DEF VideoInv, VideoTyped, VideoAnswers, CallerRecord, CameraRecord, PortalRecord, TallyRecord,
     CommandRecord, QueueInOrder, AnswersComeLast, IsAsking, V!Idle, KnownFilmsRun, CameraStands
<1>4. CameraStands'
  BY DEF VideoInv, VideoTyped, VideoAnswers, CallerRecord, CameraRecord, PortalRecord, TallyRecord,
     CommandRecord, CameraStands, V!Idle
<1>5. GrantStands'
  BY DEF VideoInv, VideoTyped, VideoAnswers, CallerRecord, CameraRecord, PortalRecord, TallyRecord,
     CommandRecord, CameraStands, GrantStands, V!GrantIsKept, V!Idle
<1>6. FilmsAreKnown' /\ KnownFilmsRun'
  BY DEF VideoInv, VideoTyped, VideoAnswers, CallerRecord, CameraRecord, PortalRecord, TallyRecord,
     CommandRecord, QueueInOrder, AnswersComeLast, IsAsking, CameraStands, FilmsAreKnown, FilmsAreTold,
     KnownFilmsRun, V!Idle
<1> QED  BY <1>1, <1>2, <1>3, <1>4, <1>5, <1>6 DEF VideoInv

LEMMA QuitKeepsVideo == ASSUME VideoAssumed, VideoInv, V!Quit  PROVE VideoInv'
<1> USE DEF V!Quit
<1>0. PICK c \in CommandRecord : c = [what |-> "shutdown", id |-> 0] /\ commands' = Append(commands, c)
  BY DEF CommandRecord, VideoAssumed
<1>1. VideoTyped'
  <2>1. caller' \in CallerRecord
    BY DEF VideoAssumed, VideoInv, VideoTyped, CallerRecord, CameraRecord, VideoAnswers
  <2>2. commands' \in Seq(CommandRecord)
    BY <1>0, CommandAppended DEF VideoInv
  <2>3. camera' \in CameraRecord
    BY <1>0, CommandsHeadAndTail DEF VideoAssumed, VideoInv, VideoTyped, CameraRecord, CommandRecord,
       PortalRecord, VideoAnswers, V!Idle
  <2>4. portal' \in PortalRecord /\ grant' \in 0..portal.given' /\ tally' \in TallyRecord
    BY <1>0 DEF VideoAssumed, VideoInv, VideoTyped, PortalRecord, TallyRecord
  <2>5. ended' \subseteq tracked' /\ tracked' \subseteq Videos /\ healthy' \in BOOLEAN
        /\ signal' \in {"none", "given", "over"}
    BY DEF VideoInv, VideoTyped
  <2> QED  BY <2>1, <2>2, <2>3, <2>4, <2>5 DEF VideoTyped
<1>2. QueueInOrder'
  BY <1>0, CommandAppended DEF VideoInv, VideoTyped, CallerRecord, CameraRecord, CommandRecord, QueueInOrder
<1>3. AnswersComeLast'
  BY DEF VideoInv, VideoTyped, VideoAnswers, CallerRecord, CameraRecord, PortalRecord, TallyRecord,
     CommandRecord, QueueInOrder, AnswersComeLast, IsAsking, V!Idle, KnownFilmsRun, CameraStands
<1>4. CameraStands'
  BY <1>0 DEF VideoInv, VideoTyped, VideoAnswers, CallerRecord, CameraRecord, PortalRecord, TallyRecord,
     CommandRecord, CameraStands, V!Idle
<1>5. GrantStands'
  BY <1>0 DEF VideoInv, VideoTyped, VideoAnswers, CallerRecord, CameraRecord, PortalRecord, TallyRecord,
     CommandRecord, CameraStands, GrantStands, V!GrantIsKept, V!Idle
<1>6. FilmsAreKnown' /\ KnownFilmsRun'
  BY <1>0 DEF VideoInv, VideoTyped, VideoAnswers, CallerRecord, CameraRecord, PortalRecord, TallyRecord,
     CommandRecord, QueueInOrder, AnswersComeLast, IsAsking, CameraStands, FilmsAreKnown, FilmsAreTold,
     KnownFilmsRun, V!Idle
<1> QED  BY <1>1, <1>2, <1>3, <1>4, <1>5, <1>6 DEF VideoInv

LEMMA SignalledKeepsVideo == ASSUME VideoAssumed, VideoInv, V!Signalled  PROVE VideoInv'
<1> USE DEF V!Signalled
<1>1. VideoTyped'
  <2>1. caller' \in CallerRecord
    BY DEF VideoAssumed, VideoInv, VideoTyped, CallerRecord, CameraRecord, VideoAnswers
  <2>2. commands' \in Seq(CommandRecord)
    BY CommandsHeadAndTail DEF VideoAssumed, VideoInv, VideoTyped, CommandRecord, CallerRecord
  <2>3. camera' \in CameraRecord
    BY CommandsHeadAndTail DEF VideoAssumed, VideoInv, VideoTyped, CameraRecord, CommandRecord, PortalRecord,
       VideoAnswers, V!Idle
  <2>4. portal' \in PortalRecord /\ grant' \in 0..portal.given' /\ tally' \in TallyRecord
    BY DEF VideoAssumed, VideoInv, VideoTyped, PortalRecord, TallyRecord
  <2>5. ended' \subseteq tracked' /\ tracked' \subseteq Videos /\ healthy' \in BOOLEAN
        /\ signal' \in {"none", "given", "over"}
    BY DEF VideoInv, VideoTyped
  <2> QED  BY <2>1, <2>2, <2>3, <2>4, <2>5 DEF VideoTyped
<1>2. QueueInOrder'
  BY CommandsHeadAndTail DEF VideoInv, VideoTyped, VideoAnswers, CallerRecord, CameraRecord, PortalRecord,
     TallyRecord, CommandRecord, QueueInOrder, V!Idle
<1>3. AnswersComeLast'
  BY DEF VideoInv, VideoTyped, VideoAnswers, CallerRecord, CameraRecord, PortalRecord, TallyRecord,
     CommandRecord, QueueInOrder, AnswersComeLast, IsAsking, V!Idle, KnownFilmsRun, CameraStands
<1>4. CameraStands'
  BY DEF VideoInv, VideoTyped, VideoAnswers, CallerRecord, CameraRecord, PortalRecord, TallyRecord,
     CommandRecord, CameraStands, V!Idle
<1>5. GrantStands'
  BY DEF VideoInv, VideoTyped, VideoAnswers, CallerRecord, CameraRecord, PortalRecord, TallyRecord,
     CommandRecord, CameraStands, GrantStands, V!GrantIsKept, V!Idle
<1>6. FilmsAreKnown' /\ KnownFilmsRun'
  BY DEF VideoInv, VideoTyped, VideoAnswers, CallerRecord, CameraRecord, PortalRecord, TallyRecord,
     CommandRecord, QueueInOrder, AnswersComeLast, IsAsking, CameraStands, FilmsAreKnown, FilmsAreTold,
     KnownFilmsRun, V!Idle
<1> QED  BY <1>1, <1>2, <1>3, <1>4, <1>5, <1>6 DEF VideoInv

LEMMA GraceOverKeepsVideo == ASSUME VideoAssumed, VideoInv, V!GraceOver  PROVE VideoInv'
<1> USE DEF V!GraceOver
<1>1. VideoTyped'
  <2>1. caller' \in CallerRecord
    BY DEF VideoAssumed, VideoInv, VideoTyped, CallerRecord, CameraRecord, VideoAnswers
  <2>2. commands' \in Seq(CommandRecord)
    BY CommandsHeadAndTail DEF VideoAssumed, VideoInv, VideoTyped, CommandRecord, CallerRecord
  <2>3. camera' \in CameraRecord
    BY CommandsHeadAndTail DEF VideoAssumed, VideoInv, VideoTyped, CameraRecord, CommandRecord, PortalRecord,
       VideoAnswers, V!Idle
  <2>4. portal' \in PortalRecord /\ grant' \in 0..portal.given' /\ tally' \in TallyRecord
    BY DEF VideoAssumed, VideoInv, VideoTyped, PortalRecord, TallyRecord
  <2>5. ended' \subseteq tracked' /\ tracked' \subseteq Videos /\ healthy' \in BOOLEAN
        /\ signal' \in {"none", "given", "over"}
    BY DEF VideoInv, VideoTyped
  <2> QED  BY <2>1, <2>2, <2>3, <2>4, <2>5 DEF VideoTyped
<1>2. QueueInOrder'
  BY CommandsHeadAndTail DEF VideoInv, VideoTyped, VideoAnswers, CallerRecord, CameraRecord, PortalRecord,
     TallyRecord, CommandRecord, QueueInOrder, V!Idle
<1>3. AnswersComeLast'
  BY DEF VideoInv, VideoTyped, VideoAnswers, CallerRecord, CameraRecord, PortalRecord, TallyRecord,
     CommandRecord, QueueInOrder, AnswersComeLast, IsAsking, V!Idle, KnownFilmsRun, CameraStands
<1>4. CameraStands'
  BY DEF VideoInv, VideoTyped, VideoAnswers, CallerRecord, CameraRecord, PortalRecord, TallyRecord,
     CommandRecord, CameraStands, V!Idle
<1>5. GrantStands'
  BY DEF VideoInv, VideoTyped, VideoAnswers, CallerRecord, CameraRecord, PortalRecord, TallyRecord,
     CommandRecord, CameraStands, GrantStands, V!GrantIsKept, V!Idle
<1>6. FilmsAreKnown' /\ KnownFilmsRun'
  BY DEF VideoInv, VideoTyped, VideoAnswers, CallerRecord, CameraRecord, PortalRecord, TallyRecord,
     CommandRecord, QueueInOrder, AnswersComeLast, IsAsking, CameraStands, FilmsAreKnown, FilmsAreTold,
     KnownFilmsRun, V!Idle
<1> QED  BY <1>1, <1>2, <1>3, <1>4, <1>5, <1>6 DEF VideoInv

LEMMA TakeStartKeepsVideo == ASSUME VideoAssumed, VideoInv, V!TakeStart  PROVE VideoInv'
<1> USE DEF V!TakeStart, V!Idle
<1>0. /\ camera' = [at |-> IF tracked = {} THEN "creating" ELSE "replying", id |-> commands[1].id, carried |-> 0,
                   session |-> camera.session, todo |-> {}, answer |-> IF tracked = {} THEN "none" ELSE "failed"]
      /\ camera' \in CameraRecord
  <2>1. commands[1] \in CommandRecord /\ commands[1] = Head(commands)
    BY CommandsHeadAndTail DEF VideoInv
  <2> QED  BY <2>1 DEF VideoInv, VideoTyped, CameraRecord, CommandRecord, VideoAnswers, V!Idle
<1>1. VideoTyped'
  <2>1. caller' \in CallerRecord
    BY DEF VideoAssumed, VideoInv, VideoTyped, CallerRecord, CameraRecord, VideoAnswers
  <2>2. commands' \in Seq(CommandRecord)
    BY CommandsHeadAndTail DEF VideoAssumed, VideoInv, VideoTyped, CommandRecord, CallerRecord
  <2>3. camera' \in CameraRecord
    BY <1>0
  <2>4. portal' \in PortalRecord /\ grant' \in 0..portal.given' /\ tally' \in TallyRecord
    BY <1>0 DEF VideoAssumed, VideoInv, VideoTyped, PortalRecord, TallyRecord
  <2>5. ended' \subseteq tracked' /\ tracked' \subseteq Videos /\ healthy' \in BOOLEAN
        /\ signal' \in {"none", "given", "over"}
    BY DEF VideoInv, VideoTyped
  <2> QED  BY <2>1, <2>2, <2>3, <2>4, <2>5 DEF VideoTyped
<1>2. QueueInOrder'
  <2>1. /\ Len(commands') = Len(commands) - 1 /\ Len(commands) \in Nat \ {0} /\ commands' \in Seq(CommandRecord)
        /\ \A i \in 1..Len(commands') : commands'[i] = commands[i + 1]
        /\ commands' = <<>> => Len(commands) = 1
    BY CommandsHeadAndTail DEF VideoInv
  <2>2. commands[1].what = "start" /\ UNCHANGED caller
    BY CommandsHeadAndTail DEF VideoInv
  <2>3. \A i \in 1..Len(commands) : commands[i].id \in Nat
    BY CommandsTyped DEF VideoInv
  <2>4. camera'.id = commands[1].id /\ camera.at = "idle" /\ camera'.at # "gone"
    <3>1. CASE tracked = {}
      BY <1>0, <3>1
    <3>2. CASE ~(tracked = {})
      BY <1>0, <3>2
    <3> QED  BY <3>1, <3>2
  <2> HIDE DEF V!TakeStart
  <2>5. ASSUME caller.at # "done"
        PROVE  /\ camera'.id <= caller.id
               /\ \A i \in 1..Len(commands') :
                    /\ commands'[i].what # "shutdown" /\ camera'.id < commands'[i].id /\ commands'[i].id <= caller.id
                    /\ \A j \in 1..Len(commands') : i < j => commands'[i].id < commands'[j].id
    <3>1. /\ \A i \in 1..Len(commands) : commands[i].what # "shutdown" /\ commands[i].id <= caller.id
          /\ \A i, j \in 1..Len(commands) : i < j => commands[i].id < commands[j].id
      BY <2>5 DEF VideoInv, QueueInOrder
    <3>2. \A i \in 1..Len(commands') : i + 1 \in 1..Len(commands) /\ 1 < i + 1 /\ 1 \in 1..Len(commands)
      BY <2>1
    <3>3. \A i \in 1..Len(commands') :
            /\ commands'[i].what # "shutdown" /\ commands[1].id < commands'[i].id /\ commands'[i].id <= caller.id
            /\ \A j \in 1..Len(commands') : i < j => commands'[i].id < commands'[j].id
      BY <2>1, <3>1, TailInOrder
    <3>4. commands[1].id \in Nat /\ commands[1].id <= caller.id /\ (camera'.id \in {0, commands[1].id})
      BY <2>1, <2>3, <2>4, <3>1
    <3>5. caller.id \in Nat /\ \A i \in 1..Len(commands') : commands'[i].id \in Nat
      BY <2>1, <2>3, <3>2, SMTT(30) DEF VideoInv, VideoTyped, CallerRecord
    <3> QED  BY <3>3, <3>4, <3>5
  <2>6. ASSUME caller.at = "done", camera'.at # "gone"
        PROVE  commands' # <<>> /\ commands'[Len(commands')].what = "shutdown"
    <3>1. commands[Len(commands)].what = "shutdown"
      BY <2>4, <2>6 DEF VideoInv, QueueInOrder
    <3>2. Len(commands) # 1
      BY <2>2, <2>4, <2>6, <3>1
    <3>3. Len(commands') \in 1..Len(commands')
      BY <2>1, <3>2
    <3> QED  BY <2>1, <3>1, <3>2, <3>3
  <2> QED  BY <2>2, <2>5, <2>6 DEF QueueInOrder
<1>3. AnswersComeLast'
  BY DEF VideoInv, VideoTyped, VideoAnswers, CallerRecord, CameraRecord, PortalRecord, TallyRecord,
     CommandRecord, QueueInOrder, AnswersComeLast, IsAsking, V!Idle, KnownFilmsRun, CameraStands
<1>4. CameraStands'
  BY <1>0, ZenonT(40) DEF VideoInv, VideoTyped, VideoAnswers, CallerRecord, CameraRecord, PortalRecord, TallyRecord,
     CommandRecord, CameraStands, V!Idle
<1>5. GrantStands'
  BY <1>0 DEF VideoInv, VideoTyped, VideoAnswers, CallerRecord, CameraRecord, PortalRecord, TallyRecord,
     CommandRecord, CameraStands, GrantStands, V!GrantIsKept, V!Idle
<1>6. FilmsAreKnown' /\ KnownFilmsRun'
  BY <1>0 DEF VideoInv, VideoTyped, VideoAnswers, CallerRecord, CameraRecord, PortalRecord, TallyRecord,
     CommandRecord, QueueInOrder, AnswersComeLast, IsAsking, CameraStands, FilmsAreKnown, FilmsAreTold,
     KnownFilmsRun, V!Idle
<1> QED  BY <1>1, <1>2, <1>3, <1>4, <1>5, <1>6 DEF VideoInv

LEMMA CreateKeepsVideo == ASSUME VideoAssumed, VideoInv, V!Create  PROVE VideoInv'
<1> USE DEF V!Create
<1>0. /\ camera' = [at |-> "selecting", id |-> camera.id, carried |-> grant, session |-> TRUE, todo |-> camera.todo,
                    answer |-> camera.answer]
      /\ camera' \in CameraRecord
  <2>1. grant \in Nat /\ camera \in CameraRecord
    BY DEF VideoInv, VideoTyped, PortalRecord
  <2>2. camera' = [at |-> "selecting", id |-> camera.id, carried |-> grant, session |-> TRUE, todo |-> camera.todo,
                   answer |-> camera.answer]
    BY <2>1 DEF CameraRecord
  <2> QED  BY <2>1, <2>2 DEF CameraRecord
<1>1. VideoTyped'
  <2>1. caller' \in CallerRecord
    BY DEF VideoAssumed, VideoInv, VideoTyped, CallerRecord, CameraRecord, VideoAnswers
  <2>2. commands' \in Seq(CommandRecord)
    BY CommandsHeadAndTail DEF VideoAssumed, VideoInv, VideoTyped, CommandRecord, CallerRecord
  <2>3. camera' \in CameraRecord
    BY <1>0
  <2>4. portal' \in PortalRecord /\ grant' \in 0..portal.given' /\ tally' \in TallyRecord
    BY <1>0 DEF VideoAssumed, VideoInv, VideoTyped, PortalRecord, TallyRecord
  <2>5. ended' \subseteq tracked' /\ tracked' \subseteq Videos /\ healthy' \in BOOLEAN
        /\ signal' \in {"none", "given", "over"}
    BY DEF VideoInv, VideoTyped
  <2> QED  BY <2>1, <2>2, <2>3, <2>4, <2>5 DEF VideoTyped
<1>2. QueueInOrder'
  BY <1>0, CommandsHeadAndTail DEF VideoInv, VideoTyped, VideoAnswers, CallerRecord, CameraRecord, PortalRecord,
     TallyRecord, CommandRecord, QueueInOrder, V!Idle
<1>3. AnswersComeLast'
  BY DEF VideoInv, VideoTyped, VideoAnswers, CallerRecord, CameraRecord, PortalRecord, TallyRecord,
     CommandRecord, QueueInOrder, AnswersComeLast, IsAsking, V!Idle, KnownFilmsRun, CameraStands
<1>4. CameraStands'
  BY <1>0 DEF VideoInv, VideoTyped, VideoAnswers, CallerRecord, CameraRecord, PortalRecord, TallyRecord,
     CommandRecord, CameraStands, V!Idle
<1>5. GrantStands'
  BY <1>0 DEF VideoInv, VideoTyped, VideoAnswers, CallerRecord, CameraRecord, PortalRecord, TallyRecord,
     CommandRecord, CameraStands, GrantStands, V!GrantIsKept, V!Idle
<1>6. FilmsAreKnown' /\ KnownFilmsRun'
  BY <1>0 DEF VideoInv, VideoTyped, VideoAnswers, CallerRecord, CameraRecord, PortalRecord, TallyRecord,
     CommandRecord, QueueInOrder, AnswersComeLast, IsAsking, CameraStands, FilmsAreKnown, FilmsAreTold,
     KnownFilmsRun, V!Idle
<1> QED  BY <1>1, <1>2, <1>3, <1>4, <1>5, <1>6 DEF VideoInv

LEMMA CreateFailsKeepsVideo == ASSUME VideoAssumed, VideoInv, V!CreateFails  PROVE VideoInv'
<1> USE DEF V!CreateFails, V!Failed, V!PipelinesEnd, V!Faulted, V!Fault
<1>0. portal' \in PortalRecord /\ ~portal'.open /\ portal'.honours = portal.honours /\ portal'.given >= portal.given
  BY GivenUpTo DEF VideoInv, VideoTyped, PortalRecord
<1>1. VideoTyped'
  <2>1. caller' \in CallerRecord
    BY DEF VideoAssumed, VideoInv, VideoTyped, CallerRecord, CameraRecord, VideoAnswers
  <2>2. commands' \in Seq(CommandRecord)
    BY CommandsHeadAndTail DEF VideoAssumed, VideoInv, VideoTyped, CommandRecord, CallerRecord
  <2>3. camera' \in CameraRecord
    BY <1>0, CommandsHeadAndTail DEF VideoAssumed, VideoInv, VideoTyped, CameraRecord, CommandRecord,
       PortalRecord, VideoAnswers, V!Idle
  <2>4. portal' \in PortalRecord /\ grant' \in 0..portal.given' /\ tally' \in TallyRecord
    BY <1>0 DEF VideoAssumed, VideoInv, VideoTyped, PortalRecord, TallyRecord
  <2>5. ended' \subseteq tracked' /\ tracked' \subseteq Videos /\ healthy' \in BOOLEAN
        /\ signal' \in {"none", "given", "over"}
    BY DEF VideoInv, VideoTyped
  <2> QED  BY <2>1, <2>2, <2>3, <2>4, <2>5 DEF VideoTyped
<1>2. QueueInOrder'
  BY <1>0, CommandsHeadAndTail DEF VideoInv, VideoTyped, VideoAnswers, CallerRecord, CameraRecord, PortalRecord,
     TallyRecord, CommandRecord, QueueInOrder, V!Idle
<1>3. AnswersComeLast'
  BY DEF VideoInv, VideoTyped, VideoAnswers, CallerRecord, CameraRecord, PortalRecord, TallyRecord,
     CommandRecord, QueueInOrder, AnswersComeLast, IsAsking, V!Idle, KnownFilmsRun, CameraStands
<1>4. CameraStands'
  BY <1>0 DEF VideoInv, VideoTyped, VideoAnswers, CallerRecord, CameraRecord, PortalRecord, TallyRecord,
     CommandRecord, CameraStands, V!Idle
<1>5. GrantStands'
  BY <1>0 DEF VideoInv, VideoTyped, VideoAnswers, CallerRecord, CameraRecord, PortalRecord, TallyRecord,
     CommandRecord, CameraStands, GrantStands, V!GrantIsKept, V!Idle
<1>6. FilmsAreKnown' /\ KnownFilmsRun'
  BY <1>0 DEF VideoInv, VideoTyped, VideoAnswers, CallerRecord, CameraRecord, PortalRecord, TallyRecord,
     CommandRecord, QueueInOrder, AnswersComeLast, IsAsking, CameraStands, FilmsAreKnown, FilmsAreTold,
     KnownFilmsRun, V!Idle
<1> QED  BY <1>1, <1>2, <1>3, <1>4, <1>5, <1>6 DEF VideoInv

LEMMA SelectKeepsVideo == ASSUME VideoAssumed, VideoInv, V!Select  PROVE VideoInv'
<1> USE DEF V!Select
<1>1. VideoTyped'
  <2>1. caller' \in CallerRecord
    BY DEF VideoAssumed, VideoInv, VideoTyped, CallerRecord, CameraRecord, VideoAnswers
  <2>2. commands' \in Seq(CommandRecord)
    BY CommandsHeadAndTail DEF VideoAssumed, VideoInv, VideoTyped, CommandRecord, CallerRecord
  <2>3. camera' \in CameraRecord
    BY CommandsHeadAndTail DEF VideoAssumed, VideoInv, VideoTyped, CameraRecord, CommandRecord, PortalRecord,
       VideoAnswers, V!Idle
  <2>4. portal' \in PortalRecord /\ grant' \in 0..portal.given' /\ tally' \in TallyRecord
    BY DEF VideoAssumed, VideoInv, VideoTyped, PortalRecord, TallyRecord
  <2>5. ended' \subseteq tracked' /\ tracked' \subseteq Videos /\ healthy' \in BOOLEAN
        /\ signal' \in {"none", "given", "over"}
    BY DEF VideoInv, VideoTyped
  <2> QED  BY <2>1, <2>2, <2>3, <2>4, <2>5 DEF VideoTyped
<1>2. QueueInOrder'
  BY CommandsHeadAndTail DEF VideoInv, VideoTyped, VideoAnswers, CallerRecord, CameraRecord, PortalRecord,
     TallyRecord, CommandRecord, QueueInOrder, V!Idle
<1>3. AnswersComeLast'
  BY DEF VideoInv, VideoTyped, VideoAnswers, CallerRecord, CameraRecord, PortalRecord, TallyRecord,
     CommandRecord, QueueInOrder, AnswersComeLast, IsAsking, V!Idle, KnownFilmsRun, CameraStands
<1>4. CameraStands'
  BY DEF VideoInv, VideoTyped, VideoAnswers, CallerRecord, CameraRecord, PortalRecord, TallyRecord,
     CommandRecord, CameraStands, V!Idle
<1>5. GrantStands'
  BY DEF VideoInv, VideoTyped, VideoAnswers, CallerRecord, CameraRecord, PortalRecord, TallyRecord,
     CommandRecord, CameraStands, GrantStands, V!GrantIsKept, V!Idle
<1>6. FilmsAreKnown' /\ KnownFilmsRun'
  BY DEF VideoInv, VideoTyped, VideoAnswers, CallerRecord, CameraRecord, PortalRecord, TallyRecord,
     CommandRecord, QueueInOrder, AnswersComeLast, IsAsking, CameraStands, FilmsAreKnown, FilmsAreTold,
     KnownFilmsRun, V!Idle
<1> QED  BY <1>1, <1>2, <1>3, <1>4, <1>5, <1>6 DEF VideoInv

LEMMA StartAnswersKeepsVideo == ASSUME VideoAssumed, VideoInv, V!StartAnswers  PROVE VideoInv'
<1> USE DEF V!StartAnswers, V!AfterTheAnswer, V!Failed, V!PipelinesEnd, V!Faulted, V!Fault
<1>0. /\ portal' = [honours |-> portal.given + 1, given |-> portal.given + 1, open |-> signal = "none"]
      /\ portal' \in PortalRecord
  <2>1. portal' = [honours |-> portal.given + 1, given |-> portal.given + 1, open |-> signal = "none"]
    BY DEF VideoInv, VideoTyped, PortalRecord
  <2>2. portal.given + 1 \in Nat
    BY DEF VideoInv, VideoTyped, PortalRecord
  <2> QED  BY <2>1, <2>2 DEF PortalRecord
<1>a. /\ grant' \in {grant, portal.given + 1} /\ (grant' = portal.given + 1 \/ tally'.lost)
      /\ tally' \in TallyRecord /\ tally'.missed = tally.missed
  <2>1. PICK stored \in BOOLEAN :
          /\ stored \/ V!Fault
          /\ grant' = IF stored THEN portal.given + 1 ELSE grant
          /\ tally' = IF stored THEN [tally EXCEPT !.lost = FALSE] ELSE [V!Faulted EXCEPT !.lost = TRUE]
    OBVIOUS
  <2>2. CASE stored
    BY <2>1, <2>2 DEF VideoInv, VideoTyped, TallyRecord
  <2>3. CASE ~stored
    <3>1. tally' = [faults |-> tally.faults + 1, lost |-> TRUE, missed |-> tally.missed]
      BY <2>1, <2>3 DEF VideoInv, VideoTyped, TallyRecord
    <3>2. tally.faults + 1 \in 0..MaxFaults
      BY <2>1, <2>3 DEF VideoInv, VideoTyped, TallyRecord, VideoAssumed
    <3> QED  BY <2>1, <2>3, <3>1, <3>2 DEF VideoInv, VideoTyped, TallyRecord
  <2> QED  BY <2>2, <2>3
<1>1. VideoTyped'
  <2>1. caller' \in CallerRecord
    BY DEF VideoAssumed, VideoInv, VideoTyped, CallerRecord, CameraRecord, VideoAnswers
  <2>2. commands' \in Seq(CommandRecord)
    BY CommandsHeadAndTail DEF VideoAssumed, VideoInv, VideoTyped, CommandRecord, CallerRecord
  <2>3. camera' \in CameraRecord
    BY DEF VideoInv, VideoTyped, CameraRecord, VideoAnswers
  <2>4. portal' \in PortalRecord /\ grant' \in 0..portal.given' /\ tally' \in TallyRecord
    BY <1>0, <1>a DEF VideoInv, VideoTyped, PortalRecord
  <2>5. ended' \subseteq tracked' /\ tracked' \subseteq Videos /\ healthy' \in BOOLEAN
        /\ signal' \in {"none", "given", "over"}
    BY DEF VideoInv, VideoTyped
  <2> QED  BY <2>1, <2>2, <2>3, <2>4, <2>5 DEF VideoTyped
<1>2. QueueInOrder'
  <2>1. camera'.id = camera.id /\ camera.at # "gone"
    BY DEF VideoInv, VideoTyped, CameraRecord
  <2>2. UNCHANGED <<caller, commands>>
    OBVIOUS
  <2> HIDE DEF V!StartAnswers, V!AfterTheAnswer
  <2> QED  BY <2>1, <2>2 DEF VideoInv, QueueInOrder
<1>3. AnswersComeLast'
  BY DEF VideoInv, VideoTyped, VideoAnswers, CallerRecord, CameraRecord, PortalRecord, TallyRecord,
     CommandRecord, QueueInOrder, AnswersComeLast, IsAsking, V!Idle, KnownFilmsRun, CameraStands
<1>4. CameraStands'
  <2>1. CASE signal = "none"
    <3>1. camera'.at = "opening" /\ camera'.session /\ portal'.open
      BY <1>0, <2>1 DEF VideoInv, VideoTyped, CameraRecord, CameraStands
    <3> QED  BY <3>1 DEF CameraStands
  <2>2. CASE signal # "none"
    <3>1. camera'.at = "replying" /\ camera'.answer = "failed" /\ camera'.session = FALSE /\ portal'.open = FALSE
          /\ tracked' = {}
      BY <1>0, <2>2 DEF VideoInv, VideoTyped, CameraRecord, CameraStands
    <3> HIDE DEF V!StartAnswers, V!AfterTheAnswer
    <3> QED  BY <3>1 DEF CameraStands
  <2> QED  BY <2>1, <2>2
<1>5. GrantStands'
  <2>1. camera'.at \in {"opening", "replying"} /\ tally'.lost \in BOOLEAN /\ portal'.honours = portal.given + 1
        /\ portal'.given = portal.given + 1
    BY <1>0, <1>a DEF VideoInv, VideoTyped, CameraRecord, TallyRecord
  <2> HIDE DEF V!StartAnswers, V!AfterTheAnswer
  <2> QED  BY <1>0, <1>a, <2>1 DEF GrantStands, V!GrantIsKept, PortalRecord
<1>6. FilmsAreKnown' /\ KnownFilmsRun'
  BY <1>0, <1>a DEF VideoInv, VideoTyped, VideoAnswers, CallerRecord, CameraRecord, PortalRecord, TallyRecord,
     CommandRecord, QueueInOrder, AnswersComeLast, IsAsking, CameraStands, FilmsAreKnown, FilmsAreTold,
     KnownFilmsRun, V!Idle
<1> QED  BY <1>1, <1>2, <1>3, <1>4, <1>5, <1>6 DEF VideoInv

LEMMA StartBringsNoneKeepsVideo == ASSUME VideoAssumed, VideoInv, V!StartBringsNone  PROVE VideoInv'
<1> USE DEF V!StartBringsNone, V!AfterTheAnswer, V!Failed, V!PipelinesEnd, V!Faulted, V!Fault
<1>0. /\ portal' = [honours |-> portal.honours, given |-> portal.given, open |-> signal = "none"]
      /\ portal' \in PortalRecord
  <2>1. portal' = [honours |-> portal.honours, given |-> portal.given, open |-> signal = "none"]
    BY DEF VideoInv, VideoTyped, PortalRecord
  <2> QED  BY <2>1 DEF VideoInv, VideoTyped, PortalRecord
<1>a. /\ grant' = grant /\ tally'.lost /\ tally' \in TallyRecord /\ tally'.missed = tally.missed
  <2>1. tally' = [faults |-> tally.faults + 1, lost |-> TRUE, missed |-> tally.missed]
    BY DEF VideoInv, VideoTyped, TallyRecord
  <2>2. tally.faults + 1 \in 0..MaxFaults
    BY DEF VideoInv, VideoTyped, TallyRecord, VideoAssumed
  <2> QED  BY <2>1, <2>2 DEF VideoInv, VideoTyped, TallyRecord
<1>1. VideoTyped'
  <2>1. caller' \in CallerRecord
    BY DEF VideoAssumed, VideoInv, VideoTyped, CallerRecord, CameraRecord, VideoAnswers
  <2>2. commands' \in Seq(CommandRecord)
    BY CommandsHeadAndTail DEF VideoAssumed, VideoInv, VideoTyped, CommandRecord, CallerRecord
  <2>3. camera' \in CameraRecord
    BY DEF VideoInv, VideoTyped, CameraRecord, VideoAnswers
  <2>4. portal' \in PortalRecord /\ grant' \in 0..portal.given' /\ tally' \in TallyRecord
    BY <1>0, <1>a DEF VideoInv, VideoTyped, PortalRecord
  <2>5. ended' \subseteq tracked' /\ tracked' \subseteq Videos /\ healthy' \in BOOLEAN
        /\ signal' \in {"none", "given", "over"}
    BY DEF VideoInv, VideoTyped
  <2> QED  BY <2>1, <2>2, <2>3, <2>4, <2>5 DEF VideoTyped
<1>2. QueueInOrder'
  <2>1. camera'.id = camera.id /\ camera.at # "gone"
    BY DEF VideoInv, VideoTyped, CameraRecord
  <2>2. UNCHANGED <<caller, commands>>
    OBVIOUS
  <2> HIDE DEF V!StartBringsNone, V!AfterTheAnswer
  <2> QED  BY <2>1, <2>2 DEF VideoInv, QueueInOrder
<1>3. AnswersComeLast'
  BY DEF VideoInv, VideoTyped, VideoAnswers, CallerRecord, CameraRecord, PortalRecord, TallyRecord,
     CommandRecord, QueueInOrder, AnswersComeLast, IsAsking, V!Idle, KnownFilmsRun, CameraStands
<1>4. CameraStands'
  <2>1. CASE signal = "none"
    <3>1. camera'.at = "opening" /\ camera'.session /\ portal'.open
      BY <1>0, <2>1 DEF VideoInv, VideoTyped, CameraRecord, CameraStands
    <3> QED  BY <3>1 DEF CameraStands
  <2>2. CASE signal # "none"
    <3>1. camera'.at = "replying" /\ camera'.answer = "failed" /\ camera'.session = FALSE /\ portal'.open = FALSE
          /\ tracked' = {}
      BY <1>0, <2>2 DEF VideoInv, VideoTyped, CameraRecord, CameraStands
    <3> HIDE DEF V!StartBringsNone, V!AfterTheAnswer
    <3> QED  BY <3>1 DEF CameraStands
  <2> QED  BY <2>1, <2>2
<1>5. GrantStands'
  <2>1. camera'.at \in {"opening", "replying"} /\ tally'.lost /\ portal'.honours = portal.honours
        /\ portal'.given = portal.given
    BY <1>0, <1>a DEF VideoInv, VideoTyped, CameraRecord, TallyRecord
  <2>2. GrantStands
    BY DEF VideoInv
  <2> HIDE DEF V!StartBringsNone, V!AfterTheAnswer
  <2> QED  BY <1>0, <1>a, <2>1, <2>2 DEF GrantStands, V!GrantIsKept, PortalRecord
<1>6. FilmsAreKnown' /\ KnownFilmsRun'
  BY <1>0, <1>a DEF VideoInv, VideoTyped, VideoAnswers, CallerRecord, CameraRecord, PortalRecord, TallyRecord,
     CommandRecord, QueueInOrder, AnswersComeLast, IsAsking, CameraStands, FilmsAreKnown, FilmsAreTold,
     KnownFilmsRun, V!Idle
<1> QED  BY <1>1, <1>2, <1>3, <1>4, <1>5, <1>6 DEF VideoInv

LEMMA ExchangeFailsKeepsVideo == ASSUME VideoAssumed, VideoInv, V!ExchangeFails  PROVE VideoInv'
<1> USE DEF V!ExchangeFails, V!Failed, V!PipelinesEnd, V!Faulted, V!Fault
<1>0. portal' \in PortalRecord /\ ~portal'.open /\ portal'.given >= portal.given /\ portal'.honours <= portal'.given
  <2>1. PICK h \in {portal.honours, 0} : V!GivenUp(h)
    OBVIOUS
  <2> QED  BY <2>1, GivenUpTo DEF VideoInv, VideoTyped, PortalRecord
<1>1. VideoTyped'
  <2>1. caller' \in CallerRecord
    BY DEF VideoAssumed, VideoInv, VideoTyped, CallerRecord, CameraRecord, VideoAnswers
  <2>2. commands' \in Seq(CommandRecord)
    BY CommandsHeadAndTail DEF VideoAssumed, VideoInv, VideoTyped, CommandRecord, CallerRecord
  <2>3. camera' \in CameraRecord
    BY <1>0, CommandsHeadAndTail DEF VideoAssumed, VideoInv, VideoTyped, CameraRecord, CommandRecord,
       PortalRecord, VideoAnswers, V!Idle
  <2>4. portal' \in PortalRecord /\ grant' \in 0..portal.given' /\ tally' \in TallyRecord
    <3>1. tally' = [faults |-> tally.faults + 1, lost |-> TRUE, missed |-> tally.missed]
      BY DEF VideoInv, VideoTyped, TallyRecord
    <3>2. tally.faults + 1 \in 0..MaxFaults
      BY DEF VideoInv, VideoTyped, TallyRecord, VideoAssumed
    <3>3. tally' \in TallyRecord
      BY <3>1, <3>2 DEF VideoInv, VideoTyped, TallyRecord
    <3>4. grant' \in 0..portal.given'
      BY <1>0 DEF VideoInv, VideoTyped, PortalRecord
    <3> QED  BY <1>0, <3>3, <3>4
  <2>5. ended' \subseteq tracked' /\ tracked' \subseteq Videos /\ healthy' \in BOOLEAN
        /\ signal' \in {"none", "given", "over"}
    BY DEF VideoInv, VideoTyped
  <2> QED  BY <2>1, <2>2, <2>3, <2>4, <2>5 DEF VideoTyped
<1>2. QueueInOrder'
  BY <1>0, CommandsHeadAndTail DEF VideoInv, VideoTyped, VideoAnswers, CallerRecord, CameraRecord, PortalRecord,
     TallyRecord, CommandRecord, QueueInOrder, V!Idle
<1>3. AnswersComeLast'
  BY DEF VideoInv, VideoTyped, VideoAnswers, CallerRecord, CameraRecord, PortalRecord, TallyRecord,
     CommandRecord, QueueInOrder, AnswersComeLast, IsAsking, V!Idle, KnownFilmsRun, CameraStands
<1>4. CameraStands'
  BY <1>0 DEF VideoInv, VideoTyped, VideoAnswers, CallerRecord, CameraRecord, PortalRecord, TallyRecord,
     CommandRecord, CameraStands, V!Idle
<1>5. GrantStands'
  BY <1>0 DEF VideoInv, VideoTyped, VideoAnswers, CallerRecord, CameraRecord, PortalRecord, TallyRecord,
     CommandRecord, CameraStands, GrantStands, V!GrantIsKept, V!Idle
<1>6. FilmsAreKnown' /\ KnownFilmsRun'
  BY <1>0 DEF VideoInv, VideoTyped, VideoAnswers, CallerRecord, CameraRecord, PortalRecord, TallyRecord,
     CommandRecord, QueueInOrder, AnswersComeLast, IsAsking, CameraStands, FilmsAreKnown, FilmsAreTold,
     KnownFilmsRun, V!Idle
<1> QED  BY <1>1, <1>2, <1>3, <1>4, <1>5, <1>6 DEF VideoInv

LEMMA ExchangeIsCutKeepsVideo == ASSUME VideoAssumed, VideoInv, V!ExchangeIsCut  PROVE VideoInv'
<1> USE DEF V!ExchangeIsCut, V!Failed, V!PipelinesEnd
<1>0. portal' \in PortalRecord /\ ~portal'.open /\ portal'.given >= portal.given /\ portal'.honours <= portal'.given
  <2>1. PICK h \in {portal.honours} \cup (IF camera.at = "starting" THEN {portal.given + 1} ELSE {0}) : V!GivenUp(h)
    OBVIOUS
  <2> QED  BY <2>1, GivenUpTo DEF VideoInv, VideoTyped, PortalRecord
<1>1. VideoTyped'
  <2>1. caller' \in CallerRecord
    BY DEF VideoAssumed, VideoInv, VideoTyped, CallerRecord, CameraRecord, VideoAnswers
  <2>2. commands' \in Seq(CommandRecord)
    BY CommandsHeadAndTail DEF VideoAssumed, VideoInv, VideoTyped, CommandRecord, CallerRecord
  <2>3. camera' \in CameraRecord
    BY <1>0, CommandsHeadAndTail DEF VideoAssumed, VideoInv, VideoTyped, CameraRecord, CommandRecord,
       PortalRecord, VideoAnswers, V!Idle
  <2>4. portal' \in PortalRecord /\ grant' \in 0..portal.given' /\ tally' \in TallyRecord
    <3>1. tally' = [faults |-> tally.faults, lost |-> tally.lost \/ signal = "over", missed |-> tally.missed]
      BY DEF VideoInv, VideoTyped, TallyRecord
    <3>2. tally.faults \in 0..MaxFaults
      BY DEF VideoInv, VideoTyped, TallyRecord, VideoAssumed
    <3>3. tally' \in TallyRecord
      BY <3>1, <3>2 DEF VideoInv, VideoTyped, TallyRecord
    <3>4. grant' \in 0..portal.given'
      BY <1>0 DEF VideoInv, VideoTyped, PortalRecord
    <3> QED  BY <1>0, <3>3, <3>4
  <2>5. ended' \subseteq tracked' /\ tracked' \subseteq Videos /\ healthy' \in BOOLEAN
        /\ signal' \in {"none", "given", "over"}
    BY DEF VideoInv, VideoTyped
  <2> QED  BY <2>1, <2>2, <2>3, <2>4, <2>5 DEF VideoTyped
<1>2. QueueInOrder'
  BY <1>0, CommandsHeadAndTail DEF VideoInv, VideoTyped, VideoAnswers, CallerRecord, CameraRecord, PortalRecord,
     TallyRecord, CommandRecord, QueueInOrder, V!Idle
<1>3. AnswersComeLast'
  BY DEF VideoInv, VideoTyped, VideoAnswers, CallerRecord, CameraRecord, PortalRecord, TallyRecord,
     CommandRecord, QueueInOrder, AnswersComeLast, IsAsking, V!Idle, KnownFilmsRun, CameraStands
<1>4. CameraStands'
  BY <1>0 DEF VideoInv, VideoTyped, VideoAnswers, CallerRecord, CameraRecord, PortalRecord, TallyRecord,
     CommandRecord, CameraStands, V!Idle
<1>5. GrantStands'
  BY <1>0 DEF VideoInv, VideoTyped, VideoAnswers, CallerRecord, CameraRecord, PortalRecord, TallyRecord,
     CommandRecord, CameraStands, GrantStands, V!GrantIsKept, V!Idle
<1>6. FilmsAreKnown' /\ KnownFilmsRun'
  BY <1>0 DEF VideoInv, VideoTyped, VideoAnswers, CallerRecord, CameraRecord, PortalRecord, TallyRecord,
     CommandRecord, QueueInOrder, AnswersComeLast, IsAsking, CameraStands, FilmsAreKnown, FilmsAreTold,
     KnownFilmsRun, V!Idle
<1> QED  BY <1>1, <1>2, <1>3, <1>4, <1>5, <1>6 DEF VideoInv

LEMMA OpenStreamKeepsVideo ==
  ASSUME VideoAssumed, VideoInv, NEW s \in Videos, NEW begun \in BOOLEAN, V!OpenStream(s, begun)
  PROVE  VideoInv'
<1> USE DEF V!OpenStream, V!Faulted, V!Fault
<1>1. VideoTyped'
  <2>1. caller' \in CallerRecord
    BY DEF VideoAssumed, VideoInv, VideoTyped, CallerRecord, CameraRecord, VideoAnswers
  <2>2. commands' \in Seq(CommandRecord)
    BY CommandsHeadAndTail DEF VideoAssumed, VideoInv, VideoTyped, CommandRecord, CallerRecord
  <2>3. camera' \in CameraRecord
    BY CommandsHeadAndTail DEF VideoAssumed, VideoInv, VideoTyped, CameraRecord, CommandRecord, PortalRecord,
       VideoAnswers, V!Idle
  <2>4. portal' \in PortalRecord /\ grant' \in 0..portal.given' /\ tally' \in TallyRecord
    BY SMTT(30) DEF VideoAssumed, VideoInv, VideoTyped, PortalRecord, TallyRecord
  <2>5. ended' \subseteq tracked' /\ tracked' \subseteq Videos /\ healthy' \in BOOLEAN
        /\ signal' \in {"none", "given", "over"}
    BY DEF VideoInv, VideoTyped
  <2> QED  BY <2>1, <2>2, <2>3, <2>4, <2>5 DEF VideoTyped
<1>2. QueueInOrder'
  BY CommandsHeadAndTail DEF VideoInv, VideoTyped, VideoAnswers, CallerRecord, CameraRecord, PortalRecord,
     TallyRecord, CommandRecord, QueueInOrder, V!Idle
<1>3. AnswersComeLast'
  BY DEF VideoInv, VideoTyped, VideoAnswers, CallerRecord, CameraRecord, PortalRecord, TallyRecord,
     CommandRecord, QueueInOrder, AnswersComeLast, IsAsking, V!Idle, KnownFilmsRun, CameraStands
<1>4. CameraStands'
  BY DEF VideoInv, VideoTyped, VideoAnswers, CallerRecord, CameraRecord, PortalRecord, TallyRecord,
     CommandRecord, CameraStands, V!Idle
<1>5. GrantStands'
  BY DEF VideoInv, VideoTyped, VideoAnswers, CallerRecord, CameraRecord, PortalRecord, TallyRecord,
     CommandRecord, CameraStands, GrantStands, V!GrantIsKept, V!Idle
<1>6. FilmsAreKnown' /\ KnownFilmsRun'
  BY DEF VideoInv, VideoTyped, VideoAnswers, CallerRecord, CameraRecord, PortalRecord, TallyRecord,
     CommandRecord, QueueInOrder, AnswersComeLast, IsAsking, CameraStands, FilmsAreKnown, FilmsAreTold,
     KnownFilmsRun, V!Idle
<1> QED  BY <1>1, <1>2, <1>3, <1>4, <1>5, <1>6 DEF VideoInv

LEMMA OpenFailsKeepsVideo == ASSUME VideoAssumed, VideoInv, V!OpenFails  PROVE VideoInv'
<1> USE DEF V!OpenFails, V!Failed, V!PipelinesEnd, V!Faulted, V!Fault
<1>0. portal' \in PortalRecord /\ ~portal'.open /\ portal'.honours = portal.honours /\ portal'.given >= portal.given
  BY GivenUpTo DEF VideoInv, VideoTyped, PortalRecord
<1>1. VideoTyped'
  <2>1. caller' \in CallerRecord
    BY DEF VideoAssumed, VideoInv, VideoTyped, CallerRecord, CameraRecord, VideoAnswers
  <2>2. commands' \in Seq(CommandRecord)
    BY CommandsHeadAndTail DEF VideoAssumed, VideoInv, VideoTyped, CommandRecord, CallerRecord
  <2>3. camera' \in CameraRecord
    BY <1>0, CommandsHeadAndTail DEF VideoAssumed, VideoInv, VideoTyped, CameraRecord, CommandRecord,
       PortalRecord, VideoAnswers, V!Idle
  <2>4. portal' \in PortalRecord /\ grant' \in 0..portal.given' /\ tally' \in TallyRecord
    BY <1>0 DEF VideoAssumed, VideoInv, VideoTyped, PortalRecord, TallyRecord
  <2>5. ended' \subseteq tracked' /\ tracked' \subseteq Videos /\ healthy' \in BOOLEAN
        /\ signal' \in {"none", "given", "over"}
    BY DEF VideoInv, VideoTyped
  <2> QED  BY <2>1, <2>2, <2>3, <2>4, <2>5 DEF VideoTyped
<1>2. QueueInOrder'
  BY <1>0, CommandsHeadAndTail DEF VideoInv, VideoTyped, VideoAnswers, CallerRecord, CameraRecord, PortalRecord,
     TallyRecord, CommandRecord, QueueInOrder, V!Idle
<1>3. AnswersComeLast'
  BY DEF VideoInv, VideoTyped, VideoAnswers, CallerRecord, CameraRecord, PortalRecord, TallyRecord,
     CommandRecord, QueueInOrder, AnswersComeLast, IsAsking, V!Idle, KnownFilmsRun, CameraStands
<1>4. CameraStands'
  BY <1>0 DEF VideoInv, VideoTyped, VideoAnswers, CallerRecord, CameraRecord, PortalRecord, TallyRecord,
     CommandRecord, CameraStands, V!Idle
<1>5. GrantStands'
  BY <1>0 DEF VideoInv, VideoTyped, VideoAnswers, CallerRecord, CameraRecord, PortalRecord, TallyRecord,
     CommandRecord, CameraStands, GrantStands, V!GrantIsKept, V!Idle
<1>6. FilmsAreKnown' /\ KnownFilmsRun'
  BY <1>0 DEF VideoInv, VideoTyped, VideoAnswers, CallerRecord, CameraRecord, PortalRecord, TallyRecord,
     CommandRecord, QueueInOrder, AnswersComeLast, IsAsking, CameraStands, FilmsAreKnown, FilmsAreTold,
     KnownFilmsRun, V!Idle
<1> QED  BY <1>1, <1>2, <1>3, <1>4, <1>5, <1>6 DEF VideoInv

LEMMA FilmsKeepsVideo == ASSUME VideoAssumed, VideoInv, V!Films  PROVE VideoInv'
<1> USE DEF V!Films
<1>1. VideoTyped'
  <2>1. caller' \in CallerRecord
    BY DEF VideoAssumed, VideoInv, VideoTyped, CallerRecord, CameraRecord, VideoAnswers
  <2>2. commands' \in Seq(CommandRecord)
    BY CommandsHeadAndTail DEF VideoAssumed, VideoInv, VideoTyped, CommandRecord, CallerRecord
  <2>3. camera' \in CameraRecord
    BY CommandsHeadAndTail DEF VideoAssumed, VideoInv, VideoTyped, CameraRecord, CommandRecord, PortalRecord,
       VideoAnswers, V!Idle
  <2>4. portal' \in PortalRecord /\ grant' \in 0..portal.given' /\ tally' \in TallyRecord
    BY DEF VideoAssumed, VideoInv, VideoTyped, PortalRecord, TallyRecord
  <2>5. ended' \subseteq tracked' /\ tracked' \subseteq Videos /\ healthy' \in BOOLEAN
        /\ signal' \in {"none", "given", "over"}
    BY DEF VideoInv, VideoTyped
  <2> QED  BY <2>1, <2>2, <2>3, <2>4, <2>5 DEF VideoTyped
<1>2. QueueInOrder'
  BY CommandsHeadAndTail DEF VideoInv, VideoTyped, VideoAnswers, CallerRecord, CameraRecord, PortalRecord,
     TallyRecord, CommandRecord, QueueInOrder, V!Idle
<1>3. AnswersComeLast'
  BY DEF VideoInv, VideoTyped, VideoAnswers, CallerRecord, CameraRecord, PortalRecord, TallyRecord,
     CommandRecord, QueueInOrder, AnswersComeLast, IsAsking, V!Idle, KnownFilmsRun, CameraStands
<1>4. CameraStands'
  BY DEF VideoInv, VideoTyped, VideoAnswers, CallerRecord, CameraRecord, PortalRecord, TallyRecord,
     CommandRecord, CameraStands, V!Idle
<1>5. GrantStands'
  BY DEF VideoInv, VideoTyped, VideoAnswers, CallerRecord, CameraRecord, PortalRecord, TallyRecord,
     CommandRecord, CameraStands, GrantStands, V!GrantIsKept, V!Idle
<1>6. FilmsAreKnown' /\ KnownFilmsRun'
  BY DEF VideoInv, VideoTyped, VideoAnswers, CallerRecord, CameraRecord, PortalRecord, TallyRecord,
     CommandRecord, QueueInOrder, AnswersComeLast, IsAsking, CameraStands, FilmsAreKnown, FilmsAreTold,
     KnownFilmsRun, V!Idle
<1> QED  BY <1>1, <1>2, <1>3, <1>4, <1>5, <1>6 DEF VideoInv

LEMMA PanicsKeepsVideo == ASSUME VideoAssumed, VideoInv, V!Panics  PROVE VideoInv'
<1> USE DEF V!Panics, V!PipelinesEnd, V!Faulted, V!Fault, V!Idle
<1>0. portal' \in PortalRecord /\ ~portal'.open /\ portal'.honours = portal.honours /\ portal'.given >= portal.given
  BY GivenUpTo DEF VideoInv, VideoTyped, PortalRecord
<1>a. camera' = [at |-> "gone", id |-> 0, carried |-> 0, session |-> FALSE, todo |-> {}, answer |-> "none"]
      /\ camera' \in CameraRecord
  <2> HIDE DEF V!Panics
  <2>1. camera' = [at |-> "gone", id |-> 0, carried |-> 0, session |-> FALSE, todo |-> {}, answer |-> "none"]
    BY DEF V!Idle, V!Panics
  <2>2. 0 \in 0..MaxAsks
    BY DEF VideoAssumed
  <2> QED  BY <2>1, <2>2 DEF CameraRecord, VideoAnswers
<1>1. VideoTyped'
  <2>1. caller' \in CallerRecord
    BY DEF VideoAssumed, VideoInv, VideoTyped, CallerRecord, CameraRecord, VideoAnswers
  <2>2. commands' \in Seq(CommandRecord)
    BY CommandsHeadAndTail DEF VideoAssumed, VideoInv, VideoTyped, CommandRecord, CallerRecord
  <2>3. camera' \in CameraRecord
    BY <1>a
  <2>4. portal' \in PortalRecord /\ grant' \in 0..portal.given' /\ tally' \in TallyRecord
    BY <1>0, <1>a DEF VideoAssumed, VideoInv, VideoTyped, PortalRecord, TallyRecord
  <2>5. ended' \subseteq tracked' /\ tracked' \subseteq Videos /\ healthy' \in BOOLEAN
        /\ signal' \in {"none", "given", "over"}
    BY DEF VideoInv, VideoTyped
  <2> QED  BY <2>1, <2>2, <2>3, <2>4, <2>5 DEF VideoTyped
<1>2. QueueInOrder'
  <2>1. camera'.at = "gone" /\ camera'.id = 0 /\ UNCHANGED <<caller, commands>>
    BY <1>a
  <2> HIDE DEF V!Panics
  <2>2. caller.id \in Nat /\ camera.id \in Nat /\ \A i \in 1..Len(commands) : commands[i].id \in Nat
    BY CommandsTyped DEF VideoInv, VideoTyped, CallerRecord, CameraRecord
  <2> QED  BY <2>1, <2>2 DEF VideoInv, QueueInOrder
<1>3. AnswersComeLast'
  BY DEF VideoInv, VideoTyped, VideoAnswers, CallerRecord, CameraRecord, PortalRecord, TallyRecord,
     CommandRecord, QueueInOrder, AnswersComeLast, IsAsking, V!Idle, KnownFilmsRun, CameraStands
<1>4. CameraStands'
  BY <1>0, <1>a DEF VideoInv, VideoTyped, VideoAnswers, CallerRecord, CameraRecord, PortalRecord, TallyRecord,
     CommandRecord, CameraStands, V!Idle
<1>5. GrantStands'
  BY <1>0, <1>a DEF VideoInv, VideoTyped, VideoAnswers, CallerRecord, CameraRecord, PortalRecord, TallyRecord,
     CommandRecord, CameraStands, GrantStands, V!GrantIsKept, V!Idle
<1>6. FilmsAreKnown' /\ KnownFilmsRun'
  BY <1>0, <1>a DEF VideoInv, VideoTyped, VideoAnswers, CallerRecord, CameraRecord, PortalRecord, TallyRecord,
     CommandRecord, QueueInOrder, AnswersComeLast, IsAsking, CameraStands, FilmsAreKnown, FilmsAreTold,
     KnownFilmsRun, V!Idle
<1> QED  BY <1>1, <1>2, <1>3, <1>4, <1>5, <1>6 DEF VideoInv

LEMMA TakeStopKeepsVideo == ASSUME VideoAssumed, VideoInv, V!TakeStop  PROVE VideoInv'
<1> USE DEF V!TakeStop, V!PipelinesEnd, V!Idle
<1>0. portal' \in PortalRecord /\ ~portal'.open /\ portal'.honours = portal.honours /\ portal'.given >= portal.given
  BY GivenUpTo DEF VideoInv, VideoTyped, PortalRecord
<1>a. /\ camera' = [at |-> "replying", id |-> commands[1].id, carried |-> 0, session |-> FALSE, todo |-> {},
                    answer |-> "stopped"]
      /\ camera' \in CameraRecord
  <2>1. commands[1] \in CommandRecord /\ commands[1] = Head(commands)
    BY CommandsHeadAndTail DEF VideoInv
  <2> QED  BY <2>1 DEF CameraRecord, CommandRecord, VideoAnswers, V!Idle
<1>1. VideoTyped'
  <2>1. caller' \in CallerRecord
    BY DEF VideoAssumed, VideoInv, VideoTyped, CallerRecord, CameraRecord, VideoAnswers
  <2>2. commands' \in Seq(CommandRecord)
    BY CommandsHeadAndTail DEF VideoAssumed, VideoInv, VideoTyped, CommandRecord, CallerRecord
  <2>3. camera' \in CameraRecord
    BY <1>a
  <2>4. portal' \in PortalRecord /\ grant' \in 0..portal.given' /\ tally' \in TallyRecord
    BY <1>0, <1>a DEF VideoAssumed, VideoInv, VideoTyped, PortalRecord, TallyRecord
  <2>5. ended' \subseteq tracked' /\ tracked' \subseteq Videos /\ healthy' \in BOOLEAN
        /\ signal' \in {"none", "given", "over"}
    BY DEF VideoInv, VideoTyped
  <2> QED  BY <2>1, <2>2, <2>3, <2>4, <2>5 DEF VideoTyped
<1>2. QueueInOrder'
  <2>1. /\ Len(commands') = Len(commands) - 1 /\ Len(commands) \in Nat \ {0} /\ commands' \in Seq(CommandRecord)
        /\ \A i \in 1..Len(commands') : commands'[i] = commands[i + 1]
        /\ commands' = <<>> => Len(commands) = 1
    BY CommandsHeadAndTail DEF VideoInv
  <2>2. commands[1].what = "stop" /\ UNCHANGED caller
    BY CommandsHeadAndTail DEF VideoInv
  <2>3. \A i \in 1..Len(commands) : commands[i].id \in Nat
    BY CommandsTyped DEF VideoInv
  <2>4. camera'.id = commands[1].id /\ camera.at = "idle" /\ camera'.at # "gone"
    BY <1>a
  <2> HIDE DEF V!TakeStop
  <2>5. ASSUME caller.at # "done"
        PROVE  /\ camera'.id <= caller.id
               /\ \A i \in 1..Len(commands') :
                    /\ commands'[i].what # "shutdown" /\ camera'.id < commands'[i].id /\ commands'[i].id <= caller.id
                    /\ \A j \in 1..Len(commands') : i < j => commands'[i].id < commands'[j].id
    <3>1. /\ \A i \in 1..Len(commands) : commands[i].what # "shutdown" /\ commands[i].id <= caller.id
          /\ \A i, j \in 1..Len(commands) : i < j => commands[i].id < commands[j].id
      BY <2>5 DEF VideoInv, QueueInOrder
    <3>2. \A i \in 1..Len(commands') : i + 1 \in 1..Len(commands) /\ 1 < i + 1 /\ 1 \in 1..Len(commands)
      BY <2>1
    <3>3. \A i \in 1..Len(commands') :
            /\ commands'[i].what # "shutdown" /\ commands[1].id < commands'[i].id /\ commands'[i].id <= caller.id
            /\ \A j \in 1..Len(commands') : i < j => commands'[i].id < commands'[j].id
      BY <2>1, <3>1, TailInOrder
    <3>4. commands[1].id \in Nat /\ commands[1].id <= caller.id /\ (camera'.id \in {0, commands[1].id})
      BY <2>1, <2>3, <2>4, <3>1
    <3>5. caller.id \in Nat /\ \A i \in 1..Len(commands') : commands'[i].id \in Nat
      BY <2>1, <2>3, <3>2 DEF VideoInv, VideoTyped, CallerRecord
    <3> QED  BY <3>3, <3>4, <3>5
  <2>6. ASSUME caller.at = "done", camera'.at # "gone"
        PROVE  commands' # <<>> /\ commands'[Len(commands')].what = "shutdown"
    <3>1. commands[Len(commands)].what = "shutdown"
      BY <2>4, <2>6 DEF VideoInv, QueueInOrder
    <3>2. Len(commands) # 1
      BY <2>2, <2>4, <2>6, <3>1
    <3>3. Len(commands') \in 1..Len(commands')
      BY <2>1, <3>2
    <3> QED  BY <2>1, <3>1, <3>2, <3>3
  <2> QED  BY <2>2, <2>5, <2>6 DEF QueueInOrder
<1>3. AnswersComeLast'
  BY DEF VideoInv, VideoTyped, VideoAnswers, CallerRecord, CameraRecord, PortalRecord, TallyRecord,
     CommandRecord, QueueInOrder, AnswersComeLast, IsAsking, V!Idle, KnownFilmsRun, CameraStands
<1>4. CameraStands'
  BY <1>0, <1>a DEF VideoInv, VideoTyped, VideoAnswers, CallerRecord, CameraRecord, PortalRecord, TallyRecord,
     CommandRecord, CameraStands, V!Idle
<1>5. GrantStands'
  BY <1>0, <1>a DEF VideoInv, VideoTyped, VideoAnswers, CallerRecord, CameraRecord, PortalRecord, TallyRecord,
     CommandRecord, CameraStands, GrantStands, V!GrantIsKept, V!Idle
<1>6. FilmsAreKnown' /\ KnownFilmsRun'
  BY <1>0, <1>a DEF VideoInv, VideoTyped, VideoAnswers, CallerRecord, CameraRecord, PortalRecord, TallyRecord,
     CommandRecord, QueueInOrder, AnswersComeLast, IsAsking, CameraStands, FilmsAreKnown, FilmsAreTold,
     KnownFilmsRun, V!Idle
<1> QED  BY <1>1, <1>2, <1>3, <1>4, <1>5, <1>6 DEF VideoInv

LEMMA ReplyKeepsVideo == ASSUME VideoAssumed, VideoInv, V!Reply  PROVE VideoInv'
<1> USE DEF V!Reply, V!Heard, V!PipelinesEnd, V!Idle
<1>0. /\ camera'.at = "idle" /\ camera'.id = 0 /\ camera' \in CameraRecord
      /\ caller' = [at |-> caller.at, id |-> caller.id, wants |-> caller.wants, films |-> caller.films,
                    sound |-> caller.sound,
                    answer |-> IF V!Heard THEN camera.answer ELSE caller.answer]
      /\ tally' = [faults |-> tally.faults, lost |-> tally.lost,
                   missed |-> tally.missed \/ (V!Heard /\ caller.at = "late")]
      /\ UNCHANGED <<commands, grant, signal>> /\ camera.at = "replying"
  <2>1. camera' = [at |-> "idle", id |-> 0, carried |-> 0, todo |-> {}, answer |-> "none",
                   session |-> IF ~V!Heard /\ camera.answer = "films" THEN FALSE ELSE camera.session]
    BY DEF V!Idle
  <2>2. camera' \in CameraRecord /\ camera'.at = "idle" /\ camera'.id = 0
    <3>1. 0 \in 0..MaxAsks /\ camera.session \in BOOLEAN
      BY DEF VideoAssumed, VideoInv, VideoTyped, CameraRecord
    <3> HIDE DEF V!Reply, V!Heard
    <3> QED  BY <2>1, <3>1 DEF CameraRecord, VideoAnswers
  <2>3. caller' = [at |-> caller.at, id |-> caller.id, wants |-> caller.wants, films |-> caller.films,
                   sound |-> caller.sound,
                    answer |-> IF V!Heard THEN camera.answer ELSE caller.answer]
    <3> HIDE DEF V!Heard
    <3> QED  BY DEF VideoInv, VideoTyped, CallerRecord
  <2>4. tally' = [faults |-> tally.faults, lost |-> tally.lost,
                  missed |-> tally.missed \/ (V!Heard /\ caller.at = "late")]
    <3> HIDE DEF V!Heard
    <3> QED  BY DEF VideoInv, VideoTyped, TallyRecord
  <2> QED  BY <2>2, <2>3, <2>4
<1>a. \/ /\ ~V!Heard /\ camera.answer = "films" /\ camera'.session = FALSE
         /\ tracked' = {} /\ ended' = {} /\ healthy' = FALSE
         /\ portal' \in PortalRecord /\ ~portal'.open /\ portal'.honours = portal.honours
            /\ portal'.given >= portal.given
      \/ /\ V!Heard \/ camera.answer # "films"
         /\ camera'.session = camera.session /\ UNCHANGED <<tracked, ended, healthy, portal>>
  BY GivenUpTo DEF VideoInv, VideoTyped, PortalRecord, V!Idle
<1>b. V!Heard => caller.answer = "none" /\ commands = <<>>
  <2>1. \A i \in 1..Len(commands) : commands[i] \in CommandRecord
    BY ElementOfSeq DEF VideoInv, VideoTyped
  <2>2. commands = <<>> \/ 1 \in 1..Len(commands)
    BY CommandsHeadAndTail DEF VideoInv
  <2> QED  BY <1>0, <2>1, <2>2 DEF VideoInv, AnswersComeLast, IsAsking, QueueInOrder, CommandRecord, VideoTyped,
              CallerRecord, CameraRecord
<1>c. camera.answer \in {"films", "failed", "stopped"}
  BY <1>0 DEF VideoInv, VideoTyped, CameraRecord, VideoAnswers, CameraStands
<1> HIDE DEF V!Reply, V!Heard
<1>1. VideoTyped'
  <2>1. caller' \in CallerRecord
    BY <1>0 DEF VideoInv, VideoTyped, CallerRecord, CameraRecord
  <2>2. commands' \in Seq(CommandRecord)
    BY <1>0 DEF VideoInv, VideoTyped
  <2>3. camera' \in CameraRecord
    BY <1>0
  <2>4. portal' \in PortalRecord /\ grant' \in 0..portal.given' /\ tally' \in TallyRecord
    <3>1. portal' \in PortalRecord /\ portal'.given >= portal.given
      BY <1>a DEF VideoInv, VideoTyped, PortalRecord
    <3> QED  BY <1>0, <3>1 DEF VideoInv, VideoTyped, PortalRecord, TallyRecord
  <2>5. ended' \subseteq tracked' /\ tracked' \subseteq Videos /\ healthy' \in BOOLEAN
        /\ signal' \in {"none", "given", "over"}
    BY <1>0, <1>a DEF VideoInv, VideoTyped
  <2> QED  BY <2>1, <2>2, <2>3, <2>4, <2>5 DEF VideoTyped
<1>2. QueueInOrder'
  <2>1. \A i \in 1..Len(commands) : commands[i] \in CommandRecord
    BY ElementOfSeq DEF VideoInv, VideoTyped
  <2> QED  BY <1>0, <2>1 DEF VideoInv, VideoTyped, QueueInOrder, CallerRecord, CameraRecord, CommandRecord
<1>3. AnswersComeLast'
  BY <1>0, <1>a, <1>b DEF VideoInv, AnswersComeLast, IsAsking, CameraStands, V!Heard
<1>4. CameraStands'
  <2>1. CASE V!Heard \/ camera.answer # "films"
    BY <1>0, <1>a, <2>1 DEF VideoInv, CameraStands
  <2>2. CASE ~V!Heard /\ camera.answer = "films"
    BY <1>0, <1>a, <2>2 DEF CameraStands, PortalRecord
  <2> QED  BY <2>1, <2>2
<1>5. GrantStands'
  <2>1. portal'.honours = portal.honours /\ portal'.given >= portal.given /\ portal.given \in Nat
        /\ portal'.given \in Nat /\ portal.honours \in Nat
    BY <1>a DEF VideoInv, VideoTyped, PortalRecord
  <2> QED  BY <1>0, <2>1 DEF VideoInv, GrantStands, V!GrantIsKept
<1>6. FilmsAreKnown' /\ KnownFilmsRun'
  <2>1. FilmsAreKnown'
    BY <1>0, <1>a, <1>b, <1>c DEF VideoInv, FilmsAreKnown, FilmsAreTold, CameraStands, V!Heard
  <2>2. KnownFilmsRun'
    BY <1>0, <1>a, <1>b, <1>c DEF VideoInv, KnownFilmsRun, CameraStands, V!Heard
  <2> QED  BY <2>1, <2>2
<1> QED  BY <1>1, <1>2, <1>3, <1>4, <1>5, <1>6 DEF VideoInv

LEMMA TakeShutdownKeepsVideo == ASSUME VideoAssumed, VideoInv, V!TakeShutdown  PROVE VideoInv'
<1> USE DEF V!TakeShutdown, V!PipelinesEnd, V!Idle
<1>0. portal' \in PortalRecord /\ ~portal'.open /\ portal'.honours = portal.honours /\ portal'.given >= portal.given
  BY GivenUpTo DEF VideoInv, VideoTyped, PortalRecord
<1>a. camera' = [at |-> "gone", id |-> 0, carried |-> 0, session |-> FALSE, todo |-> {}, answer |-> "none"]
      /\ camera' \in CameraRecord
  <2> HIDE DEF V!TakeShutdown
  <2>1. camera' = [at |-> "gone", id |-> 0, carried |-> 0, session |-> FALSE, todo |-> {}, answer |-> "none"]
    BY DEF V!Idle, V!TakeShutdown
  <2>2. 0 \in 0..MaxAsks
    BY DEF VideoAssumed
  <2> QED  BY <2>1, <2>2 DEF CameraRecord, VideoAnswers
<1>1. VideoTyped'
  <2>1. caller' \in CallerRecord
    BY DEF VideoAssumed, VideoInv, VideoTyped, CallerRecord, CameraRecord, VideoAnswers
  <2>2. commands' \in Seq(CommandRecord)
    BY CommandsHeadAndTail DEF VideoAssumed, VideoInv, VideoTyped, CommandRecord, CallerRecord
  <2>3. camera' \in CameraRecord
    BY <1>a
  <2>4. portal' \in PortalRecord /\ grant' \in 0..portal.given' /\ tally' \in TallyRecord
    BY <1>0, <1>a DEF VideoAssumed, VideoInv, VideoTyped, PortalRecord, TallyRecord
  <2>5. ended' \subseteq tracked' /\ tracked' \subseteq Videos /\ healthy' \in BOOLEAN
        /\ signal' \in {"none", "given", "over"}
    BY DEF VideoInv, VideoTyped
  <2> QED  BY <2>1, <2>2, <2>3, <2>4, <2>5 DEF VideoTyped
<1>2. QueueInOrder'
  <2>1. /\ Len(commands') = Len(commands) - 1 /\ Len(commands) \in Nat \ {0} /\ commands' \in Seq(CommandRecord)
        /\ \A i \in 1..Len(commands') : commands'[i] = commands[i + 1]
        /\ commands' = <<>> => Len(commands) = 1
    BY CommandsHeadAndTail DEF VideoInv
  <2>2. commands[1].what = "shutdown" /\ UNCHANGED caller
    BY CommandsHeadAndTail DEF VideoInv
  <2>3. \A i \in 1..Len(commands) : commands[i].id \in Nat
    BY CommandsTyped DEF VideoInv
  <2>4. camera'.id = 0 /\ camera.at = "idle" /\ camera'.at = "gone"
    BY <1>a
  <2> HIDE DEF V!TakeShutdown
  <2>5. ASSUME caller.at # "done"
        PROVE  /\ camera'.id <= caller.id
               /\ \A i \in 1..Len(commands') :
                    /\ commands'[i].what # "shutdown" /\ camera'.id < commands'[i].id /\ commands'[i].id <= caller.id
                    /\ \A j \in 1..Len(commands') : i < j => commands'[i].id < commands'[j].id
    <3>1. /\ \A i \in 1..Len(commands) : commands[i].what # "shutdown" /\ commands[i].id <= caller.id
          /\ \A i, j \in 1..Len(commands) : i < j => commands[i].id < commands[j].id
      BY <2>5 DEF VideoInv, QueueInOrder
    <3>2. \A i \in 1..Len(commands') : i + 1 \in 1..Len(commands) /\ 1 < i + 1 /\ 1 \in 1..Len(commands)
      BY <2>1
    <3>3. \A i \in 1..Len(commands') :
            /\ commands'[i].what # "shutdown" /\ commands[1].id < commands'[i].id /\ commands'[i].id <= caller.id
            /\ \A j \in 1..Len(commands') : i < j => commands'[i].id < commands'[j].id
      BY <2>1, <3>1, TailInOrder
    <3>4. commands[1].id \in Nat /\ commands[1].id <= caller.id /\ (camera'.id \in {0, commands[1].id})
      BY <2>1, <2>3, <2>4, <3>1
    <3>5. caller.id \in Nat /\ \A i \in 1..Len(commands') : commands'[i].id \in Nat
      BY <2>1, <2>3, <3>2 DEF VideoInv, VideoTyped, CallerRecord
    <3> QED  BY <3>3, <3>4, <3>5
  <2>6. ASSUME caller.at = "done", camera'.at # "gone"
        PROVE  commands' # <<>> /\ commands'[Len(commands')].what = "shutdown"
    <3>1. commands[Len(commands)].what = "shutdown"
      BY <2>4, <2>6 DEF VideoInv, QueueInOrder
    <3>2. Len(commands) # 1
      BY <2>2, <2>4, <2>6, <3>1
    <3>3. Len(commands') \in 1..Len(commands')
      BY <2>1, <3>2
    <3> QED  BY <2>1, <3>1, <3>2, <3>3
  <2> QED  BY <2>2, <2>5, <2>6 DEF QueueInOrder
<1>3. AnswersComeLast'
  BY DEF VideoInv, VideoTyped, VideoAnswers, CallerRecord, CameraRecord, PortalRecord, TallyRecord,
     CommandRecord, QueueInOrder, AnswersComeLast, IsAsking, V!Idle, KnownFilmsRun, CameraStands
<1>4. CameraStands'
  BY <1>0, <1>a DEF VideoInv, VideoTyped, VideoAnswers, CallerRecord, CameraRecord, PortalRecord, TallyRecord,
     CommandRecord, CameraStands, V!Idle
<1>5. GrantStands'
  BY <1>0, <1>a DEF VideoInv, VideoTyped, VideoAnswers, CallerRecord, CameraRecord, PortalRecord, TallyRecord,
     CommandRecord, CameraStands, GrantStands, V!GrantIsKept, V!Idle
<1>6. FilmsAreKnown' /\ KnownFilmsRun'
  BY <1>0, <1>a DEF VideoInv, VideoTyped, VideoAnswers, CallerRecord, CameraRecord, PortalRecord, TallyRecord,
     CommandRecord, QueueInOrder, AnswersComeLast, IsAsking, CameraStands, FilmsAreKnown, FilmsAreTold,
     KnownFilmsRun, V!Idle
<1> QED  BY <1>1, <1>2, <1>3, <1>4, <1>5, <1>6 DEF VideoInv

LEMMA LookKeepsVideo == ASSUME VideoAssumed, VideoInv, V!Look  PROVE VideoInv'
<1> USE DEF V!Look
<1>1. VideoTyped'
  <2>1. caller' \in CallerRecord
    BY DEF VideoAssumed, VideoInv, VideoTyped, CallerRecord, CameraRecord, VideoAnswers
  <2>2. commands' \in Seq(CommandRecord)
    BY CommandsHeadAndTail DEF VideoAssumed, VideoInv, VideoTyped, CommandRecord, CallerRecord
  <2>3. camera' \in CameraRecord
    BY CommandsHeadAndTail DEF VideoAssumed, VideoInv, VideoTyped, CameraRecord, CommandRecord, PortalRecord,
       VideoAnswers, V!Idle
  <2>4. portal' \in PortalRecord /\ grant' \in 0..portal.given' /\ tally' \in TallyRecord
    BY DEF VideoAssumed, VideoInv, VideoTyped, PortalRecord, TallyRecord
  <2>5. ended' \subseteq tracked' /\ tracked' \subseteq Videos /\ healthy' \in BOOLEAN
        /\ signal' \in {"none", "given", "over"}
    BY DEF VideoInv, VideoTyped
  <2> QED  BY <2>1, <2>2, <2>3, <2>4, <2>5 DEF VideoTyped
<1>2. QueueInOrder'
  BY CommandsHeadAndTail DEF VideoInv, VideoTyped, VideoAnswers, CallerRecord, CameraRecord, PortalRecord,
     TallyRecord, CommandRecord, QueueInOrder, V!Idle
<1>3. AnswersComeLast'
  BY DEF VideoInv, VideoTyped, VideoAnswers, CallerRecord, CameraRecord, PortalRecord, TallyRecord,
     CommandRecord, QueueInOrder, AnswersComeLast, IsAsking, V!Idle, KnownFilmsRun, CameraStands
<1>4. CameraStands'
  BY DEF VideoInv, VideoTyped, VideoAnswers, CallerRecord, CameraRecord, PortalRecord, TallyRecord,
     CommandRecord, CameraStands, V!Idle
<1>5. GrantStands'
  BY DEF VideoInv, VideoTyped, VideoAnswers, CallerRecord, CameraRecord, PortalRecord, TallyRecord,
     CommandRecord, CameraStands, GrantStands, V!GrantIsKept, V!Idle
<1>6. FilmsAreKnown' /\ KnownFilmsRun'
  BY DEF VideoInv, VideoTyped, VideoAnswers, CallerRecord, CameraRecord, PortalRecord, TallyRecord,
     CommandRecord, QueueInOrder, AnswersComeLast, IsAsking, CameraStands, FilmsAreKnown, FilmsAreTold,
     KnownFilmsRun, V!Idle
<1> QED  BY <1>1, <1>2, <1>3, <1>4, <1>5, <1>6 DEF VideoInv

LEMMA StreamEndsKeepsVideo == ASSUME VideoAssumed, VideoInv, NEW s \in Videos, V!StreamEnds(s)  PROVE VideoInv'
<1> USE DEF V!StreamEnds, V!Faulted, V!Fault
<1>1. VideoTyped'
  <2>1. caller' \in CallerRecord
    BY DEF VideoAssumed, VideoInv, VideoTyped, CallerRecord, CameraRecord, VideoAnswers
  <2>2. commands' \in Seq(CommandRecord)
    BY CommandsHeadAndTail DEF VideoAssumed, VideoInv, VideoTyped, CommandRecord, CallerRecord
  <2>3. camera' \in CameraRecord
    BY CommandsHeadAndTail DEF VideoAssumed, VideoInv, VideoTyped, CameraRecord, CommandRecord, PortalRecord,
       VideoAnswers, V!Idle
  <2>4. portal' \in PortalRecord /\ grant' \in 0..portal.given' /\ tally' \in TallyRecord
    BY DEF VideoAssumed, VideoInv, VideoTyped, PortalRecord, TallyRecord
  <2>5. ended' \subseteq tracked' /\ tracked' \subseteq Videos /\ healthy' \in BOOLEAN
        /\ signal' \in {"none", "given", "over"}
    BY DEF VideoInv, VideoTyped
  <2> QED  BY <2>1, <2>2, <2>3, <2>4, <2>5 DEF VideoTyped
<1>2. QueueInOrder'
  BY CommandsHeadAndTail DEF VideoInv, VideoTyped, VideoAnswers, CallerRecord, CameraRecord, PortalRecord,
     TallyRecord, CommandRecord, QueueInOrder, V!Idle
<1>3. AnswersComeLast'
  BY DEF VideoInv, VideoTyped, VideoAnswers, CallerRecord, CameraRecord, PortalRecord, TallyRecord,
     CommandRecord, QueueInOrder, AnswersComeLast, IsAsking, V!Idle, KnownFilmsRun, CameraStands
<1>4. CameraStands'
  BY DEF VideoInv, VideoTyped, VideoAnswers, CallerRecord, CameraRecord, PortalRecord, TallyRecord,
     CommandRecord, CameraStands, V!Idle
<1>5. GrantStands'
  BY DEF VideoInv, VideoTyped, VideoAnswers, CallerRecord, CameraRecord, PortalRecord, TallyRecord,
     CommandRecord, CameraStands, GrantStands, V!GrantIsKept, V!Idle
<1>6. FilmsAreKnown' /\ KnownFilmsRun'
  BY DEF VideoInv, VideoTyped, VideoAnswers, CallerRecord, CameraRecord, PortalRecord, TallyRecord,
     CommandRecord, QueueInOrder, AnswersComeLast, IsAsking, CameraStands, FilmsAreKnown, FilmsAreTold,
     KnownFilmsRun, V!Idle
<1> QED  BY <1>1, <1>2, <1>3, <1>4, <1>5, <1>6 DEF VideoInv

LEMMA VideoInitHolds == ASSUME VideoAssumed, V!Init  PROVE VideoInv
<1> USE DEF V!Init
<1>1. PICK stored \in {0, 1} : grant = stored /\ portal = [open |-> FALSE, honours |-> stored, given |-> stored]
  OBVIOUS
<1>2. VideoTyped
  <2>1. 0 \in 0..MaxAsks /\ 0 \in 0..MaxFaults
    BY DEF VideoAssumed
  <2>2. commands \in Seq(CommandRecord)
    OBVIOUS
  <2>3. portal \in PortalRecord /\ grant \in 0..portal.given
    BY <1>1 DEF PortalRecord
  <2> QED  BY <2>1, <2>2, <2>3 DEF VideoTyped, CallerRecord, CameraRecord, TallyRecord, VideoAnswers, V!Idle
<1>3. QueueInOrder /\ AnswersComeLast /\ CameraStands
  BY <1>1 DEF QueueInOrder, AnswersComeLast, IsAsking, CameraStands, V!Idle
<1>4. GrantStands /\ FilmsAreKnown /\ KnownFilmsRun
  BY <1>1 DEF GrantStands, V!GrantIsKept, FilmsAreKnown, KnownFilmsRun, V!Idle
<1> QED  BY <1>2, <1>3, <1>4 DEF VideoInv

LEMMA VideoStep == ASSUME VideoAssumed, VideoInv, [V!Next]_(V!VideoVars)  PROVE VideoInv'
<1>1. ASSUME V!Next  PROVE VideoInv'
  BY <1>1, AskKeepsVideo, ReceiveKeepsVideo, DisconnectedKeepsVideo, RunOutKeepsVideo, GiveUpKeepsVideo,
     QuitKeepsVideo, SignalledKeepsVideo, GraceOverKeepsVideo, TakeStartKeepsVideo, CreateKeepsVideo,
     CreateFailsKeepsVideo, SelectKeepsVideo, StartAnswersKeepsVideo, StartBringsNoneKeepsVideo,
     ExchangeFailsKeepsVideo, ExchangeIsCutKeepsVideo, OpenStreamKeepsVideo, OpenFailsKeepsVideo, FilmsKeepsVideo, PanicsKeepsVideo,
     TakeStopKeepsVideo, ReplyKeepsVideo, TakeShutdownKeepsVideo, LookKeepsVideo, StreamEndsKeepsVideo DEF V!Next
<1>2. ASSUME UNCHANGED V!VideoVars  PROVE VideoInv'
  BY <1>2 DEF V!VideoVars, VideoInv, VideoTyped, QueueInOrder, AnswersComeLast, IsAsking, CameraStands,
     GrantStands, V!GrantIsKept, FilmsAreKnown, FilmsAreTold, KnownFilmsRun
<1> QED  BY <1>1, <1>2

LEMMA VideoInvShares == VideoInv => V!GrantIsKept /\ V!SharedOnlyForAFilm /\ V!WatchdogIsRight
<1> SUFFICES ASSUME VideoInv  PROVE V!GrantIsKept /\ V!SharedOnlyForAFilm /\ V!WatchdogIsRight
  OBVIOUS
<1>1. V!SharedOnlyForAFilm
  BY DEF VideoInv, V!SharedOnlyForAFilm, CameraStands, QueueInOrder, FilmsAreKnown, FilmsAreTold
<1>2. V!WatchdogIsRight
  BY DEF VideoInv, V!WatchdogIsRight, KnownFilmsRun
<1> QED  BY <1>1, <1>2 DEF VideoInv, GrantStands

-----------------------------------------------------------------------------
(* The browser's server *)

ServerAssumed == Capacity \in Nat \ {0} /\ MaxHolds \in Nat /\ MaxPeriods \in Nat /\ MaxLinks \in Nat

BrowserRecord == [at : {"out", "greeting", "telling", "on", "told", "batch"}, began : 0..MaxLinks + 1, read : BOOLEAN,
                  period : 0..MaxPeriods + 1, inbox : Seq(B!Events), rotated : 0..MaxPeriods + 1, missed : BOOLEAN,
                  behind : BOOLEAN]

ServerTyped ==
  /\ hold \in BOOLEAN /\ holds \in 0..MaxHolds
  /\ pauser \in [begun : BOOLEAN, last : BOOLEAN, news : BOOLEAN]
  /\ generation \in 0..MaxLinks + 1 /\ period \in 1..MaxPeriods + 1 /\ clocked \in 0..MaxPeriods + 1
  /\ server \in {"up", "bye", "down"}
  /\ others \subseteq B!Events
  /\ browser \in BrowserRecord /\ Len(browser.inbox) <= Capacity

\* A session that was told otherwise will be told again, was passed over, or the task has news.
HoldIsHeard ==
  browser.at \in {"telling", "on"} =>
    browser.inbox # <<>> \/ browser.missed \/ browser.read = hold \/ pauser.news \/ ~pauser.begun

\* Whoever ended the period that the session was told of will say so, or had no journal to name.
PeriodIsHeard ==
  browser.at = "on" =>
    browser.inbox # <<>> \/ browser.behind \/ browser.period = period \/ clocked # 0 \/ others # {}

ServerInv == ServerTyped /\ HoldIsHeard /\ PeriodIsHeard

LEMMA ServerShares == ASSUME ServerAssumed, ServerInv  PROVE B!TypeOK /\ B!ToldIsCurrent
<1>1. B!TypeOK
  <2>1. browser.inbox \in Seq(B!Events)
    BY DEF ServerInv, ServerTyped, BrowserRecord
  <2>2. \A i \in DOMAIN browser.inbox : browser.inbox[i] \in B!Events
    BY <2>1
  <2> QED  BY <2>2 DEF ServerInv, ServerTyped, BrowserRecord, B!TypeOK
<1>2. B!ToldIsCurrent
  BY DEF ServerInv, HoldIsHeard, PeriodIsHeard, B!ToldIsCurrent, B!Settled
<1> QED  BY <1>1, <1>2

LEMMA ServerInit == ASSUME ServerAssumed, B!Init  PROVE ServerInv
<1>1. <<>> \in Seq(B!Events) /\ Len(<<>>) = 0
  OBVIOUS
<1>2. browser \in BrowserRecord /\ Len(browser.inbox) <= Capacity
  BY <1>1 DEF B!Init, B!NoSession, BrowserRecord, ServerAssumed
<1>3. ServerTyped
  <2>1. pauser \in [begun : BOOLEAN, last : BOOLEAN, news : BOOLEAN] /\ hold \in BOOLEAN
    BY DEF B!Init
  <2>2. generation \in 0..MaxLinks + 1 /\ period \in 1..MaxPeriods + 1 /\ clocked \in 0..MaxPeriods + 1
        /\ holds \in 0..MaxHolds
    BY DEF B!Init, ServerAssumed
  <2> QED  BY <1>2, <2>1, <2>2 DEF B!Init, ServerTyped
<1> QED  BY <1>3 DEF B!Init, B!NoSession, ServerInv, HoldIsHeard, PeriodIsHeard

\* What is sent is in the inbox, or makes the session lag; it is never empty then.
LEMMA KeptInbox ==
  ASSUME ServerAssumed, NEW inbox \in Seq(B!Events), Len(inbox) <= Capacity, NEW event \in B!Events
  PROVE  B!Kept(inbox, event) \in Seq(B!Events) /\ Len(B!Kept(inbox, event)) <= Capacity
         /\ B!Kept(inbox, event) # <<>>
<1> DEFINE all == Append(inbox, event)
<1>1. all \in Seq(B!Events) /\ Len(all) = Len(inbox) + 1 /\ Len(inbox) \in Nat
      /\ \A i \in 1..Len(inbox) : all[i] = inbox[i]
  OBVIOUS
<1>2. CASE Len(all) <= Capacity
  <2>1. B!Kept(inbox, event) = all
    BY <1>2 DEF B!Kept
  <2> HIDE DEF all
  <2> QED  BY <1>1, <1>2, <2>1
<1>3. CASE ~(Len(all) <= Capacity)
  <2>1. Len(all) = Capacity + 1 /\ Capacity \in Nat \ {0}
    BY <1>1, <1>3 DEF ServerAssumed
  <2>2. B!Kept(inbox, event) = [i \in 1..Capacity |-> IF i = 1 THEN B!Lagged ELSE all[i + 1]]
    BY <1>3 DEF B!Kept, B!Behind
  <2>3. B!Lagged \in B!Events
    <3>1. B!Lagged = [what |-> "lagged", generation |-> 0, period |-> 0]
      BY DEF B!Lagged, B!Publish
    <3> QED  BY <3>1 DEF B!Events, ServerAssumed
  <2>4. \A i \in 1..Capacity : all[i + 1] \in B!Events
    <3> HIDE DEF all
    <3> QED  BY <1>1, <2>1
  <2> HIDE DEF all
  <2>5. B!Kept(inbox, event) \in [1..Capacity -> B!Events]
    BY <2>2, <2>3, <2>4
  <2>6. B!Kept(inbox, event) \in Seq(B!Events) /\ Len(B!Kept(inbox, event)) = Capacity
    BY <2>1, <2>5
  <2> QED  BY <2>1, <2>6
<1> QED  BY <1>2, <1>3

LEMMA SentIsThere ==
  ASSUME ServerAssumed, NEW session \in BrowserRecord, Len(session.inbox) <= Capacity, NEW event \in B!Events
  PROVE  /\ B!Sent(session, event) \in BrowserRecord /\ Len(B!Sent(session, event).inbox) <= Capacity
         /\ B!Sent(session, event).at = session.at
         /\ session.at # "out" => B!Sent(session, event).inbox # <<>>
<1>1. CASE session.at = "out"
  BY <1>1 DEF B!Sent
<1>2. CASE session.at # "out"
  <2>1. B!Sent(session, event) = [session EXCEPT !.inbox = B!Kept(session.inbox, event)]
    BY <1>2 DEF B!Sent
  <2>2. B!Kept(session.inbox, event) \in Seq(B!Events) /\ Len(B!Kept(session.inbox, event)) <= Capacity
        /\ B!Kept(session.inbox, event) # <<>>
    BY KeptInbox DEF BrowserRecord
  <2> QED  BY <2>1, <2>2 DEF BrowserRecord
<1> QED  BY <1>1, <1>2

\* A boundary is announced, or the session knows nothing of it.
LEMMA AnnouncedIsThere ==
  ASSUME ServerAssumed, NEW session \in BrowserRecord, Len(session.inbox) <= Capacity,
         NEW from \in 0..MaxLinks + 1, NEW p \in 0..MaxPeriods + 1
  PROVE  LET s == B!Announced(session, from, p) IN
         /\ s \in BrowserRecord /\ Len(s.inbox) <= Capacity
         /\ s.at = session.at /\ s.missed = session.missed /\ s.read = session.read
         /\ session.inbox # <<>> => s.inbox # <<>>
         /\ session.at = "on" => s.inbox # <<>> \/ s.behind
<1>1. CASE from # 0
  <2>1. B!Boundary(from, p) \in B!Events
    BY DEF B!Boundary, B!Events
  <2>2. B!Announced(session, from, p) = B!Sent(session, B!Boundary(from, p))
    BY <1>1 DEF B!Announced
  <2>3. B!Sent(session, B!Boundary(from, p)).missed = session.missed
        /\ B!Sent(session, B!Boundary(from, p)).read = session.read
        /\ (session.at = "out" => B!Sent(session, B!Boundary(from, p)) = session)
    BY DEF B!Sent, BrowserRecord
  <2> QED  BY <2>1, <2>2, <2>3, SentIsThere
<1>2. CASE from = 0
  <2>1. B!Announced(session, from, p) = [session EXCEPT !.behind = session.at = "on"]
    BY <1>2 DEF B!Announced, B!Unheard
  <2>2. [session EXCEPT !.behind = session.at = "on"] \in BrowserRecord
    BY DEF BrowserRecord
  <2> QED  BY <2>1, <2>2 DEF BrowserRecord
<1> QED  BY <1>1, <1>2

LEMMA HoldOrLinkKeeps ==
  ASSUME ServerAssumed, ServerInv, B!HoldChanges \/ B!LinkChanges \/ B!GoesDown
  PROVE  ServerInv'
<1>1. UNCHANGED <<period, clocked, others, browser>>
  BY DEF B!HoldChanges, B!LinkChanges, B!GoesDown
<1>2. CASE B!HoldChanges
  <2>1. hold' \in BOOLEAN /\ holds' \in 0..MaxHolds /\ UNCHANGED <<generation, server>>
    BY <1>2 DEF B!HoldChanges, ServerInv, ServerTyped, ServerAssumed
  <2>2. pauser' \in [begun : BOOLEAN, last : BOOLEAN, news : BOOLEAN] /\ pauser'.news
    BY <1>2 DEF B!HoldChanges, ServerInv, ServerTyped
  <2> QED  BY <1>1, <2>1, <2>2 DEF ServerInv, ServerTyped, HoldIsHeard, PeriodIsHeard
<1>3. CASE B!LinkChanges
  <2>1. generation' \in 0..MaxLinks + 1 /\ UNCHANGED <<hold, holds, pauser, server>>
    BY <1>3 DEF B!LinkChanges, ServerInv, ServerTyped, ServerAssumed
  <2> QED  BY <1>1, <2>1 DEF ServerInv, ServerTyped, HoldIsHeard, PeriodIsHeard
<1>4. CASE B!GoesDown
  <2>1. server' = "down" /\ UNCHANGED <<hold, holds, pauser, generation>>
    BY <1>4 DEF B!GoesDown
  <2> QED  BY <1>1, <2>1 DEF ServerInv, ServerTyped, HoldIsHeard, PeriodIsHeard
<1> QED  BY <1>2, <1>3, <1>4

LEMMA MissedIsTold ==
  ASSUME ServerAssumed, ServerInv
  PROVE  /\ B!Missed \in BrowserRecord /\ Len(B!Missed.inbox) <= Capacity
         /\ B!Missed.at = browser.at /\ B!Missed.inbox = browser.inbox /\ B!Missed.behind = browser.behind
         /\ B!Missed.period = browser.period
         /\ B!Missed.read = browser.read
         /\ browser.at \in {"telling", "on"} => B!Missed.missed \/ B!Missed.read = hold
<1>1. browser \in BrowserRecord /\ Len(browser.inbox) <= Capacity
  BY DEF ServerInv, ServerTyped
<1>2. PICK m \in BOOLEAN : m = (browser.at \in {"telling", "on"} /\ (browser.missed \/ browser.read # hold))
  OBVIOUS
<1>3. B!Missed = [browser EXCEPT !.missed = m]
  BY <1>2 DEF B!Missed
<1>4. B!Missed \in BrowserRecord /\ B!Missed.missed = m
  BY <1>1, <1>3 DEF BrowserRecord
<1> QED  BY <1>1, <1>2, <1>3, <1>4 DEF BrowserRecord

LEMMA PauserKeeps ==
  ASSUME ServerAssumed, ServerInv, B!PauserBegins \/ B!PauserLooks
  PROVE  ServerInv'
<1>1. UNCHANGED <<hold, holds, generation, period, clocked, others, server>>
  BY DEF B!PauserBegins, B!PauserLooks
<1>2. browser \in BrowserRecord /\ Len(browser.inbox) <= Capacity
  BY DEF ServerInv, ServerTyped
<1>3. pauser' \in [begun : BOOLEAN, last : BOOLEAN, news : BOOLEAN]
  BY DEF B!PauserBegins, B!PauserLooks, ServerInv, ServerTyped
<1>4. CASE browser' = B!Missed
  <2>1. ServerTyped'
    BY <1>1, <1>3, <1>4, MissedIsTold DEF ServerInv, ServerTyped
  <2>2. HoldIsHeard' /\ PeriodIsHeard'
    BY <1>1, <1>4, MissedIsTold DEF ServerInv, HoldIsHeard, PeriodIsHeard
  <2> QED  BY <2>1, <2>2 DEF ServerInv
<1>5. CASE browser' = B!Sent(browser, B!Publish)
  <2>1. B!Publish \in B!Events
    BY DEF B!Publish, B!Events, ServerAssumed
  <2>2. /\ browser' \in BrowserRecord /\ Len(browser'.inbox) <= Capacity /\ browser'.at = browser.at
        /\ (browser.at # "out" => browser'.inbox # <<>>)
    BY <1>2, <1>5, <2>1, SentIsThere
  <2>3. ServerTyped'
    BY <1>1, <1>3, <2>2 DEF ServerInv, ServerTyped
  <2> QED  BY <2>2, <2>3 DEF ServerInv, HoldIsHeard, PeriodIsHeard
<1> QED  BY <1>4, <1>5 DEF B!PauserBegins, B!PauserLooks

LEMMA ClockKeeps ==
  ASSUME ServerAssumed, ServerInv, B!ClockTicks \/ B!ClockAnnounces \/ B!SaysBye
  PROVE  ServerInv'
<1>0. browser \in BrowserRecord /\ Len(browser.inbox) <= Capacity /\ clocked \in 0..MaxPeriods + 1
      /\ generation \in 0..MaxLinks + 1
  BY DEF ServerInv, ServerTyped
<1>1. CASE B!ClockTicks
  <2>1. period' \in 1..MaxPeriods + 1 /\ clocked' \in 1..MaxPeriods + 1
        /\ UNCHANGED <<hold, holds, pauser, generation, others, browser, server>>
    BY <1>1 DEF B!ClockTicks, ServerInv, ServerTyped, ServerAssumed
  <2> QED  BY <2>1 DEF ServerInv, ServerTyped, HoldIsHeard, PeriodIsHeard, ServerAssumed
<1>2. CASE B!ClockAnnounces
  <2>1. browser' = B!Announced(browser, generation, clocked) /\ clocked' = 0
        /\ UNCHANGED <<hold, holds, pauser, generation, period, others, server>>
    BY <1>2 DEF B!ClockAnnounces, B!Announced
  <2>2. /\ browser' \in BrowserRecord /\ Len(browser'.inbox) <= Capacity
        /\ browser'.at = browser.at /\ browser'.missed = browser.missed /\ browser'.read = browser.read
        /\ (browser.inbox # <<>> => browser'.inbox # <<>>)
        /\ (browser.at = "on" => browser'.inbox # <<>> \/ browser'.behind)
    BY <1>0, <2>1, AnnouncedIsThere
  <2>3. ServerTyped'
    BY <2>1, <2>2 DEF ServerInv, ServerTyped, ServerAssumed
  <2> QED  BY <2>1, <2>2, <2>3 DEF ServerInv, HoldIsHeard, PeriodIsHeard
<1>3. CASE B!SaysBye
  <2>1. B!Bye \in B!Events
    <3>1. B!Bye = [what |-> "bye", generation |-> 0, period |-> 0]
      BY DEF B!Bye, B!Publish
    <3> QED  BY <3>1 DEF B!Events, ServerAssumed
  <2>2. server' = "bye" /\ browser' = B!Sent(browser, B!Bye)
        /\ UNCHANGED <<hold, holds, pauser, generation, period, clocked, others>>
    BY <1>3 DEF B!SaysBye
  <2>3. /\ browser' \in BrowserRecord /\ Len(browser'.inbox) <= Capacity /\ browser'.at = browser.at
        /\ (browser.at # "out" => browser'.inbox # <<>>)
    BY <1>0, <2>1, <2>2, SentIsThere
  <2>4. ServerTyped'
    BY <2>2, <2>3 DEF ServerInv, ServerTyped
  <2> QED  BY <2>3, <2>4 DEF ServerInv, HoldIsHeard, PeriodIsHeard
<1> QED  BY <1>1, <1>2, <1>3

LEMMA ToldAgainIs ==
  ASSUME NEW s \in BrowserRecord
  PROVE  B!ToldAgain(s) \in BrowserRecord /\ B!ToldAgain(s).at = "told" /\ B!ToldAgain(s).inbox = s.inbox
  BY DEF B!ToldAgain, BrowserRecord

LEMMA ReadsKeep ==
  ASSUME ServerAssumed, ServerInv, B!Connect \/ B!ReadHold \/ B!Tell \/ B!RenewalDue \/ B!TakeEvent \/ B!Leave
  PROVE  ServerInv'
<1>0. browser \in BrowserRecord /\ Len(browser.inbox) <= Capacity /\ period \in 1..MaxPeriods + 1
      /\ generation \in 0..MaxLinks + 1 /\ hold \in BOOLEAN
  BY DEF ServerInv, ServerTyped
<1>1. UNCHANGED <<hold, holds, pauser, generation, period, clocked, others, server>>
  BY DEF B!Connect, B!ReadHold, B!Tell, B!RenewalDue, B!TakeEvent, B!Leave
<1>2. <<>> \in Seq(B!Events) /\ Len(<<>>) = 0 /\ 0 \in 0..MaxLinks + 1 /\ 0 \in 0..MaxPeriods + 1 /\ 0 <= Capacity
  BY DEF ServerAssumed
<1>3. ASSUME browser' \in BrowserRecord, Len(browser'.inbox) <= Capacity, HoldIsHeard', PeriodIsHeard'
      PROVE  ServerInv'
  BY <1>1, <1>3 DEF ServerInv, ServerTyped
<1>4. CASE B!Connect
  <2>1. browser' = [B!NoSession EXCEPT !.at = "greeting"]
    BY <1>4 DEF B!Connect
  <2>2. browser' = [at |-> "greeting", began |-> 0, read |-> FALSE, period |-> 0,
                    inbox |-> <<>>, rotated |-> 0, missed |-> FALSE, behind |-> FALSE]
    BY <2>1 DEF B!NoSession
  <2>3. browser' \in BrowserRecord /\ browser'.at = "greeting" /\ browser'.inbox = <<>>
    BY <1>2, <2>2 DEF BrowserRecord
  <2> QED  BY <1>2, <1>3, <2>3 DEF HoldIsHeard, PeriodIsHeard
<1>5. CASE B!ReadHold
  <2>1. browser' = [browser EXCEPT !.at = "telling", !.read = hold,
                                   !.began = IF browser.at = "greeting" THEN generation ELSE @]
    BY <1>5 DEF B!ReadHold
  <2>4. PICK g \in 0..MaxLinks + 1 : browser' = [browser EXCEPT !.at = "telling", !.read = hold, !.began = g]
    <3>1. browser.began \in 0..MaxLinks + 1
      BY <1>0 DEF BrowserRecord
    <3>2. CASE browser.at = "greeting"
      BY <1>0, <2>1, <3>2
    <3>3. CASE browser.at # "greeting"
      BY <2>1, <3>1, <3>3
    <3> QED  BY <3>2, <3>3
  <2>2. browser' \in BrowserRecord
    BY <1>0, <2>4 DEF BrowserRecord
  <2>3. browser'.at = "telling" /\ browser'.read = hold /\ browser'.inbox = browser.inbox
    BY <1>0, <2>1 DEF BrowserRecord
  <2> QED  BY <1>0, <1>1, <1>3, <2>2, <2>3 DEF HoldIsHeard, PeriodIsHeard
<1>6. CASE B!Tell
  <2>1. browser.at = "telling" /\ browser' = [browser EXCEPT !.at = "on", !.period = period]
    BY <1>6 DEF B!Tell
  <2>4. period \in 0..MaxPeriods + 1
    BY <1>0, <1>2
  <2>2. browser' \in BrowserRecord
    BY <1>0, <2>1, <2>4 DEF BrowserRecord
  <2>3. browser'.at = "on" /\ browser'.period = period /\ browser'.inbox = browser.inbox
        /\ browser'.missed = browser.missed
        /\ browser'.read = browser.read
    BY <1>0, <2>1 DEF BrowserRecord
  <2> QED  BY <1>0, <1>1, <1>3, <2>1, <2>2, <2>3 DEF ServerInv, HoldIsHeard, PeriodIsHeard
<1>7. \A s \in BrowserRecord : B!ToldAgain(s) \in BrowserRecord /\ B!ToldAgain(s).at = "told"
      /\ B!ToldAgain(s).inbox = s.inbox
  BY ToldAgainIs
<1>8. CASE B!RenewalDue
  BY <1>0, <1>3, <1>7, <1>8 DEF B!RenewalDue, HoldIsHeard, PeriodIsHeard
<1>9. CASE browser' = B!NoSession
  <2>1. browser' \in BrowserRecord /\ browser'.at = "out" /\ browser'.inbox = <<>>
    BY <1>2, <1>9 DEF BrowserRecord, B!NoSession
  <2> QED  BY <1>2, <1>3, <2>1 DEF HoldIsHeard, PeriodIsHeard
<1>10. CASE /\ browser.inbox # <<>>
            /\ browser' = [B!ToldAgain(browser) EXCEPT !.inbox = Tail(@), !.period = B!PassedOn(Head(browser.inbox))]
  <2>1. browser.inbox \in Seq(B!Events)
    BY <1>0 DEF BrowserRecord
  <2>2. Head(browser.inbox) \in B!Events /\ Tail(browser.inbox) \in Seq(B!Events)
        /\ Len(Tail(browser.inbox)) <= Capacity
    BY <1>0, <1>10, <2>1 DEF ServerAssumed
  <2>3. B!PassedOn(Head(browser.inbox)) \in 0..MaxPeriods + 1
    BY <1>0, <2>2 DEF B!PassedOn, B!Events, BrowserRecord
  <2>4. B!ToldAgain(browser) \in BrowserRecord /\ B!ToldAgain(browser).at = "told"
        /\ B!ToldAgain(browser).inbox = browser.inbox
    BY <1>0, <1>7
  <2>5. browser' = [B!ToldAgain(browser) EXCEPT !.inbox = Tail(browser.inbox),
                    !.period = B!PassedOn(Head(browser.inbox))]
    BY <1>10, <2>4
  <2>6. browser' \in BrowserRecord /\ browser'.at = "told" /\ browser'.inbox = Tail(browser.inbox)
    BY <2>2, <2>3, <2>4, <2>5 DEF BrowserRecord
  <2> QED  BY <1>3, <2>2, <2>6 DEF HoldIsHeard, PeriodIsHeard
<1>11. CASE B!TakeEvent
  BY <1>9, <1>10, <1>11 DEF B!TakeEvent
<1> QED  BY <1>4, <1>5, <1>6, <1>8, <1>9, <1>11 DEF B!Leave

LEMMA BatchesKeep ==
  ASSUME ServerAssumed, ServerInv, B!TakeBatch \/ B!BatchAnnounces \/ B!OtherBatch \/ B!OtherAnnounces
  PROVE  ServerInv'
<1>0. browser \in BrowserRecord /\ Len(browser.inbox) <= Capacity /\ period \in 1..MaxPeriods + 1
      /\ generation \in 0..MaxLinks + 1 /\ MaxPeriods \in Nat /\ MaxLinks \in Nat
  BY DEF ServerInv, ServerTyped, ServerAssumed
<1>1. CASE B!TakeBatch
  <2>1. period' = period + 1 /\ period <= MaxPeriods
        /\ browser' = [browser EXCEPT !.at = "batch", !.rotated = period + 1]
        /\ UNCHANGED <<hold, holds, pauser, generation, clocked, others, server>>
    BY <1>1 DEF B!TakeBatch
  <2>2. period + 1 \in 1..MaxPeriods + 1 /\ period + 1 \in 0..MaxPeriods + 1
    BY <1>0, <2>1
  <2>3. browser' \in BrowserRecord /\ browser'.at = "batch" /\ browser'.inbox = browser.inbox
    BY <1>0, <2>1, <2>2 DEF BrowserRecord
  <2>4. ServerTyped'
    BY <1>0, <2>1, <2>2, <2>3 DEF ServerInv, ServerTyped
  <2> QED  BY <2>3, <2>4 DEF ServerInv, HoldIsHeard, PeriodIsHeard
<1>2. CASE B!BatchAnnounces
  <2> DEFINE s == [B!ToldAgain(browser) EXCEPT !.rotated = 0]
  <2>1. s \in BrowserRecord /\ s.at = "told" /\ s.inbox = browser.inbox
    <3>1. B!ToldAgain(browser) \in BrowserRecord /\ B!ToldAgain(browser).at = "told"
          /\ B!ToldAgain(browser).inbox = browser.inbox
      BY <1>0, ToldAgainIs
    <3>2. 0 \in 0..MaxPeriods + 1
      BY <1>0
    <3> QED  BY <3>1, <3>2 DEF BrowserRecord
  <2>2. browser.began \in 0..MaxLinks + 1 /\ browser.rotated \in 0..MaxPeriods + 1
    BY <1>0 DEF BrowserRecord
  <2>3. browser' = B!Announced(s, browser.began, browser.rotated)
        /\ UNCHANGED <<hold, holds, pauser, generation, period, clocked, others, server>>
    BY <1>2 DEF B!BatchAnnounces
  <2> HIDE DEF s
  <2>4. browser' \in BrowserRecord /\ Len(browser'.inbox) <= Capacity /\ browser'.at = "told"
    BY <1>0, <2>1, <2>2, <2>3, AnnouncedIsThere
  <2>5. ServerTyped'
    BY <2>3, <2>4 DEF ServerInv, ServerTyped
  <2> QED  BY <2>4, <2>5 DEF ServerInv, HoldIsHeard, PeriodIsHeard
<1>3. CASE B!OtherBatch
  <2>1. PICK from \in 0..MaxLinks + 1 : others' = others \cup {B!Boundary(from, period + 1)}
    BY <1>3 DEF B!OtherBatch
  <2>2. period' = period + 1 /\ period <= MaxPeriods
        /\ UNCHANGED <<hold, holds, pauser, generation, clocked, browser, server>>
    BY <1>3 DEF B!OtherBatch
  <2>3. period + 1 \in 1..MaxPeriods + 1
    BY <1>0, <2>2
  <2>4. B!Boundary(from, period + 1) \in B!Events
    BY <2>3 DEF B!Boundary, B!Events
  <2>5. others' \subseteq B!Events /\ others' # {}
    BY <2>1, <2>4 DEF ServerInv, ServerTyped
  <2>6. ServerTyped'
    BY <2>2, <2>3, <2>5 DEF ServerInv, ServerTyped
  <2> QED  BY <2>2, <2>5, <2>6 DEF ServerInv, HoldIsHeard, PeriodIsHeard
<1>4. CASE B!OtherAnnounces
  <2>1. PICK o \in others : others' = others \ {o} /\ browser' = B!Announced(browser, o.generation, o.period)
    BY <1>4 DEF B!OtherAnnounces
  <2>2. UNCHANGED <<hold, holds, pauser, generation, period, clocked, server>>
    BY <1>4 DEF B!OtherAnnounces
  <2>3. o \in B!Events
    BY DEF ServerInv, ServerTyped
  <2>4. o.generation \in 0..MaxLinks + 1 /\ o.period \in 0..MaxPeriods + 1
    BY <2>3 DEF B!Events
  <2>5. /\ browser' \in BrowserRecord /\ Len(browser'.inbox) <= Capacity
        /\ browser'.at = browser.at /\ browser'.missed = browser.missed /\ browser'.read = browser.read
        /\ (browser.inbox # <<>> => browser'.inbox # <<>>)
        /\ (browser.at = "on" => browser'.inbox # <<>> \/ browser'.behind)
    BY <1>0, <2>1, <2>4, AnnouncedIsThere
  <2>6. ServerTyped'
    BY <2>1, <2>2, <2>5 DEF ServerInv, ServerTyped
  <2> QED  BY <2>2, <2>5, <2>6 DEF ServerInv, HoldIsHeard, PeriodIsHeard
<1> QED  BY <1>1, <1>2, <1>3, <1>4

LEMMA ServerStep == ASSUME ServerAssumed, ServerInv, [B!Next]_(B!ServerVars)  PROVE ServerInv'
<1>1. CASE UNCHANGED B!ServerVars
  BY <1>1 DEF B!ServerVars, ServerInv, ServerTyped, HoldIsHeard, PeriodIsHeard
<1>2. CASE B!Next
  BY <1>2, HoldOrLinkKeeps, PauserKeeps, ClockKeeps, ReadsKeep, BatchesKeep DEF B!Next
<1> QED  BY <1>1, <1>2

-----------------------------------------------------------------------------
(* The desktop session *)

\* Displays are numbered from 0, and one of them is the first.
SessionAssumed ==
  /\ Displays \subseteq Nat /\ \E d \in Displays : \A e \in Displays : d <= e
  /\ Patience \in Nat \ {0} /\ RecheckAfter \in Nat \ {0} /\ MaxSwitches \in Nat /\ MaxCookies \in Nat \ {0}

Spots == Displays \cup {D!None}
KindNames == {"none", "x11", "wayland"}

\* Who is in front, and has a display, was seen so just now.
SeatIsSeen ==
  /\ \A s \in D!Sessions : seat.front = s => since.front[s] = 0
  /\ \A s \in D!Sessions : \A d \in Displays : seat.display[s] = d => since.display[s][d] = 0

\* A proven session had its display when it was proven.
ProofIsOf ==
  proven.session # "none" /\ proven.display # D!None => since.display[proven.session][proven.display] <= proven.age

\* What is live was in front at logind's last answer, and had its display at most a minute before.
TargetStands ==
  target.presence = "live" =>
    /\ target.session # "none"
    /\ since.front[target.session] <= answered
    /\ target.kind = "x11" /\ target.display # D!None =>
         since.display[target.session][target.display] < RecheckAfter + answered
    /\ resolved => answered < Patience

\* A server's credential that was written to the private file is still there.
KeptIsThere == \A d \in Displays : servers[d] \in proofs[d] => managed[d] = servers[d]

UnreachableIsUnknown ==
  target.presence = "unreachable" /\ target.display # D!None => servers[target.display] \notin proofs[target.display]

SessionInv == D!TypeOK /\ SeatIsSeen /\ ProofIsOf /\ TargetStands /\ KeptIsThere /\ UnreachableIsUnknown

LEMMA SessionShares == ASSUME SessionAssumed, SessionInv  PROVE D!TargetIsRecent /\ D!ProvenStaysReachable
<1> USE DEF SessionAssumed, SessionInv
<1>1. D!TargetIsRecent
  <2> SUFFICES ASSUME resolved, target.presence = "live"
               PROVE  /\ since.front[target.session] < Patience
                      /\ target.kind = "x11" /\ target.display # D!None =>
                           since.display[target.session][target.display] < RecheckAfter + Patience
    BY DEF D!TargetIsRecent
  <2>1. target.session \in D!Sessions /\ answered \in Nat /\ answered < Patience
        /\ since.front[target.session] \in Nat
    BY DEF D!TypeOK, TargetStands, D!Ages, D!Old
  <2>2. ASSUME target.kind = "x11", target.display # D!None
        PROVE  since.display[target.session][target.display] < RecheckAfter + Patience
    <3>1. target.display \in Displays
      BY <2>2 DEF D!TypeOK
    <3>2. since.display[target.session][target.display] \in D!Ages
      <4>1. since.display \in [D!Sessions -> [Displays -> D!Ages]]
        BY DEF D!TypeOK
      <4> QED  BY <4>1, <3>1, <2>1
    <3> QED  BY <2>1, <2>2, <3>2 DEF TargetStands, D!Ages, D!Old
  <2> QED  BY <2>1, <2>2 DEF TargetStands
<1>2. D!ProvenStaysReachable
  BY DEF D!ProvenStaysReachable, UnreachableIsUnknown
<1> QED  BY <1>1, <1>2

LEMMA SessionInit == ASSUME SessionAssumed, D!Init  PROVE SessionInv
<1> DEFINE home == CHOOSE d \in Displays : \A e \in Displays : d <= e
<1>1. home \in Displays
  BY DEF SessionAssumed
<1>2. /\ seat = [listed |-> D!Sessions, front |-> "desk", runs |-> "none",
                 display |-> [s \in D!Sessions |-> IF s = "desk" THEN home ELSE D!None]]
      /\ servers = [d \in Displays |-> IF d = home THEN 1 ELSE 0] /\ authority = servers
      /\ logind = TRUE /\ answered = D!Old /\ resolved = FALSE /\ happened = 0
      /\ target = D!Absent("login_unavailable") /\ proven = D!Nothing /\ texts = [runs |-> "none", age |-> D!Old]
      /\ managed = [d \in Displays |-> 0] /\ proofs = [d \in Displays |-> {}]
      /\ since = [front |-> [s \in D!Sessions |-> IF s = "desk" THEN 0 ELSE D!Old],
                  display |-> [s \in D!Sessions |-> [d \in Displays |-> IF s = "desk" /\ d = home THEN 0 ELSE D!Old]]]
  BY DEF D!Init
<1> HIDE DEF home
<1>3. D!Old \in Nat /\ D!Old \in D!Ages /\ 0 \in D!Ages
  BY DEF SessionAssumed, D!Old, D!Ages
<1>4. D!TypeOK
  <2>1. seat \in [listed : SUBSET D!Sessions, front : D!Sessions \cup {"none"}, runs : KindNames,
                  display : [D!Sessions -> Spots]]
    BY <1>1, <1>2 DEF D!Sessions, Spots, KindNames
  <2>2. servers \in [Displays -> 0..MaxCookies] /\ authority \in [Displays -> 0..MaxCookies]
        /\ managed \in [Displays -> 0..MaxCookies] /\ proofs \in [Displays -> SUBSET (1..MaxCookies)]
    BY <1>2 DEF SessionAssumed
  <2>3. since.front \in [D!Sessions -> D!Ages] /\ since.display \in [D!Sessions -> [Displays -> D!Ages]]
        /\ since \in [front : [D!Sessions -> D!Ages], display : [D!Sessions -> [Displays -> D!Ages]]]
    BY <1>2, <1>3
  <2>4. target \in [presence : {"live", "not_active", "no_desktop", "unreachable", "login_unavailable"},
                    session : D!Sessions \cup {"none"}, kind : KindNames, display : Spots]
    BY <1>2 DEF D!Absent, KindNames, Spots
  <2>5. proven \in [session : D!Sessions \cup {"none"}, display : Spots, cookie : 0..MaxCookies, age : D!Ages]
    BY <1>2, <1>3 DEF D!Nothing, Spots, SessionAssumed
  <2>6. texts \in [runs : KindNames, age : D!Ages] /\ answered \in D!Ages /\ happened \in 0..MaxSwitches
    BY <1>2, <1>3 DEF KindNames, SessionAssumed
  <2>7. logind \in BOOLEAN /\ resolved \in BOOLEAN
    BY <1>2, Zenon
  <2> QED  BY <2>1, <2>2, <2>3, <2>4, <2>5, <2>6, <2>7 DEF D!TypeOK, Spots, KindNames
<1>5. SeatIsSeen
  BY <1>1, <1>2 DEF SeatIsSeen, D!Sessions, D!None, SessionAssumed
<1>6. ProofIsOf /\ TargetStands /\ KeptIsThere /\ UnreachableIsUnknown
  BY <1>2 DEF ProofIsOf, TargetStands, KeptIsThere, UnreachableIsUnknown, D!Nothing, D!Absent
<1> QED  BY <1>4, <1>5, <1>6 DEF SessionInv

LEMMA KindIsNamed == ASSUME D!TypeOK, NEW s  PROVE D!Kind(s) \in KindNames
  BY DEF D!TypeOK, D!Kind, D!Runs, KindNames

\* What a resolution with logind's answer points at.
LEMMA TargetForStands ==
  ASSUME SessionAssumed, SessionInv, D!TargetFor, answered' = 0, resolved' = TRUE,
         UNCHANGED <<seat, servers, authority, logind, since, happened>>, texts' \in [runs : KindNames, age : D!Ages]
  PROVE  SessionInv'
<1> USE DEF SessionAssumed, SessionInv
<1>0. D!Old \in Nat /\ 0 \in D!Ages /\ since.front \in [D!Sessions -> D!Ages]
      /\ since.display \in [D!Sessions -> [Displays -> D!Ages]]
      /\ \A s \in D!Sessions : D!Kind(s) \in KindNames
  BY KindIsNamed DEF D!TypeOK, D!Ages, D!Old
<1>1. CASE seat.front \in D!Graphical /\ D!Reuse(seat.front)
  <2> DEFINE s == seat.front
  <2>1. s \in D!Sessions /\ proven.session = s /\ proven.age < RecheckAfter /\ target' = D!Live(s, proven.display)
        /\ UNCHANGED <<proven, managed, proofs>>
    BY <1>1 DEF D!Reuse, D!Graphical, D!TypeOK
  <2>2. D!TypeOK'
    BY <2>1, <1>0 DEF D!TypeOK, D!Live, KindNames
  <2>3. TargetStands'
    <3>1. since.front[s] = 0
      BY <2>1 DEF SeatIsSeen
    <3>2. ASSUME proven.display # D!None  PROVE since.display[s][proven.display] < RecheckAfter
      <4>1. since.display[s][proven.display] <= proven.age
        BY <2>1, <3>2 DEF ProofIsOf, D!Sessions
      <4>2. proven.display \in Displays /\ proven.age \in D!Ages
        BY <3>2 DEF D!TypeOK
      <4>3. since.display[s][proven.display] \in D!Ages
        BY <1>0, <2>1, <4>2
      <4> QED  BY <4>1, <4>2, <4>3, <2>1 DEF D!Ages, D!Old
    <3> QED  BY <2>1, <3>1, <3>2 DEF TargetStands, D!Live, D!Sessions
  <2>4. (SeatIsSeen /\ ProofIsOf /\ KeptIsThere /\ UnreachableIsUnknown)'
    BY <2>1 DEF SeatIsSeen, ProofIsOf, KeptIsThere, UnreachableIsUnknown, D!Live
  <2> QED  BY <2>2, <2>3, <2>4
<1>2. CASE seat.front \in D!Graphical /\ D!Prove(seat.front)
  <2> DEFINE s == seat.front
             d == D!DisplayOf(s)
  <2>1. s \in D!Sessions /\ d = seat.display[s] /\ d \in Spots /\ since.front[s] = 0
        /\ (d # D!None => since.display[s][d] = 0)
    BY <1>2 DEF D!Graphical, D!TypeOK, D!DisplayOf, Spots, SeatIsSeen
  <2>2. CASE D!Reached(d) /\ target' = D!Live(s, d) /\ proven' = D!Remembered(s, d, servers[d])
             /\ (\/ D!WriteManaged(d, servers[d]) /\ proofs' = [proofs EXCEPT ![d] = @ \cup {servers[d]}]
                 \/ UNCHANGED <<managed, proofs>>)
    <3>1. d \in Displays /\ servers[d] \in 1..MaxCookies
      <4>1. d \in Displays /\ servers[d] # 0
        BY <2>1, <2>2 DEF D!Reached, Spots
      <4>2. servers \in [Displays -> 0..MaxCookies]
        BY DEF D!TypeOK
      <4> HIDE DEF d
      <4> QED  BY <4>1, <4>2
    <3>2. D!TypeOK' /\ KeptIsThere'
      <4>1. managed' \in [Displays -> 0..MaxCookies] /\ proofs' \in [Displays -> SUBSET (1..MaxCookies)]
            /\ KeptIsThere'
        BY <2>2, <3>1 DEF D!WriteManaged, D!TypeOK, KeptIsThere
      <4> QED  BY <2>1, <2>2, <3>1, <4>1, <1>0 DEF D!TypeOK, D!Live, D!Remembered, KindNames
    <3>3. TargetStands' /\ ProofIsOf' /\ UnreachableIsUnknown' /\ SeatIsSeen'
      BY <2>1, <2>2, <3>1, <1>0 DEF TargetStands, ProofIsOf, UnreachableIsUnknown, SeatIsSeen, D!Live,
         D!Remembered, D!Sessions
    <3> QED  BY <3>2, <3>3
  <2>3. CASE ~D!Reached(d) /\ UNCHANGED <<managed, proofs>> /\ D!Kind(s) = "x11"
             /\ target' = [D!Live(s, d) EXCEPT !.presence = "unreachable"] /\ UNCHANGED proven
    <3>1. target' = [presence |-> "unreachable", session |-> s, kind |-> "x11", display |-> d]
      BY <2>3 DEF D!Live
    <3>2. D!TypeOK'
      <4>1. target' \in [presence : {"live", "not_active", "no_desktop", "unreachable", "login_unavailable"},
                         session : D!Sessions \cup {"none"}, kind : KindNames, display : Spots]
        BY <2>1, <3>1 DEF KindNames
      <4> HIDE DEF d
      <4> QED  BY <2>3, <4>1, <1>0 DEF D!TypeOK, Spots, KindNames
    <3>3. (SeatIsSeen /\ ProofIsOf /\ KeptIsThere /\ TargetStands)'
      BY <2>3, <3>1 DEF SeatIsSeen, ProofIsOf, KeptIsThere, TargetStands
    <3>4. UnreachableIsUnknown'
      <4> SUFFICES ASSUME d # D!None, servers[d] \in proofs[d]  PROVE FALSE
        BY <2>3, <3>1 DEF UnreachableIsUnknown
      <4> HIDE DEF d
      <4>1. d \in Displays
        BY <2>1 DEF Spots
      <4>2. managed[d] = servers[d]
        BY <4>1 DEF KeptIsThere
      <4>3. proofs[d] \subseteq 1..MaxCookies
        BY <4>1 DEF D!TypeOK
      <4>4. servers[d] # 0
        BY <4>3
      <4> QED  BY <4>1, <4>2, <4>4, <2>3 DEF D!Reached, D!Candidates
    <3> QED  BY <3>2, <3>3, <3>4
  <2>4. CASE ~D!Reached(d) /\ UNCHANGED <<managed, proofs>> /\ D!Kind(s) # "x11"
             /\ target' = D!Live(s, d) /\ proven' = D!Remembered(s, d, 0)
    <3>1. D!TypeOK'
      BY <2>1, <2>4, <1>0 DEF D!TypeOK, D!Live, D!Remembered, KindNames, Spots
    <3>2. TargetStands' /\ ProofIsOf' /\ UnreachableIsUnknown' /\ SeatIsSeen' /\ KeptIsThere'
      BY <2>1, <2>4, <1>0
         DEF TargetStands, ProofIsOf, UnreachableIsUnknown, SeatIsSeen, KeptIsThere, D!Live, D!Remembered, D!Sessions
    <3> QED  BY <3>1, <3>2
  <2> QED  BY <1>2, <2>2, <2>3, <2>4 DEF D!Prove
<1>3. CASE seat.front \notin D!Graphical /\ UNCHANGED <<proven, managed, proofs>>
           /\ target' = D!Absent(IF D!Graphical # {} THEN "not_active" ELSE "no_desktop")
  <2>1. PICK why \in {"not_active", "no_desktop"} :
          target' = [presence |-> why, session |-> "none", kind |-> "none", display |-> D!None]
    BY <1>3 DEF D!Absent
  <2>2. D!TypeOK'
    BY <1>3, <2>1, <1>0 DEF D!TypeOK, KindNames
  <2>3. (SeatIsSeen /\ ProofIsOf /\ KeptIsThere /\ TargetStands /\ UnreachableIsUnknown)'
    BY <1>3, <2>1 DEF SeatIsSeen, ProofIsOf, KeptIsThere, TargetStands, UnreachableIsUnknown
  <2> QED  BY <2>2, <2>3
<1> QED  BY <1>1, <1>2, <1>3 DEF D!TargetFor

LEMMA ResolveKeeps == ASSUME SessionAssumed, SessionInv, D!Resolve  PROVE SessionInv'
<1>1. texts' \in [runs : KindNames, age : D!Ages]
  <2>1. texts \in [runs : KindNames, age : D!Ages] /\ seat.runs \in KindNames /\ 0 \in D!Ages
    BY DEF SessionInv, D!TypeOK, KindNames, SessionAssumed, D!Ages, D!Old
  <2> QED  BY <2>1 DEF D!Resolve
<1> QED  BY <1>1, TargetForStands DEF D!Resolve

LEMMA UnansweredKeeps == ASSUME SessionAssumed, SessionInv, D!ResolveUnanswered  PROVE SessionInv'
<1>1. UNCHANGED <<seat, servers, authority, logind, proven, texts, answered, managed, since, proofs, happened>>
      /\ resolved' = TRUE
  BY DEF D!ResolveUnanswered
<1>2. CASE answered < Patience /\ target' = target
  <2>1. D!TypeOK' /\ SeatIsSeen' /\ ProofIsOf' /\ KeptIsThere' /\ UnreachableIsUnknown'
    BY <1>1, <1>2 DEF SessionInv, D!TypeOK, SeatIsSeen, ProofIsOf, KeptIsThere, UnreachableIsUnknown
  <2>2. TargetStands'
    BY <1>1, <1>2 DEF SessionInv, TargetStands
  <2> QED  BY <2>1, <2>2 DEF SessionInv
<1>3. CASE target' = D!Absent("login_unavailable")
  <2>1. D!TypeOK'
    BY <1>1, <1>3 DEF SessionInv, D!TypeOK, D!Absent
  <2>2. SeatIsSeen' /\ ProofIsOf' /\ KeptIsThere' /\ UnreachableIsUnknown' /\ TargetStands'
    BY <1>1, <1>3 DEF SessionInv, SeatIsSeen, ProofIsOf, KeptIsThere, UnreachableIsUnknown, TargetStands, D!Absent
  <2> QED  BY <2>1, <2>2 DEF SessionInv
<1> QED  BY <1>2, <1>3 DEF D!ResolveUnanswered

\* Whoever is seen has been seen more lately.
LEMMA SeenIsLater ==
  ASSUME SessionAssumed, SessionInv, seat' \in [listed : SUBSET D!Sessions, front : D!Sessions \cup {"none"},
           runs : KindNames, display : [D!Sessions -> Spots]], since' = D!Seen(seat')
  PROVE  /\ since' \in [front : [D!Sessions -> D!Ages], display : [D!Sessions -> [Displays -> D!Ages]]]
         /\ SeatIsSeen'
         /\ \A s \in D!Sessions : since'.front[s] <= since.front[s]
         /\ \A s \in D!Sessions : \A d \in Displays : since'.display[s][d] <= since.display[s][d]
<1>1. since.front \in [D!Sessions -> D!Ages] /\ since.display \in [D!Sessions -> [Displays -> D!Ages]] /\ 0 \in D!Ages
  BY DEF SessionInv, D!TypeOK, SessionAssumed, D!Ages, D!Old
<1>2. /\ since'.front = [s \in D!Sessions |-> IF seat'.front = s THEN 0 ELSE since.front[s]]
      /\ since'.display = [s \in D!Sessions |-> [d \in Displays |->
                            IF seat'.display[s] = d THEN 0 ELSE since.display[s][d]]]
      /\ since' = [front |-> since'.front, display |-> since'.display]
  BY DEF D!Seen
<1>3. since'.front \in [D!Sessions -> D!Ages] /\ since'.display \in [D!Sessions -> [Displays -> D!Ages]]
  BY <1>1, <1>2
<1>4. since' \in [front : [D!Sessions -> D!Ages], display : [D!Sessions -> [Displays -> D!Ages]]]
  BY <1>2, <1>3
<1>5. SeatIsSeen'
  BY <1>2 DEF SeatIsSeen
<1>6. \A a \in D!Ages : 0 <= a /\ a <= a
  BY DEF SessionAssumed, D!Ages, D!Old
<1>7. \A s \in D!Sessions : since'.front[s] <= since.front[s]
  BY <1>1, <1>2, <1>6
<1>8. \A s \in D!Sessions : \A d \in Displays : since'.display[s][d] <= since.display[s][d]
  <2> TAKE s \in D!Sessions
  <2> TAKE d \in Displays
  <2>1. since.display[s][d] \in D!Ages
    BY <1>1
  <2>2. since'.display[s][d] = IF seat'.display[s] = d THEN 0 ELSE since.display[s][d]
    BY <1>2
  <2> QED  BY <2>1, <2>2, <1>6
<1> QED  BY <1>4, <1>5, <1>7, <1>8

LEMMA Earlier ==
  /\ \A a, b, c \in Int : a <= b /\ b <= c => a <= c
  /\ \A a, b, c \in Int : a <= b /\ b < c => a < c
OBVIOUS

\* What is seen later keeps what is known of the proof and the target.
LEMMA LaterKeeps ==
  ASSUME SessionAssumed, SessionInv, D!TypeOK', UNCHANGED <<proven, target, answered>>, resolved' = FALSE,
         \A s \in D!Sessions : since'.front[s] <= since.front[s],
         \A s \in D!Sessions : \A d \in Displays : since'.display[s][d] <= since.display[s][d]
  PROVE  ProofIsOf' /\ TargetStands'
<1>1. since.front \in [D!Sessions -> D!Ages] /\ since.display \in [D!Sessions -> [Displays -> D!Ages]]
  BY DEF SessionInv, D!TypeOK
<1>2. since'.front \in [D!Sessions -> D!Ages] /\ since'.display \in [D!Sessions -> [Displays -> D!Ages]]
  BY DEF D!TypeOK
<1>3. D!Ages \subseteq Int /\ answered \in Int /\ RecheckAfter \in Int
  BY DEF SessionAssumed, SessionInv, D!TypeOK, D!Ages, D!Old
<1>4. ProofIsOf'
  <2> SUFFICES ASSUME proven.session # "none", proven.display # D!None
               PROVE  since'.display[proven.session][proven.display] <= proven.age
    BY DEF ProofIsOf
  <2>1. proven.session \in D!Sessions /\ proven.display \in Displays /\ proven.age \in D!Ages
    BY DEF SessionInv, D!TypeOK
  <2>2. since.display[proven.session][proven.display] <= proven.age
    BY DEF SessionInv, ProofIsOf
  <2>3. since.display[proven.session][proven.display] \in D!Ages
        /\ since'.display[proven.session][proven.display] \in D!Ages
    BY <1>1, <1>2, <2>1
  <2>4. since'.display[proven.session][proven.display] <= since.display[proven.session][proven.display]
    BY <2>1
  <2>5. since.display[proven.session][proven.display] \in Int
        /\ since'.display[proven.session][proven.display] \in Int
        /\ proven.age \in Int
    BY <1>3, <2>1, <2>3
  <2> QED  BY <2>2, <2>4, <2>5, Earlier
<1>5. TargetStands'
  <2> SUFFICES ASSUME target.presence = "live"
               PROVE  /\ target.session # "none" /\ since'.front[target.session] <= answered
                      /\ target.kind = "x11" /\ target.display # D!None =>
                           since'.display[target.session][target.display] < RecheckAfter + answered
    BY DEF TargetStands
  <2>1. target.session \in D!Sessions /\ since.front[target.session] <= answered
    BY DEF SessionInv, D!TypeOK, TargetStands
  <2>2. since.front[target.session] \in D!Ages /\ since'.front[target.session] \in D!Ages
        /\ since'.front[target.session] <= since.front[target.session]
    BY <1>1, <1>2, <2>1
  <2>3. ASSUME target.kind = "x11", target.display # D!None
        PROVE  since'.display[target.session][target.display] < RecheckAfter + answered
    <3>1. target.display \in Displays
      BY <2>3 DEF SessionInv, D!TypeOK
    <3>2. since.display[target.session][target.display] < RecheckAfter + answered
      BY <2>3 DEF SessionInv, TargetStands
    <3>3. since.display[target.session][target.display] \in D!Ages
          /\ since'.display[target.session][target.display] \in D!Ages
      BY <1>1, <1>2, <2>1, <3>1
    <3>4. since'.display[target.session][target.display] <= since.display[target.session][target.display]
      BY <2>1, <3>1
    <3>5. since.display[target.session][target.display] \in Int
          /\ since'.display[target.session][target.display] \in Int
      BY <1>3, <3>3
    <3>6. RecheckAfter + answered \in Int
      BY <1>3
    <3> QED  BY <3>2, <3>4, <3>5, <3>6, Earlier
  <2>4. since.front[target.session] \in Int /\ since'.front[target.session] \in Int
    BY <1>3, <2>2
  <2>5. since'.front[target.session] <= answered
    BY <1>3, <2>1, <2>2, <2>4, Earlier
  <2> QED  BY <2>1, <2>3, <2>5 DEF D!Sessions
<1> QED  BY <1>4, <1>5

\* What only moves the desktop keeps the types.
LEMMA SessionTyped ==
  ASSUME SessionInv, UNCHANGED <<logind, target, proven, texts, answered, managed, proofs>>,
         UNCHANGED <<servers, authority>>, resolved' = FALSE, happened' \in 0..MaxSwitches,
         seat' \in [listed : SUBSET D!Sessions, front : D!Sessions \cup {"none"}, runs : KindNames,
                    display : [D!Sessions -> Spots]],
         since' \in [front : [D!Sessions -> D!Ages], display : [D!Sessions -> [Displays -> D!Ages]]]
  PROVE  D!TypeOK'
<1>1. (servers \in [Displays -> 0..MaxCookies] /\ authority \in [Displays -> 0..MaxCookies]
       /\ managed \in [Displays -> 0..MaxCookies] /\ proofs \in [Displays -> SUBSET (1..MaxCookies)])'
  BY Zenon DEF SessionInv, D!TypeOK
<1>2. (logind \in BOOLEAN /\ resolved \in BOOLEAN /\ answered \in D!Ages)'
  BY Zenon DEF SessionInv, D!TypeOK
<1>3. (target \in [presence : {"live", "not_active", "no_desktop", "unreachable", "login_unavailable"},
                   session : D!Sessions \cup {"none"}, kind : {"none", "x11", "wayland"},
                   display : Displays \cup {D!None}])'
  BY Zenon DEF SessionInv, D!TypeOK
<1>4. (proven \in [session : D!Sessions \cup {"none"}, display : Displays \cup {D!None}, cookie : 0..MaxCookies,
                   age : D!Ages]
       /\ texts \in [runs : {"none", "x11", "wayland"}, age : D!Ages])'
  BY Zenon DEF SessionInv, D!TypeOK
<1> QED  BY <1>1, <1>2, <1>3, <1>4, Zenon DEF D!TypeOK, KindNames, Spots

LEMMA SwitchKeeps == ASSUME SessionAssumed, SessionInv, D!Switch  PROVE SessionInv'
<1>1. PICK s \in seat.listed \cup {"none"} : seat' = [seat EXCEPT !.front = s] /\ since' = D!Seen(seat')
  BY DEF D!Switch
<1>2. UNCHANGED <<servers, authority, logind, target, proven, texts, answered, managed, proofs>> /\ resolved' = FALSE
      /\ happened' \in 0..MaxSwitches
  BY DEF D!Switch, D!Happens, SessionInv, D!TypeOK, SessionAssumed
<1>3. seat' \in [listed : SUBSET D!Sessions, front : D!Sessions \cup {"none"}, runs : KindNames,
                 display : [D!Sessions -> Spots]]
  BY <1>1 DEF SessionInv, D!TypeOK, KindNames, Spots
<1>4. /\ since' \in [front : [D!Sessions -> D!Ages], display : [D!Sessions -> [Displays -> D!Ages]]]
      /\ SeatIsSeen'
      /\ \A t \in D!Sessions : since'.front[t] <= since.front[t]
      /\ \A t \in D!Sessions : \A d \in Displays : since'.display[t][d] <= since.display[t][d]
  BY <1>1, <1>3, SeenIsLater
<1>5. D!TypeOK'
  BY <1>2, <1>3, <1>4, SessionTyped
<1>6. ProofIsOf' /\ TargetStands'
  BY <1>2, <1>4, <1>5, LaterKeeps
<1>7. KeptIsThere' /\ UnreachableIsUnknown'
  BY <1>2 DEF SessionInv, KeptIsThere, UnreachableIsUnknown
<1> QED  BY <1>4, <1>5, <1>6, <1>7 DEF SessionInv

LEMMA BeginsKeeps == ASSUME SessionAssumed, SessionInv, D!Begins  PROVE SessionInv'
<1>0. happened \in 0..MaxSwitches /\ happened < MaxSwitches /\ happened' = happened + 1
  BY DEF D!Begins, D!Happens, SessionInv, D!TypeOK
<1>1. UNCHANGED <<logind, target, proven, texts, answered, managed, proofs>> /\ resolved' = FALSE
      /\ happened' \in 0..MaxSwitches /\ since' = D!Seen(seat')
  <2>1. happened' \in 0..MaxSwitches
    BY <1>0 DEF SessionAssumed
  <2> QED  BY <2>1, Zenon DEF D!Begins, D!Happens
<1>2. /\ seat' \in [listed : SUBSET D!Sessions, front : D!Sessions \cup {"none"}, runs : KindNames,
                    display : [D!Sessions -> Spots]]
      /\ servers' \in [Displays -> 0..MaxCookies] /\ authority' \in [Displays -> 0..MaxCookies]
      /\ \A e \in Displays : servers'[e] # servers[e] => servers'[e] \notin proofs[e]
  <2>1. CASE seat' = [seat EXCEPT !.runs = "wayland"] /\ UNCHANGED <<servers, authority>>
    BY <2>1 DEF SessionInv, D!TypeOK, KindNames, Spots
  <2>2. ASSUME NEW d \in Displays, NEW c \in D!Cookies, seat' = [seat EXCEPT !.runs = "x11", !.display["text"] = d],
               servers' = [servers EXCEPT ![d] = c], authority' = [authority EXCEPT ![d] = c]
        PROVE  <1>2!:
    <3>1. c \in 0..MaxCookies /\ c \notin proofs[d]
      BY DEF D!Cookies
    <3>2. servers' \in [Displays -> 0..MaxCookies] /\ authority' \in [Displays -> 0..MaxCookies]
          /\ \A e \in Displays : servers'[e] # servers[e] => servers'[e] \notin proofs[e]
      BY <2>2, <3>1 DEF SessionInv, D!TypeOK
    <3>3. seat' \in [listed : SUBSET D!Sessions, front : D!Sessions \cup {"none"}, runs : KindNames,
                     display : [D!Sessions -> Spots]]
      BY <2>2 DEF SessionInv, D!TypeOK, KindNames, Spots
    <3> QED  BY <3>2, <3>3
  <2> QED  BY <2>1, <2>2 DEF D!Begins
<1>3. /\ since' \in [front : [D!Sessions -> D!Ages], display : [D!Sessions -> [Displays -> D!Ages]]]
      /\ SeatIsSeen'
      /\ \A t \in D!Sessions : since'.front[t] <= since.front[t]
      /\ \A t \in D!Sessions : \A d \in Displays : since'.display[t][d] <= since.display[t][d]
  BY <1>1, <1>2, SeenIsLater
<1>4. D!TypeOK'
  BY <1>1, <1>2, <1>3, ZenonT(40) DEF SessionInv, D!TypeOK, KindNames, Spots
<1>5. ProofIsOf' /\ TargetStands'
  BY <1>1, <1>3, <1>4, LaterKeeps
<1>6. KeptIsThere' /\ UnreachableIsUnknown'
  BY <1>1, <1>2 DEF SessionInv, D!TypeOK, KeptIsThere, UnreachableIsUnknown
<1> QED  BY <1>3, <1>4, <1>5, <1>6 DEF SessionInv

\* Where nobody is seen anew and no server is started, what is known stays.
LEMMA QuietKeeps ==
  ASSUME SessionAssumed, SessionInv, UNCHANGED <<target, proven, answered, managed, proofs, since>>,
         resolved' = FALSE,
         D!TypeOK', \A s \in D!Sessions : seat'.front = s => seat.front = s,
         \A s \in D!Sessions : \A d \in Displays : seat'.display[s] = d => seat.display[s] = d,
         \A d \in Displays : servers'[d] # servers[d] => servers'[d] = 0
  PROVE  SessionInv'
<1>1. SeatIsSeen'
  BY DEF SessionInv, SeatIsSeen
<1>2. ProofIsOf' /\ TargetStands'
  BY DEF SessionInv, ProofIsOf, TargetStands
<1>3. \A d \in Displays : 0 \notin proofs[d]
  BY DEF SessionInv, D!TypeOK
<1>4. KeptIsThere' /\ UnreachableIsUnknown'
  <2>1. KeptIsThere'
    BY <1>3 DEF SessionInv, KeptIsThere
  <2>2. target.display # D!None => target.display \in Displays
    BY DEF SessionInv, D!TypeOK
  <2> QED  BY <1>3, <2>1, <2>2 DEF SessionInv, UnreachableIsUnknown
<1> QED  BY <1>1, <1>2, <1>4 DEF SessionInv

LEMMA NoneIsNowhere == ASSUME SessionAssumed  PROVE D!None \notin Displays
  BY DEF SessionAssumed, D!None

LEMMA StoppedIsTyped ==
  ASSUME SessionAssumed, SessionInv, NEW s, D!Stopped(s)
  PROVE  /\ servers' \in [Displays -> 0..MaxCookies] /\ authority' \in [Displays -> 0..MaxCookies]
         /\ \A d \in Displays : servers'[d] # servers[d] => servers'[d] = 0
  BY DEF SessionAssumed, SessionInv, D!TypeOK, D!Stopped

LEMMA OthersKeep ==
  ASSUME SessionAssumed, SessionInv, D!Ends \/ D!LogsOut \/ D!FileGoes \/ D!LogindFalters
  PROVE  SessionInv'
<1>1. UNCHANGED <<target, proven, answered, managed, proofs, since, texts>> /\ resolved' = FALSE
      /\ happened' \in 0..MaxSwitches
      /\ logind \in BOOLEAN /\ resolved' \in BOOLEAN
  <2>1. happened' \in 0..MaxSwitches
    BY DEF D!Ends, D!LogsOut, D!FileGoes, D!LogindFalters, D!Happens, SessionInv, D!TypeOK, SessionAssumed
  <2>2. logind \in BOOLEAN
    BY DEF SessionInv, D!TypeOK
  <2>3. UNCHANGED <<target, proven, answered, managed, proofs, since, texts>> /\ resolved' = FALSE
    BY Zenon DEF D!Ends, D!LogsOut, D!FileGoes, D!LogindFalters, D!Happens
  <2> QED  BY <2>1, <2>2, <2>3
<1>2. CASE D!Ends
  <2>1. /\ servers' \in [Displays -> 0..MaxCookies] /\ authority' \in [Displays -> 0..MaxCookies]
        /\ \A d \in Displays : servers'[d] # servers[d] => servers'[d] = 0
    BY <1>2, StoppedIsTyped DEF D!Ends
  <2>2. seat' = [seat EXCEPT !.runs = "none", !.display["text"] = D!None] /\ logind' = logind
    BY <1>2 DEF D!Ends
  <2>3. /\ seat' \in [listed : SUBSET D!Sessions, front : D!Sessions \cup {"none"}, runs : KindNames,
                      display : [D!Sessions -> Spots]]
        /\ seat'.front = seat.front /\ seat'.display = [seat.display EXCEPT !["text"] = D!None]
    BY <2>2 DEF SessionInv, D!TypeOK, KindNames, Spots
  <2>5. \A s \in D!Sessions : \A d \in Displays : seat'.display[s] = d => seat.display[s] = d
    BY <2>3, NoneIsNowhere DEF SessionInv, D!TypeOK
  <2>4. D!TypeOK'
    BY <1>1, <2>1, <2>2, <2>3 DEF SessionInv, D!TypeOK, KindNames, Spots
  <2> QED  BY <1>1, <2>1, <2>3, <2>4, <2>5, QuietKeeps
<1>3. CASE D!LogsOut
  <2>1. /\ servers' \in [Displays -> 0..MaxCookies] /\ authority' \in [Displays -> 0..MaxCookies]
        /\ \A d \in Displays : servers'[d] # servers[d] => servers'[d] = 0
    BY <1>3, StoppedIsTyped DEF D!LogsOut
  <2>2. seat' = [seat EXCEPT !.listed = @ \ {"desk"}, !.display["desk"] = D!None,
                             !.front = IF @ = "desk" THEN "none" ELSE @] /\ logind' = logind
    BY <1>3 DEF D!LogsOut
  <2>3. /\ seat' \in [listed : SUBSET D!Sessions, front : D!Sessions \cup {"none"}, runs : KindNames,
                      display : [D!Sessions -> Spots]]
        /\ seat'.front \in {seat.front, "none"} /\ seat'.display = [seat.display EXCEPT !["desk"] = D!None]
    BY <2>2 DEF SessionInv, D!TypeOK, KindNames, Spots
  <2>5. /\ \A s \in D!Sessions : seat'.front = s => seat.front = s
        /\ \A s \in D!Sessions : \A d \in Displays : seat'.display[s] = d => seat.display[s] = d
    BY <2>3, NoneIsNowhere DEF SessionInv, D!TypeOK, D!Sessions
  <2>4. D!TypeOK'
    BY <1>1, <2>1, <2>2, <2>3 DEF SessionInv, D!TypeOK, KindNames, Spots
  <2> QED  BY <1>1, <2>1, <2>3, <2>4, <2>5, QuietKeeps
<1>4. CASE D!FileGoes
  <2>1. authority' \in [Displays -> 0..MaxCookies] /\ UNCHANGED <<seat, servers, logind>>
    BY <1>4 DEF D!FileGoes, SessionInv, D!TypeOK, SessionAssumed
  <2>2. D!TypeOK'
    BY <1>1, <2>1 DEF SessionInv, D!TypeOK
  <2> QED  BY <1>1, <2>1, <2>2, QuietKeeps
<1>5. CASE D!LogindFalters
  <2>1. logind' \in BOOLEAN /\ logind' = ~logind /\ UNCHANGED <<seat, servers, authority>>
    BY <1>5 DEF D!LogindFalters
  <2>2. D!TypeOK'
    BY <1>1, <2>1 DEF SessionInv, D!TypeOK
  <2> QED  BY <1>1, <2>1, <2>2, QuietKeeps
<1> QED  BY <1>2, <1>3, <1>4, <1>5

LEMMA RestartKeeps == ASSUME SessionAssumed, SessionInv, D!Restart  PROVE SessionInv'
<1>1. /\ target' = [presence |-> "login_unavailable", session |-> "none", kind |-> "none", display |-> D!None]
      /\ proven' = [session |-> "none", display |-> D!None, cookie |-> 0, age |-> D!Old]
      /\ texts' = [runs |-> "none", age |-> D!Old] /\ answered' = D!Old /\ resolved' = FALSE
         /\ happened' \in 0..MaxSwitches
      /\ UNCHANGED <<seat, servers, authority, logind, managed, since, proofs>>
  BY DEF D!Restart, D!Happens, D!Absent, D!Nothing, SessionInv, D!TypeOK, SessionAssumed
<1>2. D!Old \in D!Ages /\ 0 \in 0..MaxCookies
  BY DEF SessionAssumed, D!Ages, D!Old
<1>3. D!TypeOK'
  BY <1>1, <1>2 DEF SessionInv, D!TypeOK
<1>4. SeatIsSeen' /\ ProofIsOf' /\ TargetStands' /\ KeptIsThere' /\ UnreachableIsUnknown'
  BY <1>1 DEF SessionInv, SeatIsSeen, ProofIsOf, TargetStands, KeptIsThere, UnreachableIsUnknown
<1> QED  BY <1>3, <1>4 DEF SessionInv

LEMMA OlderIs ==
  ASSUME SessionAssumed
  PROVE  /\ \A a \in D!Ages : D!Older(a) \in D!Ages
         /\ \A a, b \in D!Ages : a <= b => D!Older(a) <= D!Older(b)
         /\ \A a, b \in D!Ages : a < RecheckAfter + b => D!Older(a) < RecheckAfter + D!Older(b)
  BY DEF SessionAssumed, D!Ages, D!Old, D!Older

LEMMA PassesKeeps == ASSUME SessionAssumed, SessionInv, D!Passes  PROVE SessionInv'
<1>1. /\ answered' = D!Older(answered) /\ resolved' = FALSE
      /\ proven' = [proven EXCEPT !.age = D!Older(@)] /\ texts' = [texts EXCEPT !.age = D!Older(@)]
      /\ since'.front = [s \in D!Sessions |-> IF seat.front = s THEN 0 ELSE D!Older(since.front[s])]
      /\ since'.display = [s \in D!Sessions |-> [d \in Displays |->
                             IF seat.display[s] = d THEN 0 ELSE D!Older(since.display[s][d])]]
      /\ since' = [front |-> since'.front, display |-> since'.display]
      /\ UNCHANGED <<seat, servers, authority, logind, target, managed, proofs, happened>>
  BY DEF D!Passes
<1>2. /\ since.front \in [D!Sessions -> D!Ages] /\ since.display \in [D!Sessions -> [Displays -> D!Ages]]
      /\ answered \in D!Ages /\ proven.age \in D!Ages /\ texts.age \in D!Ages /\ 0 \in D!Ages
         /\ \A a \in D!Ages : 0 <= a
  BY DEF SessionInv, D!TypeOK, SessionAssumed, D!Ages, D!Old
<1>3. since'.front \in [D!Sessions -> D!Ages] /\ since'.display \in [D!Sessions -> [Displays -> D!Ages]]
      /\ since' \in [front : [D!Sessions -> D!Ages], display : [D!Sessions -> [Displays -> D!Ages]]]
  <2>1. since'.front \in [D!Sessions -> D!Ages]
    BY <1>1, <1>2, OlderIs
  <2>2. since'.display \in [D!Sessions -> [Displays -> D!Ages]]
    BY <1>1, <1>2, OlderIs
  <2> QED  BY <1>1, <2>1, <2>2
<1>4. /\ \A s \in D!Sessions : since'.front[s] \in {0, D!Older(since.front[s])}
      /\ \A s \in D!Sessions : \A d \in Displays : since'.display[s][d] \in {0, D!Older(since.display[s][d])}
  BY <1>1
<1>5. D!TypeOK'
  <2>1. answered' \in D!Ages /\ proven' \in [session : D!Sessions \cup {"none"}, display : Spots,
                                             cookie : 0..MaxCookies, age : D!Ages]
        /\ texts' \in [runs : KindNames, age : D!Ages]
    BY <1>1, <1>2, OlderIs DEF SessionInv, D!TypeOK, KindNames, Spots
  <2>2. resolved' \in BOOLEAN
    BY <1>1
  <2> QED  BY <1>1, <1>3, <2>1, <2>2 DEF SessionInv, D!TypeOK, KindNames, Spots
<1>6. SeatIsSeen'
  BY <1>1 DEF SeatIsSeen
<1>7. ProofIsOf'
  <2> SUFFICES ASSUME proven'.session # "none", proven'.display # D!None
               PROVE  since'.display[proven'.session][proven'.display] <= proven'.age
    BY DEF ProofIsOf
  <2>1. proven'.session = proven.session /\ proven'.display = proven.display /\ proven'.age = D!Older(proven.age)
    BY <1>1 DEF SessionInv, D!TypeOK
  <2>2. proven.session \in D!Sessions /\ proven.display \in Displays
    BY <2>1 DEF SessionInv, D!TypeOK
  <2> DEFINE a == since.display[proven.session][proven.display]
             b == since'.display[proven.session][proven.display]
  <2>3. a \in D!Ages /\ b \in {0, D!Older(a)} /\ a <= proven.age
    BY <1>2, <1>4, <2>1, <2>2 DEF SessionInv, ProofIsOf
  <2>4. b <= proven'.age
    <3> HIDE DEF a, b
    <3> QED  BY <1>2, <2>1, <2>3, OlderIs
  <2> QED  BY <2>1, <2>4
<1>8. TargetStands'
  <2> SUFFICES ASSUME target.presence = "live"
               PROVE  /\ target.session # "none" /\ since'.front[target.session] <= answered'
                      /\ target.kind = "x11" /\ target.display # D!None =>
                           since'.display[target.session][target.display] < RecheckAfter + answered'
    BY <1>1 DEF TargetStands
  <2>1. target.session \in D!Sessions /\ target.session # "none" /\ since.front[target.session] <= answered
    BY DEF SessionInv, D!TypeOK, TargetStands, D!Sessions
  <2>2. since'.front[target.session] <= answered'
    <3> DEFINE a == since.front[target.session]
               b == since'.front[target.session]
    <3>1. a \in D!Ages /\ b \in {0, D!Older(a)} /\ a <= answered
      BY <1>2, <1>4, <2>1
    <3>2. b <= answered'
      <4> HIDE DEF a, b
      <4> QED  BY <1>1, <1>2, <3>1, OlderIs
    <3> QED  BY <3>2
  <2>3. ASSUME target.kind = "x11", target.display # D!None
        PROVE  since'.display[target.session][target.display] < RecheckAfter + answered'
    <3> DEFINE a == since.display[target.session][target.display]
               b == since'.display[target.session][target.display]
    <3>1. target.display \in Displays
      BY <2>3 DEF SessionInv, D!TypeOK
    <3>2. a \in D!Ages /\ b \in {0, D!Older(a)} /\ a < RecheckAfter + answered
      BY <1>2, <1>4, <2>1, <2>3, <3>1 DEF SessionInv, TargetStands
    <3>3. b < RecheckAfter + answered'
      <4> HIDE DEF a, b
      <4>1. 0 < RecheckAfter + D!Older(answered)
        BY <1>2, OlderIs DEF SessionAssumed, D!Ages, D!Old
      <4> QED  BY <1>1, <1>2, <3>2, <4>1, OlderIs
    <3> QED  BY <3>3
  <2> QED  BY <2>1, <2>2, <2>3
<1>9. KeptIsThere' /\ UnreachableIsUnknown'
  BY <1>1 DEF SessionInv, KeptIsThere, UnreachableIsUnknown
<1> QED  BY <1>5, <1>6, <1>7, <1>8, <1>9 DEF SessionInv

LEMMA SessionStep == ASSUME SessionAssumed, SessionInv, [D!Next]_(D!SessionVars)  PROVE SessionInv'
<1>1. CASE UNCHANGED D!SessionVars
  BY <1>1 DEF D!SessionVars, SessionInv, D!TypeOK, SeatIsSeen, ProofIsOf, TargetStands, KeptIsThere,
     UnreachableIsUnknown
<1>2. CASE D!Next
  BY <1>2, ResolveKeeps, UnansweredKeeps, SwitchKeeps, BeginsKeeps, OthersKeep, RestartKeeps, PassesKeeps DEF D!Next
<1> QED  BY <1>1, <1>2

-----------------------------------------------------------------------------
(* The parts together *)

PartsInv ==
  /\ DirsInv /\ WindowInv /\ WindowTypes /\ SettingsInv /\ ConnectionInv /\ DetailsInv
  /\ OriginInOrder /\ GitInv /\ CandidateInv /\ ChainInv
  /\ ActivityInv /\ VideoInv /\ ServerInv /\ SessionInv

LEMMA PartsConstants ==
  /\ WindowBounds /\ WindowConstants /\ SettingsAssumed /\ ConnectionAssumed /\ DetailsAssumed
  /\ OriginAssumed /\ GitHubAssumed /\ CandidateAssumed /\ TransparencyAssumed
  /\ ActivityAssumed /\ VideoAssumed /\ ServerAssumed /\ SessionAssumed
<1>1. OriginAssumed /\ GitHubAssumed /\ CandidateAssumed /\ TransparencyAssumed
  BY ReleaseAssumption DEF OriginAssumed, O!Absent, GitHubAssumed, G!None, CandidateAssumed, TransparencyAssumed
<1>2. WindowBounds /\ WindowConstants
  BY WindowAssumption DEF WindowBounds, WindowConstants
<1>3. SettingsAssumed
  BY SettingsAssumption DEF SettingsAssumed, WholeSettings, SettingValues
<1>4. ConnectionAssumed /\ DetailsAssumed
  BY ConnectionAssumption, DetailsAssumption DEF ConnectionAssumed, DetailsAssumed
<1>5. ActivityAssumed /\ VideoAssumed
  BY ActivityAssumption, VideoAssumption DEF ActivityAssumed, VideoAssumed
<1>6. ServerAssumed /\ SessionAssumed
  BY ServerAssumption, SessionAssumption DEF ServerAssumed, SessionAssumed
<1> QED  BY <1>1, <1>2, <1>3, <1>4, <1>5, <1>6

LEMMA PartsInvInit == PartsInit => PartsInv
<1> SUFFICES ASSUME PartsInit  PROVE PartsInv
  OBVIOUS
<1>1. /\ Init /\ W!Init /\ S!Init /\ L!Init /\ J!Init /\ O!Init /\ G!Init /\ C!Init /\ T!Init
      /\ A!Init /\ V!Init /\ B!Init /\ D!Init
  BY DEF PartsInit
<1>2. DirsInv /\ WindowInv /\ WindowTypes /\ SettingsInv /\ ConnectionInv /\ DetailsInv
  BY <1>1, PartsConstants, DirsInit, WindowInit, WindowTypesInit, SettingsInitHolds, ConnectionInit, DetailsInit
<1>3. OriginInOrder /\ GitInv /\ CandidateInv /\ ChainInv
  BY <1>1, PartsConstants, OriginInitHolds, GitInitHolds, CandidateInitHolds, ChainInit
<1>4. ActivityInv /\ VideoInv /\ ServerInv /\ SessionInv
  BY <1>1, PartsConstants, InitActivity, VideoInitHolds, ServerInit, SessionInit
<1> QED  BY <1>2, <1>3, <1>4 DEF PartsInv

\* A step is one of a part, or leaves it as it is.
LEMMA PartsSteps ==
  ASSUME [PartsNext]_PartsVars
  PROVE  /\ [Next]_vars /\ [W!Next]_(W!wvars) /\ [S!Next]_(S!svars) /\ [L!Next]_(L!cvars) /\ [J!Next]_(J!jvars)
         /\ [O!Next]_(O!ovars) /\ [G!Next]_(G!gvars) /\ [C!Next]_(C!cvars) /\ [T!Next]_(T!tvars)
         /\ [A!Next]_(A!avars) /\ [V!Next]_(V!VideoVars) /\ [B!Next]_(B!ServerVars) /\ [D!Next]_(D!SessionVars)
<1>1. UNCHANGED PartsVars =>
        UNCHANGED <<vars, WVars, SVars, LVars, JVars, OVars, GVars, CVars, TVars, AVars, VVars, BVars, DVars>>
  BY DEF PartsVars
<1>2. /\ UNCHANGED WVars => UNCHANGED W!wvars
      /\ UNCHANGED SVars => UNCHANGED S!svars
      /\ UNCHANGED LVars => UNCHANGED L!cvars
      /\ UNCHANGED JVars => UNCHANGED J!jvars
  BY DEF WVars, W!wvars, SVars, S!svars, LVars, L!cvars, JVars, J!jvars
<1>3. /\ UNCHANGED OVars => UNCHANGED O!ovars
      /\ UNCHANGED GVars => UNCHANGED G!gvars
      /\ UNCHANGED CVars => UNCHANGED C!cvars
      /\ UNCHANGED TVars => UNCHANGED T!tvars
  BY DEF OVars, O!ovars, GVars, G!gvars, CVars, C!cvars, TVars, T!tvars
<1>4. /\ UNCHANGED AVars => UNCHANGED A!avars
      /\ UNCHANGED VVars => UNCHANGED V!VideoVars
      /\ UNCHANGED BVars => UNCHANGED B!ServerVars
      /\ UNCHANGED DVars => UNCHANGED D!SessionVars
  BY DEF AVars, A!avars, VVars, V!VideoVars, BVars, B!ServerVars, DVars, D!SessionVars
<1> QED  BY <1>1, <1>2, <1>3, <1>4 DEF PartsNext

LEMMA PartsInvNext ==
  ASSUME PartsInv, [PartsNext]_PartsVars
  PROVE  /\ PartsInv' /\ [W!SavedWasHeld /\ W!DoneWasDone]_(W!wvars) /\ L!OneMissIsNoDrop
         /\ O!LatestLeavesNobody /\ G!PublishedStays /\ C!ResumeKeeps /\ T!ChainGrows
<1>1. DirsInv'
  BY PartsSteps, DirsStep DEF PartsInv
<1>2. WindowInv' /\ [W!SavedWasHeld /\ W!DoneWasDone]_(W!wvars) /\ WindowTypes'
  BY PartsSteps, PartsConstants, WindowStep, WindowTypesStep DEF PartsInv
<1>3. SettingsInv' /\ ConnectionInv' /\ L!OneMissIsNoDrop /\ DetailsInv'
  BY PartsSteps, PartsConstants, SettingsStep, ConnectionStep, DetailsStep DEF PartsInv
<1>4. OriginInOrder' /\ O!LatestLeavesNobody
  BY PartsSteps, PartsConstants, OriginStep, OneRunStep DEF PartsInv, OriginInOrder
<1>5. GitInv' /\ G!PublishedStays /\ CandidateInv' /\ C!ResumeKeeps
  BY PartsSteps, PartsConstants, GitStep, CandidateStep DEF PartsInv
<1>6. ChainInv' /\ T!ChainGrows
  BY PartsSteps, PartsConstants, ChainStep, ChainStutters DEF PartsInv
<1>7. ActivityInv' /\ VideoInv'
  BY PartsSteps, PartsConstants, ActivityStep, VideoStep DEF PartsInv
<1>8. ServerInv' /\ SessionInv'
  BY PartsSteps, PartsConstants, ServerStep, SessionStep DEF PartsInv
<1> QED  BY <1>1, <1>2, <1>3, <1>4, <1>5, <1>6, <1>7, <1>8 DEF PartsInv

LEMMA PartsInvHolds == PartsSpec => []PartsInv
BY PartsInvInit, PartsInvNext, PTL DEF PartsSpec

\* Whatever cleanup saw empty a moment ago, no folder that holds a segment or
\* another folder is ever removed (remove_if_empty in sync.rs).
THEOREM FoldersOutliveCleanup == PartsSpec => []SegmentsKeepTheirPlace
<1>1. PartsInv => SegmentsKeepTheirPlace
  BY DEF PartsInv, DirsInv
<1> QED  BY <1>1, PartsInvHolds, PTL

\* Unless a segment was once begun without the folder of the day read, the segment being written
\* shares its time with none the sync worker may deliver and remove, though names come back once
\* their segment is gone, and an end may leave a segment under the name it was written under
\* (choose_stem and finish_segment in observer.rs).
THEOREM OpenIsSafe == PartsSpec => []OpenIsNotDelivered
<1>1. PartsInv => OpenIsNotDelivered
  BY DEF PartsInv, DirsInv
<1> QED  BY <1>1, PartsInvHolds, PTL

\* Every part is of its types, whatever the bounds.
THEOREM PartsAreTyped == PartsSpec => []PartsTypeOK
<1>1. ASSUME PartsInv  PROVE TypeOK /\ W!TypeOK /\ S!TypeOK /\ L!TypeOK /\ J!TypeOK
  BY <1>1, PartsConstants, WindowTypesShare, SettingsTypedIsTyped, ConnectionShares, DetailsShare DEF PartsInv,
     DirsInv
<1>2. ASSUME PartsInv  PROVE O!TypeOK /\ G!TypeOK /\ C!TypeOK /\ T!TypeOK
  BY <1>2, PartsConstants, GitInvTyped, CandidateInvTyped, ChainInvTyped DEF PartsInv, OriginInOrder, OriginInv
<1>3. ASSUME PartsInv  PROVE A!TypeOK /\ V!TypeOK /\ B!TypeOK /\ D!TypeOK
  BY <1>3, PartsConstants, ActivityInvShares, VideoTypedIsTyped, ServerShares DEF PartsInv, VideoInv, SessionInv
<1>4. ASSUME PartsInv, part \in PartNames  PROVE PartsTypeOK
  BY <1>1, <1>2, <1>3, <1>4 DEF PartsTypeOK, PartNames
<1>5. PartsSpec => [](part \in PartNames)
  <2>1. PartsInit => part \in PartNames
    BY DEF PartsInit, PartNames
  <2>2. part \in PartNames /\ [PartsNext]_PartsVars => (part \in PartNames)'
    BY DEF PartsNext, PartsVars
  <2> QED  BY <2>1, <2>2, PTL DEF PartsSpec
<1> QED  BY <1>4, <1>5, PartsInvHolds, PTL

\* The panel (private_link.rs and status_render.rs) shows a drop only if there was one: one check
\* that was missed is not.  The window (controller.rs) calls settings saved, and takes a pause or
\* a resume off as done or as an error, only after the app stood as asked with the window knowing
\* how the request had ended: whatever answers are lost, late, or of an app that is gone.
THEOREM WhatIsShownIsSo == PartsSpec => ShownOnlyIfSo
<1>1. UNCHANGED W!wvars => UNCHANGED WVars
  BY DEF W!wvars, WVars
<1>2. ASSUME PartsInv, [PartsNext]_PartsVars  PROVE [L!OneMissIsNoDrop /\ W!SavedWasHeld /\ W!DoneWasDone]_PartsVars
  <2>1. ASSUME UNCHANGED WVars  PROVE W!SavedWasHeld /\ W!DoneWasDone
    BY <2>1 DEF W!SavedWasHeld, W!DoneWasDone, WVars
  <2> QED  BY <1>1, <1>2, <2>1, PartsInvNext
<1> QED  BY <1>2, PartsInvHolds, PTL DEF PartsSpec, ShownOnlyIfSo

\* What one part tells another is so.  The details of a journal that the window shows are that
\* journal's (private_link.rs); a browser that has read all it was sent knows the hold and the
\* period of now (browser_server.rs); a film is called ended when a stream of it is (video.rs);
\* and capture follows a session that was in front a moment ago, and calls the desktop
\* unreachable only if no proof of it is left (desktop_session.rs).
THEOREM WhatIsSaidIsSo == PartsSpec => []SaidIsSo
<1>1. ASSUME PartsInv  PROVE SaidIsSo
  BY <1>1, PartsConstants, DetailsShare, ServerShares, VideoInvShares, SessionShares DEF PartsInv, SaidIsSo
<1> QED  BY <1>1, PartsInvHolds, PTL

\* Wherever a command is stopped and whoever works beside it, nothing half done is out: what the
\* pointer of the chain names is stored, signed and archived and the head logs witness it
\* (transparency.rs), a candidate is whole (transaction.rs), what latest names verifies
\* (publish-origin.sh), and a release that is out has all its files (publish-release.sh).
THEOREM WhatIsPublishedIsWhole == PartsSpec => []NothingHalfPublished
<1>1. PartsInv => NothingHalfPublished
  BY PartsConstants, CandidateInvWhole, GitInvWhole DEF PartsInv, OriginInOrder, OriginInv, ChainInv,
     NothingHalfPublished
<1> QED  BY <1>1, PartsInvHolds, PTL

\* What is done stays done: each move of the pointer renews the tip of the chain or adds one
\* entry to it (the conditional PUT of upload_publication), latest leaves nobody who may still
\* fetch under it, assets, tags and releases stay, and a prove keeps what was there.
THEOREM WhatIsPublishedStays == PartsSpec => NeverTakenBack
<1>1. ASSUME PartsInv, [PartsNext]_PartsVars
      PROVE  [T!ChainGrows /\ O!LatestLeavesNobody /\ G!PublishedStays /\ C!ResumeKeeps]_PartsVars
  BY <1>1, PartsInvNext
<1> QED  BY <1>1, PartsInvHolds, PTL DEF PartsSpec, NeverTakenBack

\* The owner's word holds, whoever writes and whatever stops: a saved setting is in the file until
\* its owner says otherwise and page addresses are taken only if the owner agreed (the writes of
\* config.rs and settings.rs); no row of activity tells of an instant what the policy of that
\* instant forbade (activity_source.rs); and the portal's grant is not lost, nor the screen
\* shared but for a film the capture loop knows of (the portal thread of video.rs).
THEOREM TheOwnersWordIsKept == PartsSpec => []OwnersWordHolds
<1>1. PartsInv => OwnersWordHolds
  BY PartsConstants, SettingsInvKeeps, ActivityInvShares, VideoInvShares DEF PartsInv, OwnersWordHolds
<1> QED  BY <1>1, PartsInvHolds, PTL
==============================================================================
