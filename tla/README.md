# solstone-linux, specified

TLA+ models of solstone-linux, the TLC runs that check them and the TLAPS proofs
about them. The program takes in a desktop (screen, sound, desktop activity,
browser pages), writes it in five-minute segments under a local captures
directory, delivers the segments to the owner's journal over a private link, and
deletes a segment locally only when the journal has acknowledged it.

Paths are relative to `src/crates/solstone-linux/src/` unless they begin with
`src/`. Run everything from this directory: `tlc -config MCDelivery_files.cfg
MCDelivery`, `tlc -config MCParts.cfg MCParts`, `tlapm DeliveryProofs.tla`.

## 1. The system

### Components and how they interact

| component | source | state it keeps | operations | talks to |
|---|---|---|---|---|
| capture loop | `observer.rs`, `pause_hold.rs`, `recovery.rs` | mode, open segment, pause and its two deadlines, activity hold, restart flag; `pause.json` and `.incomplete` folders on disk | tick every 5 s, pause/resume, boundary, watchdog, shutdown, recovery at start | desktop session (live, locked, muted), video and audio backends, activity sampler, sync trigger through the event sink |
| capture directories | `observer.rs`, `browser/custody.rs`, `sync.rs` | day / stream / segment folders | make, rename, list, remove | shared by three threads without a lock |
| sync worker | `sync.rs` | trigger flags, circuit, failure counter, pass state, markers beside each segment | walk, pass in three phases, probe, status check, shutdown pass | upload client, captures directory, browser custody |
| upload client | `upload.rs` | installed capability and its epoch | install, prepare_new_owner, upload, list, status | private link, journal |
| browser custody | `browser/custody.rs` | open periods, receipts, evidence file | accept, tick/rotate, discard, reserve, recover | browser server, sync worker, owner |
| browser server | `browser/server.rs`, `browser/host.rs`, `browser/status.rs` | up to 16 sessions, custody handle, status | handshake, batches, clock loop, pause loop | native host of the extension, custody, observer's pause |
| private link | `private_link*.rs`, `pending_link.rs`, `journal_mark.rs`, `mark_cache.rs`, `local_journal.rs` | credentials and pairing on disk, live session, facts | pair, restore, connect, revoke, take a mark | journal, upload client, window |
| connection facts | `sync_health.rs` | published facts about link and delivery | derive one health from them | worker writes, window and panel icon read |
| runtime | `run.rs` | threads and their stop order | start, capture loop, commands, owner link, shutdown | everything |
| desktop session | `desktop_session.rs` | the session in front and its epoch | adopt, follow logind and the screen saver | observer, browser status, activity |
| desktop activity | `activity*.rs`, `activity/` | preferences, policy boundary, sampled rows | sample, filter, write | observer, window |
| media | `video*`, `audio*`, `rotation.rs`, `chunking.rs`, `encoding.rs` | GStreamer pipeline, PulseAudio streams, ring of samples | start, rotate, stop, drain | observer |
| control | `window_control.rs`, `dbus_service.rs`, `tray*`, `panel_icon.rs` | settings and pairing flow | commands of the window and the panel icon | runtime, private link, configuration |
| configuration, command line | `config.rs`, `cli.rs`, `doctor.rs` | `config.json` | parse, save, set up, report | everything, at start |
| window | `src/crates/solstone-linux-window/src/` | view state | controller of a GTK client | control, over D-Bus |
| release tooling | `src/crates/rust-release-manifest/src/`, `src/scripts/` | manifests, publication transaction, transparency log | build, audit, publish, promote | outside the app |

Calls between threads are of three kinds. A *trigger* stores an atomic flag and
then notifies (`SyncTrigger`, `FreshCheck`, `shutdown`), so that flag and
notification are two steps for everybody else. The *association* (which journal)
is an epoch behind the capability lock of `UploadClient`: the worker captures it
at the start of a turn and compares it after every await, and takes the lock for
the steps that mark or delete. The *file system* is shared without any lock: the
observer, the browser intake and the worker's cleanup create and remove the same
day and stream folders, and a crash leaves there whatever was done by then.

### What is hard

The hazards are listed one by one, each at its line, in `PROJECT.json`. In short:

- *Deleting*: a payload may be rewritten, the pairing may change, a late answer
  may arrive, the process may die, at every step between hashing a file and
  unlinking it (`sync.rs` 1489-1736, 2104-2217).
- *Waking and stopping*: three flags, one notification permit, four timers and a
  circuit decide whether a turn makes a pass (`sync.rs` 738-807).
- *Exactly once*: the browser sends a batch until it is answered, over crashes,
  period changes, discards and deliveries (`browser/custody.rs` 289-562).
- *Not taking in what the owner paused*: pauses with two deadlines, sessions that
  leave, streams that end, sound buffered in between (`observer.rs` 410-614).
- *One credential, three writers*: a dial's refreshed token, the relay access lane
  and a retry write the same file; each may fail after its rename, lose its lease
  or be overtaken by a new pairing (`private_link.rs` 2698-3258).
- *Shared folders*: cleanup looks and then removes (`sync.rs` 2636-2698).
- *Who said yes*: four files say which journal the owner confirmed, three programs write
  them, and a crash falls between any two writes (`journal_mark.rs`, `window_control.rs`).
- *Saying what is so*: a panel, a window in another process and a browser show state
  they read earlier, over answers that get lost and owners that change
  (`sync_health.rs`, `controller.rs`, `browser/server.rs`).
- *Following the desktop*: logind falters, focus moves between two calls of one read, the
  portal spends a grant before it gives the next (`desktop_session.rs`, `activity_source.rs`,
  `video.rs`).
- *Publishing without locks*: machines race over an object store and a forge that offer
  neither locks nor conditions, and stop anywhere (`transparency.rs`, `publish-*.sh`).

## 2. The modules

| module | component | what it is |
|---|---|---|
| `Custody` | delivery | abstract: a segment is absent, held, failed or gone, and leaves only when the journal has it or its owner withdrew it |
| `Delivery` | delivery | one pass of `sync_pass` over files, markers, requests, journals and pairings; crash and restart |
| `DeliveryProofs` | delivery | TLAPS proofs about `Delivery` |
| `SyncWorker` | sync worker | the walker, its triggers, circuit and the order of a pass |
| `SyncWorkerProofs` | sync worker | TLAPS proofs about `SyncWorker` |
| `BrowserCustody` | browser custody | batches, receipts, evidence, periods, discard, recovery |
| `BrowserCustodyProofs` | browser custody | TLAPS proofs about `BrowserCustody` |
| `Observer` | capture loop | ticks, pauses, sessions, restart |
| `ObserverProofs` | capture loop | TLAPS proofs about `Observer` |
| `CredentialWriter` | private link | the stored credential, its ordered writer, the relay access lane, a dial, the replacement of the pairing |
| `CredentialWriterProofs` | private link | TLAPS proofs about `CredentialWriter` |
| `CaptureDirs` | capture directories | every mkdir, rename, listing and rmdir a step |
| `Pairing` | private link, control, command line | from a minted pairing to its confirmation, replacement or retirement, over the app, `setup` and `confirm` |
| `JournalDetails` | private link | the metadata lane: what the app knows and shows of the journal, over two carriers and changes of owner |
| `Connection` | connection facts, panel | facts, the check that asks the journal, the state derived and its presentation over time |
| `BrowserServer` | browser server | a session, the tasks that announce, a broadcast that drops, the end of the server |
| `DesktopSession` | desktop session | the resolver behind logind: grace, text logins, proven displays, kept credentials |
| `DesktopActivity` | desktop activity | policy, sampler and a read of several calls under moving windows |
| `PortalVideo` | video, rotation | the capture loop, the portal thread and the desktop; each may give up on the other |
| `Settings` | configuration, control | everyone who writes `config.json`, upgrades and the move of an old file included |
| `WindowController` | window | ids of requests and reads, lost answers, an app that is replaced |
| `Transparency` | release tooling | the chain of release entries and its signed pointer |
| `Candidate` | release tooling | build, promotion, proofs, signing and clean-up of a candidate |
| `OriginPublish` | release scripts | `publish-origin.sh`, request by request |
| `GitHubRelease` | release scripts | `publish-release.sh`, call by call |
| `Runtime` | runtime, private link, desktop shell | the running app and its stop: capture loop, walker, supervisor of the link, the gate of the page |
| `Audio` | audio | the thread that records: sessions, queries, streams, notices, failures |
| `MCEventual` | | delivery, pairing, runtime and sound, one chosen at the start, under fairness: what must come about |
| `EventualProofs` | private link, runtime, audio | TLAPS proofs about `Pairing`, and about the composition `MCEventual`: the pairing, the runtime, the sound |
| `Parts`, `MCParts` | | thirteen components that share no state, one chosen at the start; small values for it |
| `OwnerParts` | | the half of `Parts` that `PartsLemmas` is about: folders, release, settings, window, connection, details |
| `PartsLemmas` | capture directories, release, configuration, window, connection facts, private link | TLAPS lemmas about `OwnerParts`, for `PartsProofs` |
| `PartsProofs` | activity, video, browser server, desktop session | TLAPS proofs about the composition `Parts`, with the lemmas about the components not in `OwnerParts` |

Each `MC*` module holds the definitions a configuration cannot (symmetry sets,
functions, values of constants); there is one `.cfg` per run. `MCParts` and `MCEventual` put components that
share no variable in one run: `part` says which one runs, the others stand still in
their first state, and a property of the run is the conjunction of a property of each part, so that
the states add up and do not multiply. Definitions keep the names of the code
where they can, and `PROJECT.json` gives the lines of each. Definitions called
`...Blind`, `...Anyway`, `...Never` and the like, introduced by "Mutant of", are
deliberately wrong variants: each is used to see that a property fails when the
code has that bug. No specification uses them.

### Delivery and Custody

A segment directory is `place[s]` (absent, held, failed, gone), its payload
`disk[s][n]`, its two sidecars `ack[s]` (`.ingest_ack.json`: whose acknowledgement,
with which hashes and stamps) and `retry[s]` (`.ingest_retry.json`). `assoc` is the
installed association with its epoch, `seen` the one the worker captured. Requests
are a set `inflight` that the journal may receive at any time, also after the
worker stopped waiting, also twice and out of order; `held` is what each journal
got, and `withdrawn` the segments whose owner deleted them there.

Every await of the code is a step of its own: hash, send, answer, list, prove,
mark, re-hash and unlink each file, remove bookkeeping, remove the directory.
Steps under `with_association_current` (`LockedAt`) exclude `ChangeAssociation`, as
the lock does. `Crash` loses `workerVars` and keeps the disk.

`Custody` is the promise: `Moves` lists the only changes of place there are.
`Delivery` implements it with `status <- Status` (`CustodySpec` is checked as a
property); `Status` counts a segment half removed as held.

### SyncWorker

`Wake`, `TakeTrigger`, `TakeCheck` and what follows are the reads of one turn of
`SyncWorker::run`, in its order and each a step, because a trigger can fall
between any two. `NotifyOne` is the notification of a caller that has stored its
flag. `posting` holds those in between. A pass walks `todo` from the newest
segment (`Maximum`), phase 1 over segments of this journal, phase 2 over the
*legacy* ones, a day's listing at a time, phase 3 a status check. Answers are
classes: ok, silent (no answer, 5xx), denied. `circuit`, `failures` and `cooldown`
are `count_failure` and `try_probe`. What is left out: the markers and files
(`Delivery`), clock values (timers are flags that fall due), and what is published
for the window.

### BrowserCustody

`place`, `pages`, `receipts` and `evidence` are on disk, `period`, `contexts`,
`known` and `committed` in memory. A batch is a snapshot of a page or changes to
one. `Accept`, `WritePages`, `WriteReceipt`, `WriteEvidence` are the durable writes of
`Custody::accept` in order, and begin a period when there is none (`NoPeriod`); `Fault` lets a write, rename or unlink fail, a write
possibly with some bytes on disk, at most `MaxFaults` times. `Discard*` is the
owner's discard, `Reserve` to `Rmdir` the worker's removal, `PurgeReceipts` and
`PurgePages` the removal of a segment the journal no longer wants, `Crash`,
`LoadEvidence`, `FinishUnlink` and `Recover` the restart. The bounds that refuse a
batch by size (`queue_full`) are left out. What a crash or a rotation keeps of a text is what the receipts
cover, by length (`Kept`): a receipt that was written and failed to sync may cover the text of the next batch, and
the two are in `mixed` from then on. A discard takes the directories of open periods first (`Doomed`).

### Observer

The state is the record `o` (the fields of `ObserverState` that decide, and the
disk), `w` the world (session live, locked, muted, the owner's settings) and `wish`
the pauses the owner asked for. `Tick` is one whole call of `Observer::tick`: the
helpers (`WaitForSession`, `TickPaused`, `HandleBoundary`, `FinishDirectory`, ...) are
functions from a state to the set of states it may leave, failures included, so
that a tick's order of calls is kept. The world, the commands of the owner, the
worker and crashes move between ticks. Time is counted in ticks; a pause has its
two deadlines, `left` on the monotonic clock and `wall` on the wall clock, and a
sleep moves only the second.

`PauseWorlds` of `MCObserver` restricts the world of `observer_pause` to keep it small: mute
is met only with a session in front, where it can end a segment, and not together with
the setting that keeps desktop activity through a pause.

### CredentialWriter

`disk` is what a read of `credentials.json` gives; `after` is every content the file may
have if the computer stopped now, since a rename is certain only once the directory
is synced (`atomic_write_bytes_guarded`). A write is three steps: `LastLook` (the guard
of the caller, evaluated before the rename), `Rename`, and a `Finish...` that syncs or
fails and settles the writer's fields `w`. `op` is the mutex on the credential: the call
that holds it, from its `Begin...` on. The fence, the end of a lease, the expiry of
a token and the retirement of the owner come in between. The lane is `pass`: a retry of
what waits, what it reads before asking (`Ask`), the journal's answer, its commit or clear,
the endpoints. `LoseLease` is the deadline or a newer trigger: the pass ends and its
blocking call runs on. `dial` is one dial over the relay that may be given a new token,
and `owner` the supervisor's stop and replacement. Tokens are numbered in the order they
are issued. Left out: the direct route, the bytes of the file and the metadata lane.

### CaptureDirs

A segment is a time and a length (`Incomplete` while it is being written), and a day has three stream folders: the observer's
(`own`), the browser's and one nobody writes to any more. `MkdirSegment` takes the time `choose_stem` finds free or, when the
folder cannot be read or the calendar ends, the clock's own time, free or not (`unread`); `mkdir` then fails only where the same
time is still being written. `EndAs` renames, removes, or leaves the segment under its name. `create_dir_all` is its real sequence:
`mkdir` of the leaf, on NotFound of the parent and again of the leaf. The worker's
cleanup is a listing, a look into each folder and an `rmdir`, each a step;
`rmdir` fails on a folder that is not empty, as the system call does.

### Pairing

Four files decide which journal the device is paired with (`disk`): the credential, the
owner's answer, an intent that stands while the window commits, and a note that the owner
went on without a mark. `commit` is the one series of writes under way, behind the answer
lock; `WriteStep` is its next write, which is done, fails without a trace, or fails after its
rename. `app` is the supervisor of `window_control.rs`, `setup` and `confirm` the two
commands, each of which may be killed between any two steps. `yes` is a ghost: the pairings the owner
agreed to. On a crash of the computer only the intent's removal, which is not synced, may come
undone; every other write is synced before the next.

### JournalDetails and Connection

`JournalDetails` follows what the app knows of the journal: two carriers dial
(`dials`), a proven one starts an attempt of the optional lane (`attempt`), which asks for
version and name, saves them, and asks for the About text. `known` is `LinkFactState`,
`details` the file the window reads in its own process. The journal may be upgraded,
the pairing replaced, a carrier refused at any moment between.

`Connection` is what the panel says. `CheckAnswered`, `CheckFails` and `FailureWritten` are the
worker's check, `Sample` the derivation of one state from the facts and the presenter's
smoothing; `ClockMoves` and `Tick` move two clocks, since the facts hold wall-clock times and the
presenter's dwells do not run in sleep.

### BrowserServer and DesktopSession

`BrowserServer` follows one session. The pause is read without a lock (`ReadHold`) and the period
under custody's, and the two tasks that announce changes do so after the change
(`PauserLooks`, `ClockAnnounces`), into a broadcast that keeps `Capacity` events for a session and
tells one that fell behind only that it did (`Lagged`). `Tell` is what a session sends its browser.

`DesktopSession` is the resolver. `Resolve` is one resolution with an answer from logind and
`ResolveUnanswered` one without; `target` is what capture is pointed at, `proven` and
`texts` what is kept for `Recheck`, `managed` the private credential file. `since` is a ghost:
how long ago each session was in front and had each display.

### DesktopActivity

A poll is four reads of the desktop and one again at its end (`BeginPoll` to `ReadAgain`);
`DeskMoves` moves the focus, tab, lock or session between them, and `ApplyPolicy` is the
owner's change from another process, which takes effect at once and fixes a boundary. The
sampler keeps an interval open for each kind of row and closes it on a change. `past` is a
ghost: the policies that held at each instant.

### PortalVideo

`caller` is the capture loop, which asks (`Ask`), waits (`Receive`, `RunOut`) and may give up
(`GiveUp`); `camera` the portal thread, which takes a start, creates a session, hands over the
stored grant, stores the new one and builds the pipelines one by one; `portal` the desktop, which
spends a grant when it is handed over. `Signalled` is the signal that ends the app and cuts a start
short. The ending of a stream is `ended`, and the flag of the loop's watchdog `healthy`.

### Runtime

`main` is the capture loop's thread and where it is in the stop (`run.rs` `run_capture` and
`shutdown_in_order`), `walker` the sync worker, `link` the supervisor of the link. `handlers` are
those who can still send the supervisor a command, of which the capture loop keeps one until the
walker has ended; `told` is the permit of `linked_shutdown_notify`, which waits for a supervisor that is at
work. The journal's page has a gate for each owner (`gate.open`) and an installed capability
(`gate.current`); who opens it holds the gate's mutex until the browser is started
(`Enters`, `Opens`), so that `CloseGate` and `CloseOwner` wait. `waiting` is the segment the stop
finishes. `notes` is a ghost: the owners installed after the stop took its owner, and whether
the last segment had no way out (no link or a link being replaced, a failed finish, a walker
cut short or between its two reads, see `worker_final`).

### Audio

`worker` is the thread of `audio/backend.rs` with one call of `run_pulse` after another: `Connects`, the
three queries (`QueryDefaultSink`, `QueryMute`, `QuerySources`), `FirstLook`, two `StartStream`, and the
loop that takes a notice (`Takes`) or, after five seconds with none, asks everything again
(`Backstop`). `Driven` is what a later look tells and `RunEnds` the end of a run. `Reads` and `ReadFails` are
the callbacks of the two streams, which share `counter` with the thread. `told` is `CaptureState`. Until
`run_pulse` subscribes, `Notice` tells nobody.

### Settings

Each of three writers (`app`, `aside`, `command`) makes a save in steps: move of an older
release's file, read, check that the file is still what was read, rename, report. The first two
share the lock of their process, the command line and the owner's editor do not. A key is set to a
value, or not at all. `said` is a ghost: what each key was last reported saved as.

### WindowController

`service` is the app as seen on the bus: its name, its settings, what it takes in. A press
starts a call (`calls`) whose answer may come late, be lost, or be an error; a read of the status
(`read`) is answered at `Asks` and applied at `Applies`. Ids are given to both in one order, and
`save` and `intake` compare them. A call whose caller stopped waiting runs on (`stray`).

### Transparency, Candidate, OriginPublish, GitHubRelease

`Transparency` has a publisher for each machine, with its own staging directory and head log, over
one object store. An entry is the sequence of all it commits to, so that the chain's
equality is the equality of values; each request is a step, and `Stop` ends a job at any of them.

`Candidate` is `candidate create` and `prove` in one checkout: `payload` and `evidence` are two
directories that are to appear together, `lock` the lock file, `signer` a command that signs and takes no
lock. `Drift` changes the commit, the images or the advisories under a running command.

`OriginPublish` puts an architecture's objects one by one, then reads and moves `latest`.
`GitHubRelease` tags, pushes, drafts, uploads, checks twice and publishes. In both a run may
die after any request and be started again, from the same or from another build.

## 3. The runs

| run | shows | bounds |
|---|---|---|
| `delivery_files` | no payload is lost (`NoLoss`), no marker claims bytes the journal did not get (`AckNeverLies`), a payload is unlinked only for the journal paired now (`UnlinkedForCurrentJournal`), and the pass implements `Custody` | 1 segment, 2 payload names, 2 contents, 2 pairings, 1 change of pairing, 1 rewrite, 1 send |
| `eventual` | *delivery*: while a journal is paired, an acknowledged segment leaves and an empty directory leaves, whatever a crash or a late answer left (`NothingIsLeftUndone`, as what must come about in the other two). *Pairing*: the pairing the files call confirmed, and the one the app runs for, is one the owner said yes to; the registration that is confirmed is never retired; a confirmed pairing is taken up by an app that goes on running. *Runtime*: a segment that a stop finishes is sent before the link is ended, unless there is no link or the walker is cut short, and no page of the journal is opened once its gate is closed (`StopIsOrderly`); an app told to end ends. *Audio*: when the desktop has settled, sound comes to be recorded from the sources there are, with the mute there is, and a thread told to stop ends | delivery: 1 segment, 1 name, 2 contents, 2 pairings, 2 changes (away and back), 2 sends, 2 requests in flight; pairing: 3 registrations (one unreadable, one maybe of an older build), 1 fault; runtime: 2 owners of the link, 2 commands; audio: 2 selections of sources, 1 change of the desktop, 2 mishaps, a limit of 2 failures where the code has 3 |
| `worker_pass` | a completion the walker took up is never dropped by shutdown, an open circuit asks nothing, the wait before a probe only grows | a new and a legacy segment, threshold 2, cooldown doubling twice, 1 change of the association |
| `worker_live` | once the journal answers and stays paired everything is delivered, without a trigger | 1 legacy segment that can also be new, threshold 2, 1 change |
| `worker_final` | violation, see below | 1 segment |
| `browser_keep` | an answered batch stays, is never taken in twice, changes never come without their snapshot, a restart succeeds, a discard is final | 2 snapshots of 2 pages and changes to one, 3 periods of at most 2 batches, 1 failing call, 1 removal by the journal |
| `browser_purge` | violation, see below | 1 batch, 2 periods |
| `observer_pause` | paused or away nothing is taken in; only the owner, or the deadline, ends a pause, over restarts; a segment is of one session and one mute state; sound of a pause is not kept by the tick after it; a segment is abandoned only when empty | 2 directories, segments of 2 ticks, pauses of 1 tick or open, 1 failure, every change of session, mute and the setting |
| `observer_session` | the running stream always writes to the open segment, a finished segment is announced, and the screen always comes back | the same, with lock and stream ends, 1 failure, fair ticks |
| `observer_sound` | violation, see below | |
| `link_credential` | whatever a crash may leave that the writer does not hold is marked as waiting or unavailable; between calls the relay client is of the writer's tuple and its hook is heard; a carrier is used only when its token is on disk for good; tokens never go back; a retry does not put old endpoints back; a replaced owner never writes over the new pairing | 2 lists of endpoints, 3 tokens, 3 passes, 2 failing writes, 1 dial at a time, 1 replacement |
| `parts` | thirteen parts, below | |

The parts of `parts`:

| part | shows | bounds |
|---|---|---|
| `dirs` | cleanup removes no folder with something in it; the segment being written is not delivered | 2 times, 2 lengths, 2 passes, 3 attempts of a move |
| `transparency` | the pointer is backed by its archive and every witness kept in git is of a published entry; the chain only grows | 2 machines, 2 versions, 2 jobs, 2 instants |
| `candidate` | a failed command leaves a whole candidate or none; a resumed prove keeps the payload and the proofs that were there | 2 commits, image sets and advisory databases, 3 platforms, 2 builds, 1 change under a command |
| `origin` | what `latest` names verifies for some architecture; who could fetch under `latest` always can | 2 architectures, 2 versions, 2 builds, runs of one version do not overlap |
| `github` | a published release is whole, of one candidate, and alone; what is published stays | 2 architectures, 3 builds of 2 commits |
| `connection` | one check that is missed is not shown as a drop | intervals of 2, offline after 4, 1 move of the clock or the link |
| `details` | what is shown of a journal was said by it, all by one version, and as current only if the owner of now saved it after its latest dial | 2 journals, 2 versions, 2 owners, 2 dials |
| `activity` | no row tells of an instant what the policy of that instant forbade | 4 policies, 1 change, 1 move of the desktop, 2 instants |
| `settings` | a saved key stays as saved, whoever writes beside, whatever dies; page addresses are read only with the owner's consent | 3 writes, 1 failure, death or hand edit |
| `window` | what is called saved was held, and what is called done was done | 2 settings, 5 ids, 1 press of each kind, 2 upsets |
| `video` | the grant is not lost by stopping; the screen is shared only for a film the loop knows of; the watchdog calls a film ended only when a stream of it has | 2 monitors, 4 asks, 2 faults |
| `browser` | a browser with nothing more coming was told what holds | a channel of 2, 2 changes of the hold, 2 ended periods, 1 change of the link |
| `session` | the session followed was in front a moment ago; a proven credential is not lost with its file | 2 displays, 3 credentials, a grace of 1, a recheck of 2, 4 happenings |

Why the bounds are enough. The invariants of `Delivery` speak of one file of one
segment; two names are needed for a segment that is half removed, two contents
for a rewrite, two pairings for a wrong journal, and two changes for a pairing
that comes back with another epoch. Two segments are needed in `SyncWorker` for an order
between them and for the two phases. In `BrowserCustody` three periods are one
being delivered, one finished and one open. In `Observer` a
second directory is needed for a start that falls back; two failures in a
row would need a third directory and add only abandoned folders. `CredentialWriter` needs three tokens for one in use, one waiting and one newer, and
three passes for a write that fails, one that overtakes it and the retry; it stops when
the passes and tokens are used up, so deadlock is not checked there. `CaptureDirs`
needs two times and two lengths: one segment finished and delivered beside one being written, and two of the same time.
The parts of `parts` are bounded by what each says is hard: two actors and one more thing that may go wrong.
`PortalVideo` needs four asks for a film, its stop and another; `WindowController` five ids for a press, its
answer's read, and a replaced app. Larger instances of it were run by hand to the end: one
setting with 6 ids, 2 presses and 2 upsets (2.2 million states). `GitHubRelease` needs a third
build to have two of one commit. `Audio` with the limit of 3, a change and 3 mishaps, and with 2 changes and one mishap, was run by hand to the end. Most parts stop when their bounds are used up, so deadlock is not
checked in `parts` and `eventual`.
Symmetry (payload names, pairings, directories, lists of endpoints) is used in safety runs only.

Fairness. `eventual`, `worker_live` and `observer_session` assume that a task of
the runtime that can take a step takes one (weak fairness of the worker, of a
notification already under way, of the tick loop), that timers ring, that a
deferral ends, and that the service manager starts a crashed app again
(`Restart=` of the unit). In `eventual` the delivery worker is fair and crashes and failing
removals end at some time (`<>[][~GoesWrong]`): the code retries both without a limit. Only a pass that a
paired worker starts is fair (`StartPass`): without a capability the loop starts none
(`sync.rs` 765-779), and the one that is begun as the capability goes (`StartUnpaired`) is not assumed to come. The
supervisor of a pairing is fair in the writes of a series, in its start, in the end of a commit
and in the recheck that is due every minute (`WriteStep`, `AppStarted`, `CommitEnds`,
`RecheckCliConfirm`). In the runtime the loop's thread, the walker, the supervisor and who opens a page go
on when they can: every wait of theirs has a bound in the code; a signal and a failing tick are not assumed. The thread that records sound is fair in its steps, each of which has a time-out; reads, mishaps and the desktop are not. Nothing is assumed of the journal but what
`JournalHeals` says: from some time on it answers. No run assumes that a trigger is
given, that an upload succeeds, that an owner answers or that a command is run.

### Disagreements the runs show

1. `worker_final`. `sync.rs:753`: "A completion can race shutdown. Give the final local
   segment one bounded reconciliation pass before the walker exits". The trigger is
   taken at line 744 and `running` is read at 752: a completion and a shutdown in
   between leave the flag set, and the walker exits without the pass. The segment
   waits on disk for the next start.
2. `browser_purge`. `browser/custody.rs:165`: "Recover all pending browser pages". A
   browser segment removed because the journal's owner deleted it
   (`remove_segment_removed`, `sync.rs:2190`) leaves accepted identities without
   payload or tombstone, and `reconcile_evidence` fails every later open.
3. `observer_sound`. `copy.rs:15`: "intake is paused until you resume." The tick that
   reopens after a resume does not drain the sound buffered since the last paused
   tick, so up to a tick of it goes into the new segment (`observer.rs:525`); the same
   when a session leaves and returns between two ticks (`observer.rs:595`).

Met while modelling, without a run of their own: a browser batch whose receipt was
written but whose sync failed is refused and, sent again, is in two places
(`browser/custody.rs:469`; `TakenInOnce` excepts it by `unsynced`); `move_period` does not
retry when the day folder vanishes inside `create_dir_all`, whose `NotFound` leaves the function
(`browser/custody.rs:887`); the observer does not retry at all when its stream
folder vanishes (`observer.rs:787`), and the tick fails; a fresh check asked for while a
probe is made with an open circuit can be answered by a turn that asks nothing
(`sync.rs:793`); a refused start is tried again after the watchdog's wait and not at the next tick
(`observer.rs:606`).

Of the credential: `private_link.rs:3061-3063` says that merging the endpoints into the tuple
that waits is done "so a later retry cannot put the previous endpoints back". It can,
after four passes: a clear is not kept, its retry fails, a newer tuple is renamed but
not synced, so that both wait; the endpoints are then stored through the branch of the
clear, which does not touch the waiting tuple (3019-3046); the clear's retry succeeds, and
then the tuple's retry writes the endpoints of before. `RetryKeepsEndpoints` excepts it by
`overlooked`. A refresh that could not be kept makes every later shutdown of the owner an
error, so that a new pairing stays blocked until a restart (`Drain`).

Of browser custody: a comment says that bytes past the committed length "are never covered by a
receipt" (`browser/custody.rs:428`). A receipt that was written and failed to sync stays in its file; the next batch's text is written where
the first one's was, and a crash before its own receipt leaves the first one's receipt on it. The first batch is then answered
`duplicate` when it is sent again, with its text gone, and the second is taken in again (`mixed`; excepted in
`AnsweredIsKept` and `TakenInOnce`).

Of the worker: without a pairing it removes nothing, not even a directory whose payload it unlinked (`sync.rs` 765-779).
When a new owner was installed and could not be started (`window_control.rs` 1331, 1377-1384) that lasts until the
pairing is taken up again, if need be by a restart; so `NothingIsLeftUndone` counts such a directory
only while a journal is paired.

Of the folders: `choose_stem` takes the time of the clock unseen when the folder of the stream or an entry of it cannot be read
(`observer.rs` 816-819, 838-841) or the time cannot be bumped (845-847). A segment is then
begun as `{time}.incomplete` beside a finished `{time}_{length}`; if it comes to the same length its rename
fails and it stays where it is. `OpenIsNotDelivered` leaves out a segment begun so (`unread`).

Of the pairing: `setup` looks whether the stored pairing is confirmed before it takes the answer lock
(`private_link.rs:942`), so that a confirmation in between is overwritten by the walk-away
(`WalkAwayKeepsPairing`, which is stated and not in a run, is violated). The error of the grandfathering is dropped
(`window_control.rs:1336`).

Of the stop: the supervisor may start an owner after the stop has closed the gate, and its page can be
opened until the link's own turn comes; `NothingOpensLate` excepts such an owner. `install_journal`
(`window_control.rs:549`) does not go by `install_open_journal_access`, so that an ended owner's
capability stays installed, with its gate closed. A stop waits for a pairing under way, 30 s or
more, since the supervisor looks at its permit between two commands only.

Of the optional lane: a trigger that comes when both passes of an attempt are used is dropped; the
observed note of a replaced carrier may be stale (`private_link.rs:3099`); a dial of the
lane proves the carrier too (1291, against the comment at 1233). A lease of the check is 31 s and the panel goes offline after 30 s.

Of activity: two switches of the tab within one read are not seen. A boundary of rows alone is
stamped with the start's wall clock and timed by the monotonic one (`observer.rs:1158`,
`run.rs:1150`), so that after a suspend rows are dropped or dated back. A policy
that ends keeping activity through a pause keeps up to a tick.

Of settings: between the check and the rename another process may save, and its save is lost
(`config.rs:1095`, against the comments at 635 and 1204); `SavedStays` excepts only that.
The move of an old file is neither atomic nor synced (`config.rs:1236`). A write that is not synced
is reported as an error although the file has the new value. A lone tightening applies
the whole saved policy (`window_control.rs:2045`).

Of the window: the remaining writes of an abandoned save may undo a newer save that is shown as
saved (`ui.rs` 1958-1990); a reply of the pairing page with an older document may replace a newer one
until the next poll (`controller.rs` 727-775).

Of video: production's `VideoBackend` does not forward `stop_for_shutdown` (`run.rs`), so the
shorter time-outs of the shutdown are never used; an answer sent between the end of a wait and the
drop of its receiver leaves a film the loop does not know of and an "already active" for the next
start (`tally.missed`). A Close that fails is logged or dropped (`video/portal.rs` 155-158, 496-558) and the
session forgotten: the model counts it as closed. The token is written without an atomic rename.

Of the browser server: a hold that flips back before it is looked at, a change made before
the first look, and a period that ends with no journal to name are announced to nobody until the renewal
five seconds later; sessions keep the generation of their start.

Of the desktop session: the kind of a text login and its proven display may be a minute stale: one that goes
from Wayland to X11 within the minute of a proof is followed as X11 with no display
(`desktop_session.rs` 519-527, `doctor.rs` 182-187), which `TargetIsRecent` does not count. A private file of
credentials that is there but cannot be read is begun again from the startup file, and the
other displays' entries are gone (665-668); the model has a file that is read or cannot be written. A desktop begun from a text login is not seen for up to a minute after a look that found none.

Of sound: nothing in the loop of `run_pulse` looks at its connection, and a session asks for the
same sources again for as long as they cannot be told (`pulse.rs` 348-389). A session whose server has gone,
if its queries then go unanswered, stays and is said to be unavailable until the app is started again; `Unheard` leaves it out
(`worker.broken`). `Ready` does not reset the failures `CaptureState` counts, as a redetect resets those of
`FailureCounter`: after one, a single failed read can say that there is no sound, until the next look.

Of publishing: two runs of `publish-origin.sh` at once can move `latest` back
(`OriginPublish` with `Overlap = TRUE`), as `src/RELEASING.md` warns and forbids. The very
first publication, cut off after its entry and before its pointer, cannot be retried as
`src/RELEASING.md:404` says: without a pointer the prefix must be empty (`transparency.rs:1436-1445`).

## 4. The proofs

`DeliveryProofs` proves, for any sets of segments, names, contents and pairings
and any bounds (from `DeliveryAssumption` alone; `Names` need not be finite):

- `TypeCorrect`: `Spec => []TypeOK`;
- `NothingIsLost`: `Spec => []NoLoss`;
- `MarkersAreTrue`: `Spec => []AckNeverLies`;
- `RemovalIsForCurrentJournal`: `Spec => UnlinkedForCurrentJournal`;
- `DeliveryImplementsCustody`: `Spec => CustodySpec`, the refinement of `Custody`.

None of them is inductive. `IInv` adds what the code relies on without saying it:
the association captured is the installed one or an older epoch (`SeenOrPast`), and
the installed one while the lock is held (`LockedIsCurrent`); the answer in hand is to a
request for the segment in hand (`RequestInHand`), whose body was computed from bytes
this device took (`WorksOnTaken`); a listing in hand tells the truth about a journal
(`ListingIsTrue`); a removal runs only behind a marker of the current pairing
(`RemovalHasMarker`), a purge only after the owner's withdrawal (`PurgeWasAsked`); and a
segment never captured has no files (`UntakenIsEmpty`). *Footprint* lemmas say once
which actions touch which variables, so that each conjunct is proved from the few
actions that can disturb it.

The refinement adds to `IInv` that no request, journal or owner's word is about a segment not yet taken in
(`UntakenIsUnknown`): so an item goes from "none" to "device" only. `StatusMoves` then checks the moves: a rewrite
goes between "device" and "both", an unlink from "both" to "journal" by `NoLoss`, and all else can only make an item safe.

About `CaptureDirs`, `PartsProofs` proves, for any set of names and any bounds (`DirsAssumption`):

- `FoldersOutliveCleanup`: `PartsSpec => []SegmentsKeepTheirPlace`, which with the types is inductive: every step that
  removes a folder finds it empty in the same call;
- `OpenIsSafe`: `PartsSpec => []OpenIsNotDelivered`. A segment begun with its folder read shares its time with no other
  entry, and none is added while it is open.

`CredentialWriterProofs` proves, for any numbers of tokens, passes and failing writes:

- `OldOwnerNeverWritesOver`: `Spec => []ReplacementStands`;
- `DrainedOwnerIsQuiet`: the fence comes before everything else of a replacement, and
  after the drain no call holds the credential;
- `TypeCorrect`: `Spec => []TypeOK`;
- `DivergenceRecorded`: `Spec => []DivergenceIsRecorded`;
- `LinkStored`: `Spec => []LinkIsStored`;
- `CredentialForward`: `Spec => CredentialMovesForward`, an action property.

The inductive invariant says why: a fenced writer stays fenced (`FencedFirst`), no
`Begin...` takes the credential from a fenced writer, and `Drain` waited for the one that
held it (`NoLateCall`); without either a late `Rename` would break `ReplacementStands`.

For the others (`WriterInv`, which TLC checked on the run's constants, 2.8 million states): whoever
holds the credential knows what it is about to write and, unless the writer knows of the difference, writes what
the writer has (`CallKnows`, `FilesAreRecorded`); the incarnation of the relay client numbers the tuples that went
live, so that a dial of the current one has the token of the client, and client and credential differ only while a
refresh is being told (`DialsTheClient`, `ClientFollows`); every token on its way to the credential, wherever it is on
its way, is newer than those it has held (`TokensAreNewer`), and a tuple that waits for a retry has the endpoints of the writer
(`WaitsWithEndpoints`).

About `Pairing`, `EventualProofs` proves, for any pairings and any number of failed writes, crashes and kills
(`PairingAssumption`: pairings are not called by the words for "no answer", what an older build may have
stored are pairings, and `Nil` is none of the values it is told apart from):

- `PairingTypeCorrect`: `Spec => []TypeOK`;
- `ConfirmedPairingIsAccepted`: `Spec => []ConfirmedIsAccepted`;
- `RunningOwnerIsAccepted`: `Spec => []OwnerIsAccepted`;
- `ConfirmedStays`: `Spec => [][ConfirmedIsNotRetired]_pvars`.

An answer is written only for a pairing with a yes (`SeriesInOrder`). The one write that takes a
pairing as answered without asking, the grandfathering of what an older build stored, cannot come
twice: before anything stores a pairing without a yes there is an answer file, or an intent
that holds it back (`Settled`), and neither goes away without the other. For the owner that runs (`OwnerInOrder`):
it is started only from such an answer, none while one is left that could not be stopped, and a
commit the app has under way was begun by a yes to its pairing.

That what is given back is not the confirmed pairing rests on who may write the files (`RetireInv`, which TLC
checked on the run's constants before it was proved). A pairing is given back by the program that made it, or by a terminal
that asks about the stored one. The lock is held by the program that writes, for its own pairing (`LockIsHeld`); setup and
the app exclude each other, and a program that starts has no pairing yet (`OneAtATime`); a pairing just made is in no file
before its own series (`NewIsNew`); and one a terminal asks about stays unconfirmed while it is asked about, since
whoever else might confirm it would be grandfathering it, and that is over by then (`AskedIsUnconfirmed`).

It proves the same of the composition `MCEventual`, where a step is one of a component and leaves the others
as they are (`EventualInv`), with the runtime for any number of owners and commands and the sound for any
selections, limit and number of mishaps (`EventualAssumption`):

- `EventualTypeCorrect`: `EventualSpec => []EventualTypeOK`;
- `StopsInOrder`: `EventualSpec => []StopIsOrderly`;
- `ConfirmedStaysRegistered`: `EventualSpec => RetiredIsNotConfirmed`.

`StopIsOrderly` has two parts. No page of the journal is opened late: only the supervisor's own owner has an open gate, and but for the moment between its start
and its installation it is the installed one (`OnlyTheInstalled`), so that a stop which closes the
gate of what it found installed leaves open only what is installed after it looked (`OnlyTheFresh`);
who opens a page holds an open gate (`OpenersHold`). And the last segment goes out: until it is sent the link
is up and is not told to end, and the walker is to look at the segment or has it in its pass
(`ItsWayIsOpen`), since the capture loop's thread keeps a handler and the walker goes on until it is told to
end, both later (`InStages`).

About the other components of `Parts`, `PartsProofs` proves (with the lemmas of `PartsLemmas`), for any machines,
versions, platforms, policies, settings, journals, displays and bounds:

- `PartsAreTyped`: `PartsSpec => []PartsTypeOK`, of all thirteen parts;
- `WhatIsPublishedIsWhole`: `PartsSpec => []NothingHalfPublished`;
- `WhatIsPublishedStays`: `PartsSpec => NeverTakenBack`;
- `TheOwnersWordIsKept`: `PartsSpec => []OwnersWordHolds`;
- `WhatIsSaidIsSo`: `PartsSpec => []SaidIsSo`;
- `WhatIsShownIsSo`: `PartsSpec => ShownOnlyIfSo`, an action property.

Each part has its assumption on constants: `DirsAssumption`, `ReleaseAssumption`, `WindowAssumption`, `SettingsAssumption`,
`ConnectionAssumption` and `DetailsAssumption` stand in `CaptureDirs` and `OwnerParts`, `ActivityAssumption`,
`VideoAssumption`, `ServerAssumption` and `SessionAssumption` in `Parts`. They say that bounds are numbers and that `Nil` is none of the values it is
told apart from; `ConnectionAssumption` also that a check is due no later than the longest one takes (both are 15 s in the code).

When the window knows how a request ended, the app standing as asked is noted (`NowNoted`); an
answered read that is late enough to settle the request was answered after that moment, so that what it
shows was noted too (`ReadNoted`): ids are given out in order. Of the chain (`ChainInv`, which TLC checked on the run's constants, with three jobs,
before it was proved): what is stored under a version is an entry of it with its own signature, and nothing of it ever
changes (`StoresRight`, `Grows`), so that a job which has put its entry, signature and evidence finds them
there when it comes to the pointer (`JobsRight`), whoever else uploads; its entry follows the tip it
verified, and `If-Match` lets the pointer move from that tip only. Of the origin: a run puts the objects of one candidate and comes to the
pointer with all of them there (`PutSoFar`); as runs do not overlap, what it decided when it read `latest` still holds
when it puts it (`DecidedWell`). Of the release: what a release holds of an architecture is of one candidate of the tagged
commit, and the one that is published is the first, with a whole set, which the run saw in it (`ReleasesAreRight`, `RunsAreRight`). Of the candidate:
which of payload and evidence there is, and what the command has seen, at each of its steps (`CandidateStanding`, `SeenSoFar`).

The owner's word (TLC checked the invariants of the three parts on small instances before they were proved). Of the settings: what is known of the file at each step of a
write (`WriterStands`), where the writers of one process take turns (`OneWriter`) and only the look at the file before the rename
stands between two processes; so a value that was saved is in the file, or still in the older one with nothing newer to hide
it (`ChoicesKept`). Of the activity: up to the change that is not yet acted on the policy stands still (`PolicyLimit`), and no row is
closed later than that; so what an open interval may hold under the policy of now it may hold of each instant (`SlotRight`),
a read keeps only what the policy it began with lets it keep (`PollKeeps`), and an interval goes on over a boundary of segments
only if the sampler has the policy's generation. Of the video: commands are numbered and wait in order (`QueueInOrder`), an answer
comes when the portal thread is done with the command (`AnswersComeLast`); so the stored grant is the one the portal honours
but while it is exchanged (`GrantStands`), and streams run for a film the capture loop knows of or may still learn of
(`FilmsAreKnown`, `KnownFilmsRun`).

What is said and shown (again checked by TLC first). Of the connection: how old the last contact can be with no check missed, with one
missed, and while one is under way (`HeardInTime`), which keeps it within what the panel calls up: the next check is due `Interval` after
the last was begun, and takes `Timeout` at most. Of the details: what is kept of a journal was said by it, by one version (`DetailsAreOfOne`);
an attempt of the current epoch writes for the owner of now, and what it holds was said by that journal (`AttemptIsOf`); what is shown as
observed was saved in this epoch after the latest dial (`ObservedIsSaved`).
Of the browser's server: a session that was told otherwise than things are has a message to come, or is to be closed for having missed one
(`HoldIsHeard`, `PeriodIsHeard`). Of the desktop session: what is followed was in front at logind's last answer, and had its display within
the recheck (`TargetStands`), and a credential once written to the private file is there until it is replaced (`KeptIsThere`).

`SyncWorkerProofs` proves, for any finite set of segments (numbers, since a pass goes by the newest:
`WorkerAssumption`), any days, and any number of completions and changes of the association:

- `TypeCorrect`: `Spec => []TypeOK`;
- `TakenUpIsNotDropped`: `Spec => []NothingTakenUpIsDropped`;
- `OpenCircuitHolds`: `Spec => CircuitHolds`, an action property.

For shutdown: a finished segment no pass has looked at is announced, or taken up by a turn on its way into a
pass, or among what a pass that shutdown does not cut short has still to do (`OwedAreCovered`). That needs that
such a segment is there to upload and of this pairing (`OwedAreHeld`), so that phase 2, which settles segments of an
earlier pairing only (`SettlesLegacy`), takes none of them. For the circuit: while the walker asks for anything
but a probe the circuit is closed (`CircuitIsClosed`), and only a probe opens or lengthens it.

`BrowserCustodyProofs` proves, for any batches, pages, periods and any number of failed file operations
and removed segments (`CustodyAssumption`):

- `TypeCorrect`: `Spec => []TypeOK`;
- `AnsweredKept`: `Spec => []AnsweredIsKept`;
- `OnceTaken`: `Spec => []TakenInOnce`;
- `PeriodsReadable`: `Spec => []PeriodsCanBeRead`;
- `DiscardFinal`: `Spec => DiscardIsFinal`, an action property.

All five follow from one invariant, `CustodyInOrder` (`CustodyKept`), which TLC checked on `browser_keep`'s constants with one
failed operation and with two (1.5 and 9.8 million states) before it was proved. Its parts: the memory is never ahead of the
evidence file in what is removed (`MemoryInOrder`); the receipts of the open period are the committed ones and at
most one that failed to sync (`PeriodInOrder`); how far the holder of the custody lock and the sync worker
have come, and that neither holds what the other removes (`JobInOrder`, `SyncInOrder`); a period's text is the
longer one, or all its identities are removed, a text under another's receipt belongs to a receipt that failed to
sync, and a change comes after its snapshot (`TextIn`); what became of a batch (`AccountOf`). The order of a removal carries
it: tombstones, pages, receipts. So a restart that finds receipts without text finds tombstones for all of
them, and finishes the removal. Most actions change no word on any batch; they are
treated together (`QuietAccounts`). The proof found two errors of the model. A receipt left behind by a failed sync can cover the text of the
next batch, which `Recover` and `Finalize` had cut off; and a tick or a batch starts a period when there is none.

`ObserverProofs` proves, for any finite set of directories, any deadlines, pauses and settings of the
desktop, and any number of failed calls (`ObserverAssumption`):

- `TypeCorrect`: `Spec => []TypeOK`;
- `NothingForbiddenIsTaken`: `Spec => []TakesOnlyWhatItMay`;
- `PauseIsKept`: `Spec => []PauseIsTheOwners`;
- `SegmentStaysWhole`: `Spec => []SegmentIsWhole`;
- `NoneIsAbandoned`: `Spec => AbandonsOnlyEmpty`, an action property.

All follow from `IInv` (`InductiveInvariant`), which TLC checked on the constants of `observer_pause` and
`observer_session` (611 and 118 thousand states) before it was proved. The properties are not inductive: a command
comes between two ticks, so that a pause is in force while the screen is still filmed. So `IInv` says what holds at
all times and what only holds after a whole tick. `Core` holds between any two calls, one that failed included:
the open directory is on disk, one that is not on disk is empty, no sound of a pause was kept, and in a run that does not
ask about the telling (`Watched`) no segment is noted as finished. `MediaInOrder` holds unless a call failed: the stream feeds the open segment, and nothing waits
to be saved without one. `Calm` is what a tick leaves until the next command or change of the desktop: what is
paused or has no session films nothing and has nothing to save. And `pause.json` holds the owner's pause unless
its write failed (`PauseIsWritten`), which the process then remembers (`unsaved`), and a process that is down has only
what is on disk.

A tick is a composition of calls, each a set of outcomes. The lemmas go call by call, and the relations they
prove can be chained: `Goes` (a call on a segment keeps `Core`, changes nothing a tick decides by, and tells the sync worker of what
it finishes), `Ends` (a branch of a tick), `Handled` (no directory with something in it is given up). `Handled` is what
`NoneIsAbandoned` needs of every branch, the failing ones included; only a fatal error, with which the run ends, is exempt.

Only model-checked: everything under fairness (`NothingIsLeftUndone`, `EverythingDelivered`, `ScreenComesBack`), which
is beyond the prover. What a recursive function computes for every input
would need induction over data, which the prover does not offer: no theorem states it.

## 5. Plan

Done: delivery, the walker and browser custody, each with its proofs; the capture loop with its proofs; the credential
writer, the directories and the pairing, each with a proof; the metadata lane and what is shown of
the connection; activity, sessions and the screen; the browser server; settings; the window; the release chain, the candidate and the two publishing scripts; the stop of the running app; the sound thread. All
safety and type properties of the passing runs are proved. Left:

1. The pairing of the two legs of sound (`chunking.rs`); the order of what is built before the loop starts (`run.rs`).
2. The rest of the window (pairing, starting and restarting the app), which follows the ids of
   `WindowController`.
3. Pure algorithms against reference definitions: segment names and clamps, chunking, merging of
   endpoints, frame decoding.

## 6. Not modelled

`PROJECT.json` lists every component with its status and what of it is left out.

- *Segments and streams*: planned, see above. What the
  capture loop sees of them is in `Observer`.
- *Frame codec*, *Desktop helpers*: framing of bytes, and shell scripts without state.
- Of the components modelled in part: the native host (a pipe between two processes), status files and
  handshakes of the browser server; the X11 backend and the geometry of monitors; the four
  desktops' activity backends; the cache of the journal's mark, the list of local journals; the document the window reads, which is a view; the validators of
  packages, notices and manifests in `src/crates/rust-release-manifest/`, which are pure functions of
  their input and hold no state; `install.sh` and `build-release.sh`, which run once on one
  machine.
- Outcomes that are inputs: GStreamer, PulseAudio, the portal and X11. Layout and wording (window,
  `copy.rs`, `about.rs`), the byte formats of JSON and FLAC, the cryptography of the private
  link, and packaging are left out.
- Abstracted in the modules: contents of files that cannot be read, several seats and closing
  sessions, a switch between Wayland and X11 under way, an open period's size bounds
  (`queue_full`), and the time a lock is waited for (a write that does not get it does not start).

About half of the lines of the source files are tests beside the code, and much of the rest moves
bytes or lays out a window: the modules stand for the lines that decide.
